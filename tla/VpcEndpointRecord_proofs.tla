---------------------- MODULE VpcEndpointRecord_proofs ----------------------
(***************************************************************************)
(* The DNS record of the VpcEndpoint controller: what the record condition *)
(* says can be relied upon by the cleanup.                                 *)
(***************************************************************************)
EXTENDS VpcEndpointRelease_proofs

(* What holds of every copy s of the status, also of an outdated one *)
Tracked(s) ==
  /\ IsTrue(s, "record") => s.zone # None /\ s.rrs
  /\ setup.zoneMode = "id" => s.zone \in {None, setup.specZone}

CopiesTracked == Tracked(api.status) /\ Tracked(cache.status) /\ Tracked(mem.status)

(* The cleanup goes on to the zone only when the record is dealt with *)
RecordFirst ==
  pc \in CleanupPcs \ {"clRecord"} => ~IsTrue(mem.status, "record")

(* A zone that the status or the cache of zones names has existed; a new   *)
(* zone is another one                                                     *)
ZonesUsed ==
  /\ \A z \in hzCache : zones[z] # "unused"
  /\ api.status.zone # None => zones[api.status.zone] # "unused"

RecordInv == CopiesTracked /\ RecordFirst /\ ZonesUsed /\ RecordTracked

-----------------------------------------------------------------------------
(* Who changes the record's condition and name *)

(* A status to store that has the name of the copy and no new condition *)
Tame(s) == s.rrs = mem.status.rrs /\ (IsTrue(s, "record") => IsTrue(mem.status, "record"))

FlagsKept ==
  /\ api'.status.rrs = api.status.rrs
  /\ IsTrue(api'.status, "record") => IsTrue(api.status, "record")
  /\ mem' = NoMem \/ ( /\ mem'.status.rrs = mem.status.rrs
                       /\ IsTrue(mem'.status, "record") => IsTrue(mem.status, "record"))

LEMMA TameOutcome ==
  ASSUME ControlInv, NEW s, NEW n, Outcome(s, n), Tame(s)
  PROVE  FlagsKept
  <1>1. fresh => mem.status = api.status
        BY DEF ControlInv, VersionInv
  <1>2. api'.status = api.status \/ (fresh /\ api'.status = s)
        BY DEF Outcome, Stored, Same
  <1>3. mem' = NoMem \/ mem'.status = s \/ mem'.status = mem.status
        BY DEF Outcome, Kept, Returned
  <1> QED
      BY <1>1, <1>2, <1>3 DEF FlagsKept, Tame

LEMMA TameWrite ==
  ASSUME TypeOK, ControlInv, NEW s, NEW n, Tame(s),
         WriteThen(s, n) \/ WriteThenFail(s) \/ CleanupWrite(s, n)
  PROVE  FlagsKept
  <1>1. CopiesOK
        BY DEF TypeOK, CopiesOK
  <1>2. Outcome(s, n)
        BY <1>1, StepOutcome
  <1> QED
      BY <1>2, TameOutcome

LEMMA TameRead ==
  ASSUME TypeOK, ControlInv,
         \/ \E n : Skip(n)
         \/ \E s : NoWrite /\ Failed(s)
         \/ SpendFault /\ UNCHANGED cluster /\ Failed(mem.status)
         \/ \E n : SpendFault /\ UNCHANGED cluster /\ Continue(n, mem.status)
         \/ \E q : NoWrite /\ Return(q)
         \/ \E q : UNCHANGED cluster /\ Return(q)
  PROVE  FlagsKept
  <1>1. CopiesOK
        BY DEF TypeOK, CopiesOK
  <1>2. \E n : Outcome(mem.status, n)
        BY <1>1, StepOutcome
  <1> QED
      BY <1>2, TameOutcome DEF Tame

(* Setting another field, or another condition *)
LEMMA TameFields ==
  ASSUME TypeOK
  PROVE  /\ \A g : Tame([mem.status EXCEPT !.sg = g])
         /\ \A v : Tame([mem.status EXCEPT !.vpce = v])
         /\ \A z : Tame([mem.status EXCEPT !.zone = z])
         /\ \A f : Tame([mem.status EXCEPT !.info = @ \cup {f}])
         /\ \A t \in {"sg", "vpce", "tags", "svc"} : \A c : Tame(SetCond(mem.status, t, c))
         /\ \A c : Tame(Invalidated(SetCond(mem.status, "vpce", c)))
         /\ Tame(mem.status)
  <1>s. mem.status \in Statuses
        BY DEF TypeOK
  <1>1. /\ \A g : Tame([mem.status EXCEPT !.sg = g])
        /\ \A v : Tame([mem.status EXCEPT !.vpce = v])
        /\ \A z : Tame([mem.status EXCEPT !.zone = z])
        /\ \A f : Tame([mem.status EXCEPT !.info = @ \cup {f}])
        /\ Tame(mem.status)
        BY <1>s DEF Tame, IsTrue, Statuses
  <1>2. \A t \in {"sg", "vpce", "tags", "svc"} : \A c : Tame(SetCond(mem.status, t, c))
        BY <1>s DEF Tame, IsTrue, SetCond, Statuses, CondTypes
  <1>3. \A c : Tame(Invalidated(SetCond(mem.status, "vpce", c)))
        BY <1>s DEF Tame, IsTrue, SetCond, Invalidated, Statuses, CondTypes
  <1> QED
      BY <1>1, <1>2, <1>3

LEMMA ParseFlags ==
  ASSUME TypeOK, ControlInv, Parse
  PROVE  FlagsKept
  <1>c. mem \in [meta : Metas, status : Statuses, seen : VpceStates \cup {"none"}]
        BY DEF TypeOK
  <1>a. api \in [meta : Metas, status : Statuses]
        BY DEF TypeOK
  <1>f. fresh => mem.status = api.status
        BY DEF ControlInv, VersionInv
  <1>p. \A s : Persist(s) => api'.status = s /\ fresh
        BY <1>a DEF Persist
  <1>k. \A s, n : Continue(n, s) => mem'.status = s
        BY <1>c DEF Continue
  <1>u. Unpersisted \/ NoWrite \/ UNCHANGED cluster => api' = api
        BY DEF Unpersisted, NoWrite, cluster
  <1>r. \A q : Return(q) => mem' = NoMem
        BY DEF Return
  <1>x. \A s, b : ParseFailed(s, b) => mem' = NoMem \/ mem'.status = s
        BY <1>k, <1>r DEF ParseFailed
  <1>y. \A s, n, b : ParseWrite(s, n, b)
                    => /\ api' = api \/ (api'.status = s /\ fresh)
                       /\ mem' = NoMem \/ mem'.status = s
        BY <1>p, <1>k, <1>u, <1>x DEF ParseWrite
  <1>z. \A n : Skip(n) => api' = api /\ mem'.status = mem.status
        BY <1>k, <1>u DEF Skip
  <1>1. CASE AddFinalizer
    <2>1. /\ api'.status = api.status
          /\ mem' = NoMem \/ (fresh /\ mem'.status = api.status)
          BY <1>1, <1>a, <1>c, <1>u, <1>r DEF AddFinalizer
    <2> QED
        BY <2>1, <1>f DEF FlagsKept
  <1>2. CASE ~AddFinalizer
    <2>1. PICK s : /\ Tame(s)
                   /\ api' = api \/ (api'.status = s /\ fresh)
                   /\ mem' = NoMem \/ mem'.status = s
      <3>t. Tame(mem.status) /\ \A f : Tame([mem.status EXCEPT !.info = @ \cup {f}])
            BY TameFields
      <3>1. CASE ParseInfra
            BY <3>1, <3>t, <1>u, <1>x, <1>y, <1>z DEF ParseInfra
      <3>2. CASE ParseService
            BY <3>2, <3>t, <1>u, <1>x, <1>y, <1>z DEF ParseService
      <3>3. CASE ParseClient
            BY <3>3, <3>t, <1>u, <1>x, <1>z DEF ParseClient
      <3>4. CASE ParseVpc
            BY <3>4, <3>t, <1>u, <1>x, <1>y, <1>z DEF ParseVpc
      <3> QED
          BY <1>2, <3>1, <3>2, <3>3, <3>4 DEF Parse
    <2> QED
        BY <2>1, <1>f DEF FlagsKept, Tame
  <1> QED
      BY <1>1, <1>2

LEMMA ValidationFlags ==
  ASSUME TypeOK, ControlInv,
         ValidateSg \/ ValidateVpce \/ ValidateDns \/ Finish \/ ValidationFault
  PROVE  FlagsKept \/ RecordUpsert
  <1>1. CASE ValidateSg
        BY <1>1, TameFields, TameWrite, TameRead
        DEF ValidateSg, FindSecurityGroup, CreateSecurityGroup, ConfigureSecurityGroup, Fail
  <1>2. CASE ValidateVpce
    <2>1. ASSUME NEW v, NEW st, RecordVpcEndpoint(v, st) PROVE FlagsKept
      <3> DEFINE s == [mem.status EXCEPT !.vpce = v]
      <3>1. CASE Unpersisted /\ Failed(s)
            BY <3>1, TameFields, TameWrite DEF WriteThenFail
      <3>2. CASE ~(Unpersisted /\ Failed(s))
        <4>1. CopiesOK
              BY DEF TypeOK, CopiesOK
        <4>2. Stored(s) /\ Kept(s) /\ pc' = "vpceState"
              BY <2>1, <3>2, <4>1, PersistStores DEF RecordVpcEndpoint, Kept, CopiesOK
        <4> QED
            BY <4>2, TameFields, TameOutcome DEF Outcome
      <3> QED
          BY <3>1, <3>2
    <2>2. CASE FindVpcEndpoint \/ CreateVpcEndpoint
          BY <2>1, <2>2, TameRead DEF FindVpcEndpoint, CreateVpcEndpoint, Fail
    <2>3. CASE EndpointWaiting \/ EndpointRejected \/ EndpointBad \/ EndpointAvailable
          BY <2>3, TameFields, TameWrite, TameRead
          DEF EndpointWaiting, EndpointRejected, EndpointBad, EndpointAvailable, Fail
    <2> QED
        BY <1>2, <2>2, <2>3 DEF ValidateVpce
  <1>3. CASE \/ ZoneNotConfigured \/ ZoneAutoDiscovered \/ ZoneById
             \/ ZoneRecorded \/ ZoneByName \/ ZoneTags
    <2>1. ASSUME NEW z, NEW n, StoreZone(z, n) PROVE FlagsKept
          BY <2>1, TameFields, TameWrite, TameRead DEF StoreZone
    <2>2. \/ \E z, n : StoreZone(z, n)
          \/ Fail \/ \E n : Skip(n) \/ WriteThen(SetCond(mem.status, "tags", "True"), n)
          BY <1>3
          DEF ZoneNotConfigured, ZoneAutoDiscovered, ZoneById, ZoneRecorded, ZoneByName, ZoneTags
    <2> QED
        BY <2>1, <2>2, TameFields, TameWrite, TameRead DEF Fail
  <1>4. CASE \/ RecordSkipped \/ RecordNoZone \/ RecordNotReady
             \/ ServiceNotNeeded \/ ServiceNoRecord \/ ServiceAsExpected
             \/ Finish \/ ValidationFault
        BY <1>4, TameRead
        DEF RecordSkipped, RecordNoZone, RecordNotReady, ServiceNotNeeded, ServiceNoRecord,
            ServiceAsExpected, Finish, ValidationFault, Fail, Skip
  <1>5. CASE ServiceMissing \/ ServiceFixed
        BY <1>5, TameFields, TameWrite DEF ServiceMissing, ServiceFixed
  <1>6. CASE ServiceError
    <2> DEFINE s == SetCond(mem.status, "svc", "False")
    <2>1. api'.status = s /\ fresh /\ mem' = NoMem
          BY <1>6, FailedReturns DEF ServiceError, Return, TypeOK
    <2>2. mem.status = api.status
          BY <2>1 DEF ControlInv, VersionInv
    <2>3. Tame(s)
          BY TameFields
    <2> QED
        BY <2>1, <2>2, <2>3 DEF FlagsKept, Tame
  <1> QED
      BY <1>1, <1>2, <1>3, <1>4, <1>5, <1>6 DEF ValidateDns

LEMMA CleanupFlags ==
  ASSUME TypeOK, ControlInv, (Cleanup /\ ~RemoveFinalizer) \/ CleanupFault
  PROVE  FlagsKept \/ CleanupRecord
  <1>1. CASE CleanupZone
        BY <1>1, TameFields, TameWrite, TameRead DEF CleanupZone
  <1>2. CASE CleanupVpce \/ CleanupPoll
        BY <1>2, TameFields, TameWrite, TameRead DEF CleanupVpce, CleanupPoll, CleanupFail
  <1>3. CASE \/ CleanupZoneKept \/ CleanupZoneUnsafe \/ CleanupZoneEmptied \/ CleanupSg
             \/ CleanupFault
    <2>1. \/ Skip("clVpce") \/ CleanupFail \/ Skip("clFinalizer")
          \/ \E q : UNCHANGED cluster /\ Return(q)
          BY <1>3
          DEF CleanupZoneKept, CleanupZoneUnsafe, CleanupZoneEmptied, CleanupSg, CleanupFault,
              cluster
    <2> QED
        BY <2>1, TameRead DEF CleanupFail
  <1> QED
      BY <1>1, <1>2, <1>3 DEF Cleanup

(* Only RecordUpsert makes the condition True, only it and CleanupRecord   *)
(* change the record's name                                                *)
LEMMA FlagSteps ==
  ASSUME TypeOK, ControlInv, [Next]_vars, ~StartReconcile
  PROVE  FlagsKept \/ RecordUpsert \/ CleanupRecord
  <1>1. CASE UNCHANGED vars \/ ReconcileNotFound \/ Environment \/ Crash \/ RemoveFinalizer
    <2>1. api'.status = api.status /\ (mem' = mem \/ mem' = NoMem)
          BY <1>1
          DEF ReconcileNotFound, vars, Environment, CacheSync, CacheExpire, UserEdit,
              UserDelete, EndpointProgress, EndpointTrouble, SgLost, ZoneLost, ServiceTampered,
              SourceLost, Crash, RemoveFinalizer, Return, Unpersisted, local, cluster, TypeOK
    <2> QED
        BY <2>1 DEF FlagsKept
  <1> QED
      BY <1>1, ParseFlags, ValidationFlags, CleanupFlags DEF Next, Reconcile, Fault, Cleanup

-----------------------------------------------------------------------------
(* Zones, the cache of zones, and records *)

(* A zone once used is not unused again; a zone that appears was unused    *)
LEMMA ZoneLife ==
  ASSUME TypeOK, [Next]_vars
  PROVE  /\ \A z \in ZoneIds : zones[z] # "unused" => zones'[z] # "unused"
         /\ \A z \in ZonePresent' : z \in ZonePresent \/ zones[z] = "unused"
  <1>z. zones \in [ZoneIds -> ZoneStates]
        BY DEF TypeOK
  <1>1. CASE ZoneByName
        BY <1>1, <1>z DEF ZoneByName, ZonePresent
  <1>2. CASE CleanupZone
        BY <1>2, <1>z DEF CleanupZone, ZonePresent
  <1>3. CASE ZoneLost
        BY <1>3, <1>z DEF ZoneLost, ZonePresent
  <1>4. CASE ~ZoneByName /\ ~CleanupZone /\ ~ZoneLost
    <2>1. zones' = zones
          BY <1>4
          DEF Next, Reconcile, Parse, ValidateSg, ValidateVpce, ValidateDns, Cleanup, Fault,
              Environment, StartReconcile, ParseInfra, ParseService, ParseClient, ParseVpc,
              AddFinalizer, FindSecurityGroup, CreateSecurityGroup, ConfigureSecurityGroup,
              FindVpcEndpoint, CreateVpcEndpoint, EndpointWaiting, EndpointRejected,
              EndpointBad, EndpointAvailable, ZoneNotConfigured, ZoneAutoDiscovered, ZoneById,
              ZoneRecorded, ZoneTags, RecordSkipped, RecordNoZone, RecordNotReady,
              RecordUpsert, ServiceNotNeeded, ServiceNoRecord, ServiceMissing, ServiceFixed,
              ServiceError, ServiceAsExpected, Finish, CleanupRecord, CleanupZoneKept,
              CleanupZoneUnsafe, CleanupZoneEmptied, CleanupVpce, CleanupPoll, CleanupSg,
              RemoveFinalizer, ReconcileNotFound, ValidationFault, CleanupFault, Crash,
              CacheSync, CacheExpire, UserEdit, UserDelete, EndpointProgress,
              EndpointTrouble, SgLost, ServiceTampered, SourceLost, route53, vars
    <2> QED
        BY <2>1 DEF ZonePresent
  <1> QED
      BY <1>1, <1>2, <1>3, <1>4

(* The cache of zones gets only zones that AWS or it answered for *)
LEMMA ZoneCacheSteps ==
  ASSUME [Next]_vars
  PROVE  \A z \in hzCache' : Fetchable(z)
  <1>1. CASE ZoneById \/ ZoneRecorded \/ RecordNotReady \/ RecordUpsert
        BY <1>1 DEF ZoneById, ZoneRecorded, RecordNotReady, RecordUpsert, Fetchable
  <1>2. CASE CacheExpire \/ Crash
        BY <1>2 DEF CacheExpire, Crash, Fetchable
  <1>3. CASE ~(ZoneById \/ ZoneRecorded \/ RecordNotReady \/ RecordUpsert \/ CacheExpire \/ Crash)
    <2>1. hzCache' = hzCache
          BY <1>3
          DEF Next, Reconcile, Parse, ValidateSg, ValidateVpce, ValidateDns, Cleanup, Fault,
              Environment, StartReconcile, ParseInfra, ParseService, ParseClient, ParseVpc,
              AddFinalizer, FindSecurityGroup, CreateSecurityGroup, ConfigureSecurityGroup,
              FindVpcEndpoint, CreateVpcEndpoint, EndpointWaiting, EndpointRejected,
              EndpointBad, EndpointAvailable, ZoneNotConfigured, ZoneAutoDiscovered,
              ZoneByName, ZoneTags, RecordSkipped, RecordNoZone, ServiceNotNeeded,
              ServiceNoRecord, ServiceMissing, ServiceFixed, ServiceError, ServiceAsExpected,
              Finish, CleanupRecord, CleanupZoneKept, CleanupZoneUnsafe, CleanupZone,
              CleanupZoneEmptied, CleanupVpce, CleanupPoll, CleanupSg, RemoveFinalizer,
              ReconcileNotFound, ValidationFault, CleanupFault, CacheSync, UserEdit,
              UserDelete, EndpointProgress, EndpointTrouble, SgLost, ZoneLost,
              ServiceTampered, SourceLost, vars
    <2> QED
        BY <2>1 DEF Fetchable
  <1> QED
      BY <1>1, <1>2, <1>3

(* A record disappears with its zone, or by a cleanup *)
LEMMA RecordSteps ==
  ASSUME TypeOK, ControlInv, [Next]_vars, NEW z \in ZonePresent', records[z] # None
  PROVE  records'[z] # None \/ api.meta.deleting
  <1>r. records \in [ZoneIds -> VpceIds \cup {None}] /\ zones \in [ZoneIds -> ZoneStates]
        BY DEF TypeOK
  <1>z. z \in ZoneIds
        BY DEF ZonePresent
  <1>1. CASE RecordUpsert
    <2>1. mem.status.vpce \in VpceIds
          BY <1>1 DEF RecordUpsert, HasDnsName, TypeOK
    <2> QED
        BY <1>1, <1>r, <1>z, <2>1, ConstantsAssumption DEF RecordUpsert
  <1>2. CASE CleanupRecord \/ CleanupZone \/ CleanupZoneEmptied
    <2>1. pc \in CleanupPcs
          BY <1>2 DEF CleanupRecord, CleanupZone, CleanupZoneEmptied, CleanupPcs
    <2> QED
        BY <2>1 DEF ControlInv, PcInv, MetaInv, MetaCopy
  <1>3. CASE ZoneLost
        BY <1>3, <1>r, <1>z DEF ZoneLost, ZonePresent
  <1>4. CASE ~(RecordUpsert \/ CleanupRecord \/ CleanupZone \/ CleanupZoneEmptied \/ ZoneLost)
    <2>1. records' = records
          BY <1>4
          DEF Next, Reconcile, Parse, ValidateSg, ValidateVpce, ValidateDns, Cleanup, Fault,
              Environment, StartReconcile, ParseInfra, ParseService, ParseClient, ParseVpc,
              AddFinalizer, FindSecurityGroup, CreateSecurityGroup, ConfigureSecurityGroup,
              FindVpcEndpoint, CreateVpcEndpoint, EndpointWaiting, EndpointRejected,
              EndpointBad, EndpointAvailable, ZoneNotConfigured, ZoneAutoDiscovered, ZoneById,
              ZoneRecorded, ZoneByName, ZoneTags, RecordSkipped, RecordNoZone, RecordNotReady,
              ServiceNotNeeded, ServiceNoRecord, ServiceMissing, ServiceFixed, ServiceError,
              ServiceAsExpected, Finish, CleanupZoneKept, CleanupZoneUnsafe, CleanupVpce,
              CleanupPoll, CleanupSg, RemoveFinalizer, ReconcileNotFound, ValidationFault,
              CleanupFault, Crash, CacheSync, CacheExpire, UserEdit, UserDelete,
              EndpointProgress, EndpointTrouble, SgLost, ServiceTampered, SourceLost,
              route53, vars
    <2> QED
        BY <2>1
  <1> QED
      BY <1>1, <1>2, <1>3, <1>4

(* A deletion is not taken back *)
LEMMA DeletingStays ==
  ASSUME TypeOK, ControlInv, [Next]_vars, api.meta.deleting
  PROVE  api'.meta.deleting
  <1>a. api \in [meta : Metas, status : Statuses]
        BY DEF TypeOK
  <1>1. CASE AddFinalizer \/ RemoveFinalizer
    <2>1. Unpersisted => api' = api
          BY DEF Unpersisted, cluster
    <2> QED
        BY <1>1, <1>a, <2>1 DEF AddFinalizer, RemoveFinalizer, Metas
  <1>2. CASE UserDelete
        BY <1>2, <1>a DEF UserDelete, Metas
  <1> QED
      BY <1>1, <1>2, ApiMeta

(* The cleanup reaches the zone through CleanupRecord *)
LEMMA CleanupEntry ==
  ASSUME TypeOK, ControlInv, [Next]_vars, pc' \in CleanupPcs \ {"clRecord"}
  PROVE  \/ CleanupRecord \/ (pc' = pc /\ mem' = mem)
         \/ pc \in CleanupPcs \ {"clRecord"} /\ ~StartReconcile /\ mem' # NoMem
  <1> USE DEF CleanupPcs, ValidatePcs
  <1>1. CASE \/ ValidateSg \/ ValidateVpce \/ ValidateDns \/ Finish \/ ValidationFault
    <2>1. PICK s, n : n \in ValidatePcs \cup {"done"} /\ Outcome(s, n)
          BY <1>1, ValidateOutcome DEF InPhase
    <2> QED
        BY <2>1 DEF Outcome, Returned
  <1>2. CASE Parse
        BY <1>2, ParseKeepsIds
  <1>3. CASE StartReconcile \/ Crash \/ RemoveFinalizer
        BY <1>3 DEF StartReconcile, Crash, RemoveFinalizer, Return
  <1>4. CASE UNCHANGED vars \/ ReconcileNotFound \/ Environment
        BY <1>4
        DEF vars, ReconcileNotFound, Environment, CacheSync, CacheExpire, UserEdit, UserDelete,
            EndpointProgress, EndpointTrouble, SgLost, ZoneLost, ServiceTampered, SourceLost,
            local
  <1>5. CASE (Cleanup /\ ~RemoveFinalizer) \/ CleanupFault
    <2>1. pc \in CleanupPcs /\ InPhase(CleanupPcs)
          BY <1>5, CleanupOutcome
    <2>2. mem' # NoMem
      <3>1. PICK s, n : Outcome(s, n)
            BY <2>1 DEF InPhase
      <3>2. mem'.meta = mem.meta
            BY <3>1 DEF Outcome, Returned, Kept
      <3>3. mem.meta.exists /\ ~NoMem.meta.exists
            BY <2>1 DEF ControlInv, VersionInv, NoMem, NoMeta
      <3> QED
          BY <3>2, <3>3
    <2>3. CASE pc = "clRecord"
      <3>1. CleanupRecord \/ CleanupFault
            BY <1>5, <2>3
            DEF Cleanup, CleanupZoneKept, CleanupZoneUnsafe, CleanupZone, CleanupZoneEmptied,
                CleanupVpce, CleanupPoll, CleanupSg
      <3> QED
          BY <3>1 DEF CleanupFault, Return
    <2>4. ~StartReconcile
          BY <2>1 DEF StartReconcile
    <2> QED
        BY <2>1, <2>2, <2>3, <2>4
  <1> QED
      BY <1>1, <1>2, <1>3, <1>4, <1>5 DEF Next, Reconcile, Fault, Cleanup

-----------------------------------------------------------------------------
(* RecordInv is inductive *)

(* The copy that is stored, or gone on with, after zone id z was chosen *)
ZoneSet(z) ==
  LET s == [mem.status EXCEPT !.zone = z] IN
  /\ api'.status = api.status \/ (mem.status = api.status /\ api'.status = s)
  /\ mem' = NoMem \/ mem'.status = s

LEMMA ZoneSetBy ==
  ASSUME TypeOK, ControlInv, NEW z, NEW n,
         StoreZone(z, n) \/ CleanupWrite([mem.status EXCEPT !.zone = z], n)
  PROVE  ZoneSet(z)
  <1> DEFINE s == [mem.status EXCEPT !.zone = z]
  <1>c. CopiesOK
        BY DEF TypeOK, CopiesOK
  <1>s. mem.status \in Statuses
        BY DEF TypeOK
  <1>1. CASE WriteThen(s, n) \/ CleanupWrite(s, n)
    <2>1. api' = api \/ (api'.status = s /\ mem.status = api.status)
          BY <1>1, WriteEffect
    <2>2. mem' = NoMem \/ mem'.status = s
      <3>1. Continue(n, s) => mem'.status = s
            BY <1>c DEF Continue, CopiesOK
      <3>2. Failed(s) \/ Return("backoff") => mem' = NoMem
            BY FailedReturns DEF Return
      <3> QED
          BY <1>1, <3>1, <3>2 DEF WriteThen, CleanupWrite
    <2> QED
        BY <2>1, <2>2 DEF ZoneSet
  <1>2. CASE mem.status.zone = z /\ Skip(n)
    <2>1. s = mem.status
          BY <1>2, <1>s DEF Statuses
    <2>2. api' = api /\ mem'.status = mem.status
          BY <1>2, <1>c DEF Skip, NoWrite, Continue, CopiesOK
    <2> QED
        BY <2>1, <2>2 DEF ZoneSet
  <1> QED
      BY <1>1, <1>2 DEF StoreZone

(* Zone z is known to exist, and may be chosen: the resource has none, or  *)
(* looks its zone up by id or by tags                                      *)
Choosable(z) ==
  /\ Fetchable(z) \/ z \in ZonePresent'
  /\ \/ setup.zoneMode = "autoDiscover"
     \/ setup.zoneMode = "id" /\ z = setup.specZone
     \/ setup.zoneMode = "domainName" /\ mem.status.zone = None

(* The zone id is set to such a zone, or dropped by the cleanup *)
LEMMA ZoneChoice ==
  ASSUME TypeOK, ControlInv, [Next]_vars, ~StartReconcile
  PROVE  \/ ZoneIdKept
         \/ \E z \in ZoneIds : ZoneSet(z) /\ Choosable(z)
         \/ CleanupZone /\ ZoneSet(None)
  <1>f. Fail \/ (\E n : Skip(n)) => ZoneIdKept
        BY ReadKeeps DEF Fail, IdsKept
  <1>1. CASE ZoneAutoDiscovered
        BY <1>1, <1>f, ZoneSetBy DEF ZoneAutoDiscovered, Choosable, Fetchable, ZonePresent
  <1>2. CASE ZoneById
    <2>1. setup.specZone \in ZoneIds
          BY ConstantsAssumption DEF TypeOK, SetupType
    <2> QED
        BY <1>2, <1>f, <2>1, ZoneSetBy DEF ZoneById, Choosable
  <1>3. CASE ZoneByName
    <2>1. CASE \E z \in ZonePresent : StoreZone(z, "tags")
          BY <1>3, <2>1, ZoneSetBy DEF ZoneByName, Choosable, Fetchable, ZonePresent
    <2>2. ASSUME NEW z \in ZoneIds, zones' = [zones EXCEPT ![z] = "present"], StoreZone(z, "tags")
          PROVE  ZoneSet(z) /\ Choosable(z)
      <3>1. z \in ZonePresent'
            BY <2>2 DEF ZonePresent, TypeOK
      <3> QED
          BY <1>3, <2>2, <3>1, ZoneSetBy DEF ZoneByName, Choosable
    <2> QED
        BY <1>3, <1>f, <2>1, <2>2 DEF ZoneByName
  <1>4. CASE CleanupZone
        BY <1>4, <1>f, ZoneSetBy DEF CleanupZone
  <1> QED
      BY <1>1, <1>2, <1>3, <1>4, IdSteps

(* What RecordUpsert and CleanupRecord store *)
LEMMA UpsertEffect ==
  ASSUME TypeOK, ControlInv, RecordUpsert
  PROVE  \/ FlagsKept
         \/ /\ mem.status.zone \in ZonePresent /\ mem.status.vpce \in VpceIds
            /\ records' = [records EXCEPT ![mem.status.zone] = mem.status.vpce]
            /\ api'.status = api.status \/ (mem.status = api.status /\ api'.status.rrs)
            /\ mem' = NoMem \/ mem'.status.rrs
  <1> DEFINE s == SetCond([mem.status EXCEPT !.rrs = TRUE], "record", "True")
  <1>1. CASE Fail
        BY <1>1, TameRead DEF Fail
  <1>2. CASE ~Fail
    <2>1. /\ mem.status.zone \in ZonePresent
          /\ records' = [records EXCEPT ![mem.status.zone] = mem.status.vpce]
          /\ WriteThen(s, "service2")
          BY <1>2 DEF RecordUpsert
    <2>2. mem.status.vpce \in VpceIds
          BY DEF RecordUpsert, HasDnsName, TypeOK
    <2>3. s.rrs
          BY DEF SetCond, TypeOK, Statuses
    <2>4. api' = api \/ (api'.status = s /\ mem.status = api.status)
          BY <2>1, WriteEffect
    <2>5. mem' = NoMem \/ mem'.status = s
          BY <2>1, FailedReturns DEF WriteThen, Continue, Return, TypeOK
    <2> QED
        BY <2>1, <2>2, <2>3, <2>4, <2>5
  <1> QED
      BY <1>1, <1>2

LEMMA CleanupRecordEffect ==
  ASSUME TypeOK, ControlInv, CleanupRecord
  PROVE  /\ api'.status = api.status \/ ~IsTrue(api'.status, "record")
         /\ mem' = NoMem \/ ~IsTrue(mem'.status, "record")
  <1> DEFINE s == SetCond([mem.status EXCEPT !.rrs = FALSE], "record", "False")
  <1>1. ~IsTrue(s, "record")
        BY DEF SetCond, IsTrue, TypeOK, Statuses, CondTypes
  <1>k. \A t, n : Continue(n, t) => mem'.status = t
        BY DEF Continue, TypeOK
  <1>2. CASE ~IsTrue(mem.status, "record") /\ Skip("clZone")
        BY <1>2, <1>k DEF Skip, NoWrite
  <1>3. CASE CleanupWrite(s, "clZone")
    <2>1. api' = api \/ api'.status = s
          BY <1>3, WriteEffect
    <2> QED
        BY <1>1, <1>3, <1>k, <2>1 DEF CleanupWrite, Return
  <1>4. CASE CleanupFail
        BY <1>4 DEF CleanupFail, NoWrite, Return
  <1> QED
      BY <1>2, <1>3, <1>4 DEF CleanupRecord

LEMMA CopiesStep ==
  ASSUME TypeOK, ControlInv, RecordInv, [Next]_vars
  PROVE  CopiesTracked'
  <1>0. setup' = setup
        BY SetupFixed
  <1>n. ~IsTrue(NoMem.status, "record") /\ NoMem.status.zone = None
        BY DEF NoMem, EmptyStatus, IsTrue, CondTypes
  <1>c. Tracked(cache.status)'
        BY <1>0, CopySteps DEF RecordInv, CopiesTracked, Tracked
  <1>1. CASE StartReconcile
    <2>1. api'.status = api.status /\ mem'.status = cache.status
          BY <1>1 DEF StartReconcile, cluster
    <2> QED
        BY <1>0, <1>c, <2>1 DEF RecordInv, CopiesTracked, Tracked
  <1>2. ASSUME NEW z \in ZoneIds, ~StartReconcile, ZoneSet(z), Choosable(z) PROVE CopiesTracked'
    <2> DEFINE s == [mem.status EXCEPT !.zone = z]
    <2>1. s.zone = z /\ s.rrs = mem.status.rrs /\ s.cond = mem.status.cond
          BY DEF TypeOK, Statuses
    <2>2. Tracked(s)
          BY <1>2, <2>1, ConstantsAssumption
          DEF Choosable, RecordInv, CopiesTracked, Tracked, IsTrue
    <2> QED
        BY <1>0, <1>c, <1>n, <1>2, <2>2 DEF ZoneSet, RecordInv, CopiesTracked, Tracked
  <1>3. CASE CleanupZone /\ ZoneSet(None)
    <2> DEFINE s == [mem.status EXCEPT !.zone = None]
    <2>1. s.zone = None /\ s.cond = mem.status.cond
          BY DEF TypeOK, Statuses
    <2>2. ~IsTrue(mem.status, "record")
          BY <1>3 DEF CleanupZone, RecordInv, RecordFirst, CleanupPcs
    <2>3. Tracked(s)
          BY <2>1, <2>2 DEF Tracked, IsTrue
    <2> QED
        BY <1>0, <1>c, <1>n, <1>3, <2>3 DEF ZoneSet, RecordInv, CopiesTracked, Tracked
  <1>4. CASE ZoneIdKept /\ FlagsKept
        BY <1>0, <1>c, <1>n, <1>4 DEF ZoneIdKept, FlagsKept, RecordInv, CopiesTracked, Tracked
  <1>5. CASE ZoneIdKept /\ RecordUpsert
    <2>1. CASE FlagsKept
          BY <1>4, <1>5, <2>1
    <2>2. CASE ~FlagsKept
      <3>1. mem.status.zone # None
            BY <1>5, <2>2, UpsertEffect, ConstantsAssumption DEF ZonePresent
      <3>2. Tracked(api.status)'
            BY <1>0, <1>5, <2>2, <3>1, UpsertEffect
            DEF ZoneIdKept, RecordInv, CopiesTracked, Tracked
      <3>3. Tracked(mem.status)'
            BY <1>0, <1>5, <1>n, <2>2, <3>1, UpsertEffect
            DEF ZoneIdKept, RecordInv, CopiesTracked, Tracked
      <3> QED
          BY <1>c, <3>2, <3>3 DEF CopiesTracked
    <2> QED
        BY <2>1, <2>2
  <1>6. CASE ZoneIdKept /\ CleanupRecord
        BY <1>0, <1>c, <1>n, <1>6, CleanupRecordEffect
        DEF ZoneIdKept, RecordInv, CopiesTracked, Tracked
  <1> QED
      BY <1>1, <1>2, <1>3, <1>4, <1>5, <1>6, ZoneChoice, FlagSteps

LEMMA RecordFirstStep ==
  ASSUME TypeOK, ControlInv, RecordInv, [Next]_vars
  PROVE  RecordFirst'
  <1> SUFFICES ASSUME pc' \in CleanupPcs \ {"clRecord"}
               PROVE  ~IsTrue(mem'.status, "record")
      BY DEF RecordFirst, CleanupPcs, IsTrue
  <1>n. ~IsTrue(NoMem.status, "record")
        BY DEF NoMem, EmptyStatus, IsTrue, CondTypes
  <1>1. CASE CleanupRecord
        BY <1>1, <1>n, CleanupRecordEffect
  <1>2. CASE pc' = pc /\ mem' = mem
        BY <1>2 DEF RecordInv, RecordFirst
  <1>3. CASE pc \in CleanupPcs \ {"clRecord"} /\ ~StartReconcile /\ mem' # NoMem
    <2>1. ~RecordUpsert /\ ~CleanupRecord
          BY <1>3 DEF RecordUpsert, CleanupRecord, CleanupPcs
    <2> QED
        BY <1>3, <2>1, FlagSteps DEF FlagsKept, RecordInv, RecordFirst
  <1> QED
      BY <1>1, <1>2, <1>3, CleanupEntry

(* A zone that the cache names or that exists is not an unused one *)
LEMMA KnownZones ==
  ASSUME TypeOK, RecordInv, [Next]_vars, NEW z, Fetchable(z) \/ z \in ZonePresent'
  PROVE  zones'[z] # "unused"
  <1>1. CASE Fetchable(z)
    <2>1. z \in ZoneIds /\ zones[z] # "unused"
          BY <1>1 DEF Fetchable, ZonePresent, RecordInv, ZonesUsed, TypeOK
    <2> QED
        BY <2>1, ZoneLife
  <1>2. CASE z \in ZonePresent'
        BY <1>2 DEF ZonePresent
  <1> QED
      BY <1>1, <1>2

LEMMA ZonesUsedStep ==
  ASSUME TypeOK, ControlInv, RecordInv, [Next]_vars
  PROVE  ZonesUsed'
  <1>1. \A z \in hzCache' : zones'[z] # "unused"
        BY ZoneCacheSteps, KnownZones
  <1>2. ASSUME api'.status.zone = api.status.zone, api'.status.zone # None
        PROVE  zones'[api'.status.zone] # "unused"
    <2>1. api.status.zone \in ZoneIds
          BY <1>2 DEF TypeOK, Statuses
    <2> QED
        BY <1>2, <2>1, ZoneLife DEF RecordInv, ZonesUsed
  <1>3. ASSUME api'.status.zone # None
        PROVE  zones'[api'.status.zone] # "unused"
    <2>1. CASE StartReconcile \/ ZoneIdKept
          BY <1>2, <1>3, <2>1 DEF StartReconcile, cluster, ZoneIdKept
    <2>2. ASSUME NEW z, ZoneSet(z)
          PROVE  api'.status.zone = api.status.zone \/ api'.status.zone = z
          BY <2>2 DEF ZoneSet, TypeOK, Statuses
    <2>3. CASE \E z \in ZoneIds : ZoneSet(z) /\ Choosable(z)
          BY <1>2, <1>3, <2>2, <2>3, KnownZones DEF Choosable
    <2>4. CASE ZoneSet(None)
          BY <1>2, <1>3, <2>2, <2>4
    <2> QED
        BY <2>1, <2>3, <2>4, ZoneChoice
  <1> QED
      BY <1>1, <1>3 DEF ZonesUsed

(* A record condition that is True was so before, for the same zone, or    *)
(* comes with the record                                                   *)
LEMMA RecordSource ==
  ASSUME TypeOK, ControlInv, RecordInv, [Next]_vars,
         IsTrue(api'.status, "record"), setup.zoneMode # "autoDiscover"
  PROVE  \/ IsTrue(api.status, "record") /\ api'.status.zone = api.status.zone
         \/ /\ api'.status.zone \in ZoneIds
            /\ records'[api'.status.zone] # None
  <1>1. CASE StartReconcile
        BY <1>1 DEF StartReconcile, cluster
  <1>2. ASSUME NEW z, ZoneSet(z), Choosable(z) \/ (CleanupZone /\ z = None)
        PROVE  IsTrue(api.status, "record") /\ api'.status.zone = api.status.zone
    <2> DEFINE s == [mem.status EXCEPT !.zone = z]
    <2>1. s.zone = z /\ s.cond = mem.status.cond
          BY DEF TypeOK, Statuses
    <2>2. CASE api'.status = api.status
          BY <2>2
    <2>3. CASE mem.status = api.status /\ api'.status = s
      <3>1. IsTrue(mem.status, "record")
            BY <2>1, <2>3 DEF IsTrue
      <3>2. mem.status.zone # None
            BY <3>1 DEF RecordInv, CopiesTracked, Tracked
      <3>3. ~CleanupZone
            BY <3>1 DEF CleanupZone, RecordInv, RecordFirst, CleanupPcs
      <3>4. setup.zoneMode = "id" /\ z = setup.specZone
            BY <1>2, <3>2, <3>3 DEF Choosable
      <3>5. mem.status.zone = z
            BY <3>2, <3>4 DEF RecordInv, CopiesTracked, Tracked
      <3> QED
          BY <2>1, <2>3, <3>1, <3>5
    <2> QED
        BY <1>2, <2>2, <2>3 DEF ZoneSet
  <1>3. CASE ZoneIdKept /\ FlagsKept
        BY <1>3 DEF ZoneIdKept, FlagsKept
  <1>4. CASE ZoneIdKept /\ RecordUpsert /\ ~FlagsKept
    <2>1. CASE api'.status = api.status
          BY <2>1
    <2>2. CASE mem.status = api.status
      <3>1. api'.status.zone = mem.status.zone
            BY <1>4, <2>2 DEF ZoneIdKept
      <3>2. mem.status.zone \in ZoneIds /\ mem.status.vpce \in VpceIds
            BY <1>4, UpsertEffect DEF ZonePresent
      <3>3. records'[mem.status.zone] = mem.status.vpce
            BY <1>4, <3>2, UpsertEffect DEF TypeOK
      <3> QED
          BY <3>1, <3>2, <3>3, ConstantsAssumption
    <2> QED
        BY <1>4, <2>1, <2>2, UpsertEffect
  <1>5. CASE ZoneIdKept /\ CleanupRecord
        BY <1>5, CleanupRecordEffect
  <1> QED
      BY <1>1, <1>2, <1>3, <1>4, <1>5, ZoneChoice, FlagSteps

LEMMA RecordTrackedStep ==
  ASSUME TypeOK, ControlInv, RecordInv, [Next]_vars
  PROVE  RecordTracked'
  <1>0. setup' = setup
        BY SetupFixed
  <1> SUFFICES ASSUME IsTrue(api'.status, "record"), ~api'.meta.deleting,
                      setup.zoneMode # "autoDiscover", api'.status.zone \in ZonePresent'
               PROVE  records'[api'.status.zone] # None
      BY <1>0, CopiesStep DEF RecordTracked, CopiesTracked, Tracked, IsTrue
  <1>1. CASE IsTrue(api.status, "record") /\ api'.status.zone = api.status.zone
    <2> DEFINE z == api.status.zone
    <2>1. z \in ZonePresent' /\ ~api.meta.deleting
          BY <1>1, DeletingStays
    <2>2. z \in ZonePresent
          BY <1>1, <2>1, ZoneLife DEF RecordInv, ZonesUsed, RecordTracked
    <2>3. records[z] # None
          BY <1>1, <2>1, <2>2 DEF RecordInv, RecordTracked
    <2> QED
        BY <1>1, <2>1, <2>3, RecordSteps
  <1> QED
      BY <1>1, RecordSource

(* What the record condition says survives every step.  The four parts     *)
(* need one another: the record may be removed only when no copy of the    *)
(* status claims it any more (RecordFirst), an outdated copy must not make *)
(* the zone's id change under a True condition (CopiesTracked), and a zone *)
(* that comes into being must not be one the status names (ZonesUsed).     *)
THEOREM RecordCorrect == Spec => []RecordInv
  <1>1. Init => RecordInv
    <2> SUFFICES ASSUME Init PROVE RecordInv
        OBVIOUS
    <2>1. ~IsTrue(EmptyStatus, "record") /\ EmptyStatus.zone = None
          BY DEF EmptyStatus, IsTrue, CondTypes
    <2>2. /\ api.status = EmptyStatus /\ cache.status = EmptyStatus /\ mem.status = EmptyStatus
          /\ hzCache = {} /\ pc = "idle"
          BY DEF Init, NoMem
    <2> QED
        BY <2>1, <2>2
        DEF RecordInv, CopiesTracked, Tracked, RecordFirst, ZonesUsed, RecordTracked, CleanupPcs
  <1>2. TypeOK /\ ControlInv /\ RecordInv /\ [Next]_vars => RecordInv'
        BY CopiesStep, RecordFirstStep, ZonesUsedStep, RecordTrackedStep DEF RecordInv
  <1> QED
      BY <1>1, <1>2, TypeCorrect, ControlCorrect, PTL DEF Spec

(* When the record condition is True the status names the zone and the     *)
(* record, and while the resource is not being deleted that zone, if it    *)
(* still exists, holds a record: validateR53HostedZoneRecord stores        *)
(* condition and name only after its UPSERT (validation.go lines 441-460), *)
(* and the cleanup (cleanup.go lines 51-105) can rely on it.               *)
THEOREM RecordsTracked == Spec => []RecordTracked
  <1>1. RecordInv => RecordTracked
        BY DEF RecordInv
  <1> QED
      BY <1>1, RecordCorrect, PTL
=============================================================================
