------------------- MODULE VpcEndpointController_proofs -------------------
(***************************************************************************)
(* Proofs about VpcEndpointController, for every set of ids and setups and *)
(* every bound on faults, edits and losses.                                *)
(***************************************************************************)
EXTENDS VpcEndpointController, TLAPS

(* Each copy of the resource is a version the API server once had, and the *)
(* flags say which copies are the server's current version.                *)
VersionInv ==
  /\ synced => cache = api
  /\ fresh => mem.meta = api.meta /\ mem.status = api.status
  /\ pc = "idle" => mem = NoMem /\ ~fresh
  /\ pc # "idle" => mem.meta.exists

(* What a copy m of the metadata tells about the server's *)
MetaCopy(m) ==
  /\ m.exists /\ m.deleting => m.finalizer
  /\ m.deleting => api.meta.deleting
  /\ m.finalizer /\ api.meta.exists => api.meta.finalizer
  /\ ~api.meta.exists => m.deleting \/ ~m.finalizer

MetaInv ==
  /\ MetaCopy(api.meta) /\ MetaCopy(cache.meta) /\ MetaCopy(mem.meta)
  /\ ~api.meta.exists => api.meta.deleting
  /\ mem.meta.deleting => cache.meta.deleting

InfoInv ==
  /\ api.meta.finalizer => api.status.info = InfoFields
  /\ cache.meta.finalizer => cache.status.info = InfoFields
  /\ mem.meta.finalizer => mem.status.info = InfoFields
  /\ pc = "service" => "infraId" \in mem.status.info
  /\ pc \in {"client", "vpc"} => {"infraId", "serviceName"} \subseteq mem.status.info

PcInv ==
  /\ pc \in ValidatePcs \cup {"done"} => ~mem.meta.deleting /\ mem.meta.finalizer
  /\ pc \in CleanupPcs => mem.meta.deleting
  /\ pc = "finalizer" => /\ ~mem.meta.deleting /\ ~mem.meta.finalizer
                         /\ mem.status.info = InfoFields

(* The invariant of the copies of the resource and of Reconcile's control *)
ControlInv == VersionInv /\ MetaInv /\ InfoInv /\ PcInv

(* Nothing is recorded and nothing of AVO's exists before the finalizer *)
CleanStart ==
  api.meta.exists /\ ~api.meta.finalizer =>
    /\ SgPresent = {} /\ VpceVisible = {} /\ ZonePresent \subseteq setup.foreign
    /\ api.status.sg = None /\ api.status.vpce = None /\ api.status.zone = None

ZoneReleased(s) ==
  setup.zoneMode = "domainName" /\ ~setup.baseDomain => s.zone \notin ZonePresent

CleanupInv ==
  /\ pc \in {"clVpce", "clPoll", "clSg", "clFinalizer"} => ZoneReleased(mem.status)
  /\ pc = "clPoll" => /\ mem.status.vpce \in VpceIds
                      /\ vpces[mem.status.vpce] \in {"deleting", "deleted", "gone"}
  /\ pc \in {"clSg", "clFinalizer"} => mem.status.vpce = None
  /\ pc = "clFinalizer" => mem.status.sg \notin SgPresent

ReleaseInv == CleanStart /\ CleanupInv /\ RecordedIsReleased

-----------------------------------------------------------------------------
(* Types of the resource's copies *)

(* Setting one field of a VpcEndpointStatus gives a VpcEndpointStatus *)
LEMMA StatusUpdates ==
  ASSUME NEW s \in Statuses
  PROVE  /\ \A g \in SgIds \cup {None} : [s EXCEPT !.sg = g] \in Statuses
         /\ \A v \in VpceIds \cup {None} : [s EXCEPT !.vpce = v] \in Statuses
         /\ \A z \in ZoneIds \cup {None} : [s EXCEPT !.zone = z] \in Statuses
         /\ \A b \in BOOLEAN : [s EXCEPT !.rrs = b] \in Statuses
         /\ \A f \in InfoFields : [s EXCEPT !.info = @ \cup {f}] \in Statuses
         /\ \A t \in CondTypes, c \in CondValues : SetCond(s, t, c) \in Statuses
         /\ Invalidated(s) \in Statuses
  BY DEF Statuses, SetCond, Invalidated, CondValues

(* The metadata and the status of an absent resource have their types *)
LEMMA EmptyTypes == NoMeta \in Metas /\ EmptyStatus \in Statuses
  BY DEF NoMeta, Metas, EmptyStatus, Statuses, CondValues

(* The part of TypeOK that Reconcile's writes and returns can disturb *)
CopiesOK ==
  /\ api \in [meta : Metas, status : Statuses]
  /\ cache \in [meta : Metas, status : Statuses]
  /\ synced \in BOOLEAN
  /\ pc \in Pcs
  /\ mem \in [meta : Metas, status : Statuses, seen : VpceStates \cup {"none"}]
  /\ fresh \in BOOLEAN
  /\ requeue \in Requeues
  /\ faults \in 0..MaxFaults

(* A status update that the API server accepts keeps the stored copies typed *)
LEMMA PersistTypes ==
  ASSUME CopiesOK, NEW s \in Statuses, Persist(s)
  PROVE  /\ api' \in [meta : Metas, status : Statuses]
         /\ cache' \in [meta : Metas, status : Statuses]
         /\ synced' \in BOOLEAN
         /\ faults' \in 0..MaxFaults
  <1>1. api' \in [meta : Metas, status : Statuses]
    BY DEF CopiesOK, Persist
  <1>2. synced' \in BOOLEAN
    BY Zenon DEF CopiesOK, Persist
  <1> QED BY <1>1, <1>2 DEF CopiesOK, Persist

(* A status update that is rejected or fails keeps the stored copies typed *)
LEMMA UnpersistedTypes ==
  ASSUME CopiesOK, MaxFaults \in Nat, Unpersisted
  PROVE  /\ api' \in [meta : Metas, status : Statuses]
         /\ cache' \in [meta : Metas, status : Statuses]
         /\ synced' \in BOOLEAN
         /\ faults' \in 0..MaxFaults
  BY DEF CopiesOK, Unpersisted, SpendFault, cluster

(* Going on to the next step keeps the state of the running Reconcile typed *)
LEMMA ContinueTypes ==
  ASSUME CopiesOK, NEW s \in Statuses, NEW n \in Pcs, Continue(n, s)
  PROVE  /\ pc' \in Pcs
         /\ mem' \in [meta : Metas, status : Statuses, seen : VpceStates \cup {"none"}]
         /\ fresh' \in BOOLEAN
         /\ requeue' \in Requeues
  BY DEF CopiesOK, Continue

(* Returning from Reconcile keeps its state typed *)
LEMMA ReturnTypes ==
  ASSUME NEW q \in Requeues, Return(q)
  PROVE  /\ pc' \in Pcs
         /\ mem' \in [meta : Metas, status : Statuses, seen : VpceStates \cup {"none"}]
         /\ fresh' \in BOOLEAN
         /\ requeue' \in Requeues
  BY EmptyTypes DEF Return, NoMem, Pcs

(* A validation that fails returns, after a minute or with the back-off *)
LEMMA FailedReturns ==
  ASSUME NEW s, Failed(s)
  PROVE  Return("1m") \/ Return("backoff")
  BY DEF Failed

(* Every way a step of Reconcile ends keeps the copies typed *)
LEMMA WriteTypes ==
  ASSUME CopiesOK, MaxFaults \in Nat, NEW s \in Statuses, NEW n \in Pcs
  PROVE  /\ WriteThen(s, n) => CopiesOK'
         /\ WriteThenFail(s) => CopiesOK'
         /\ CleanupWrite(s, n) => CopiesOK'
         /\ \A c \in BOOLEAN : ParseWrite(s, n, c) => CopiesOK'
  <1>r. /\ "1m" \in Requeues /\ "backoff" \in Requeues /\ "clRecord" \in Pcs
    BY DEF Requeues, Pcs, CleanupPcs
  <1>1. ASSUME Persist(s) \/ Unpersisted,
               Continue(n, s) \/ Continue("clRecord", s) \/ Return("backoff") \/ Return("1m")
        PROVE  CopiesOK'
    BY <1>1, <1>r, PersistTypes, UnpersistedTypes, ContinueTypes, ReturnTypes DEF CopiesOK
  <1> QED
    BY <1>1, FailedReturns DEF WriteThen, WriteThenFail, CleanupWrite, ParseWrite, ParseFailed

(* A step that writes no status keeps the copies typed, however it ends *)
LEMMA NoWriteTypes ==
  ASSUME CopiesOK, MaxFaults \in Nat, NoWrite \/ (SpendFault /\ UNCHANGED cluster)
  PROVE  /\ \A n \in Pcs : Continue(n, mem.status) => CopiesOK'
         /\ \A q \in Requeues : Return(q) => CopiesOK'
         /\ Failed(mem.status) => CopiesOK'
         /\ \A c \in BOOLEAN : ParseFailed(mem.status, c) => CopiesOK'
  <1>r. "1m" \in Requeues /\ "backoff" \in Requeues /\ "clRecord" \in Pcs
    BY DEF Requeues, Pcs, CleanupPcs
  <1>s. mem.status \in Statuses
    BY DEF CopiesOK
  <1>u. /\ api' \in [meta : Metas, status : Statuses]
        /\ cache' \in [meta : Metas, status : Statuses]
        /\ synced' \in BOOLEAN
        /\ faults' \in 0..MaxFaults
    BY DEF CopiesOK, NoWrite, SpendFault, cluster
  <1>1. \A n \in Pcs : Continue(n, mem.status) => CopiesOK'
    BY <1>s, <1>u, ContinueTypes DEF CopiesOK
  <1>2. \A q \in Requeues : Return(q) => CopiesOK'
    BY <1>u, ReturnTypes DEF CopiesOK
  <1>3. Failed(mem.status) => CopiesOK'
    BY <1>2, <1>r, FailedReturns
  <1>4. \A c \in BOOLEAN : ParseFailed(mem.status, c) => CopiesOK'
    BY <1>1, <1>2, <1>r DEF ParseFailed
  <1> QED BY <1>1, <1>2, <1>3, <1>4

(* The rest of TypeOK: the cluster's other objects, AWS and the bounds *)
WorldOK ==
  /\ setup \in Setups
  /\ sources \subseteq Sources
  /\ svc \in {"absent", "ok", "wrong"}
  /\ hzCache \subseteq ZoneIds
  /\ sgs \in [SgIds -> SgStates]
  /\ vpces \in [VpceIds -> VpceStates]
  /\ attached \subseteq VpceIds
  /\ zones \in [ZoneIds -> ZoneStates]
  /\ records \in [ZoneIds -> VpceIds \cup {None}]
  /\ edits \in 0..MaxEdits /\ losses \in 0..MaxLosses

(* TypeOK is the types of the copies and the types of everything else *)
LEMMA TypeSplit == TypeOK <=> CopiesOK /\ WorldOK
  BY DEF TypeOK, CopiesOK, WorldOK

(* The start of Reconcile and parseClusterInfo keep the types *)
LEMMA ParseTypes ==
  ASSUME TypeOK, StartReconcile \/ Parse
  PROVE  TypeOK'
  <1> USE ConstantsAssumption
  <1>w. WorldOK'
    BY DEF TypeOK, WorldOK, StartReconcile, Parse, ParseInfra, ParseService, ParseClient,
       ParseVpc, AddFinalizer, world, ec2, route53, budgets
  <1>p. /\ "infra" \in Pcs /\ "service" \in Pcs /\ "client" \in Pcs /\ "vpc" \in Pcs
        /\ AfterParse \in Pcs /\ "sg" \in Pcs /\ "backoff" \in Requeues /\ "none" \in Requeues
    BY DEF Pcs, AfterParse, CleanupPcs, ValidatePcs, Requeues
  <1>c. CopiesOK /\ mem.status \in Statuses
    BY DEF TypeOK, CopiesOK
  <1>s. \A f \in InfoFields : [mem.status EXCEPT !.info = @ \cup {f}] \in Statuses
    BY <1>c, StatusUpdates
  <1>1. CASE StartReconcile
    BY <1>1, <1>p, <1>w DEF TypeOK, WorldOK, StartReconcile, cluster, budgets
  <1>2. CASE ParseInfra
    <2>1. CopiesOK'
      BY <1>2, <1>p, <1>c, <1>s, WriteTypes, NoWriteTypes DEF ParseInfra, Skip, InfoFields
    <2> QED BY <2>1, <1>w, TypeSplit DEF TypeOK, CopiesOK, WorldOK
  <1>3. CASE ParseService
    <2>1. CopiesOK'
      BY <1>3, <1>p, <1>c, <1>s, WriteTypes, NoWriteTypes DEF ParseService, Skip, InfoFields
    <2> QED BY <2>1, <1>w DEF TypeOK, CopiesOK, WorldOK
  <1>4. CASE ParseClient
    <2>1. CopiesOK'
      BY <1>4, <1>p, <1>c, NoWriteTypes DEF ParseClient, Skip
    <2> QED BY <2>1, <1>w DEF TypeOK, CopiesOK, WorldOK
  <1>5. CASE ParseVpc
    <2>1. CopiesOK'
      BY <1>5, <1>p, <1>c, <1>s, WriteTypes, NoWriteTypes DEF ParseVpc, Skip, InfoFields
    <2> QED BY <2>1, <1>w DEF TypeOK, CopiesOK, WorldOK
  <1>6. CASE AddFinalizer
    <2>1. CASE Unpersisted /\ Return("backoff")
      BY <2>1, <1>p, <1>c, <1>w, UnpersistedTypes, ReturnTypes DEF TypeOK, CopiesOK, WorldOK
    <2>2. CASE ~(Unpersisted /\ Return("backoff"))
      <3>1. api' \in [meta : Metas, status : Statuses]
        <4>1. api.meta \in Metas /\ [api.meta EXCEPT !.finalizer = TRUE] \in Metas
          BY <1>c DEF CopiesOK, Metas
        <4>2. api' = [api EXCEPT !.meta = [api.meta EXCEPT !.finalizer = TRUE]]
          BY <2>2, <1>6 DEF AddFinalizer
        <4> QED BY <4>1, <4>2, <1>c DEF CopiesOK
      <3>2. mem' \in [meta : Metas, status : Statuses, seen : VpceStates \cup {"none"}]
        BY <3>1, <2>2, <1>6, <1>c DEF AddFinalizer, CopiesOK
      <3> QED
        BY <3>1, <3>2, <2>2, <1>6, <1>p, <1>w DEF AddFinalizer, TypeOK, WorldOK
    <2> QED BY <2>1, <2>2, <1>6 DEF AddFinalizer
  <1> QED BY <1>1, <1>2, <1>3, <1>4, <1>5, <1>6 DEF Parse

(* What an AWS lookup can return are ids *)
LEMMA PresentTypes ==
  SgPresent \subseteq SgIds /\ VpceVisible \subseteq VpceIds /\ ZonePresent \subseteq ZoneIds
  BY DEF SgPresent, VpceVisible, ZonePresent

(* The places of the validations and the cleanup that a step can go on to *)
LEMMA PcNames ==
  /\ {"sgRules", "vpce", "vpceState", "zone", "tags", "record", "service2", "done"} \subseteq Pcs
  /\ {"clZone", "clVpce", "clPoll", "clSg", "clFinalizer", "idle"} \subseteq Pcs
  /\ DnsEntry \in Pcs
  /\ {"none", "backoff", "1m", "15m", "30s"} \subseteq Requeues
  BY DEF Pcs, ValidatePcs, CleanupPcs, DnsEntry, Requeues

(* validateSecurityGroup keeps the types *)
LEMMA ValidateSgTypes ==
  ASSUME TypeOK, ValidateSg
  PROVE  TypeOK'
  <1> USE ConstantsAssumption
  <1>c. CopiesOK /\ mem.status \in Statuses
    BY DEF TypeOK, CopiesOK
  <1>s. /\ \A g \in SgIds : [mem.status EXCEPT !.sg = g] \in Statuses
        /\ SetCond(mem.status, "sg", "True") \in Statuses
    BY <1>c, StatusUpdates DEF CondTypes, CondValues
  <1>w. WorldOK'
    <2>1. sgs' \in [SgIds -> SgStates]
      BY DEF ValidateSg, FindSecurityGroup, CreateSecurityGroup, ConfigureSecurityGroup,
         TypeOK, SgStates, ec2
    <2> QED
      BY <2>1 DEF TypeOK, WorldOK, ValidateSg, FindSecurityGroup, CreateSecurityGroup,
         ConfigureSecurityGroup, world, ec2, route53
  <1>1. CASE FindSecurityGroup
    BY <1>1, <1>c, <1>s, <1>w, WriteTypes, PcNames, PresentTypes, TypeSplit
       DEF FindSecurityGroup, SgCandidates, TypeOK, CopiesOK, WorldOK
  <1>2. CASE CreateSecurityGroup
    <2>1. CopiesOK'
      BY <1>2, <1>c, <1>s, WriteTypes, NoWriteTypes, PcNames DEF CreateSecurityGroup, Fail
    <2> QED BY <2>1, <1>w DEF TypeOK, CopiesOK, WorldOK
  <1>3. CASE ConfigureSecurityGroup
    <2>1. CopiesOK'
      BY <1>3, <1>c, <1>s, WriteTypes, NoWriteTypes, PcNames DEF ConfigureSecurityGroup, Fail
    <2> QED BY <2>1, <1>w DEF TypeOK, CopiesOK, WorldOK
  <1> QED BY <1>1, <1>2, <1>3 DEF ValidateSg

(* validateVPCEndpoint keeps the types *)
LEMMA ValidateVpceTypes ==
  ASSUME TypeOK, ValidateVpce
  PROVE  TypeOK'
  <1> USE ConstantsAssumption
  <1>c. CopiesOK /\ mem.status \in Statuses
    BY DEF TypeOK, CopiesOK
  <1>s. /\ \A v \in VpceIds : [mem.status EXCEPT !.vpce = v] \in Statuses
        /\ SetCond(mem.status, "vpce", "True") \in Statuses
        /\ SetCond(mem.status, "vpce", "False") \in Statuses
        /\ Invalidated(SetCond(mem.status, "vpce", "False")) \in Statuses
    BY <1>c, StatusUpdates DEF CondTypes, CondValues
  <1>w. WorldOK'
    <2>1. vpces' \in [VpceIds -> VpceStates]
      BY DEF ValidateVpce, FindVpcEndpoint, CreateVpcEndpoint, EndpointWaiting,
         EndpointRejected, EndpointBad, EndpointAvailable, TypeOK, VpceStates, LiveStates, ec2
    <2>2. attached' \subseteq VpceIds
      BY DEF ValidateVpce, FindVpcEndpoint, CreateVpcEndpoint, EndpointWaiting,
         EndpointRejected, EndpointBad, EndpointAvailable, TypeOK, VpceLive, ec2
    <2> QED
      BY <2>1, <2>2 DEF TypeOK, WorldOK, ValidateVpce, FindVpcEndpoint, CreateVpcEndpoint,
         EndpointWaiting, EndpointRejected, EndpointBad, EndpointAvailable, world, ec2, route53
  <1>r. ASSUME NEW v \in VpceIds, NEW st \in VpceStates, RecordVpcEndpoint(v, st)
        PROVE  CopiesOK'
    <2> DEFINE s == [mem.status EXCEPT !.vpce = v]
    <2>s. s \in Statuses
      BY <1>s
    <2>1. CASE Unpersisted /\ Failed(s)
      BY <2>1, <2>s, <1>c, WriteTypes, PcNames DEF WriteThenFail
    <2>2. CASE /\ Persist(s) /\ pc' = "vpceState"
               /\ mem' = [mem EXCEPT !.status = s, !.seen = st]
               /\ UNCHANGED <<fresh, requeue>>
      BY <2>2, <2>s, <1>c, PersistTypes, PcNames DEF CopiesOK
    <2> QED BY <2>1, <2>2, <1>r DEF RecordVpcEndpoint
  <1>1. CASE FindVpcEndpoint
    <2>1. CopiesOK'
      BY <1>1, <1>r, PresentTypes DEF FindVpcEndpoint, VpceCandidates, TypeOK
    <2> QED BY <2>1, <1>w DEF TypeOK, CopiesOK, WorldOK
  <1>2. CASE CreateVpcEndpoint
    <2>1. CopiesOK'
      BY <1>2, <1>r, <1>c, NoWriteTypes DEF CreateVpcEndpoint, Fail, VpceStates, LiveStates
    <2> QED BY <2>1, <1>w DEF TypeOK, CopiesOK, WorldOK
  <1>3. CASE EndpointWaiting
    <2>1. CopiesOK'
      BY <1>3, <1>c, <1>s, WriteTypes, PcNames DEF EndpointWaiting
    <2> QED BY <2>1, <1>w DEF TypeOK, CopiesOK, WorldOK
  <1>4. CASE EndpointRejected
    <2>1. CopiesOK'
      BY <1>4, <1>c, NoWriteTypes, FailedReturns, PcNames DEF EndpointRejected
    <2> QED BY <2>1, <1>w DEF TypeOK, CopiesOK, WorldOK
  <1>5. CASE EndpointBad
    <2>1. CopiesOK'
      BY <1>5, <1>c, <1>s, WriteTypes, PcNames DEF EndpointBad
    <2> QED BY <2>1, <1>w DEF TypeOK, CopiesOK, WorldOK
  <1>6. CASE EndpointAvailable
    <2>1. CopiesOK'
      BY <1>6, <1>c, <1>s, WriteTypes, NoWriteTypes, PcNames DEF EndpointAvailable, Fail
    <2> QED BY <2>1, <1>w DEF TypeOK, CopiesOK, WorldOK
  <1> QED BY <1>1, <1>2, <1>3, <1>4, <1>5, <1>6 DEF ValidateVpce

(* validatePrivateHostedZone keeps the types *)
LEMMA ZoneTypes ==
  ASSUME TypeOK,
         \/ ZoneNotConfigured \/ ZoneAutoDiscovered \/ ZoneById
         \/ ZoneRecorded \/ ZoneByName \/ ZoneTags
  PROVE  TypeOK'
  <1> USE ConstantsAssumption
  <1>c. CopiesOK /\ mem.status \in Statuses
    BY DEF TypeOK, CopiesOK
  <1>s. /\ \A z \in ZoneIds : [mem.status EXCEPT !.zone = z] \in Statuses
        /\ SetCond(mem.status, "tags", "True") \in Statuses
    BY <1>c, StatusUpdates DEF CondTypes, CondValues
  <1>z. setup.specZone \in ZoneIds
    BY DEF TypeOK, SetupType
  <1>w. WorldOK'
    <2>1. zones' \in [ZoneIds -> ZoneStates]
      BY DEF ZoneNotConfigured, ZoneAutoDiscovered, ZoneById, ZoneRecorded, ZoneByName,
         ZoneTags, TypeOK, ZoneStates, route53
    <2>2. hzCache' \subseteq ZoneIds
      BY <1>c, <1>z DEF ZoneNotConfigured, ZoneAutoDiscovered, ZoneById, ZoneRecorded,
         ZoneByName, ZoneTags, TypeOK, Statuses
    <2> QED
      BY <2>1, <2>2 DEF TypeOK, WorldOK, ZoneNotConfigured, ZoneAutoDiscovered, ZoneById,
         ZoneRecorded, ZoneByName, ZoneTags, world, ec2, route53
  <1>r. ASSUME NEW z \in ZoneIds, NEW n \in Pcs, StoreZone(z, n)
        PROVE  CopiesOK'
    BY <1>r, <1>c, <1>s, WriteTypes, NoWriteTypes DEF StoreZone, Skip
  <1>1. CopiesOK'
    BY <1>r, <1>c, <1>s, <1>z, WriteTypes, NoWriteTypes, PresentTypes, PcNames
       DEF ZoneNotConfigured, ZoneAutoDiscovered, ZoneById, ZoneRecorded, ZoneByName,
           ZoneTags, Skip, Fail
  <1> QED BY <1>1, <1>w DEF TypeOK, CopiesOK, WorldOK

(* validateR53HostedZoneRecord keeps the types *)
LEMMA RecordTypes ==
  ASSUME TypeOK, RecordSkipped \/ RecordNoZone \/ RecordNotReady \/ RecordUpsert
  PROVE  TypeOK'
  <1> USE ConstantsAssumption
  <1>c. CopiesOK /\ mem.status \in Statuses
    BY DEF TypeOK, CopiesOK
  <1>s. SetCond([mem.status EXCEPT !.rrs = TRUE], "record", "True") \in Statuses
    BY <1>c, StatusUpdates DEF CondTypes, CondValues
  <1>w. WorldOK'
    <2>1. records' \in [ZoneIds -> VpceIds \cup {None}]
      BY <1>c DEF RecordSkipped, RecordNoZone, RecordNotReady, RecordUpsert, TypeOK,
         Statuses, route53
    <2>2. hzCache' \subseteq ZoneIds
      BY PresentTypes DEF RecordSkipped, RecordNoZone, RecordNotReady, RecordUpsert, TypeOK,
         Fetchable
    <2> QED
      BY <2>1, <2>2 DEF TypeOK, WorldOK, RecordSkipped, RecordNoZone, RecordNotReady,
         RecordUpsert, world, ec2, route53
  <1>1. CopiesOK'
    BY <1>c, <1>s, WriteTypes, NoWriteTypes, PcNames
       DEF RecordSkipped, RecordNoZone, RecordNotReady, RecordUpsert, Skip, Fail
  <1> QED BY <1>1, <1>w DEF TypeOK, CopiesOK, WorldOK

(* validateExternalNameService and the end of Reconcile keep the types *)
LEMMA ServiceTypes ==
  ASSUME TypeOK,
         \/ ServiceNotNeeded \/ ServiceNoRecord \/ ServiceMissing
         \/ ServiceFixed \/ ServiceError \/ ServiceAsExpected \/ Finish
  PROVE  TypeOK'
  <1> USE ConstantsAssumption
  <1>c. CopiesOK /\ mem.status \in Statuses
    BY DEF TypeOK, CopiesOK
  <1>s. /\ SetCond(mem.status, "svc", "True") \in Statuses
        /\ SetCond(mem.status, "svc", "False") \in Statuses
    BY <1>c, StatusUpdates DEF CondTypes, CondValues
  <1>w. WorldOK'
    BY DEF TypeOK, WorldOK, ServiceNotNeeded, ServiceNoRecord, ServiceMissing, ServiceFixed,
       ServiceError, ServiceAsExpected, Finish, world, ec2, route53
  <1>1. CASE ServiceError
    <2> DEFINE s == SetCond(mem.status, "svc", "False")
    <2>1. api' \in [meta : Metas, status : Statuses] /\ cache' = cache
      BY <1>1, <1>c, <1>s DEF ServiceError, CopiesOK
    <2>2. synced' \in BOOLEAN
      BY <1>1 DEF ServiceError
    <2>3. faults' \in 0..MaxFaults
      BY <1>1, <1>c DEF ServiceError, SpendFault, CopiesOK
    <2>4. Return("1m") \/ Return("backoff")
      BY <1>1, FailedReturns DEF ServiceError
    <2>5. CopiesOK'
      BY <2>1, <2>2, <2>3, <2>4, <1>c, ReturnTypes, PcNames DEF CopiesOK
    <2> QED BY <2>5, <1>w DEF TypeOK, CopiesOK, WorldOK
  <1>2. CASE ~ServiceError
    <2>1. CopiesOK'
      BY <1>2, <1>c, <1>s, WriteTypes, NoWriteTypes, PcNames
         DEF ServiceNotNeeded, ServiceNoRecord, ServiceMissing, ServiceFixed,
             ServiceAsExpected, Finish, Skip, Fail
    <2> QED BY <2>1, <1>w DEF TypeOK, CopiesOK, WorldOK
  <1> QED BY <1>1, <1>2

(* cleanupAwsResources and the removal of the finalizer keep the types *)
LEMMA CleanupTypes ==
  ASSUME TypeOK, Cleanup
  PROVE  TypeOK'
  <1> USE ConstantsAssumption
  <1>c. CopiesOK /\ mem.status \in Statuses
    BY DEF TypeOK, CopiesOK
  <1>s. /\ SetCond([mem.status EXCEPT !.rrs = FALSE], "record", "False") \in Statuses
        /\ [mem.status EXCEPT !.zone = None] \in Statuses
        /\ [mem.status EXCEPT !.vpce = None] \in Statuses
    BY <1>c, StatusUpdates DEF CondTypes, CondValues
  <1>w. WorldOK'
    <2>1. zones' \in [ZoneIds -> ZoneStates] /\ records' \in [ZoneIds -> VpceIds \cup {None}]
      BY DEF Cleanup, CleanupRecord, CleanupZoneKept, CleanupZoneUnsafe, CleanupZone,
         CleanupZoneEmptied, CleanupVpce, CleanupPoll, CleanupSg, RemoveFinalizer,
         TypeOK, ZoneStates, route53
    <2>2. vpces' \in [VpceIds -> VpceStates] /\ sgs' \in [SgIds -> SgStates]
      BY DEF Cleanup, CleanupRecord, CleanupZoneKept, CleanupZoneUnsafe, CleanupZone,
         CleanupZoneEmptied, CleanupVpce, CleanupPoll, CleanupSg, RemoveFinalizer,
         TypeOK, SgStates, VpceStates, LiveStates, ec2
    <2> QED
      BY <2>1, <2>2 DEF TypeOK, WorldOK, Cleanup, CleanupRecord, CleanupZoneKept,
         CleanupZoneUnsafe, CleanupZone, CleanupZoneEmptied, CleanupVpce, CleanupPoll,
         CleanupSg, RemoveFinalizer, world, ec2, route53
  <1>1. CASE RemoveFinalizer
    <2>1. CASE Unpersisted /\ Return("backoff")
      BY <2>1, <1>c, UnpersistedTypes, ReturnTypes, PcNames, <1>w DEF CopiesOK, TypeOK, WorldOK
    <2>2. CASE ~(Unpersisted /\ Return("backoff"))
      <3>1. /\ api.meta \in Metas
            /\ [api.meta EXCEPT !.finalizer = FALSE, !.exists = FALSE] \in Metas
        BY <1>c DEF CopiesOK, Metas
      <3>2. api' = [api EXCEPT !.meta = [api.meta EXCEPT !.finalizer = FALSE, !.exists = FALSE]]
        BY <1>1, <2>2 DEF RemoveFinalizer
      <3>3. api' \in [meta : Metas, status : Statuses]
        BY <3>1, <3>2, <1>c DEF CopiesOK
      <3>4. CopiesOK'
        BY <3>3, <2>2, <1>1, <1>c, ReturnTypes, PcNames DEF RemoveFinalizer, CopiesOK
      <3> QED BY <3>4, <1>w DEF TypeOK, CopiesOK, WorldOK
    <2> QED BY <2>1, <2>2
  <1>2. CASE CleanupSg
    <2>1. CASE Skip("clFinalizer")
      BY <2>1, <1>c, <1>w, NoWriteTypes, PcNames DEF Skip, TypeOK, CopiesOK, WorldOK
    <2>2. CASE ~Skip("clFinalizer")
      <3>1. NoWrite \/ (SpendFault /\ UNCHANGED cluster)
        BY <2>2, <1>2 DEF CleanupSg, NoWrite, cluster
      <3>2. CopiesOK'
        BY <3>1, <2>2, <1>2, <1>c, NoWriteTypes, PcNames DEF CleanupSg
      <3> QED BY <3>2, <1>w DEF TypeOK, CopiesOK, WorldOK
    <2> QED BY <2>1, <2>2
  <1>3. CASE ~RemoveFinalizer /\ ~CleanupSg
    <2>1. CopiesOK'
      BY <1>3, <1>c, <1>s, WriteTypes, NoWriteTypes, PcNames
         DEF Cleanup, CleanupRecord, CleanupZoneKept, CleanupZoneUnsafe, CleanupZone,
             CleanupZoneEmptied, CleanupVpce, CleanupPoll, Skip, CleanupFail
    <2> QED BY <2>1, <1>w DEF TypeOK, CopiesOK, WorldOK
  <1> QED BY <1>1, <1>2, <1>3

(* Failing calls and a restart of the operator keep the types *)
LEMMA FaultTypes ==
  ASSUME TypeOK, Fault
  PROVE  TypeOK'
  <1> USE ConstantsAssumption
  <1>c. CopiesOK /\ mem.status \in Statuses
    BY DEF TypeOK, CopiesOK
  <1>w. WorldOK'
    BY DEF TypeOK, WorldOK, Fault, ValidationFault, CleanupFault, Crash, world, ec2, route53
  <1>1. CASE Crash
    <2>1. CopiesOK'
      BY <1>1, <1>c, ReturnTypes, PcNames DEF Crash, CopiesOK, SpendFault
    <2> QED BY <2>1, <1>w DEF TypeOK, CopiesOK, WorldOK
  <1>2. CASE ValidationFault \/ CleanupFault
    <2>1. CopiesOK'
      BY <1>2, <1>c, NoWriteTypes, PcNames DEF ValidationFault, CleanupFault
    <2> QED BY <2>1, <1>w DEF TypeOK, CopiesOK, WorldOK
  <1> QED BY <1>1, <1>2 DEF Fault

(* The steps of users, of AWS and of the informer keep the types *)
LEMMA EnvironmentTypes ==
  ASSUME TypeOK, Environment
  PROVE  TypeOK'
  <1> USE ConstantsAssumption DEF cluster, world, local, ec2, route53, budgets
  <1>1. CASE CacheSync \/ CacheExpire
    BY <1>1 DEF TypeOK, CacheSync, CacheExpire
  <1>0. CASE UserEdit
    <2>1. edits' \in 0..MaxEdits
      BY <1>0 DEF TypeOK, UserEdit
    <2> QED BY <2>1, <1>0 DEF TypeOK, UserEdit
  <1>2. CASE UserDelete
    <2>1. /\ api.meta \in Metas
          /\ [api.meta EXCEPT !.deleting = TRUE, !.exists = api.meta.finalizer] \in Metas
      BY DEF TypeOK, Metas
    <2>2. api' = [api EXCEPT !.meta =
                    [api.meta EXCEPT !.deleting = TRUE, !.exists = api.meta.finalizer]]
      BY <1>2 DEF UserDelete
    <2> QED BY <2>1, <2>2, <1>2 DEF TypeOK, UserDelete
  <1>3. CASE EndpointProgress \/ EndpointTrouble
    <2>1. vpces' \in [VpceIds -> VpceStates]
      BY <1>3 DEF TypeOK, EndpointProgress, EndpointTrouble, VpceStates, LiveStates
    <2> QED BY <2>1, <1>3 DEF TypeOK, EndpointProgress, EndpointTrouble, SpendLoss
  <1>4. CASE SgLost
    BY <1>4, PresentTypes DEF TypeOK, SgLost, SpendLoss, SgStates
  <1>5. CASE ZoneLost
    BY <1>5, PresentTypes DEF TypeOK, ZoneLost, SpendLoss, ZoneStates
  <1>6. CASE ServiceTampered \/ SourceLost
    BY <1>6 DEF TypeOK, ServiceTampered, SourceLost, SpendLoss
  <1> QED BY <1>0, <1>1, <1>2, <1>3, <1>4, <1>5, <1>6 DEF Environment

(* The variables of VpcEndpointController keep their types. *)
THEOREM TypeCorrect == Spec => []TypeOK
  <1>1. Init => TypeOK
    <2> SUFFICES ASSUME Init PROVE TypeOK
      OBVIOUS
    <2>1. CopiesOK
      <3>1. api \in [meta : Metas, status : Statuses] /\ cache = api
        BY EmptyTypes DEF Init, Metas
      <3>2. mem \in [meta : Metas, status : Statuses, seen : VpceStates \cup {"none"}]
        BY EmptyTypes DEF Init, NoMem
      <3>3. pc \in Pcs /\ requeue \in Requeues /\ synced \in BOOLEAN /\ fresh \in BOOLEAN
        BY DEF Init, Pcs, Requeues
      <3>4. faults \in 0..MaxFaults
        BY ConstantsAssumption DEF Init
      <3> QED BY <3>1, <3>2, <3>3, <3>4 DEF CopiesOK
    <2>2. WorldOK
      BY ConstantsAssumption DEF Init, WorldOK, SgStates, VpceStates, ZoneStates
    <2> QED BY <2>1, <2>2, TypeSplit
  <1>2. TypeOK /\ [Next]_vars => TypeOK'
    <2> SUFFICES ASSUME TypeOK, [Next]_vars
                 PROVE  TypeOK'
      OBVIOUS
    <2>1. CASE UNCHANGED vars
      BY <2>1 DEF TypeOK, vars
    <2>2. CASE ReconcileNotFound
      BY <2>2 DEF TypeOK, ReconcileNotFound, vars
    <2>3. CASE Next /\ ~ReconcileNotFound
      BY <2>3, ParseTypes, ValidateSgTypes, ValidateVpceTypes, ZoneTypes, RecordTypes,
         ServiceTypes, CleanupTypes, FaultTypes, EnvironmentTypes
         DEF Next, Reconcile, ValidateDns
    <2> QED BY <2>1, <2>2, <2>3
  <1> QED BY <1>1, <1>2, PTL DEF Spec

-----------------------------------------------------------------------------
(* The copies of the resource and Reconcile's control *)

(* The ways a step of a validation or of the cleanup ends *)
Stored(s) ==
  /\ fresh
  /\ api'.meta = api.meta /\ api'.status = s /\ cache' = cache
  /\ synced' => synced /\ api' = api

Same == api' = api /\ cache' = cache /\ synced' = synced

Kept(s) == mem'.meta = mem.meta /\ mem'.status = s /\ fresh' = fresh

Returned == pc' = "idle" /\ mem' = NoMem /\ fresh' = FALSE

Outcome(s, n) ==
  \/ Stored(s) /\ Kept(s) /\ pc' = n
  \/ (Stored(s) \/ Same) /\ Returned
  \/ Same /\ Kept(mem.status) /\ pc' = n

(* An accepted status update stores the status and nothing else *)
LEMMA PersistStores ==
  ASSUME CopiesOK, NEW s, Persist(s)
  PROVE  Stored(s)
  <1>1. api'.meta = api.meta /\ api'.status = s /\ cache' = cache /\ fresh
    BY DEF CopiesOK, Persist
  <1>2. ASSUME synced' PROVE synced /\ s = api.status
    BY <1>2, Zenon DEF Persist
  <1>3. ASSUME s = api.status PROVE api' = api
    BY <1>3 DEF CopiesOK, Persist
  <1> QED BY <1>1, <1>2, <1>3 DEF Stored

(* Every way a step can end is an Outcome: stored and gone on, or returned *)
LEMMA StepOutcome ==
  ASSUME CopiesOK, NEW s, NEW n
  PROVE  /\ WriteThen(s, n) => Outcome(s, n)
         /\ CleanupWrite(s, n) => Outcome(s, n)
         /\ WriteThenFail(s) => Outcome(s, n)
         /\ Skip(n) => Outcome(mem.status, n)
         /\ NoWrite /\ Failed(s) => Outcome(mem.status, n)
         /\ SpendFault /\ UNCHANGED cluster /\ Failed(mem.status) => Outcome(mem.status, n)
         /\ SpendFault /\ UNCHANGED cluster /\ Continue(n, mem.status) => Outcome(mem.status, n)
         /\ \A q : NoWrite /\ Return(q) => Outcome(mem.status, n)
         /\ \A q : UNCHANGED cluster /\ Return(q) => Outcome(mem.status, n)
  <1>1. \A q : Return(q) => Returned
    BY DEF Return, Returned
  <1>2. \A t : Failed(t) => Returned
    BY <1>1, FailedReturns
  <1>3. \A t : Continue(n, t) => Kept(t) /\ pc' = n
    BY DEF Continue, Kept, CopiesOK
  <1>4. NoWrite \/ UNCHANGED cluster \/ Unpersisted => Same
    BY DEF NoWrite, Same, Unpersisted, cluster
  <1>5. Persist(s) => Stored(s)
    BY PersistStores
  <1> QED
    BY <1>1, <1>2, <1>3, <1>4, <1>5
       DEF WriteThen, CleanupWrite, WriteThenFail, Skip, Outcome

(* A step that leaves the info fields alone and stays in its phase *)
LEMMA OutcomeControl ==
  ASSUME ControlInv, NEW s, NEW n, Outcome(s, n), s.info = mem.status.info, pc # "idle",
         \/ pc \in ValidatePcs \cup {"done"} /\ n \in ValidatePcs \cup {"done"}
         \/ pc \in CleanupPcs /\ n \in CleanupPcs
  PROVE  ControlInv'
  <1>m. NoMem.meta.exists = FALSE /\ NoMem.meta.deleting = FALSE /\ NoMem.meta.finalizer = FALSE
    BY DEF NoMem, NoMeta
  <1>p. pc' \in ValidatePcs \cup {"done"} \cup CleanupPcs \/ pc' = "idle"
    BY DEF Outcome, Returned
  <1>1. VersionInv'
    BY <1>p DEF ControlInv, VersionInv, Outcome, Stored, Same, Kept, Returned, ValidatePcs,
       CleanupPcs
  <1>a. api'.meta = api.meta /\ cache' = cache
    BY DEF Outcome, Stored, Same
  <1>b. mem'.meta = mem.meta \/ mem' = NoMem
    BY DEF Outcome, Kept, Returned
  <1>2. MetaInv'
    BY <1>a, <1>b, <1>m DEF ControlInv, MetaInv, MetaCopy
  <1>3. InfoInv'
    <2>1. api'.status = api.status \/ (fresh /\ api'.status = s)
      BY DEF Outcome, Stored, Same
    <2>2. mem' = NoMem \/ mem'.status.info = mem.status.info
      BY DEF Outcome, Kept, Returned
    <2>3. fresh => api.status.info = mem.status.info
      BY DEF ControlInv, VersionInv
    <2>4. pc' \notin {"service", "client", "vpc"}
      BY <1>p DEF ValidatePcs, CleanupPcs
    <2> QED BY <2>1, <2>2, <2>3, <2>4, <1>a, <1>b, <1>m DEF ControlInv, InfoInv
  <1>4. PcInv'
    BY <1>b, <1>m DEF ControlInv, PcInv, Outcome, Kept, Returned, ValidatePcs, CleanupPcs
  <1> QED BY <1>1, <1>2, <1>3, <1>4 DEF ControlInv

(* Changing one field of the status keeps the others *)
LEMMA InfoKept ==
  ASSUME NEW s \in Statuses
  PROVE  /\ \A g : [s EXCEPT !.sg = g].info = s.info
         /\ \A v : [s EXCEPT !.vpce = v].info = s.info
         /\ \A z : [s EXCEPT !.zone = z].info = s.info
         /\ \A b : [s EXCEPT !.rrs = b].info = s.info
         /\ \A t, c : SetCond(s, t, c).info = s.info
         /\ \A t, c : Invalidated(SetCond(s, t, c)).info = s.info
  BY DEF Statuses, SetCond, Invalidated

InPhase(P) == \E s, n : s.info = mem.status.info /\ n \in P /\ Outcome(s, n)

(* A validation step stays among the validations or returns *)
LEMMA ValidateOutcome ==
  ASSUME TypeOK, ValidateSg \/ ValidateVpce \/ ValidateDns \/ Finish \/ ValidationFault
  PROVE  pc \in ValidatePcs \cup {"done"} /\ InPhase(ValidatePcs \cup {"done"})
  <1> DEFINE P == ValidatePcs \cup {"done"}
  <1>c. CopiesOK /\ mem.status \in Statuses
    BY DEF TypeOK, CopiesOK
  <1>p. pc \in P
    BY DEF ValidatePcs, ValidateSg, FindSecurityGroup, CreateSecurityGroup,
       ConfigureSecurityGroup, ValidateVpce, FindVpcEndpoint, CreateVpcEndpoint,
       EndpointWaiting, EndpointRejected, EndpointBad, EndpointAvailable, ValidateDns,
       ZoneNotConfigured, ZoneAutoDiscovered, ZoneById, ZoneRecorded, ZoneByName, ZoneTags,
       RecordSkipped, RecordNoZone, RecordNotReady, RecordUpsert, ServiceNotNeeded,
       ServiceNoRecord, ServiceMissing, ServiceFixed, ServiceError, ServiceAsExpected,
       Finish, ValidationFault
  <1>n. /\ "sgRules" \in P /\ "vpce" \in P /\ "vpceState" \in P /\ DnsEntry \in P
        /\ "tags" \in P /\ "record" \in P /\ "service2" \in P /\ "done" \in P
    BY DEF ValidatePcs, DnsEntry
  <1> HIDE DEF P
  <1>w. ASSUME NEW s, s.info = mem.status.info, NEW n \in P,
               WriteThen(s, n) \/ WriteThenFail(s)
        PROVE  InPhase(P)
    BY <1>w, <1>c, StepOutcome DEF InPhase
  <1>k. ASSUME NEW n \in P, \/ Skip(n)
                            \/ SpendFault /\ UNCHANGED cluster /\ Continue(n, mem.status)
        PROVE  InPhase(P)
    BY <1>k, <1>c, StepOutcome DEF InPhase
  <1>f. ASSUME \/ Fail
               \/ NoWrite /\ Failed(Invalidated(mem.status))
               \/ SpendFault /\ UNCHANGED cluster /\ Failed(mem.status)
               \/ NoWrite /\ Return("15m")
        PROVE  InPhase(P)
    BY <1>f, <1>c, <1>n, StepOutcome DEF InPhase, Fail
  <1> SUFFICES InPhase(P)
    BY <1>p DEF P
  <1>1. CASE ValidateSg
    <2>1. CASE FindSecurityGroup
      BY <2>1, <1>w, <1>n, <1>c, InfoKept DEF FindSecurityGroup
    <2>2. CASE CreateSecurityGroup
      <3>1. CASE \E g \in SgIds : WriteThenFail([mem.status EXCEPT !.sg = g])
        BY <3>1, <1>w, <1>n, <1>c, InfoKept
      <3>2. CASE ~\E g \in SgIds : WriteThenFail([mem.status EXCEPT !.sg = g])
        BY <3>2, <2>2, <1>f DEF CreateSecurityGroup
      <3> QED BY <3>1, <3>2
    <2>3. CASE ConfigureSecurityGroup
      BY <2>3, <1>w, <1>f, <1>n, <1>c, InfoKept DEF ConfigureSecurityGroup
    <2> QED BY <1>1, <2>1, <2>2, <2>3 DEF ValidateSg
  <1>2. CASE ValidateVpce
    <2>1. ASSUME NEW v, NEW st, RecordVpcEndpoint(v, st)
          PROVE  InPhase(P)
      <3> DEFINE s == [mem.status EXCEPT !.vpce = v]
      <3>1. s.info = mem.status.info
        BY <1>c, InfoKept
      <3>2. CASE Unpersisted /\ Failed(s)
        BY <3>2, <3>1, <1>w, <1>n DEF WriteThenFail
      <3>3. CASE ~(Unpersisted /\ Failed(s))
        <4>1. Stored(s) /\ Kept(s) /\ pc' = "vpceState"
          BY <3>3, <2>1, <1>c, PersistStores DEF RecordVpcEndpoint, Kept, CopiesOK
        <4> QED BY <4>1, <3>1, <1>n DEF InPhase, Outcome
      <3> QED BY <3>2, <3>3
    <2> QED
      BY <1>2, <2>1, <1>w, <1>f, <1>n, <1>c, InfoKept
         DEF ValidateVpce, FindVpcEndpoint, CreateVpcEndpoint, EndpointWaiting,
             EndpointRejected, EndpointBad, EndpointAvailable
  <1>3. CASE ServiceError
    <2> DEFINE s == SetCond(mem.status, "svc", "False")
    <2>1. s.info = mem.status.info
      BY <1>c, InfoKept
    <2>2. Returned
      BY <1>3, FailedReturns DEF ServiceError, Return, Returned
    <2>3. api'.meta = api.meta /\ api'.status = s /\ cache' = cache /\ fresh
      BY <1>3, <1>c DEF CopiesOK, ServiceError
    <2>4. ASSUME synced' PROVE synced /\ s = api.status
      BY <1>3, <2>4, Zenon DEF ServiceError
    <2>5. ASSUME s = api.status PROVE api' = api
      BY <1>3, <2>5, <1>c DEF CopiesOK, ServiceError
    <2>6. Stored(s)
      BY <2>3, <2>4, <2>5 DEF Stored
    <2> QED BY <2>1, <2>2, <2>6, <1>n DEF InPhase, Outcome
  <1>4. CASE (ValidateDns /\ ~ServiceError) \/ Finish \/ ValidationFault
    <2>1. ASSUME NEW z, NEW n \in P, StoreZone(z, n)
          PROVE  InPhase(P)
      BY <2>1, <1>w, <1>k, <1>c, InfoKept DEF StoreZone
    <2>2. CASE \/ ZoneNotConfigured \/ ZoneAutoDiscovered \/ ZoneById
               \/ ZoneRecorded \/ ZoneByName \/ ZoneTags
      <3>1. CASE ZoneNotConfigured \/ ZoneAutoDiscovered \/ ZoneById
        BY <3>1, <2>1, <1>k, <1>f, <1>n DEF ZoneNotConfigured, ZoneAutoDiscovered, ZoneById
      <3>2. CASE ZoneRecorded \/ ZoneTags
        BY <3>2, <1>w, <1>k, <1>f, <1>n, <1>c, InfoKept DEF ZoneRecorded, ZoneTags
      <3>3. CASE ZoneByName
        BY <3>3, <2>1, <1>f, <1>n DEF ZoneByName
      <3> QED BY <2>2, <3>1, <3>2, <3>3
    <2>3. CASE RecordSkipped \/ RecordNoZone \/ RecordNotReady \/ RecordUpsert
      <3>1. CASE RecordSkipped \/ RecordNoZone
        BY <3>1, <1>k, <1>f, <1>n DEF RecordSkipped, RecordNoZone
      <3>2. CASE RecordNotReady
        BY <3>2, <1>k, <1>n DEF RecordNotReady, Skip
      <3>3. CASE RecordUpsert
        <4> DEFINE s == SetCond([mem.status EXCEPT !.rrs = TRUE], "record", "True")
        <4>1. s.info = mem.status.info
          BY <1>c DEF Statuses, SetCond
        <4>2. WriteThen(s, "service2") \/ Fail
          BY <3>3 DEF RecordUpsert
        <4> QED BY <4>1, <4>2, <1>w, <1>f, <1>n
      <3> QED BY <2>3, <3>1, <3>2, <3>3
    <2>4. CASE \/ ServiceNotNeeded \/ ServiceNoRecord \/ ServiceMissing
               \/ ServiceFixed \/ ServiceAsExpected
      BY <2>4, <1>w, <1>k, <1>f, <1>n, <1>c, InfoKept
         DEF ServiceNotNeeded, ServiceNoRecord, ServiceMissing, ServiceFixed,
             ServiceAsExpected
    <2>5. CASE Finish \/ ValidationFault
      BY <2>5, <1>f DEF Finish, ValidationFault
    <2> QED BY <1>4, <2>2, <2>3, <2>4, <2>5 DEF ValidateDns
  <1> QED BY <1>1, <1>2, <1>3, <1>4

(* A cleanup step stays in the cleanup or returns *)
LEMMA CleanupOutcome ==
  ASSUME TypeOK, (Cleanup /\ ~RemoveFinalizer) \/ CleanupFault
  PROVE  pc \in CleanupPcs /\ InPhase(CleanupPcs)
  <1>c. CopiesOK /\ mem.status \in Statuses
    BY DEF TypeOK, CopiesOK
  <1>p. pc \in CleanupPcs
    BY DEF CleanupPcs, Cleanup, CleanupRecord, CleanupZoneKept, CleanupZoneUnsafe,
       CleanupZone, CleanupZoneEmptied, CleanupVpce, CleanupPoll, CleanupSg, CleanupFault
  <1>n. /\ "clZone" \in CleanupPcs /\ "clVpce" \in CleanupPcs /\ "clPoll" \in CleanupPcs
        /\ "clSg" \in CleanupPcs /\ "clFinalizer" \in CleanupPcs
    BY DEF CleanupPcs
  <1>w. ASSUME NEW s, s.info = mem.status.info, NEW n \in CleanupPcs, CleanupWrite(s, n)
        PROVE  InPhase(CleanupPcs)
    BY <1>w, <1>c, StepOutcome DEF InPhase
  <1>k. ASSUME NEW n \in CleanupPcs, Skip(n)
        PROVE  InPhase(CleanupPcs)
    BY <1>k, <1>c, StepOutcome DEF InPhase
  <1>f. ASSUME NEW q, \/ NoWrite /\ Return(q)
                      \/ UNCHANGED cluster /\ Return(q)
        PROVE  InPhase(CleanupPcs)
    BY <1>f, <1>c, <1>n, StepOutcome DEF InPhase
  <1>1. CASE CleanupRecord
    <2> DEFINE s == SetCond([mem.status EXCEPT !.rrs = FALSE], "record", "False")
    <2>1. s.info = mem.status.info
      BY <1>c DEF Statuses, SetCond
    <2>2. CleanupWrite(s, "clZone") \/ Skip("clZone") \/ CleanupFail
      BY <1>1 DEF CleanupRecord
    <2> QED BY <2>1, <2>2, <1>w, <1>k, <1>f, <1>n, <1>p DEF CleanupFail
  <1>2. CASE CleanupZoneKept \/ CleanupZoneUnsafe \/ CleanupZoneEmptied
    BY <1>2, <1>k, <1>f, <1>n, <1>p
       DEF CleanupZoneKept, CleanupZoneUnsafe, CleanupZoneEmptied, CleanupFail
  <1>3. CASE CleanupZone
    BY <1>3, <1>w, <1>k, <1>n, <1>p, <1>c, InfoKept DEF CleanupZone
  <1>4. CASE CleanupVpce
    BY <1>4, <1>w, <1>k, <1>n, <1>p, <1>c, InfoKept DEF CleanupVpce
  <1>5. CASE CleanupPoll
    BY <1>5, <1>w, <1>f, <1>n, <1>p, <1>c, InfoKept DEF CleanupPoll, CleanupFail
  <1>6. CASE CleanupSg \/ CleanupFault
    BY <1>6, <1>k, <1>f, <1>n, <1>p DEF CleanupSg, CleanupFault, cluster
  <1> QED BY <1>1, <1>2, <1>3, <1>4, <1>5, <1>6 DEF Cleanup


(* parseClusterInfo: a deleting copy already has every info field, so what *)
(* it does to the status then changes nothing                              *)
LEMMA ParseOutcome ==
  ASSUME TypeOK, ControlInv, NEW s \in Statuses, NEW n \in Pcs, NEW c \in BOOLEAN,
         mem.status.info \subseteq s.info, pc # "idle",
         mem.status.info = InfoFields => s = mem.status,
         pc' \in ValidatePcs => ~mem.meta.deleting /\ mem.meta.finalizer,
         pc' = "clRecord" => mem.meta.deleting,
         n \in {"service", "client", "vpc", "finalizer", "sg", "clRecord"},
         n = "service" => "infraId" \in s.info,
         n \in {"client", "vpc"} => {"infraId", "serviceName"} \subseteq s.info,
         n = "finalizer" => /\ ~mem.meta.deleting /\ ~mem.meta.finalizer
                            /\ s.info = InfoFields,
         \/ ParseWrite(s, n, c)
         \/ s = mem.status /\ Skip(n)
         \/ s = mem.status /\ NoWrite /\ ParseFailed(s, c)
         \/ s = mem.status /\ SpendFault /\ UNCHANGED cluster /\ ParseFailed(s, c)
  PROVE  ControlInv'
  <1>c. CopiesOK
    BY DEF TypeOK, CopiesOK
  <1>i. InfoFields = {"infraId", "serviceName", "vpcId"} /\ s.info \subseteq InfoFields
    BY DEF InfoFields, Statuses
  <1>f. mem.meta.finalizer => s = mem.status
    BY DEF ControlInv, InfoInv
  <1>d. mem.meta.deleting => s = mem.status
    BY <1>f DEF ControlInv, MetaInv, MetaCopy, VersionInv
  <1>k. \A k : Continue(k, s) => Kept(s) /\ pc' = k
    BY <1>c DEF Continue, Kept, CopiesOK
  <1>o. \/ Stored(s) /\ Kept(s) /\ pc' = n
        \/ Same /\ Returned
        \/ Same /\ Kept(mem.status) /\ s = mem.status /\ pc' \in {n, "clRecord"}
    <2>1. CASE ParseWrite(s, n, c)
      <3>1. CASE Persist(s) /\ Continue(n, s)
        BY <3>1, <1>c, <1>k, PersistStores
      <3>2. CASE Unpersisted /\ ParseFailed(s, c)
        BY <3>2, <1>k, <1>d DEF Unpersisted, ParseFailed, cluster, Same, Return, Returned
      <3> QED BY <2>1, <3>1, <3>2 DEF ParseWrite
    <2>2. CASE ~ParseWrite(s, n, c)
      <3>1. Same /\ s = mem.status
        BY <2>2 DEF Skip, NoWrite, Same, cluster
      <3> QED BY <2>2, <3>1, <1>k DEF Skip, ParseFailed, Return, Returned
    <2> QED BY <2>1, <2>2
  <1>m. NoMem.meta.exists = FALSE /\ NoMem.meta.deleting = FALSE /\ NoMem.meta.finalizer = FALSE
    BY DEF NoMem, NoMeta
  <1>a. /\ api'.meta = api.meta /\ cache' = cache
        /\ mem'.meta = mem.meta \/ mem' = NoMem
    BY <1>o DEF Stored, Same, Kept, Returned
  <1>p. \/ pc' \in {n, "clRecord"} /\ mem'.meta = mem.meta /\ mem'.status = s
        \/ Returned
    BY <1>o DEF Kept
  <1>1. VersionInv'
    BY <1>o DEF ControlInv, VersionInv, Stored, Same, Kept, Returned
  <1>2. MetaInv'
    BY <1>a, <1>m DEF ControlInv, MetaInv, MetaCopy
  <1>3. InfoInv'
    <2>1. api'.status = api.status \/ (api'.status = s /\ fresh)
      BY <1>o DEF Stored, Same
    <2>2. mem.meta.finalizer => s.info = InfoFields
      BY <1>f DEF ControlInv, InfoInv
    <2>3. fresh /\ api.meta.finalizer => s.info = InfoFields
      BY <2>2 DEF ControlInv, VersionInv
    <2> QED BY <2>1, <2>2, <2>3, <1>a, <1>m, <1>p DEF ControlInv, InfoInv, Returned
  <1>4. PcInv'
    BY <1>p, <1>m, <1>a DEF PcInv, Returned, ValidatePcs, CleanupPcs
  <1> QED BY <1>1, <1>2, <1>3, <1>4 DEF ControlInv

(* Where parseClusterInfo's steps lead *)
LEMMA ParseNext ==
  ASSUME NEW s, NEW n, NEW c,
         \/ ParseWrite(s, n, c) \/ Skip(n)
         \/ ParseFailed(s, c)
  PROVE  pc' = n \/ pc' = "idle" \/ (pc' = "clRecord" /\ mem.meta.deleting)
  BY DEF ParseWrite, Skip, ParseFailed, Continue, Return

(* parseClusterInfo and addFinalizer keep ControlInv *)
LEMMA ParseControl ==
  ASSUME TypeOK, ControlInv, Parse
  PROVE  ControlInv'
  <1>c. CopiesOK /\ mem.status \in Statuses
    BY DEF TypeOK, CopiesOK
  <1> DEFINE plus(f) == [mem.status EXCEPT !.info = @ \cup {f}]
  <1>s. \A f \in InfoFields : /\ plus(f) \in Statuses
                              /\ plus(f).info = mem.status.info \cup {f}
                              /\ mem.status.info = InfoFields => plus(f) = mem.status
    <2> SUFFICES ASSUME NEW f \in InfoFields
                 PROVE  /\ plus(f) \in Statuses
                        /\ plus(f).info = mem.status.info \cup {f}
                        /\ mem.status.info = InfoFields => plus(f) = mem.status
      OBVIOUS
    <2>1. plus(f) \in Statuses
      BY <1>c, StatusUpdates
    <2>2. plus(f).info = mem.status.info \cup {f}
      BY <1>c DEF Statuses
    <2>3. ASSUME mem.status.info = InfoFields PROVE plus(f) = mem.status
      <3>1. mem.status.info \cup {f} = mem.status.info
        BY <2>3
      <3> QED BY <3>1, <1>c DEF Statuses
    <2> QED BY <2>1, <2>2, <2>3
  <1>i. InfoFields = {"infraId", "serviceName", "vpcId"} /\ mem.status.info \subseteq InfoFields
    BY <1>c DEF InfoFields, Statuses
  <1>p. /\ "service" \in Pcs /\ "client" \in Pcs /\ "vpc" \in Pcs /\ AfterParse \in Pcs
        /\ "service" \notin ValidatePcs /\ "client" \notin ValidatePcs
        /\ "vpc" \notin ValidatePcs /\ "clRecord" \notin ValidatePcs /\ "idle" \notin ValidatePcs
    BY DEF Pcs, AfterParse, CleanupPcs, ValidatePcs
  <1> HIDE DEF plus
  <1>f. ASSUME pc # "idle", NoWrite \/ (SpendFault /\ UNCHANGED cluster),
               NEW c \in BOOLEAN, ParseFailed(mem.status, c)
        PROVE  ControlInv'
    <2>1. pc' = "idle" \/ (pc' = "clRecord" /\ mem.meta.deleting)
      BY <1>f DEF ParseFailed, Continue, Return
    <2>2. "clRecord" \in Pcs
      BY DEF Pcs, CleanupPcs
    <2> QED BY <2>1, <2>2, <1>f, <1>c, <1>i, <1>p, ParseOutcome
  <1>1. CASE ParseInfra
    <2>0. pc # "idle"
      BY <1>1 DEF ParseInfra
    <2>1. CASE ParseWrite(plus("infraId"), "service", FALSE)
      <3>1. pc' = "service" \/ pc' = "idle" \/ (pc' = "clRecord" /\ mem.meta.deleting)
        BY <2>1, ParseNext
      <3> QED BY <3>1, <2>0, <2>1, <1>s, <1>i, <1>p, ParseOutcome
    <2>2. CASE ~ParseWrite(plus("infraId"), "service", FALSE)
      <3>1. \/ Skip("service") /\ "infraId" \in mem.status.info
            \/ NoWrite /\ ParseFailed(mem.status, FALSE)
        BY <2>2, <1>1 DEF ParseInfra, plus
      <3>2. CASE Skip("service") /\ "infraId" \in mem.status.info
        <4>1. pc' = "service"
          BY <3>2 DEF Skip, Continue
        <4> QED BY <4>1, <3>2, <2>0, <1>c, <1>i, <1>p, ParseOutcome
      <3> QED BY <2>0, <3>1, <3>2, <1>f
    <2> QED BY <2>1, <2>2
  <1>2. CASE ParseService
    <2>0. pc # "idle" /\ "infraId" \in mem.status.info
      BY <1>2 DEF ParseService, ControlInv, InfoInv
    <2>1. CASE ParseWrite(plus("serviceName"), "client", FALSE)
      <3>1. pc' = "client" \/ pc' = "idle" \/ (pc' = "clRecord" /\ mem.meta.deleting)
        BY <2>1, ParseNext
      <3>3. /\ plus("serviceName") \in Statuses
            /\ plus("serviceName").info = mem.status.info \cup {"serviceName"}
            /\ mem.status.info = InfoFields => plus("serviceName") = mem.status
        BY <1>s, <1>i
      <3>4. mem.status.info \subseteq plus("serviceName").info
        BY <3>3
      <3> QED BY <3>1, <3>3, <3>4, <2>0, <2>1, <1>i, <1>p, ParseOutcome
    <2>2. CASE Skip("client") /\ "serviceName" \in mem.status.info
      <3>1. pc' = "client"
        BY <2>2 DEF Skip, Continue
      <3> QED BY <3>1, <2>2, <2>0, <1>c, <1>i, <1>p, ParseOutcome
    <2> QED BY <2>0, <2>1, <2>2, <1>f, <1>2 DEF ParseService, plus
  <1>3. CASE ParseClient
    <2>0. pc # "idle" /\ {"infraId", "serviceName"} \subseteq mem.status.info
      BY <1>3 DEF ParseClient, ControlInv, InfoInv
    <2>1. CASE Skip("vpc")
      <3>1. pc' = "vpc"
        BY <2>1 DEF Skip, Continue
      <3> QED BY <3>1, <2>1, <2>0, <1>c, <1>i, <1>p, ParseOutcome
    <2> QED BY <2>0, <2>1, <1>f, <1>3 DEF ParseClient
  <1>4. CASE ParseVpc
    <2>0. pc # "idle" /\ {"infraId", "serviceName"} \subseteq mem.status.info
      BY <1>4 DEF ParseVpc, ControlInv, InfoInv
    <2>n. /\ AfterParse = "finalizer" => ~mem.meta.deleting /\ ~mem.meta.finalizer
          /\ AfterParse = "sg" => ~mem.meta.deleting /\ mem.meta.finalizer
          /\ AfterParse = "clRecord" => mem.meta.deleting
          /\ AfterParse \in {"finalizer", "sg", "clRecord"}
      BY <1>c DEF AfterParse, CopiesOK, Metas
    <2>v. "finalizer" \notin ValidatePcs
      BY DEF ValidatePcs
    <2>1. CASE ParseWrite(plus("vpcId"), AfterParse, TRUE)
      <3>1. pc' = AfterParse \/ pc' = "idle" \/ (pc' = "clRecord" /\ mem.meta.deleting)
        BY <2>1, ParseNext
      <3>2. plus("vpcId").info = InfoFields
        BY <2>0, <1>s, <1>i
      <3>3. /\ plus("vpcId") \in Statuses
            /\ plus("vpcId").info = mem.status.info \cup {"vpcId"}
            /\ mem.status.info = InfoFields => plus("vpcId") = mem.status
        BY <1>s, <1>i
      <3>4. mem.status.info \subseteq plus("vpcId").info
        BY <3>3
      <3> QED BY <3>1, <3>2, <2>n, <2>v, <3>3, <3>4, <2>0, <2>1, <1>i, <1>p, ParseOutcome
    <2>2. CASE Skip(AfterParse) /\ "vpcId" \in mem.status.info
      <3>1. pc' = AfterParse
        BY <2>2 DEF Skip, Continue
      <3>2. mem.status.info = InfoFields
        BY <2>0, <2>2, <1>i
      <3> QED BY <3>1, <3>2, <2>n, <2>v, <2>2, <2>0, <1>c, <1>i, <1>p, ParseOutcome
    <2> QED BY <2>0, <2>1, <2>2, <1>f, <1>4 DEF ParseVpc, plus
  <1>5. CASE AddFinalizer
    <2>m. NoMem.meta.exists = FALSE /\ NoMem.meta.deleting = FALSE /\ NoMem.meta.finalizer = FALSE
      BY DEF NoMem, NoMeta
    <2>1. CASE Unpersisted /\ Return("backoff")
      <3>1. Same /\ Returned
        BY <2>1 DEF Unpersisted, Return, Same, Returned, cluster
      <3> QED
        BY <3>1, <2>m DEF ControlInv, VersionInv, MetaInv, MetaCopy, InfoInv, PcInv, Same,
           Returned, ValidatePcs, CleanupPcs
    <2>2. CASE ~(Unpersisted /\ Return("backoff"))
      <3>1. /\ fresh /\ pc = "finalizer" /\ pc' = "sg" /\ cache' = cache
            /\ synced' = FALSE /\ fresh' = fresh
        BY <2>2, <1>5 DEF AddFinalizer
      <3>2. api' = [api EXCEPT !.meta = [api.meta EXCEPT !.finalizer = TRUE]]
        BY <2>2, <1>5 DEF AddFinalizer
      <3>3. /\ api'.status = api.status
            /\ api'.meta.finalizer = TRUE
            /\ api'.meta.exists = api.meta.exists
            /\ api'.meta.deleting = api.meta.deleting
        BY <3>2, <1>c DEF CopiesOK, Metas
      <3>4. mem'.meta = api'.meta /\ mem'.status = api'.status
        BY <2>2, <1>5, <1>c DEF AddFinalizer, CopiesOK
      <3>5. /\ mem.meta.exists /\ mem.meta = api.meta /\ mem.status = api.status
            /\ ~mem.meta.deleting /\ mem.status.info = InfoFields
        BY <3>1 DEF ControlInv, VersionInv, PcInv
      <3>6. VersionInv' /\ MetaInv'
        BY <3>1, <3>3, <3>4, <3>5 DEF ControlInv, VersionInv, MetaInv, MetaCopy
      <3>7. InfoInv' /\ PcInv'
        BY <3>1, <3>3, <3>4, <3>5
           DEF ControlInv, InfoInv, PcInv, ValidatePcs, CleanupPcs
      <3> QED BY <3>6, <3>7 DEF ControlInv
    <2> QED BY <2>1, <2>2
  <1> QED BY <1>1, <1>2, <1>3, <1>4, <1>5 DEF Parse

(* The start and the end of Reconcile, a restart and the environment keep it *)
LEMMA RestControl ==
  ASSUME TypeOK, ControlInv, StartReconcile \/ RemoveFinalizer \/ Crash \/ Environment
  PROVE  ControlInv'
  <1>c. CopiesOK
    BY DEF TypeOK, CopiesOK
  <1>m. NoMem.meta.exists = FALSE /\ NoMem.meta.deleting = FALSE /\ NoMem.meta.finalizer = FALSE
    BY DEF NoMem, NoMeta
  <1>1. CASE StartReconcile
    <2>1. /\ mem'.meta = cache.meta /\ mem'.status = cache.status /\ pc' = "infra"
          /\ fresh' = synced /\ Same /\ cache.meta.exists
      BY <1>1 DEF StartReconcile, cluster, Same
    <2> QED
      BY <2>1 DEF Same, ControlInv, VersionInv, MetaInv, MetaCopy, InfoInv, PcInv, ValidatePcs,
         CleanupPcs
  <1>2. CASE RemoveFinalizer
    <2>1. CASE Unpersisted /\ Return("backoff")
      <3>1. Same /\ Returned
        BY <2>1 DEF Unpersisted, Return, Same, Returned, cluster
      <3> QED
        BY <3>1, <1>m DEF ControlInv, VersionInv, MetaInv, MetaCopy, InfoInv, PcInv, Same,
           Returned, ValidatePcs, CleanupPcs
    <2>2. CASE ~(Unpersisted /\ Return("backoff"))
      <3>1. fresh /\ pc = "clFinalizer" /\ cache' = cache /\ synced' = FALSE /\ Returned
        BY <2>2, <1>2 DEF RemoveFinalizer, Return, Returned
      <3>2. api' = [api EXCEPT !.meta =
                      [api.meta EXCEPT !.finalizer = FALSE, !.exists = FALSE]]
        BY <2>2, <1>2 DEF RemoveFinalizer
      <3>3. /\ api'.meta.finalizer = FALSE /\ api'.meta.exists = FALSE
            /\ api'.meta.deleting = api.meta.deleting
        BY <3>2, <1>c DEF CopiesOK, Metas
      <3>4. mem.meta.deleting /\ mem.meta = api.meta
        BY <3>1 DEF ControlInv, VersionInv, PcInv, CleanupPcs
      <3>5. VersionInv' /\ MetaInv'
        BY <3>1, <3>3, <3>4, <1>m DEF Returned, ControlInv, VersionInv, MetaInv, MetaCopy
      <3>6. InfoInv' /\ PcInv'
        BY <3>1, <3>3, <1>m
           DEF Returned, ControlInv, InfoInv, PcInv, ValidatePcs, CleanupPcs
      <3> QED BY <3>5, <3>6 DEF ControlInv
    <2> QED BY <2>1, <2>2
  <1>3. CASE Crash
    <2>1. api' = api /\ cache' = api /\ synced' = TRUE /\ Returned
      BY <1>3 DEF Crash, Return, Returned
    <2> QED
      BY <2>1, <1>m DEF ControlInv, VersionInv, MetaInv, MetaCopy, InfoInv, PcInv, Returned,
         ValidatePcs, CleanupPcs
  <1>4. CASE CacheSync
    <2>1. api' = api /\ cache' = api /\ UNCHANGED local
      BY <1>4 DEF CacheSync
    <2> QED
      BY <2>1 DEF ControlInv, VersionInv, MetaInv, MetaCopy, InfoInv, PcInv, local
  <1>5. CASE UserEdit
    <2>1. /\ api' = api /\ cache' = cache /\ pc' = pc /\ mem' = mem
          /\ fresh' = FALSE /\ synced' = FALSE
      BY <1>5 DEF UserEdit
    <2> QED
      BY <2>1 DEF ControlInv, VersionInv, MetaInv, MetaCopy, InfoInv, PcInv
  <1>6. CASE UserDelete
    <2>1. /\ cache' = cache /\ pc' = pc /\ mem' = mem /\ fresh' = FALSE /\ synced' = FALSE
          /\ api.meta.exists
      BY <1>6 DEF UserDelete
    <2>2. api' = [api EXCEPT !.meta =
                    [api.meta EXCEPT !.deleting = TRUE, !.exists = api.meta.finalizer]]
      BY <1>6 DEF UserDelete
    <2>3. /\ api'.meta.finalizer = api.meta.finalizer
          /\ api'.meta.exists = api.meta.finalizer
          /\ api'.meta.deleting = TRUE
          /\ api'.status = api.status
      BY <2>2, <1>c DEF CopiesOK, Metas
    <2>4. VersionInv' /\ MetaInv'
      BY <2>1, <2>3 DEF ControlInv, VersionInv, MetaInv, MetaCopy
    <2>5. InfoInv' /\ PcInv'
      BY <2>1, <2>3 DEF ControlInv, InfoInv, PcInv
    <2> QED BY <2>4, <2>5 DEF ControlInv
  <1>7. CASE /\ ~(CacheSync \/ UserEdit \/ UserDelete)
             /\ Environment
    <2>1. UNCHANGED <<cluster, local>>
      BY <1>7 DEF Environment, CacheExpire, EndpointProgress, EndpointTrouble, SgLost, ZoneLost,
         ServiceTampered, SourceLost
    <2> QED
      BY <2>1 DEF ControlInv, VersionInv, MetaInv, MetaCopy, InfoInv, PcInv, cluster, local
  <1> QED BY <1>1, <1>2, <1>3, <1>4, <1>5, <1>6, <1>7

(* The copies of the resource, their versions and Reconcile's control agree *)
(* in every reachable state.                                               *)
THEOREM ControlCorrect == Spec => []ControlInv
  <1>1. Init => ControlInv
    BY DEF Init, ControlInv, VersionInv, MetaInv, MetaCopy, InfoInv, PcInv, NoMem, NoMeta,
       ValidatePcs, CleanupPcs
  <1>2. TypeOK /\ ControlInv /\ [Next]_vars => ControlInv'
    <2> SUFFICES ASSUME TypeOK, ControlInv, [Next]_vars
                 PROVE  ControlInv'
      OBVIOUS
    <2>1. CASE UNCHANGED vars \/ ReconcileNotFound
      BY <2>1 DEF ControlInv, VersionInv, MetaInv, MetaCopy, InfoInv, PcInv,
         ReconcileNotFound, vars
    <2>2. CASE \/ ValidateSg \/ ValidateVpce \/ ValidateDns \/ Finish \/ ValidationFault
               \/ Cleanup /\ ~RemoveFinalizer
               \/ CleanupFault
      <3>1. pc # "idle"
        BY <2>2, ValidateOutcome, CleanupOutcome DEF ValidatePcs, CleanupPcs
      <3> QED BY <2>2, <3>1, ValidateOutcome, CleanupOutcome, OutcomeControl DEF InPhase
    <2>3. CASE Parse
      BY <2>3, ParseControl
    <2>4. CASE StartReconcile \/ RemoveFinalizer \/ Crash \/ Environment
      BY <2>4, RestControl
    <2> QED BY <2>1, <2>2, <2>3, <2>4 DEF Next, Reconcile, Fault, Cleanup
  <1> QED BY <1>1, <1>2, TypeCorrect, PTL DEF Spec

(* Every resource with the finalizer has all its cluster info stored. *)
THEOREM InfoStored == Spec => []InfoBeforeFinalizer
  <1>1. ControlInv => InfoBeforeFinalizer
    BY DEF ControlInv, InfoInv, InfoBeforeFinalizer
  <1> QED BY <1>1, ControlCorrect, PTL

=============================================================================
