-------------------- MODULE VpcEndpointRelease_proofs --------------------
(***************************************************************************)
(* What VpcEndpointController creates and releases in AWS: proofs, for all *)
(* ids, setups and bounds, on top of the invariants of the resource's      *)
(* copies proved in VpcEndpointController_proofs.                          *)
(***************************************************************************)
EXTENDS VpcEndpointController_proofs

(* A step that creates nothing *)
Shrinks ==
  /\ SgPresent' \subseteq SgPresent
  /\ VpceVisible' \subseteq VpceVisible /\ VpceLive' \subseteq VpceLive
  /\ ZonePresent' \subseteq ZonePresent

Creates == CreateSecurityGroup \/ CreateVpcEndpoint \/ ZoneByName

(* A step that leaves AWS alone creates nothing there *)
LEMMA SameAws ==
  ASSUME UNCHANGED <<ec2, route53>>
  PROVE  Shrinks
  BY DEF Shrinks, ec2, route53, SgPresent, VpceVisible, VpceLive, ZonePresent

(* A validation step creates in AWS only through the three create calls *)
LEMMA ValidationShrinks ==
  ASSUME TypeOK,
         \/ ValidateSg \/ ValidateVpce \/ ValidateDns \/ Finish \/ ValidationFault
  PROVE  Shrinks \/ Creates
  <1>1. CASE ConfigureSecurityGroup
    BY <1>1 DEF ConfigureSecurityGroup, Shrinks, SgPresent, VpceVisible, VpceLive, ZonePresent,
       TypeOK, route53
  <1>2. CASE EndpointRejected
    BY <1>2 DEF EndpointRejected, Shrinks, SgPresent, VpceVisible, VpceLive, ZonePresent,
       TypeOK, route53, LiveStates
  <1>3. CASE EndpointAvailable \/ RecordUpsert
    BY <1>3 DEF EndpointAvailable, RecordUpsert, Shrinks, SgPresent, VpceVisible, VpceLive,
       ZonePresent, route53, ec2
  <1>4. CASE ~(ConfigureSecurityGroup \/ EndpointRejected \/ EndpointAvailable \/ RecordUpsert)
    <2>1. Creates \/ UNCHANGED <<ec2, route53>>
      BY <1>4 DEF Creates, ValidateSg, FindSecurityGroup, ValidateVpce, FindVpcEndpoint,
         EndpointWaiting, EndpointBad, ValidateDns, ZoneNotConfigured, ZoneAutoDiscovered,
         ZoneById, ZoneRecorded, ZoneTags, RecordSkipped, RecordNoZone, RecordNotReady,
         ServiceNotNeeded, ServiceNoRecord, ServiceMissing, ServiceFixed, ServiceError,
         ServiceAsExpected, Finish, ValidationFault
    <2> QED BY <2>1, SameAws
  <1> QED BY <1>1, <1>2, <1>3, <1>4

(* The cleanup creates nothing in AWS *)
LEMMA CleanupShrinks ==
  ASSUME TypeOK, Cleanup \/ CleanupFault
  PROVE  Shrinks
  <1> USE DEF Shrinks, SgPresent, VpceVisible, VpceLive, ZonePresent
  <1>1. CASE CleanupRecord \/ CleanupZoneEmptied
    BY <1>1 DEF CleanupRecord, CleanupZoneEmptied, ec2
  <1>2. CASE CleanupZone
    BY <1>2 DEF CleanupZone, ec2, TypeOK
  <1>3. CASE CleanupVpce
    BY <1>3 DEF CleanupVpce, route53, TypeOK, LiveStates
  <1>4. CASE CleanupSg
    BY <1>4 DEF CleanupSg, route53, TypeOK
  <1>5. CASE CleanupZoneKept \/ CleanupZoneUnsafe \/ CleanupPoll \/ RemoveFinalizer \/ CleanupFault
    <2>1. UNCHANGED <<ec2, route53>>
      BY <1>5 DEF CleanupZoneKept, CleanupZoneUnsafe, CleanupPoll, RemoveFinalizer, CleanupFault
    <2> QED BY <2>1, SameAws
  <1> QED BY <1>1, <1>2, <1>3, <1>4, <1>5 DEF Cleanup

(* The environment creates nothing of AVO in AWS *)
LEMMA EnvironmentShrinks ==
  ASSUME TypeOK, Environment
  PROVE  Shrinks
  <1> USE DEF Shrinks, SgPresent, VpceVisible, VpceLive, ZonePresent
  <1>1. CASE EndpointProgress
    BY <1>1 DEF EndpointProgress, TypeOK, LiveStates, route53
  <1>2. CASE EndpointTrouble
    BY <1>2 DEF EndpointTrouble, TypeOK, LiveStates, route53
  <1>3. CASE SgLost
    BY <1>3 DEF SgLost, TypeOK, route53
  <1>4. CASE ZoneLost
    BY <1>4 DEF ZoneLost, TypeOK, ec2
  <1>5. CASE ~(EndpointProgress \/ EndpointTrouble \/ SgLost \/ ZoneLost)
    <2>1. UNCHANGED <<ec2, route53>>
      BY <1>5 DEF Environment, CacheSync, CacheExpire, UserEdit, UserDelete, ServiceTampered,
         SourceLost
    <2> QED BY <2>1, SameAws
  <1> QED BY <1>1, <1>2, <1>3, <1>4, <1>5

(* Only the create calls add something to AWS *)
LEMMA ShrinkSteps ==
  ASSUME TypeOK, [Next]_vars
  PROVE  Shrinks \/ Creates
  <1>1. CASE StartReconcile \/ Parse \/ ReconcileNotFound \/ Crash \/ UNCHANGED vars
    <2>1. UNCHANGED <<ec2, route53>>
      BY <1>1 DEF StartReconcile, Parse, ParseInfra, ParseService, ParseClient, ParseVpc,
         AddFinalizer, ReconcileNotFound, Crash, vars, ec2, route53
    <2> QED BY <2>1, SameAws
  <1> QED
    BY <1>1, ValidationShrinks, CleanupShrinks, EnvironmentShrinks DEF Next, Reconcile, Fault

(* A validation runs only while the server has the resource and finalizer *)
LEMMA ValidationCovered ==
  ASSUME ControlInv, pc \in ValidatePcs \cup {"done"}
  PROVE  api.meta.exists /\ api.meta.finalizer
  BY DEF ControlInv, PcInv, MetaInv, MetaCopy

(* AVO creates a security group, an endpoint or a hosted zone only while   *)
(* the API server still has the resource with its finalizer.               *)
THEOREM CreatedUnderFinalizer == Spec => CreateUnderFinalizer
  <1>1. TypeOK /\ ControlInv /\ [Next]_vars =>
          [ \/ SgPresent' \subseteq SgPresent /\ VpceVisible' \subseteq VpceVisible
                 /\ ZonePresent' \subseteq ZonePresent
            \/ api.meta.exists /\ api.meta.finalizer]_vars
    <2> SUFFICES ASSUME TypeOK, ControlInv, [Next]_vars, ~Shrinks
                 PROVE  api.meta.exists /\ api.meta.finalizer
      BY DEF Shrinks
    <2>1. Creates
      BY ShrinkSteps
    <2>2. pc \in ValidatePcs
      BY <2>1 DEF Creates, CreateSecurityGroup, CreateVpcEndpoint, ZoneByName, ValidatePcs
    <2> QED BY <2>2, ValidationCovered
  <1> QED BY <1>1, TypeCorrect, ControlCorrect, PTL DEF Spec, CreateUnderFinalizer

-----------------------------------------------------------------------------
(* Nobody changes the resource's spec *)
LEMMA SetupFixed ==
  ASSUME [Next]_vars
  PROVE  setup' = setup
  BY DEF Next, Reconcile, Fault, Environment, Parse, ValidateSg, ValidateVpce, ValidateDns,
     Cleanup, StartReconcile, ParseInfra, ParseService, ParseClient, ParseVpc, AddFinalizer,
     FindSecurityGroup, CreateSecurityGroup, ConfigureSecurityGroup, FindVpcEndpoint,
     CreateVpcEndpoint, EndpointWaiting, EndpointRejected, EndpointBad, EndpointAvailable,
     ZoneNotConfigured, ZoneAutoDiscovered, ZoneById, ZoneRecorded, ZoneByName, ZoneTags,
     RecordSkipped, RecordNoZone, RecordNotReady, RecordUpsert, ServiceNotNeeded,
     ServiceNoRecord, ServiceMissing, ServiceFixed, ServiceError, ServiceAsExpected, Finish,
     CleanupRecord, CleanupZoneKept, CleanupZoneUnsafe, CleanupZone, CleanupZoneEmptied,
     CleanupVpce, CleanupPoll, CleanupSg, RemoveFinalizer, ReconcileNotFound,
     ValidationFault, CleanupFault, Crash, CacheSync, CacheExpire, UserEdit, UserDelete,
     EndpointProgress, EndpointTrouble, SgLost, ZoneLost, ServiceTampered, SourceLost,
     world, vars

(* There is never a second security group, endpoint or hosted zone of AVO's *)
(* for the resource.                                                       *)
THEOREM NeverTwo == Spec => []OneOfEach
  <1>1. Init => OneOfEach
    BY DEF Init, OneOfEach, SgPresent, VpceVisible, ZonePresent
  <1>2. TypeOK /\ OneOfEach /\ [Next]_vars => OneOfEach'
    <2> SUFFICES ASSUME TypeOK, OneOfEach, [Next]_vars
                 PROVE  OneOfEach'
      OBVIOUS
    <2>0. setup' = setup
      BY SetupFixed
    <2>1. CASE Shrinks
      BY <2>0, <2>1 DEF OneOfEach, Shrinks
    <2>2. CASE CreateSecurityGroup
      <3>1. SgPresent = {}
        BY <2>2 DEF CreateSecurityGroup, SgCandidates
      <3>2. \A a, b \in SgPresent' : a = b
        BY <3>1, <2>2 DEF CreateSecurityGroup, SgPresent, TypeOK
      <3>3. VpceVisible' = VpceVisible /\ ZonePresent' = ZonePresent
        BY <2>2 DEF CreateSecurityGroup, VpceVisible, ZonePresent, route53
      <3> QED BY <3>2, <3>3, <2>0 DEF OneOfEach
    <2>3. CASE CreateVpcEndpoint
      <3>1. VpceVisible = {}
        BY <2>3 DEF CreateVpcEndpoint, VpceCandidates
      <3>2. \A a, b \in VpceVisible' : a = b
        BY <3>1, <2>3 DEF CreateVpcEndpoint, VpceVisible, TypeOK
      <3>3. SgPresent' = SgPresent /\ ZonePresent' = ZonePresent
        BY <2>3 DEF CreateVpcEndpoint, SgPresent, ZonePresent, route53
      <3> QED BY <3>2, <3>3, <2>0 DEF OneOfEach
    <2>4. CASE ZoneByName
      <3>1. ZonePresent' = ZonePresent \/ \A a, b \in ZonePresent' : a = b
        BY <2>4 DEF ZoneByName, ZonePresent, TypeOK
      <3>2. VpceVisible' = VpceVisible /\ SgPresent' = SgPresent
        BY <2>4 DEF ZoneByName, VpceVisible, SgPresent, ec2
      <3> QED BY <3>1, <3>2, <2>0 DEF OneOfEach
    <2> QED BY <2>1, <2>2, <2>3, <2>4, ShrinkSteps DEF Creates
  <1> QED BY <1>1, <1>2, TypeCorrect, PTL DEF Spec


-----------------------------------------------------------------------------
(* Nothing recorded outlives the resource *)

(* Outside the cleanup's own steps: a write needs an existing resource, and *)
(* before the finalizer the status names nothing                           *)
LEMMA FreshExists ==
  ASSUME ControlInv, fresh
  PROVE  api.meta.exists /\ pc # "idle"
  BY DEF ControlInv, VersionInv

(* The steps of parseClusterInfo keep the ids *)
LEMMA ParseKeepsIds ==
  ASSUME TypeOK, ControlInv, Parse
  PROVE  /\ api'.status.sg = api.status.sg
         /\ api'.status.vpce = api.status.vpce
         /\ api'.status.zone = api.status.zone
         /\ mem' = NoMem \/ ( /\ mem'.status.sg = mem.status.sg
                              /\ mem'.status.vpce = mem.status.vpce
                              /\ mem'.status.zone = mem.status.zone)
         /\ pc' \in {"service", "client", "vpc", "finalizer", "sg", "clRecord", "idle"}
  <1>c. CopiesOK /\ mem.status \in Statuses
    BY DEF TypeOK, CopiesOK
  <1> DEFINE Same3(s) == /\ s.sg = mem.status.sg /\ s.vpce = mem.status.vpce
                         /\ s.zone = mem.status.zone
  <1>f. fresh => mem.status = api.status
    BY DEF ControlInv, VersionInv
  <1>g. /\ \A f : Same3([mem.status EXCEPT !.info = @ \cup {f}])
        /\ Same3(mem.status)
    BY <1>c DEF Statuses
  <1>p. \A s, n : Persist(s) /\ Same3(s) => Same3(api'.status) /\ fresh
    BY <1>c DEF Persist, CopiesOK
  <1>k. \A s, n : Continue(n, s) /\ Same3(s) => Same3(mem'.status) /\ pc' = n
    BY <1>c DEF Continue, CopiesOK
  <1>u. Unpersisted \/ NoWrite \/ UNCHANGED cluster => api' = api
    BY DEF Unpersisted, NoWrite, cluster
  <1>r. \A q : Return(q) => mem' = NoMem /\ pc' = "idle"
    BY DEF Return
  <1> HIDE DEF Same3
  <1>x. \A s, c : ParseFailed(s, c) /\ Same3(s)
                    => (mem' = NoMem \/ Same3(mem'.status)) /\ pc' \in {"clRecord", "idle"}
    BY <1>k, <1>r DEF ParseFailed
  <1>y. \A s, n, c : ParseWrite(s, n, c) /\ Same3(s)
                    => /\ api' = api \/ (Same3(api'.status) /\ fresh)
                       /\ mem' = NoMem \/ Same3(mem'.status)
                       /\ pc' \in {n, "clRecord", "idle"}
    BY <1>p, <1>k, <1>u, <1>x DEF ParseWrite
  <1>z. \A n : Skip(n) => api' = api /\ Same3(mem'.status) /\ pc' = n
    BY <1>k, <1>u, <1>g DEF Skip
  <1>n. AfterParse \in {"clRecord", "sg", "finalizer"}
    BY <1>c DEF AfterParse, CopiesOK, Metas
  <1>1. CASE ~AddFinalizer
    <2>1. /\ api' = api \/ (Same3(api'.status) /\ fresh)
          /\ mem' = NoMem \/ Same3(mem'.status)
          /\ pc' \in {"service", "client", "vpc", "finalizer", "sg", "clRecord", "idle"}
      <3>1. CASE ParseInfra
        BY <3>1, <1>g, <1>u, <1>x, <1>y, <1>z DEF ParseInfra
      <3>2. CASE ParseService
        BY <3>2, <1>g, <1>u, <1>x, <1>y, <1>z DEF ParseService
      <3>3. CASE ParseClient
        BY <3>3, <1>g, <1>u, <1>x, <1>z DEF ParseClient
      <3>4. CASE ParseVpc
        BY <3>4, <1>g, <1>u, <1>x, <1>y, <1>z, <1>n DEF ParseVpc
      <3> QED BY <1>1, <3>1, <3>2, <3>3, <3>4 DEF Parse
    <2> QED BY <2>1, <1>f DEF Same3
  <1>2. CASE AddFinalizer
    <2>1. CASE Unpersisted /\ Return("backoff")
      BY <2>1, <1>u, <1>r
    <2>2. CASE ~(Unpersisted /\ Return("backoff"))
      <3>1. api'.status = api.status /\ pc' = "sg" /\ fresh
        BY <2>2, <1>2, <1>c DEF AddFinalizer, CopiesOK
      <3>2. mem'.status = api'.status
        BY <2>2, <1>2, <1>c DEF AddFinalizer, CopiesOK
      <3> QED BY <3>1, <3>2, <1>f
    <2> QED BY <2>1, <2>2
  <1> QED BY <1>1, <1>2

(* The validations keep ReleaseInv: they run under the finalizer *)
LEMMA ReleaseValidate ==
  ASSUME TypeOK, ControlInv, ReleaseInv,
         ValidateSg \/ ValidateVpce \/ ValidateDns \/ Finish \/ ValidationFault
  PROVE  ReleaseInv'
  <1>1. pc \in ValidatePcs \cup {"done"} /\ InPhase(ValidatePcs \cup {"done"})
    BY ValidateOutcome
  <1>2. api'.meta = api.meta /\ pc' \in ValidatePcs \cup {"done", "idle"}
    BY <1>1 DEF InPhase, Outcome, Stored, Same, Returned
  <1>3. api'.meta.exists /\ api'.meta.finalizer
    BY <1>1, <1>2, ValidationCovered
  <1> QED
    BY <1>2, <1>3 DEF ReleaseInv, CleanStart, CleanupInv, RecordedIsReleased, ValidatePcs

(* The status' ids and what is in AWS stay, or AWS loses something *)
LEMMA ReleaseKept ==
  ASSUME ReleaseInv, Shrinks, setup' = setup,
         api'.status.sg = api.status.sg, api'.status.vpce = api.status.vpce,
         api'.status.zone = api.status.zone
  PROVE  /\ api'.meta = api.meta => CleanStart' /\ RecordedIsReleased'
         /\ api'.meta.finalizer => CleanStart'
         /\ api'.meta.exists => RecordedIsReleased'
  BY DEF ReleaseInv, CleanStart, RecordedIsReleased, Shrinks

(* parseClusterInfo, the start of Reconcile and a restart keep ReleaseInv *)
LEMMA ReleaseParse ==
  ASSUME TypeOK, ControlInv, ReleaseInv, setup' = setup, StartReconcile \/ Parse \/ Crash
  PROVE  ReleaseInv'
  <1>0. UNCHANGED <<ec2, route53>>
    BY DEF StartReconcile, Parse, ParseInfra, ParseService, ParseClient, ParseVpc,
       AddFinalizer, Crash, ec2, route53
  <1>1. Shrinks
    BY <1>0, SameAws
  <1>2. /\ api'.status.sg = api.status.sg /\ api'.status.vpce = api.status.vpce
        /\ api'.status.zone = api.status.zone
        /\ pc' \notin {"clVpce", "clPoll", "clSg", "clFinalizer"}
    BY ParseKeepsIds DEF StartReconcile, Crash, Return, cluster
  <1>3. CleanupInv'
    BY <1>2 DEF CleanupInv
  <1>4. CASE api'.meta = api.meta
    BY <1>1, <1>2, <1>3, <1>4, ReleaseKept DEF ReleaseInv
  <1>5. CASE api'.meta # api.meta
    <2>1. AddFinalizer /\ ~(Unpersisted /\ Return("backoff"))
      <3>1. ~StartReconcile /\ ~Crash
        BY <1>5 DEF StartReconcile, Crash, cluster
      <3>2. \A s, n, c : ParseWrite(s, n, c) \/ NoWrite \/ UNCHANGED cluster \/ Skip(n)
                           => api'.meta = api.meta
        BY DEF ParseWrite, Persist, Unpersisted, NoWrite, Skip, cluster, TypeOK
      <3> QED
        BY <1>5, <3>1, <3>2 DEF Parse, ParseInfra, ParseService, ParseClient, ParseVpc,
           AddFinalizer, Unpersisted
    <2>2. api' = [api EXCEPT !.meta = [api.meta EXCEPT !.finalizer = TRUE]] /\ fresh
      BY <2>1 DEF AddFinalizer
    <2>3. api'.meta.finalizer /\ api'.meta.exists = api.meta.exists
      BY <2>2 DEF TypeOK, Metas
    <2>4. api.meta.exists
      BY <2>2, FreshExists
    <2> QED BY <1>1, <1>2, <1>3, <2>3, <2>4, ReleaseKept DEF ReleaseInv
  <1> QED BY <1>4, <1>5

(* The cleanup's steps before the finalizer is removed *)
LEMMA ReleaseCleanup ==
  ASSUME TypeOK, ControlInv, ReleaseInv, setup' = setup,
         (Cleanup /\ ~RemoveFinalizer) \/ CleanupFault
  PROVE  ReleaseInv'
  <1> USE ConstantsAssumption
  <1>s. Shrinks
    BY CleanupShrinks
  <1>c. CopiesOK /\ mem.status \in Statuses
    BY DEF TypeOK, CopiesOK
  <1>p. pc \in CleanupPcs /\ InPhase(CleanupPcs)
    BY CleanupOutcome
  <1>d. api.meta.deleting /\ (api.meta.exists => api.meta.finalizer)
    BY <1>p DEF ControlInv, PcInv, MetaInv, MetaCopy
  <1>a. api'.meta = api.meta /\ (~fresh => api' = api)
    BY <1>p DEF InPhase, Outcome, Stored, Same
  <1>1. CleanStart'
    BY <1>a, <1>d DEF CleanStart
  <1>2. RecordedIsReleased'
    <2>1. CASE api.meta.exists
      BY <2>1, <1>a DEF RecordedIsReleased
    <2>2. CASE ~api.meta.exists
      <3>1. api' = api
        BY <2>2, <1>a, FreshExists
      <3> QED BY <2>2, <3>1, <1>s DEF ReleaseInv, RecordedIsReleased, Shrinks
    <2> QED BY <2>1, <2>2
  <1>3. CleanupInv'
    <2>r. \A q : Return(q) => CleanupInv'
      BY DEF Return, CleanupInv
    <2>k. \A n, s : CleanupWrite(s, n)
                      => \/ mem'.status = s /\ pc' = n
                         \/ CleanupInv'
      BY <2>r, <1>c DEF CleanupWrite, Continue, CopiesOK
    <2>n. \A n : Skip(n) => mem'.status = mem.status /\ pc' = n
      BY <1>c DEF Skip, Continue, CopiesOK
    <2>z. None \notin ZonePresent' /\ None \notin SgPresent'
      BY DEF ZonePresent, SgPresent
    <2>1. CASE CleanupRecord
      <3>1. pc' = "clZone" \/ CleanupInv'
        BY <2>1, <2>r, <2>k, <2>n DEF CleanupRecord, CleanupFail
      <3> QED BY <3>1 DEF CleanupInv
    <2>2. CASE CleanupZoneKept
      <3>1. mem'.status = mem.status /\ pc' = "clVpce" /\ ZoneKept
        BY <2>2, <2>n DEF CleanupZoneKept
      <3>2. ZoneReleased(mem.status)'
        BY <3>1, <2>z DEF ZoneReleased, ZoneKept
      <3> QED BY <3>1, <3>2 DEF CleanupInv
    <2>3. CASE CleanupZone
      <3>1. mem.status.zone \notin ZonePresent'
        BY <2>3, <1>c DEF CleanupZone, ZonePresent, TypeOK, Statuses
      <3>2. \/ mem'.status = mem.status /\ pc' = "clVpce"
            \/ mem'.status = [mem.status EXCEPT !.zone = None] /\ pc' = "clVpce"
            \/ CleanupInv'
        BY <2>3, <2>k, <2>n DEF CleanupZone
      <3>3. [mem.status EXCEPT !.zone = None].zone = None
        BY <1>c DEF Statuses
      <3> QED BY <3>1, <3>2, <3>3, <2>z DEF CleanupInv, ZoneReleased
    <2>4. CASE CleanupVpce
      <3> DEFINE v == mem.status.vpce
      <3>0. ZoneReleased(mem.status)
        BY <2>4 DEF CleanupVpce, ReleaseInv, CleanupInv
      <3>1. CASE v = None
        BY <3>1, <3>0, <2>4, <2>n, <1>s DEF CleanupVpce, CleanupInv, ZoneReleased, Shrinks
      <3>2. CASE v # None /\ v \in VpceVisible
        <4>1. /\ mem'.status = mem.status /\ pc' = "clPoll"
              /\ vpces' = [vpces EXCEPT ![v] = IF @ \in LiveStates THEN "deleting" ELSE @]
          BY <3>2, <2>4, <2>n DEF CleanupVpce
        <4>2. v \in VpceIds /\ vpces'[v] \in {"deleting", "deleted", "gone"}
          BY <4>1, <3>2 DEF VpceVisible, TypeOK, VpceStates
        <4> QED BY <4>1, <4>2, <3>0, <1>s DEF CleanupInv, ZoneReleased, Shrinks
      <3>3. CASE v # None /\ v \notin VpceVisible
        <4>1. CleanupWrite([mem.status EXCEPT !.vpce = None], "clSg")
          BY <3>3, <2>4 DEF CleanupVpce
        <4>2. [mem.status EXCEPT !.vpce = None].zone = mem.status.zone
          BY <1>c DEF Statuses
        <4>3. [mem.status EXCEPT !.vpce = None].vpce = None
          BY <1>c DEF Statuses
        <4> QED BY <4>1, <4>2, <4>3, <2>k, <3>0, <1>s DEF CleanupInv, ZoneReleased, Shrinks
      <3> QED BY <3>1, <3>2, <3>3
    <2>5. CASE CleanupPoll
      <3>0. ZoneReleased(mem.status)
        BY <2>5 DEF CleanupPoll, ReleaseInv, CleanupInv
      <3>1. CleanupWrite([mem.status EXCEPT !.vpce = None], "clSg") \/ CleanupInv'
        BY <2>5, <2>r DEF CleanupPoll, CleanupFail
      <3>2. [mem.status EXCEPT !.vpce = None].zone = mem.status.zone
        BY <1>c DEF Statuses
      <3>3. [mem.status EXCEPT !.vpce = None].vpce = None
        BY <1>c DEF Statuses
      <3> QED BY <3>0, <3>1, <3>2, <3>3, <2>k, <1>s DEF CleanupInv, ZoneReleased, Shrinks
    <2>6. CASE CleanupSg
      <3>0. ZoneReleased(mem.status) /\ mem.status.vpce = None
        BY <2>6 DEF CleanupSg, ReleaseInv, CleanupInv
      <3>1. CASE Skip("clFinalizer")
        <4>1. mem.status.sg \notin SgPresent'
          BY <2>6, <3>1, <2>z, <1>c DEF CleanupSg, SgPresent, TypeOK, Skip, Continue, Return
        <4> QED BY <3>0, <3>1, <4>1, <2>n, <1>s DEF CleanupInv, ZoneReleased, Shrinks
      <3> QED BY <3>1, <2>6, <2>r DEF CleanupSg
    <2>7. CASE CleanupZoneUnsafe \/ CleanupZoneEmptied \/ CleanupFault
      BY <2>7, <2>r DEF CleanupZoneUnsafe, CleanupZoneEmptied, CleanupFault, CleanupFail
    <2> QED BY <2>1, <2>2, <2>3, <2>4, <2>5, <2>6, <2>7 DEF Cleanup
  <1> QED BY <1>1, <1>2, <1>3 DEF ReleaseInv

(* The removal of the finalizer keeps ReleaseInv: all was released before *)
LEMMA ReleaseFinal ==
  ASSUME TypeOK, ControlInv, ReleaseInv, setup' = setup, RemoveFinalizer
  PROVE  ReleaseInv'
  <1>p. pc = "clFinalizer" /\ UNCHANGED <<ec2, route53>> /\ pc' = "idle"
    BY DEF RemoveFinalizer, Return
  <1>s. Shrinks
    BY <1>p, SameAws
  <1>3. CleanupInv'
    BY <1>p DEF CleanupInv
  <1>1. CASE Unpersisted
    <2>1. api' = api
      BY <1>1 DEF Unpersisted, cluster
    <2> QED BY <2>1, <1>s, <1>3, ReleaseKept DEF ReleaseInv
  <1>2. CASE ~Unpersisted
    <2>1. /\ fresh
          /\ api' = [api EXCEPT !.meta = [api.meta EXCEPT !.finalizer = FALSE, !.exists = FALSE]]
      BY <1>2 DEF RemoveFinalizer
    <2>2. api'.meta.exists = FALSE /\ api'.status = api.status
      BY <2>1 DEF TypeOK, Metas
    <2>3. mem.status = api.status
      BY <2>1 DEF ControlInv, VersionInv
    <2>4. /\ ZoneReleased(mem.status) /\ mem.status.vpce = None
          /\ mem.status.sg \notin SgPresent
      BY <1>p DEF ReleaseInv, CleanupInv
    <2>5. None \notin VpceLive
      BY ConstantsAssumption DEF VpceLive
    <2>6. RecordedIsReleased'
      BY <2>2, <2>3, <2>4, <2>5, <1>s DEF RecordedIsReleased, ZoneReleased, Shrinks
    <2>7. CleanStart'
      BY <2>2 DEF CleanStart
    <2> QED BY <2>6, <2>7, <1>3 DEF ReleaseInv
  <1> QED BY <1>1, <1>2

(* The environment keeps ReleaseInv *)
LEMMA ReleaseEnvironment ==
  ASSUME TypeOK, ControlInv, ReleaseInv, setup' = setup, Environment
  PROVE  ReleaseInv'
  <1>s. Shrinks
    BY EnvironmentShrinks
  <1>l. pc' = pc /\ mem' = mem /\ api'.status = api.status
    BY DEF Environment, CacheSync, CacheExpire, UserEdit, UserDelete, EndpointProgress,
       EndpointTrouble, SgLost, ZoneLost, ServiceTampered, SourceLost, local, cluster, TypeOK
  <1>3. CleanupInv'
    <2>1. ASSUME pc = "clPoll"
          PROVE  vpces'[mem.status.vpce] \in {"deleting", "deleted", "gone"}
      <3>1. /\ mem.status.vpce \in VpceIds
            /\ vpces[mem.status.vpce] \in {"deleting", "deleted", "gone"}
        BY <2>1 DEF ReleaseInv, CleanupInv
      <3>2. CASE EndpointProgress \/ EndpointTrouble
        BY <3>1, <3>2 DEF EndpointProgress, EndpointTrouble, TypeOK, LiveStates
      <3>3. CASE ~(EndpointProgress \/ EndpointTrouble)
        <4>1. vpces' = vpces
          BY <3>3 DEF Environment, CacheSync, CacheExpire, UserEdit, UserDelete, SgLost,
             ZoneLost, ServiceTampered, SourceLost, ec2
        <4> QED BY <3>1, <4>1
      <3> QED BY <3>2, <3>3
    <2> QED BY <2>1, <1>l, <1>s DEF ReleaseInv, CleanupInv, ZoneReleased, Shrinks
  <1>1. CASE UserDelete
    <2>1. api' = [api EXCEPT !.meta =
                    [api.meta EXCEPT !.deleting = TRUE, !.exists = api.meta.finalizer]]
      BY <1>1 DEF UserDelete
    <2>0. api.meta.exists
      BY <1>1 DEF UserDelete
    <2>2. /\ api'.meta.exists = api.meta.finalizer /\ api'.meta.finalizer = api.meta.finalizer
          /\ api.meta.exists
      BY <2>0, <2>1 DEF TypeOK, Metas
    <2>3. CleanStart'
      BY <2>2 DEF CleanStart
    <2>4. CASE api.meta.finalizer
      BY <2>2, <2>3, <2>4, <1>3 DEF ReleaseInv, RecordedIsReleased
    <2>5. CASE ~api.meta.finalizer
      <3>1. api.status.sg = None /\ api.status.vpce = None /\ api.status.zone = None
        BY <2>2, <2>5 DEF ReleaseInv, CleanStart
      <3>2. None \notin SgPresent' /\ None \notin VpceLive' /\ None \notin ZonePresent'
        BY ConstantsAssumption DEF SgPresent, VpceLive, ZonePresent
      <3> QED BY <3>1, <3>2, <2>3, <1>3, <1>l DEF ReleaseInv, RecordedIsReleased
    <2> QED BY <2>4, <2>5
  <1>2. CASE ~UserDelete
    <2>1. api' = api
      BY <1>2 DEF Environment, CacheSync, CacheExpire, UserEdit, EndpointProgress,
         EndpointTrouble, SgLost, ZoneLost, ServiceTampered, SourceLost, cluster
    <2> QED BY <2>1, <1>s, <1>3, ReleaseKept DEF ReleaseInv
  <1> QED BY <1>1, <1>2

(* Before the finalizer there is nothing, and each phase of the cleanup is *)
(* over before the next one starts.                                        *)
THEOREM ReleaseCorrect == Spec => []ReleaseInv
  <1>1. Init => ReleaseInv
    BY DEF Init, ReleaseInv, CleanStart, CleanupInv, RecordedIsReleased, EmptyStatus, SgPresent,
       VpceVisible, ZonePresent
  <1>2. TypeOK /\ ControlInv /\ ReleaseInv /\ [Next]_vars => ReleaseInv'
    <2> SUFFICES ASSUME TypeOK, ControlInv, ReleaseInv, [Next]_vars
                 PROVE  ReleaseInv'
      OBVIOUS
    <2>0. setup' = setup
      BY SetupFixed
    <2>1. CASE UNCHANGED vars \/ ReconcileNotFound
      BY <2>1 DEF ReleaseInv, CleanStart, CleanupInv, RecordedIsReleased, ZoneReleased,
         SgPresent, VpceVisible, VpceLive, ZonePresent, ReconcileNotFound, vars
    <2>2. CASE Next /\ ~ReconcileNotFound
      BY <2>0, <2>2, ReleaseValidate, ReleaseParse, ReleaseCleanup, ReleaseFinal,
         ReleaseEnvironment DEF Next, Reconcile, Fault, Cleanup
    <2> QED BY <2>1, <2>2
  <1> QED BY <1>1, <1>2, TypeCorrect, ControlCorrect, PTL DEF Spec

(* A resource without the finalizer has nothing of AVO's in AWS. *)
THEOREM FinalizerCovers == Spec => []FinalizerCoversResources
  <1>1. ReleaseInv => FinalizerCoversResources
    BY DEF ReleaseInv, CleanStart, FinalizerCoversResources
  <1> QED BY <1>1, ReleaseCorrect, PTL

(* Once the resource is gone, what its status named is gone from AWS. *)
THEOREM Released == Spec => []RecordedIsReleased
  <1>1. ReleaseInv => RecordedIsReleased
    BY DEF ReleaseInv
  <1> QED BY <1>1, ReleaseCorrect, PTL


-----------------------------------------------------------------------------
(* Who changes the ids of the status *)

SgKept == /\ api'.status.sg = api.status.sg
          /\ mem' = NoMem \/ mem'.status.sg = mem.status.sg
VpceKept == /\ api'.status.vpce = api.status.vpce
            /\ mem' = NoMem \/ mem'.status.vpce = mem.status.vpce
ZoneIdKept == /\ api'.status.zone = api.status.zone
              /\ mem' = NoMem \/ mem'.status.zone = mem.status.zone
IdsKept == SgKept /\ VpceKept /\ ZoneIdKept

(* A step that leaves an id of the status alone keeps that id *)
LEMMA OutcomeKeeps ==
  ASSUME ControlInv, NEW s, NEW n, Outcome(s, n)
  PROVE  /\ s.sg = mem.status.sg => SgKept
         /\ s.vpce = mem.status.vpce => VpceKept
         /\ s.zone = mem.status.zone => ZoneIdKept
  <1>1. fresh => mem.status = api.status
    BY DEF ControlInv, VersionInv
  <1>2. api'.status = api.status \/ (fresh /\ api'.status = s)
    BY DEF Outcome, Stored, Same
  <1>3. mem' = NoMem \/ mem'.status = s \/ mem'.status = mem.status
    BY DEF Outcome, Kept, Returned
  <1> QED BY <1>1, <1>2, <1>3 DEF SgKept, VpceKept, ZoneIdKept

(* A status update that leaves an id alone keeps that id *)
LEMMA WriteKeeps ==
  ASSUME TypeOK, ControlInv, NEW s, NEW n,
         WriteThen(s, n) \/ WriteThenFail(s) \/ CleanupWrite(s, n)
  PROVE  /\ s.sg = mem.status.sg => SgKept
         /\ s.vpce = mem.status.vpce => VpceKept
         /\ s.zone = mem.status.zone => ZoneIdKept
  <1>1. CopiesOK
    BY DEF TypeOK, CopiesOK
  <1>2. Outcome(s, n)
    BY <1>1, StepOutcome
  <1> QED BY <1>2, OutcomeKeeps

(* A step that writes no status keeps all the ids *)
LEMMA ReadKeeps ==
  ASSUME TypeOK, ControlInv,
         \/ \E n : Skip(n)
         \/ \E s : NoWrite /\ Failed(s)
         \/ SpendFault /\ UNCHANGED cluster /\ Failed(mem.status)
         \/ \E n : SpendFault /\ UNCHANGED cluster /\ Continue(n, mem.status)
         \/ \E q : NoWrite /\ Return(q)
         \/ \E q : UNCHANGED cluster /\ Return(q)
  PROVE  IdsKept
  <1>1. CopiesOK
    BY DEF TypeOK, CopiesOK
  <1>2. \E n : Outcome(mem.status, n)
    BY <1>1, StepOutcome
  <1> QED BY <1>2, OutcomeKeeps DEF IdsKept

(* Changing the endpoint's id or a condition keeps the other ids *)
LEMMA OtherFields ==
  ASSUME NEW s \in Statuses
  PROVE  /\ \A v : LET u == [s EXCEPT !.vpce = v] IN u.sg = s.sg /\ u.zone = s.zone
         /\ \A t, c : LET u == SetCond(s, t, c)
                      IN  u.sg = s.sg /\ u.vpce = s.vpce /\ u.zone = s.zone
         /\ \A t, c : LET u == Invalidated(SetCond(s, t, c))
                      IN  u.sg = s.sg /\ u.vpce = s.vpce /\ u.zone = s.zone
  BY DEF Statuses, SetCond, Invalidated

(* validateSecurityGroup changes the id of the security group only *)
LEMMA SgStepsKeep ==
  ASSUME TypeOK, ControlInv, ValidateSg
  PROVE  VpceKept /\ ZoneIdKept /\ (SgKept \/ FindSecurityGroup \/ CreateSecurityGroup)
  <1>s. mem.status \in Statuses
    BY DEF TypeOK
  <1>1. CASE FindSecurityGroup
    <2>1. PICK g \in SgCandidates : WriteThen([mem.status EXCEPT !.sg = g], "sgRules")
      BY <1>1 DEF FindSecurityGroup
    <2> DEFINE s == [mem.status EXCEPT !.sg = g]
    <2>2. s.vpce = mem.status.vpce /\ s.zone = mem.status.zone
      BY <1>s DEF Statuses
    <2> HIDE DEF s
    <2>3. VpceKept /\ ZoneIdKept
      BY <2>1, <2>2, WriteKeeps DEF s
    <2> QED BY <1>1, <2>3
  <1>2. CASE CreateSecurityGroup
    <2>1. CASE \E g \in SgIds : WriteThenFail([mem.status EXCEPT !.sg = g])
      <3>1. PICK g \in SgIds : WriteThenFail([mem.status EXCEPT !.sg = g])
        BY <2>1
      <3> DEFINE s == [mem.status EXCEPT !.sg = g]
      <3>2. s.vpce = mem.status.vpce /\ s.zone = mem.status.zone
        BY <1>s DEF Statuses
      <3>3. VpceKept /\ ZoneIdKept
        BY <3>1, <3>2, WriteKeeps
      <3> QED BY <1>2, <3>3
    <2>2. CASE ~\E g \in SgIds : WriteThenFail([mem.status EXCEPT !.sg = g])
      <3>1. Fail \/ (SpendFault /\ UNCHANGED cluster /\ Failed(mem.status))
        BY <1>2, <2>2 DEF CreateSecurityGroup
      <3> QED BY <1>2, <3>1, ReadKeeps DEF IdsKept, Fail
    <2> QED BY <2>1, <2>2
  <1>3. CASE ConfigureSecurityGroup
    <2>1. WriteThen(SetCond(mem.status, "sg", "True"), "vpce") \/ Fail
      BY <1>3 DEF ConfigureSecurityGroup
    <2> QED BY <2>1, <1>s, OtherFields, WriteKeeps, ReadKeeps DEF Fail, IdsKept
  <1> QED BY <1>1, <1>2, <1>3 DEF ValidateSg

(* validateVPCEndpoint changes the id of the endpoint only *)
LEMMA VpceStepsKeep ==
  ASSUME TypeOK, ControlInv, ValidateVpce
  PROVE  SgKept /\ ZoneIdKept /\ (VpceKept \/ FindVpcEndpoint \/ CreateVpcEndpoint)
  <1>s. mem.status \in Statuses
    BY DEF TypeOK
  <1>c. CopiesOK
    BY DEF TypeOK, CopiesOK
  <1>r. ASSUME NEW v, NEW st, RecordVpcEndpoint(v, st)
        PROVE  SgKept /\ ZoneIdKept
    <2> DEFINE s == [mem.status EXCEPT !.vpce = v]
    <2>0. s.sg = mem.status.sg /\ s.zone = mem.status.zone
      BY <1>s, OtherFields
    <2>1. CASE Unpersisted /\ Failed(s)
      BY <2>0, <2>1, WriteKeeps DEF WriteThenFail
    <2>2. CASE ~(Unpersisted /\ Failed(s))
      <3>1. Stored(s) /\ Kept(s) /\ pc' = "vpceState"
        BY <2>2, <1>r, <1>c, PersistStores DEF RecordVpcEndpoint, Kept, CopiesOK
      <3>2. Outcome(s, "vpceState")
        BY <3>1 DEF Outcome
      <3> QED BY <2>0, <3>2, OutcomeKeeps
    <2> QED BY <2>1, <2>2
  <1>1. CASE FindVpcEndpoint
    BY <1>1, <1>r DEF FindVpcEndpoint
  <1>2. CASE CreateVpcEndpoint
    <2>1. SgKept /\ ZoneIdKept
      BY <1>2, <1>r, ReadKeeps DEF CreateVpcEndpoint, Fail, IdsKept
    <2> QED BY <2>1, <1>2
  <1>3. CASE EndpointWaiting \/ EndpointBad
    <2> DEFINE s == Invalidated(SetCond(mem.status, "vpce", "False"))
    <2>1. WriteThen(s, DnsEntry) \/ WriteThenFail(s)
      BY <1>3 DEF EndpointWaiting, EndpointBad
    <2>2. s.sg = mem.status.sg /\ s.vpce = mem.status.vpce /\ s.zone = mem.status.zone
      BY <1>s, OtherFields
    <2> QED BY <2>1, <2>2, WriteKeeps
  <1>4. CASE EndpointRejected
    BY <1>4, ReadKeeps DEF EndpointRejected, IdsKept
  <1>5. CASE EndpointAvailable
    <2>1. WriteThen(SetCond(mem.status, "vpce", "True"), DnsEntry) \/ Fail
      BY <1>5 DEF EndpointAvailable
    <2> QED BY <2>1, <1>s, OtherFields, WriteKeeps, ReadKeeps DEF Fail, IdsKept
  <1> QED BY <1>1, <1>2, <1>3, <1>4, <1>5 DEF ValidateVpce

(* The DNS validations change the id of the hosted zone only *)
LEMMA DnsStepsKeep ==
  ASSUME TypeOK, ControlInv, ValidateDns \/ Finish \/ ValidationFault
  PROVE  SgKept /\ VpceKept
           /\ (ZoneIdKept \/ ZoneAutoDiscovered \/ ZoneById \/ ZoneByName)
  <1>s. mem.status \in Statuses
    BY DEF TypeOK
  <1>z. ASSUME NEW z, NEW n, StoreZone(z, n)
        PROVE  SgKept /\ VpceKept
    <2> DEFINE s == [mem.status EXCEPT !.zone = z]
    <2>1. s.sg = mem.status.sg /\ s.vpce = mem.status.vpce
      BY <1>s DEF Statuses
    <2>2. WriteThen(s, n) \/ Skip(n)
      BY <1>z DEF StoreZone
    <2>3. WriteThen(s, n) => SgKept /\ VpceKept
      BY <2>1, WriteKeeps
    <2> QED BY <2>2, <2>3, ReadKeeps DEF IdsKept
  <1>1. CASE ZoneAutoDiscovered \/ ZoneById \/ ZoneByName
    <2>1. (\E z, n : StoreZone(z, n)) \/ Fail
      BY <1>1 DEF ZoneAutoDiscovered, ZoneById, ZoneByName
    <2> QED BY <1>1, <2>1, <1>z, ReadKeeps DEF Fail, IdsKept
  <1>2. CASE \/ ZoneNotConfigured \/ ZoneRecorded \/ RecordSkipped \/ RecordNoZone
             \/ RecordNotReady \/ ServiceNotNeeded \/ ServiceNoRecord \/ ServiceAsExpected
             \/ Finish \/ ValidationFault
    BY <1>2, ReadKeeps DEF ZoneNotConfigured, ZoneRecorded, RecordSkipped, RecordNoZone,
       RecordNotReady, ServiceNotNeeded, ServiceNoRecord, ServiceAsExpected, Finish,
       ValidationFault, Fail, Skip, IdsKept
  <1>3. CASE ZoneTags
    <2>1. WriteThen(SetCond(mem.status, "tags", "True"), "record") \/ Fail \/ Skip("record")
      BY <1>3 DEF ZoneTags
    <2> QED BY <2>1, <1>s, OtherFields, WriteKeeps, ReadKeeps DEF Fail, IdsKept
  <1>4. CASE RecordUpsert
    <2> DEFINE s == SetCond([mem.status EXCEPT !.rrs = TRUE], "record", "True")
    <2>1. WriteThen(s, "service2") \/ Fail
      BY <1>4 DEF RecordUpsert
    <2>2. s.sg = mem.status.sg /\ s.vpce = mem.status.vpce /\ s.zone = mem.status.zone
      BY <1>s DEF Statuses, SetCond
    <2> QED BY <2>1, <2>2, WriteKeeps, ReadKeeps DEF Fail, IdsKept
  <1>5. CASE ServiceMissing \/ ServiceFixed
    <2>1. \/ WriteThenFail(SetCond(mem.status, "svc", "True"))
          \/ WriteThen(SetCond(mem.status, "svc", "True"), "done")
      BY <1>5 DEF ServiceMissing, ServiceFixed
    <2> QED BY <2>1, <1>s, OtherFields, WriteKeeps
  <1>6. CASE ServiceError
    <2> DEFINE s == SetCond(mem.status, "svc", "False")
    <2>1. api'.status = s /\ fresh /\ mem' = NoMem
      BY <1>6, FailedReturns DEF ServiceError, Return, TypeOK
    <2>2. mem.status = api.status
      BY <2>1 DEF ControlInv, VersionInv
    <2>3. s.sg = mem.status.sg /\ s.vpce = mem.status.vpce /\ s.zone = mem.status.zone
      BY <1>s, OtherFields
    <2> QED BY <2>1, <2>2, <2>3 DEF SgKept, VpceKept, ZoneIdKept
  <1> QED BY <1>1, <1>2, <1>3, <1>4, <1>5, <1>6 DEF ValidateDns

(* The cleanup changes the ids of the endpoint and of the zone only *)
LEMMA CleanupStepsKeep ==
  ASSUME TypeOK, ControlInv, (Cleanup /\ ~RemoveFinalizer) \/ CleanupFault
  PROVE  SgKept /\ (VpceKept \/ CleanupVpce \/ CleanupPoll) /\ (ZoneIdKept \/ CleanupZone)
  <1>s. mem.status \in Statuses
    BY DEF TypeOK
  <1>1. CASE CleanupRecord
    <2> DEFINE s == SetCond([mem.status EXCEPT !.rrs = FALSE], "record", "False")
    <2>1. CleanupWrite(s, "clZone") \/ Skip("clZone") \/ CleanupFail
      BY <1>1 DEF CleanupRecord
    <2>2. s.sg = mem.status.sg /\ s.vpce = mem.status.vpce /\ s.zone = mem.status.zone
      BY <1>s DEF Statuses, SetCond
    <2> QED BY <2>1, <2>2, WriteKeeps, ReadKeeps DEF CleanupFail, IdsKept
  <1>2. CASE CleanupZone
    <2> DEFINE s == [mem.status EXCEPT !.zone = None]
    <2>1. CleanupWrite(s, "clVpce") \/ Skip("clVpce")
      BY <1>2 DEF CleanupZone
    <2>2. s.sg = mem.status.sg /\ s.vpce = mem.status.vpce
      BY <1>s DEF Statuses
    <2>3. CleanupWrite(s, "clVpce") => SgKept /\ VpceKept
      BY <2>2, WriteKeeps
    <2>4. SgKept /\ VpceKept
      BY <2>1, <2>3, ReadKeeps DEF IdsKept
    <2> QED BY <1>2, <2>4
  <1>3. CASE CleanupVpce \/ CleanupPoll
    <2> DEFINE s == [mem.status EXCEPT !.vpce = None]
    <2>1. CleanupWrite(s, "clSg") \/ Skip("clSg") \/ Skip("clPoll") \/ CleanupFail
      BY <1>3 DEF CleanupVpce, CleanupPoll
    <2>2. s.sg = mem.status.sg /\ s.zone = mem.status.zone
      BY <1>s DEF Statuses
    <2>3. CleanupWrite(s, "clSg") => SgKept /\ ZoneIdKept
      BY <2>2, WriteKeeps
    <2>4. SgKept /\ ZoneIdKept
      BY <2>1, <2>3, ReadKeeps DEF IdsKept, CleanupFail
    <2> QED BY <1>3, <2>4
  <1>4. CASE \/ CleanupZoneKept \/ CleanupZoneUnsafe \/ CleanupZoneEmptied \/ CleanupSg
             \/ CleanupFault
    <2>1. \/ Skip("clVpce") \/ CleanupFail \/ Skip("clFinalizer")
          \/ \E q : UNCHANGED cluster /\ Return(q)
      BY <1>4 DEF CleanupZoneKept, CleanupZoneUnsafe, CleanupZoneEmptied, CleanupSg,
         CleanupFault, cluster
    <2> QED BY <2>1, ReadKeeps DEF IdsKept, CleanupFail
  <1> QED BY <1>1, <1>2, <1>3, <1>4 DEF Cleanup

(* Each id of the status is changed by few steps, and only they can make   *)
(* Reconcile's copy differ                                                 *)
LEMMA IdSteps ==
  ASSUME TypeOK, ControlInv, [Next]_vars, ~StartReconcile
  PROVE  /\ SgKept \/ FindSecurityGroup \/ CreateSecurityGroup
         /\ VpceKept \/ FindVpcEndpoint \/ CreateVpcEndpoint \/ CleanupVpce \/ CleanupPoll
         /\ ZoneIdKept \/ ZoneAutoDiscovered \/ ZoneById \/ ZoneByName \/ CleanupZone
  <1>1. CASE UNCHANGED vars \/ ReconcileNotFound \/ Environment \/ Crash \/ RemoveFinalizer
    <2>1. api'.status = api.status /\ (mem' = mem \/ mem' = NoMem)
      BY <1>1 DEF ReconcileNotFound, vars, Environment, CacheSync, CacheExpire, UserEdit,
         UserDelete, EndpointProgress, EndpointTrouble, SgLost, ZoneLost, ServiceTampered,
         SourceLost, Crash, RemoveFinalizer, Return, Unpersisted, local, cluster, TypeOK
    <2> QED BY <2>1 DEF SgKept, VpceKept, ZoneIdKept
  <1>2. CASE Parse
    BY <1>2, ParseKeepsIds DEF SgKept, VpceKept, ZoneIdKept
  <1> QED
    BY <1>1, <1>2, SgStepsKeep, VpceStepsKeep, DnsStepsKeep, CleanupStepsKeep
       DEF Next, Reconcile, Fault, Cleanup

(* Who changes the metadata *)
LEMMA ApiMeta ==
  ASSUME TypeOK, ControlInv, [Next]_vars
  PROVE  api'.meta = api.meta \/ AddFinalizer \/ RemoveFinalizer \/ UserDelete
  <1>1. CASE \/ ValidateSg \/ ValidateVpce \/ ValidateDns \/ Finish \/ ValidationFault
             \/ (Cleanup /\ ~RemoveFinalizer) \/ CleanupFault
    <2>1. PICK s, n : Outcome(s, n)
          BY <1>1, ValidateOutcome, CleanupOutcome DEF InPhase
    <2> QED
        BY <2>1 DEF Outcome, Stored, Same
  <1>2. CASE Parse /\ ~AddFinalizer
    <2>1. \A s : Persist(s) => api'.meta = api.meta
          BY DEF Persist, TypeOK
    <2>2. Unpersisted \/ NoWrite \/ UNCHANGED cluster => api' = api
          BY DEF Unpersisted, NoWrite, cluster
    <2> QED
        BY <1>2, <2>1, <2>2
        DEF Parse, ParseInfra, ParseService, ParseClient, ParseVpc, ParseWrite, Skip
  <1>3. CASE \/ UNCHANGED vars \/ ReconcileNotFound \/ StartReconcile \/ Crash
             \/ (Environment /\ ~UserDelete)
        BY <1>3
        DEF vars, ReconcileNotFound, StartReconcile, Crash, Environment, CacheSync, CacheExpire,
            UserEdit, EndpointProgress, EndpointTrouble, SgLost, ZoneLost, ServiceTampered,
            SourceLost, cluster
  <1> QED
      BY <1>1, <1>2, <1>3 DEF Next, Reconcile, Fault, Environment

(* A status update changes nothing, or stores s from an up-to-date copy *)
LEMMA WriteEffect ==
  ASSUME TypeOK, ControlInv, NEW s, NEW k,
         \/ WriteThen(s, k) \/ WriteThenFail(s) \/ CleanupWrite(s, k)
         \/ Persist(s) \/ Unpersisted
  PROVE  api' = api \/ (fresh /\ api'.status = s /\ mem.status = api.status)
  <1>f. fresh => mem.status = api.status
    BY DEF ControlInv, VersionInv
  <1> QED
    BY <1>f
    DEF WriteThen, WriteThenFail, CleanupWrite, Persist, Unpersisted, cluster, TypeOK

Remember ==
  /\ api'.status.sg # api.status.sg => api.status.sg \notin SgPresent'
  /\ api'.status.vpce # api.status.vpce => api.status.vpce \notin VpceLive'
  /\ setup.zoneMode = "domainName" /\ api'.status.zone # api.status.zone
       => api.status.zone \notin ZonePresent'

LEMMA RememberStep ==
  ASSUME TypeOK, ControlInv, ReleaseInv, [Next]_vars
  PROVE  Remember
  <1>s. mem.status \in Statuses
    BY DEF TypeOK
  <1>n. None \notin SgPresent' /\ None \notin VpceLive' /\ None \notin ZonePresent'
    BY ConstantsAssumption DEF SgPresent, VpceLive, ZonePresent
  <1>p. ASSUME NEW s, NEW k, \/ WriteThen(s, k) \/ WriteThenFail(s) \/ CleanupWrite(s, k)
                             \/ Persist(s) \/ Unpersisted
        PROVE  api' = api \/ (api'.status = s /\ mem.status = api.status)
    BY <1>p, WriteEffect
  <1>r. NoWrite \/ UNCHANGED cluster => api' = api
    BY DEF NoWrite, cluster
  <1>0. CASE StartReconcile
    BY <1>0 DEF StartReconcile, cluster, Remember
  <1>1. ASSUME FindSecurityGroup \/ CreateSecurityGroup, api'.status.sg # api.status.sg
        PROVE  api.status.sg \notin SgPresent'
    <2>1. CASE FindSecurityGroup
      <3>1. PICK g \in SgCandidates : WriteThen([mem.status EXCEPT !.sg = g], "sgRules")
        BY <2>1 DEF FindSecurityGroup
      <3>2. api'.status = [mem.status EXCEPT !.sg = g] /\ mem.status = api.status
        BY <3>1, <1>p, <1>1
      <3>3. api'.status.sg = g
        BY <3>2, <1>s DEF Statuses
      <3>4. SgPresent' = SgPresent
        BY <2>1 DEF FindSecurityGroup, ec2, SgPresent
      <3> QED BY <3>2, <3>3, <3>4, <1>1 DEF SgCandidates
    <2>2. CASE CreateSecurityGroup
      <3>1. PICK g \in SgIds : /\ sgs' = [sgs EXCEPT ![g] = "bare"]
                               /\ WriteThenFail([mem.status EXCEPT !.sg = g])
        BY <2>2, <1>r, <1>1 DEF CreateSecurityGroup, Fail
      <3>2. api'.status = [mem.status EXCEPT !.sg = g]
        BY <3>1, <1>p, <1>1
      <3>3. api'.status.sg = g
        BY <3>2, <1>s DEF Statuses
      <3>4. SgPresent = {}
        BY <2>2 DEF CreateSecurityGroup, SgCandidates
      <3>5. SgPresent' \subseteq {g}
        BY <3>1, <3>4 DEF SgPresent, TypeOK
      <3> QED BY <3>3, <3>5, <1>1
    <2> QED BY <1>1, <2>1, <2>2
  <1>2. ASSUME FindVpcEndpoint \/ CreateVpcEndpoint, api'.status.vpce # api.status.vpce
        PROVE  api.status.vpce \notin VpceLive'
    <2>1. ASSUME NEW v, NEW st, RecordVpcEndpoint(v, st)
          PROVE  api'.status.vpce = v /\ mem.status = api.status
      <3>1. Persist([mem.status EXCEPT !.vpce = v]) \/ Unpersisted
        BY <2>1 DEF RecordVpcEndpoint
      <3>2. api'.status = [mem.status EXCEPT !.vpce = v] /\ mem.status = api.status
        BY <3>1, <1>p, <1>2
      <3> QED BY <3>2, <1>s DEF Statuses
    <2>2. CASE FindVpcEndpoint
      <3>1. PICK v \in VpceCandidates : RecordVpcEndpoint(v, vpces[v])
        BY <2>2 DEF FindVpcEndpoint
      <3>2. api.status.vpce \notin VpceVisible
        BY <3>1, <2>1, <1>2 DEF VpceCandidates
      <3> QED BY <3>2, <2>2 DEF FindVpcEndpoint, ec2, VpceVisible, VpceLive, LiveStates
    <2>3. CASE CreateVpcEndpoint
      <3>1. PICK v \in VpceIds, st \in {"pendingAcceptance", "pending"} :
                   vpces' = [vpces EXCEPT ![v] = st] /\ RecordVpcEndpoint(v, st)
        BY <2>3, <1>r, <1>2 DEF CreateVpcEndpoint, Fail
      <3>2. VpceVisible = {}
        BY <2>3 DEF CreateVpcEndpoint, VpceCandidates
      <3>3. VpceLive' \subseteq {v}
        BY <3>1, <3>2 DEF VpceVisible, VpceLive, TypeOK, LiveStates
      <3> QED BY <3>1, <3>3, <2>1, <1>2
    <2> QED BY <1>2, <2>2, <2>3
  <1>3. ASSUME CleanupVpce \/ CleanupPoll, api'.status.vpce # api.status.vpce
        PROVE  api.status.vpce \notin VpceLive'
    <2>1. CASE CleanupVpce
      <3>1. /\ mem.status.vpce \notin VpceVisible /\ vpces' = vpces
            /\ CleanupWrite([mem.status EXCEPT !.vpce = None], "clSg")
        BY <2>1, <1>r, <1>3 DEF CleanupVpce, Skip
      <3>2. mem.status = api.status
        BY <3>1, <1>p, <1>3
      <3> QED BY <3>1, <3>2 DEF VpceVisible, VpceLive, LiveStates
    <2>2. CASE CleanupPoll
      <3>1. /\ vpces[mem.status.vpce] # "deleting" /\ vpces' = vpces /\ pc = "clPoll"
            /\ CleanupWrite([mem.status EXCEPT !.vpce = None], "clSg")
        BY <2>2, <1>r, <1>3 DEF CleanupPoll, CleanupFail, ec2
      <3>2. mem.status = api.status
        BY <3>1, <1>p, <1>3
      <3>3. vpces[mem.status.vpce] \in {"deleted", "gone"}
        BY <3>1 DEF ReleaseInv, CleanupInv
      <3> QED BY <3>1, <3>2, <3>3 DEF VpceLive, LiveStates
    <2> QED BY <1>3, <2>1, <2>2
  <1>4. ASSUME \/ ZoneAutoDiscovered \/ ZoneById \/ ZoneByName \/ CleanupZone,
               setup.zoneMode = "domainName", api'.status.zone # api.status.zone
        PROVE  api.status.zone \notin ZonePresent'
    <2>1. CASE ZoneByName
      <3>1. PICK z : StoreZone(z, "tags")
        BY <2>1, <1>r, <1>4 DEF ZoneByName, Fail
      <3>2. WriteThen([mem.status EXCEPT !.zone = z], "tags")
        BY <3>1, <1>r, <1>4 DEF StoreZone, Skip
      <3>3. mem.status = api.status
        BY <3>2, <1>p, <1>4
      <3> QED BY <3>3, <2>1, <1>n DEF ZoneByName
    <2>2. CASE CleanupZone
      <3>1. CleanupWrite([mem.status EXCEPT !.zone = None], "clVpce")
        BY <2>2, <1>r, <1>4 DEF CleanupZone, Skip
      <3>2. mem.status = api.status
        BY <3>1, <1>p, <1>4
      <3> QED BY <3>2, <2>2 DEF CleanupZone, ZonePresent, TypeOK
    <2>3. ~ZoneAutoDiscovered /\ ~ZoneById
      BY <1>4 DEF ZoneAutoDiscovered, ZoneById
    <2> QED BY <1>4, <2>1, <2>2, <2>3
  <1> QED BY <1>0, <1>1, <1>2, <1>3, <1>4, IdSteps DEF Remember, SgKept, VpceKept, ZoneIdKept

(* AVO drops or replaces an id it has recorded only when what the id names *)
(* is gone from AWS.                                                       *)
THEOREM Remembered == Spec => NeverForget
  <1>1. TypeOK /\ ControlInv /\ ReleaseInv /\ [Next]_vars => [Remember]_vars
    BY RememberStep
  <1> QED
      BY <1>1, TypeCorrect, ControlCorrect, ReleaseCorrect, PTL
      DEF Spec, NeverForget, Remember

-----------------------------------------------------------------------------
(* The endpoint is gone before the security group is deleted *)

Using == {v \in VpceIds : vpces[v] \in LiveStates \cup {"deleting"}}

(* Whatever uses the security group is the endpoint the status names, also *)
(* while a Reconcile works on an outdated copy                             *)
AttachInv ==
  /\ \A v \in attached : vpces[v] # "unused"
  /\ \A v \in attached \cap Using : api.status.vpce = v
  /\ pc = "vpceState" => mem.status.vpce = api.status.vpce
  /\ cache.meta.deleting => api.status.vpce \in {None, cache.status.vpce}
  /\ mem.meta.deleting => api.status.vpce \in {None, mem.status.vpce}

(* Only creating an endpoint adds a user, only EndpointAvailable attaches *)
LEMMA UseSteps ==
  ASSUME TypeOK, [Next]_vars
  PROVE  /\ \/ CreateVpcEndpoint
            \/ /\ Using' \subseteq Using
               /\ \A v \in VpceIds : vpces[v] # "unused" => vpces'[v] # "unused"
         /\ EndpointAvailable \/ attached' = attached
  <1> USE DEF Using
  <1>1. CASE EndpointRejected
    BY <1>1 DEF EndpointRejected, TypeOK, LiveStates
  <1>2. CASE CleanupVpce
    BY <1>2 DEF CleanupVpce, TypeOK, LiveStates
  <1>3. CASE EndpointProgress
    BY <1>3 DEF EndpointProgress, TypeOK, LiveStates
  <1>4. CASE EndpointTrouble
    BY <1>4 DEF EndpointTrouble, TypeOK, LiveStates
  <1>5. CASE EndpointAvailable
    BY <1>5 DEF EndpointAvailable
  <1>6. CASE CreateVpcEndpoint
    BY <1>6 DEF CreateVpcEndpoint
  <1>7. CASE ~(\/ EndpointRejected \/ CleanupVpce \/ EndpointProgress \/ EndpointTrouble
               \/ EndpointAvailable \/ CreateVpcEndpoint)
    <2>1. vpces' = vpces /\ attached' = attached
      BY <1>7 DEF Next, Reconcile, Fault, Environment, Parse, ValidateSg, ValidateVpce,
         ValidateDns, Cleanup, StartReconcile, ParseInfra, ParseService, ParseClient, ParseVpc,
         AddFinalizer, FindSecurityGroup, CreateSecurityGroup, ConfigureSecurityGroup,
         FindVpcEndpoint, EndpointWaiting, EndpointBad, ZoneNotConfigured, ZoneAutoDiscovered,
         ZoneById, ZoneRecorded, ZoneByName, ZoneTags, RecordSkipped, RecordNoZone,
         RecordNotReady, RecordUpsert, ServiceNotNeeded, ServiceNoRecord, ServiceMissing,
         ServiceFixed, ServiceError, ServiceAsExpected, Finish, CleanupRecord, CleanupZoneKept,
         CleanupZoneUnsafe, CleanupZone, CleanupZoneEmptied, CleanupPoll, CleanupSg,
         RemoveFinalizer, ReconcileNotFound, ValidationFault, CleanupFault, Crash, CacheSync,
         CacheExpire, UserEdit, UserDelete, SgLost, ZoneLost, ServiceTampered, SourceLost,
         ec2, vars
    <2> QED BY <2>1
  <1> QED BY <1>1, <1>2, <1>3, <1>4, <1>5, <1>6, <1>7

(* How the steps move the copies of the resource *)
LEMMA CopySteps ==
  ASSUME TypeOK, ControlInv, [Next]_vars
  PROVE  /\ cache' = cache \/ (cache' = api /\ api' = api)
         /\ \/ StartReconcile \/ mem' = NoMem
            \/ mem'.meta.deleting = mem.meta.deleting
  <1>1. CASE \/ UNCHANGED vars \/ ReconcileNotFound \/ Environment \/ Crash \/ RemoveFinalizer
             \/ StartReconcile
    BY <1>1 DEF ReconcileNotFound, vars, Environment, CacheSync, CacheExpire, UserEdit,
       UserDelete, EndpointProgress, EndpointTrouble, SgLost, ZoneLost, ServiceTampered,
       SourceLost, Crash, RemoveFinalizer, Return, Unpersisted, StartReconcile, local, cluster
  <1>2. CASE \/ ValidateSg \/ ValidateVpce \/ ValidateDns \/ Finish \/ ValidationFault
             \/ (Cleanup /\ ~RemoveFinalizer) \/ CleanupFault
    <2>1. \E s, n : Outcome(s, n)
      BY <1>2, ValidateOutcome, CleanupOutcome DEF InPhase
    <2> QED BY <2>1 DEF Outcome, Stored, Same, Kept, Returned
  <1>3. CASE AddFinalizer
    <2>1. CASE Unpersisted /\ Return("backoff")
      BY <2>1 DEF Unpersisted, Return, cluster
    <2>2. CASE ~(Unpersisted /\ Return("backoff"))
      <3>1. /\ fresh /\ cache' = cache
            /\ api' = [api EXCEPT !.meta = [api.meta EXCEPT !.finalizer = TRUE]]
        BY <2>2, <1>3 DEF AddFinalizer
      <3>2. api'.meta.deleting = api.meta.deleting
        BY <3>1 DEF TypeOK, Metas
      <3>3. mem'.meta = api'.meta
        BY <2>2, <1>3 DEF AddFinalizer, TypeOK
      <3>4. mem.meta = api.meta
        BY <3>1 DEF ControlInv, VersionInv
      <3> QED BY <3>1, <3>2, <3>3, <3>4
    <2> QED BY <2>1, <2>2
  <1>4. CASE Parse /\ ~AddFinalizer
    <2>1. \A n, s : Continue(n, s) => mem'.meta = mem.meta
      BY DEF Continue, TypeOK
    <2>2. \A q : Return(q) => mem' = NoMem
      BY DEF Return
    <2>3. \A s, c : ParseFailed(s, c) => mem'.meta = mem.meta \/ mem' = NoMem
      BY <2>1, <2>2 DEF ParseFailed
    <2>4. \A s, n, c : ParseWrite(s, n, c)
                         => cache' = cache /\ (mem'.meta = mem.meta \/ mem' = NoMem)
      BY <2>1, <2>3 DEF ParseWrite, Persist, Unpersisted, cluster
    <2>5. \A n : Skip(n) => cache' = cache /\ mem'.meta = mem.meta
      BY <2>1 DEF Skip, NoWrite
    <2>6. NoWrite \/ UNCHANGED cluster => cache' = cache
      BY DEF NoWrite, cluster
    <2> QED
      BY <1>4, <2>3, <2>4, <2>5, <2>6 DEF Parse, ParseInfra, ParseService, ParseClient, ParseVpc
  <1> QED BY <1>1, <1>2, <1>3, <1>4 DEF Next, Reconcile, Fault, Cleanup

(* The check of the endpoint's state follows its lookup or its creation *)
LEMMA StateEntry ==
  ASSUME TypeOK, ControlInv, [Next]_vars, pc' = "vpceState"
  PROVE  FindVpcEndpoint \/ CreateVpcEndpoint \/ (pc' = pc /\ mem' = mem)
  <1>k. \A n, s : Continue(n, s) => pc' = n
    BY DEF Continue
  <1>r. /\ \A q : ~Return(q)
        /\ \A s : ~Failed(s)
    BY FailedReturns DEF Return
  <1>w. \A s, n : WriteThen(s, n) \/ CleanupWrite(s, n) \/ Skip(n) => pc' = n
    BY <1>k, <1>r DEF WriteThen, CleanupWrite, Skip
  <1>d. DnsEntry # "vpceState"
    BY DEF DnsEntry
  <1>1. CASE \/ UNCHANGED vars \/ ReconcileNotFound \/ Environment
    BY <1>1 DEF ReconcileNotFound, vars, Environment, CacheSync, CacheExpire, UserEdit,
       UserDelete, EndpointProgress, EndpointTrouble, SgLost, ZoneLost, ServiceTampered,
       SourceLost, local
  <1>2. CASE Parse
    BY <1>2, ParseKeepsIds
  <1>3. ~(Crash \/ CleanupFault \/ ValidationFault \/ Finish \/ StartReconcile)
    BY <1>r DEF Crash, CleanupFault, ValidationFault, Finish, StartReconcile
  <1>4. ~ValidateSg
    BY <1>r, <1>w DEF ValidateSg, FindSecurityGroup, CreateSecurityGroup,
       ConfigureSecurityGroup, WriteThenFail, Fail
  <1>5. CASE ValidateVpce
    BY <1>5, <1>r, <1>w, <1>d DEF ValidateVpce, EndpointWaiting, EndpointRejected, EndpointBad,
       EndpointAvailable, WriteThenFail, Fail
  <1>6. ~ValidateDns
    <2>1. \A z, n : StoreZone(z, n) => pc' = n
      BY <1>w DEF StoreZone
    <2>2. ~(ZoneNotConfigured \/ ZoneAutoDiscovered \/ ZoneById \/ ZoneRecorded \/ ZoneByName
            \/ ZoneTags)
      BY <1>r, <1>w, <2>1 DEF ZoneNotConfigured, ZoneAutoDiscovered, ZoneById, ZoneRecorded,
         ZoneByName, ZoneTags, Fail
    <2>3. ~(RecordSkipped \/ RecordNoZone \/ RecordNotReady \/ RecordUpsert)
      BY <1>r, <1>w, <1>k DEF RecordSkipped, RecordNoZone, RecordNotReady, RecordUpsert, Fail
    <2>4. ~(\/ ServiceNotNeeded \/ ServiceNoRecord \/ ServiceMissing \/ ServiceFixed
            \/ ServiceError \/ ServiceAsExpected)
      BY <1>r, <1>w DEF ServiceNotNeeded, ServiceNoRecord, ServiceMissing, ServiceFixed,
         ServiceError, ServiceAsExpected, WriteThenFail, Fail
    <2> QED BY <2>2, <2>3, <2>4 DEF ValidateDns
  <1>7. ~Cleanup
    BY <1>r, <1>w DEF Cleanup, CleanupRecord, CleanupZoneKept, CleanupZoneUnsafe, CleanupZone,
       CleanupZoneEmptied, CleanupVpce, CleanupPoll, CleanupSg, RemoveFinalizer, CleanupFail
  <1> QED BY <1>1, <1>2, <1>3, <1>4, <1>5, <1>6, <1>7 DEF Next, Reconcile, Fault

(* A step that keeps the endpoint's id and attaches nothing new *)
LEMMA AttachKept ==
  ASSUME TypeOK, ControlInv, AttachInv, [Next]_vars, ~StartReconcile, VpceKept,
         Using' \subseteq Using, attached' \subseteq attached \cup {api.status.vpce},
         \A v \in attached' : vpces'[v] # "unused"
  PROVE  AttachInv'
  <1>m. NoMem.meta.deleting = FALSE
    BY DEF NoMem, NoMeta
  <1>1. \A v \in (attached \cap Using)' : api'.status.vpce = v
    BY DEF AttachInv, VpceKept
  <1>2. pc' = "vpceState" => mem'.status.vpce = api'.status.vpce
    <2> SUFFICES ASSUME pc' = "vpceState" PROVE mem'.status.vpce = api'.status.vpce
      OBVIOUS
    <2>1. CASE pc' = pc /\ mem' = mem
      BY <2>1 DEF AttachInv, VpceKept
    <2>2. CASE FindVpcEndpoint \/ CreateVpcEndpoint
      <3>1. PICK v, st : RecordVpcEndpoint(v, st)
        BY <2>2 DEF FindVpcEndpoint, CreateVpcEndpoint, Fail, Failed, Return
      <3>2. ~(Unpersisted /\ Failed([mem.status EXCEPT !.vpce = v]))
        BY FailedReturns DEF Return
      <3>3. api'.status = mem'.status
        BY <3>1, <3>2 DEF RecordVpcEndpoint, Persist, TypeOK
      <3> QED BY <3>3
    <2> QED BY <2>1, <2>2, StateEntry
  <1>3. cache'.meta.deleting => api'.status.vpce \in {None, cache'.status.vpce}
    BY CopySteps DEF AttachInv, VpceKept
  <1>4. mem'.meta.deleting => api'.status.vpce \in {None, mem'.status.vpce}
    BY <1>m, CopySteps DEF AttachInv, VpceKept
  <1> QED BY <1>1, <1>2, <1>3, <1>4 DEF AttachInv

(* A validation's change of the id is made by a copy that is not deleting *)
LEMMA AttachRecorded ==
  ASSUME TypeOK, ControlInv, AttachInv, [Next]_vars, NEW v, NEW st,
         RecordVpcEndpoint(v, st), pc = "vpce", api'.status.vpce # api.status.vpce,
         (attached \cap Using)' = {},
         \A u \in attached' : vpces'[u] # "unused"
  PROVE  AttachInv'
  <1>m. NoMem.meta.deleting = FALSE
    BY DEF NoMem, NoMeta
  <1>1. ~Unpersisted
    BY DEF Unpersisted, cluster
  <1>2. /\ fresh /\ Persist([mem.status EXCEPT !.vpce = v])
        /\ mem' = [mem EXCEPT !.status = [mem.status EXCEPT !.vpce = v], !.seen = st]
    BY <1>1 DEF RecordVpcEndpoint, Persist
  <1>3. api'.status = mem'.status /\ mem'.meta = mem.meta /\ cache' = cache
    BY <1>2 DEF Persist, TypeOK
  <1>4. ~mem.meta.deleting /\ mem.meta = api.meta
    BY <1>2 DEF ControlInv, VersionInv, PcInv, ValidatePcs
  <1>5. ~cache.meta.deleting
    BY <1>4 DEF ControlInv, MetaInv, MetaCopy
  <1> QED BY <1>3, <1>4, <1>5 DEF AttachInv

(* Every step keeps AttachInv *)
LEMMA AttachStep ==
  ASSUME TypeOK, ControlInv, ReleaseInv, AttachInv, [Next]_vars
  PROVE  AttachInv'
  <1> USE ConstantsAssumption
  <1>s. mem.status \in Statuses
    BY DEF TypeOK
  <1>a. attached \subseteq VpceIds
    BY DEF TypeOK
  <1>m. NoMem.meta.deleting = FALSE
    BY DEF NoMem, NoMeta
  <1>1. CASE CreateVpcEndpoint
    <2>1. VpceVisible = {}
      BY <1>1 DEF CreateVpcEndpoint, VpceCandidates
    <2>2. attached' = attached /\ pc = "vpce"
      BY <1>1 DEF CreateVpcEndpoint
    <2>3. \A u \in attached' : vpces'[u] # "unused" /\ u \notin Using'
      <3> SUFFICES ASSUME NEW u \in attached PROVE vpces'[u] # "unused" /\ u \notin Using'
        BY <2>2
      <3>1. vpces[u] = "gone"
        BY <1>a, <2>1 DEF AttachInv, VpceVisible
      <3>2. vpces'[u] = "gone"
        BY <1>1, <1>a, <3>1 DEF CreateVpcEndpoint, TypeOK
      <3> QED BY <3>2 DEF Using, LiveStates
    <2>4. (attached \cap Using)' = {}
      BY <2>3
    <2>5. CASE api'.status.vpce # api.status.vpce
      <3>1. PICK v, st : RecordVpcEndpoint(v, st)
        BY <1>1, <2>5 DEF CreateVpcEndpoint, Fail, NoWrite
      <3> QED BY <2>2, <2>3, <2>4, <2>5, <3>1, AttachRecorded
    <2>6. CASE api'.status.vpce = api.status.vpce
      <3>1. \/ mem' = NoMem /\ pc' = "idle"
            \/ mem'.status = api'.status /\ mem'.meta = mem.meta
        <4>1. ASSUME NEW v, NEW st, RecordVpcEndpoint(v, st)
              PROVE  \/ mem' = NoMem /\ pc' = "idle"
                     \/ mem'.status = api'.status /\ mem'.meta = mem.meta
          BY <4>1, FailedReturns DEF RecordVpcEndpoint, Persist, Return, TypeOK
        <4>2. Fail => mem' = NoMem /\ pc' = "idle"
          BY FailedReturns DEF Fail, Return
        <4> QED BY <1>1, <4>1, <4>2 DEF CreateVpcEndpoint
      <3>2. cache' = cache
        BY <1>1 DEF CreateVpcEndpoint, Fail, NoWrite, RecordVpcEndpoint, Persist, Unpersisted,
           cluster
      <3> QED BY <2>3, <2>4, <2>6, <3>1, <3>2, <1>m DEF AttachInv
    <2> QED BY <2>5, <2>6
  <1>2. CASE FindVpcEndpoint
    <2>0. attached' = attached /\ vpces' = vpces /\ pc = "vpce"
      BY <1>2 DEF FindVpcEndpoint, ec2
    <2>1. Using' = Using /\ \A u \in attached' : vpces'[u] # "unused"
      BY <2>0 DEF Using, AttachInv
    <2>2. PICK v \in VpceCandidates : RecordVpcEndpoint(v, vpces[v])
      BY <1>2 DEF FindVpcEndpoint
    <2>3. CASE api'.status.vpce # api.status.vpce
      <3>1. api'.status = [mem.status EXCEPT !.vpce = v] /\ fresh
        BY <2>2, <2>3 DEF RecordVpcEndpoint, Persist, Unpersisted, cluster, TypeOK
      <3>2. mem.status = api.status /\ api'.status.vpce = v
        BY <3>1, <1>s DEF ControlInv, VersionInv, Statuses
      <3>3. api.status.vpce \notin VpceVisible
        BY <2>2, <2>3, <3>2 DEF VpceCandidates
      <3>4. Using \subseteq VpceVisible
        BY DEF Using, VpceVisible, LiveStates
      <3>5. (attached \cap Using)' = {}
        BY <2>0, <2>1, <3>3, <3>4 DEF AttachInv
      <3> QED BY <2>0, <2>1, <2>2, <2>3, <3>5, AttachRecorded
    <2>4. CASE api'.status.vpce = api.status.vpce
      <3>1. \/ mem' = NoMem /\ pc' = "idle"
            \/ mem'.status = api'.status /\ mem'.meta = mem.meta
        BY <2>2, FailedReturns DEF RecordVpcEndpoint, Persist, Return, TypeOK
      <3>2. cache' = cache
        BY <2>2 DEF RecordVpcEndpoint, Persist, Unpersisted, cluster
      <3> QED BY <2>0, <2>1, <2>4, <3>1, <3>2, <1>m DEF AttachInv
    <2> QED BY <2>3, <2>4
  <1>3. CASE CleanupVpce \/ CleanupPoll
    <2>p. pc \in CleanupPcs
      BY <1>3 DEF CleanupVpce, CleanupPoll, CleanupPcs
    <2>u. /\ Using' \subseteq Using /\ attached' = attached
          /\ \A v \in attached' : vpces'[v] # "unused"
      BY <1>3, UseSteps DEF AttachInv, CleanupVpce, CleanupPoll, CreateVpcEndpoint,
         EndpointAvailable, TypeOK
    <2>1. CASE VpceKept
      BY <1>3, <2>1, <2>u, AttachKept DEF CleanupVpce, CleanupPoll, StartReconcile
    <2>2. CASE ~VpceKept
      <3> DEFINE s == [mem.status EXCEPT !.vpce = None]
      <3>1. ~CleanupFail /\ \A n : ~Skip(n)
        BY <2>2, ReadKeeps DEF CleanupFail, IdsKept
      <3>2. CleanupWrite(s, "clSg") /\ vpces' = vpces
        BY <1>3, <3>1 DEF CleanupVpce, CleanupPoll, ec2
      <3>3. ~(Unpersisted /\ Return("backoff"))
        BY <2>2, ReadKeeps DEF Unpersisted, IdsKept
      <3>4. Persist(s) /\ Continue("clSg", s)
        BY <3>2, <3>3 DEF CleanupWrite
      <3>5. /\ api'.status.vpce = None /\ mem'.status.vpce = None
            /\ cache' = cache /\ pc' = "clSg" /\ mem.status = api.status
        BY <3>4, <1>s DEF Persist, Continue, TypeOK, Statuses, ControlInv, VersionInv
      <3>6. mem.status.vpce \notin Using
        <4>1. CASE CleanupVpce
          BY <4>1, <3>1 DEF CleanupVpce, VpceVisible, Using, LiveStates
        <4>2. CASE CleanupPoll
          BY <4>2, <3>1 DEF CleanupPoll, ReleaseInv, CleanupInv, Using, LiveStates
        <4> QED BY <1>3, <4>1, <4>2
      <3>7. (attached \cap Using)' = {}
        BY <2>u, <3>5, <3>6 DEF AttachInv
      <3> QED BY <2>u, <3>5, <3>7 DEF AttachInv
    <2> QED BY <2>1, <2>2
  <1>4. CASE StartReconcile
    <2>1. /\ api' = api /\ cache' = cache /\ pc' = "infra"
          /\ mem'.meta = cache.meta /\ mem'.status = cache.status
          /\ vpces' = vpces /\ attached' = attached
      BY <1>4 DEF StartReconcile, cluster, ec2
    <2> QED BY <2>1 DEF AttachInv, Using
  <1>5. CASE EndpointAvailable
    <2>1. vpces' = vpces /\ attached' \subseteq attached \cup {mem.status.vpce}
      BY <1>5 DEF EndpointAvailable
    <2>2. mem.status.vpce = api.status.vpce
      BY <1>5 DEF EndpointAvailable, AttachInv
    <2>3. Using' \subseteq Using /\ \A v \in attached' : vpces'[v] # "unused"
      BY <1>5, <2>1 DEF EndpointAvailable, Using, AttachInv, VpceLive, LiveStates
    <2>4. VpceKept
      BY <1>5, VpceStepsKeep DEF ValidateVpce, EndpointAvailable, FindVpcEndpoint,
         CreateVpcEndpoint
    <2> QED BY <1>5, <2>1, <2>2, <2>3, <2>4, AttachKept DEF EndpointAvailable, StartReconcile
  <1>6. CASE ~(\/ CreateVpcEndpoint \/ FindVpcEndpoint \/ CleanupVpce \/ CleanupPoll
               \/ StartReconcile \/ EndpointAvailable)
    <2>1. Using' \subseteq Using /\ attached' = attached
      BY <1>6, UseSteps
    <2>2. \A v \in attached' : vpces'[v] # "unused"
      BY <1>6, <1>a, <2>1, UseSteps DEF AttachInv
    <2>3. VpceKept
      BY <1>6, IdSteps
    <2> QED BY <1>6, <2>1, <2>2, <2>3, AttachKept
  <1> QED BY <1>1, <1>2, <1>3, <1>4, <1>5, <1>6

(* The cleanup gets to the security group only when no endpoint uses it.   *)
THEOREM EndpointGoneFirst == Spec => []EndpointGoneBeforeSg
  <1>1. Init => AttachInv
    BY DEF Init, AttachInv, Using, NoMem, NoMeta
  <1>2. Spec => []AttachInv
    BY <1>1, AttachStep, TypeCorrect, ControlCorrect, ReleaseCorrect, PTL DEF Spec
  <1>3. TypeOK /\ ControlInv /\ ReleaseInv /\ AttachInv => EndpointGoneBeforeSg
    <2> SUFFICES ASSUME TypeOK, ControlInv, ReleaseInv, AttachInv, pc = "clSg"
                 PROVE  ~SgInUse
      BY DEF EndpointGoneBeforeSg
    <2>1. mem.meta.deleting /\ mem.status.vpce = None
      BY DEF ControlInv, PcInv, CleanupPcs, ReleaseInv, CleanupInv
    <2>2. api.status.vpce = None
      BY <2>1 DEF AttachInv
    <2>3. attached \cap Using = {}
      BY <2>2, ConstantsAssumption DEF AttachInv, Using
    <2> QED BY <2>3 DEF SgInUse, Using, TypeOK
  <1> QED BY <1>2, <1>3, TypeCorrect, ControlCorrect, ReleaseCorrect, PTL
=============================================================================
