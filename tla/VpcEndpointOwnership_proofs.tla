-------------------- MODULE VpcEndpointOwnership_proofs ---------------------
(***************************************************************************)
(* The VpcEndpoint controller implements OwnedResource for the security    *)
(* group, the endpoint and the hosted zone: every step of the controller   *)
(* and of its surroundings is a step of the abstract specification or      *)
(* changes nothing that it sees.                                           *)
(***************************************************************************)
EXTENDS VpcEndpointOwnership, VpcEndpointRelease_proofs

(* The owner, from the resource's metadata *)
LEMMA OwnerValues ==
  /\ Owner = "gone" <=> ~api.meta.exists
  /\ Owner = "guarded" <=> api.meta.exists /\ api.meta.finalizer
  /\ Owner = "bare" <=> api.meta.exists /\ ~api.meta.finalizer
  /\ Owner \in {"bare", "guarded", "gone"}
  BY DEF Owner

LEMMA OwnerValuesNext ==
  /\ Owner' = "gone" <=> ~api'.meta.exists
  /\ Owner' = "guarded" <=> api'.meta.exists /\ api'.meta.finalizer
  /\ Owner' = "bare" <=> api'.meta.exists /\ ~api'.meta.finalizer
  /\ Owner' \in {"bare", "guarded", "gone"}
  BY DEF Owner

(* AWS and the status stay as they are *)
Still == UNCHANGED <<ec2, route53>> /\ api'.status = api.status

(* The owner stays, or AddFinalizer guards it, or it goes, and then AWS    *)
(* and the status stay                                                     *)
LEMMA OwnerSteps ==
  ASSUME TypeOK, ControlInv, [Next]_vars
  PROVE  \/ Owner' = Owner
         \/ Still /\ Owner = "bare" /\ Owner' = "guarded"
         \/ Still /\ Owner # "gone" /\ Owner' = "gone"
  <1> USE OwnerValues, OwnerValuesNext
  <1>a. api \in [meta : Metas, status : Statuses]
        BY DEF TypeOK
  <1>1. CASE api'.meta = api.meta
        BY <1>1
  <1>2. CASE AddFinalizer
    <2>1. CASE Unpersisted
          BY <2>1 DEF Unpersisted, cluster
    <2>2. CASE fresh /\ api' = [api EXCEPT !.meta = [@ EXCEPT !.finalizer = TRUE]]
      <3>1. /\ api'.meta.exists = api.meta.exists /\ api'.meta.finalizer
            /\ api'.status = api.status
            BY <2>2, <1>a DEF Metas
      <3>2. api.meta.exists
            BY <2>2, FreshExists
      <3> QED
          BY <1>2, <3>1, <3>2 DEF AddFinalizer, Still
    <2> QED
        BY <1>2, <2>1, <2>2 DEF AddFinalizer
  <1>3. CASE RemoveFinalizer
    <2>1. CASE Unpersisted
          BY <2>1 DEF Unpersisted, cluster
    <2>2. CASE fresh
               /\ api' = [api EXCEPT !.meta = [@ EXCEPT !.finalizer = FALSE, !.exists = FALSE]]
      <3>1. ~api'.meta.exists /\ api'.status = api.status
            BY <2>2, <1>a DEF Metas
      <3>2. api.meta.exists
            BY <2>2, FreshExists
      <3> QED
          BY <1>3, <3>1, <3>2 DEF RemoveFinalizer, Still
    <2> QED
        BY <1>3, <2>1, <2>2 DEF RemoveFinalizer
  <1>4. CASE UserDelete
    <2>1. /\ api'.meta.exists = api.meta.finalizer /\ api'.meta.finalizer = api.meta.finalizer
          /\ api'.status = api.status /\ api.meta.exists
          BY <1>4, <1>a DEF UserDelete, Metas
    <2> QED
        BY <1>4, <2>1 DEF UserDelete, Still
  <1> QED
      BY <1>1, <1>2, <1>3, <1>4, ApiMeta

(* Validations, and the cleanup's writes, run under the finalizer *)
LEMMA GuardedValidation ==
  ASSUME ControlInv, pc \in ValidatePcs
  PROVE  Owner = "guarded"
  BY ValidationCovered, OwnerValues

LEMMA GuardedCleanup ==
  ASSUME ControlInv, pc \in CleanupPcs, fresh
  PROVE  Owner = "guarded"
  <1>1. mem.meta.deleting /\ mem.meta = api.meta /\ api.meta.exists
        BY FreshExists DEF ControlInv, PcInv, VersionInv
  <1> QED
      BY <1>1, OwnerValues DEF ControlInv, MetaInv, MetaCopy

-----------------------------------------------------------------------------
(* The security group *)

LEMMA SgStep ==
  ASSUME TypeOK, ControlInv, ReleaseInv, ReleaseInv', setup' = setup, [Next]_vars
  PROVE  [OwnSg!Next]_(OwnSg!vars)
  <1> USE DEF OwnSg!Next, OwnSg!vars
  <1>s. mem.status \in Statuses
        BY DEF TypeOK
  <1>1. CASE Still /\ Owner = "bare" /\ Owner' = "guarded"
    <2>1. SgPresent' = SgPresent
          BY <1>1 DEF Still, ec2, SgPresent
    <2> QED
        BY <1>1, <2>1 DEF Still, OwnSg!Guard
  <1>2. CASE Still /\ Owner # "gone" /\ Owner' = "gone"
    <2>1. SgPresent' = SgPresent /\ api'.status = api.status
          BY <1>2 DEF Still, ec2, SgPresent
    <2>2. api.status.sg \notin SgPresent
          BY <1>2, <2>1, OwnerValuesNext DEF ReleaseInv, RecordedIsReleased
    <2>3. Owner = "bare" => SgPresent = {}
          BY OwnerValues DEF ReleaseInv, CleanStart
    <2> QED
        BY <1>2, <2>1, <2>2, <2>3, OwnerValues DEF OwnSg!Retire
  <1>3. CASE Owner' = Owner /\ FindSecurityGroup
    <2>1. PICK g \in SgCandidates : WriteThen([mem.status EXCEPT !.sg = g], "sgRules")
          BY <1>3 DEF FindSecurityGroup
    <2>2. SgPresent' = SgPresent /\ g \in SgPresent /\ g \in SgIds
          BY <1>3, <2>1 DEF FindSecurityGroup, ec2, SgPresent, SgCandidates
    <2>3. Owner = "guarded"
          BY <1>3, GuardedValidation DEF FindSecurityGroup, ValidatePcs
    <2>4. CASE api' = api
          BY <1>3, <2>2, <2>4 DEF OwnSg!Fade
    <2>5. CASE api'.status = [mem.status EXCEPT !.sg = g] /\ mem.status = api.status
      <3>1. api'.status.sg = g
            BY <2>5, <1>s DEF Statuses
      <3>2. api.status.sg \in SgPresent => api.status.sg = g
            BY <2>1, <2>5 DEF SgCandidates
      <3>3. CASE api.status.sg \in SgPresent
            BY <1>3, <2>2, <3>1, <3>2, <3>3 DEF OwnSg!Fade
      <3>4. CASE api.status.sg \notin SgPresent
            BY <1>3, <2>2, <2>3, <3>1, <3>4 DEF OwnSg!Note
      <3> QED
          BY <3>3, <3>4
    <2> QED
        BY <2>1, <2>4, <2>5, WriteEffect
  <1>4. CASE Owner' = Owner /\ CreateSecurityGroup
    <2>1. SgPresent = {}
          BY <1>4 DEF CreateSecurityGroup, SgCandidates
    <2>2. Owner = "guarded"
          BY <1>4, GuardedValidation DEF CreateSecurityGroup, ValidatePcs
    <2>3. CASE sgs' = sgs /\ Fail
          BY <1>4, <2>3 DEF SgPresent, Fail, NoWrite
    <2>4. ASSUME NEW g \in SgIds, sgs[g] = "unused", sgs' = [sgs EXCEPT ![g] = "bare"],
                 WriteThenFail([mem.status EXCEPT !.sg = g]) \/ UNCHANGED cluster
          PROVE  [OwnSg!Next]_(OwnSg!vars)
      <3>1. SgPresent' = {g}
            BY <2>1, <2>4 DEF SgPresent, TypeOK
      <3>2. api'.status.sg \in {api.status.sg, g}
        <4>1. [mem.status EXCEPT !.sg = g].sg = g
              BY <1>s DEF Statuses
        <4> QED
            BY <2>4, <4>1, WriteEffect DEF cluster
      <3>3. OwnSg!Make(g)
            BY <1>4, <2>1, <2>2, <3>1, <3>2 DEF OwnSg!Make
      <3> QED
          BY <3>3
    <2> QED
        BY <1>4, <2>3, <2>4 DEF CreateSecurityGroup
  <1>5. CASE Owner' = Owner /\ SgPresent' \subseteq SgPresent /\ api'.status.sg = api.status.sg
        BY <1>5 DEF OwnSg!Fade
  <1>6. CreateSecurityGroup \/ SgPresent' \subseteq SgPresent
    <2>1. CreateVpcEndpoint \/ ZoneByName => SgPresent' = SgPresent
          BY DEF CreateVpcEndpoint, ZoneByName, ec2, SgPresent
    <2> QED
        BY <2>1, ShrinkSteps DEF Shrinks, Creates
  <1>7. FindSecurityGroup \/ CreateSecurityGroup \/ api'.status.sg = api.status.sg
        BY IdSteps DEF SgKept, StartReconcile, cluster
  <1> QED
      BY <1>1, <1>2, <1>3, <1>4, <1>5, <1>6, <1>7, OwnerSteps

-----------------------------------------------------------------------------
(* The endpoint *)

(* The end of findOrCreateVpcEndpoint stores the id, or changes nothing *)
LEMMA RecordEffect ==
  ASSUME TypeOK, ControlInv, NEW v, NEW st, RecordVpcEndpoint(v, st)
  PROVE  api' = api \/ (api'.status.vpce = v /\ mem.status = api.status)
  <1>1. Persist([mem.status EXCEPT !.vpce = v]) \/ Unpersisted
        BY DEF RecordVpcEndpoint
  <1>2. [mem.status EXCEPT !.vpce = v].vpce = v
        BY DEF TypeOK, Statuses
  <1> QED
      BY <1>1, <1>2, WriteEffect

LEMMA VpceStep ==
  ASSUME TypeOK, ControlInv, ReleaseInv, ReleaseInv', setup' = setup, [Next]_vars
  PROVE  [OwnVpce!Next]_(OwnVpce!vars)
  <1> USE DEF OwnVpce!Next, OwnVpce!vars
  <1>s. mem.status \in Statuses
        BY DEF TypeOK
  <1>1. CASE Still /\ Owner = "bare" /\ Owner' = "guarded"
    <2>1. VpceVisible' = VpceVisible /\ VpceLive' = VpceLive
          BY <1>1 DEF Still, ec2, VpceVisible, VpceLive
    <2> QED
        BY <1>1, <2>1 DEF Still, OwnVpce!Guard
  <1>2. CASE Still /\ Owner # "gone" /\ Owner' = "gone"
    <2>1. VpceVisible' = VpceVisible /\ VpceLive' = VpceLive /\ api'.status = api.status
          BY <1>2 DEF Still, ec2, VpceVisible, VpceLive
    <2>2. api.status.vpce \notin VpceLive
          BY <1>2, <2>1, OwnerValuesNext DEF ReleaseInv, RecordedIsReleased
    <2>3. Owner = "bare" => VpceVisible = {}
          BY OwnerValues DEF ReleaseInv, CleanStart
    <2> QED
        BY <1>2, <2>1, <2>2, <2>3, OwnerValues DEF OwnVpce!Retire
  <1>3. CASE Owner' = Owner /\ FindVpcEndpoint
    <2>1. PICK v \in VpceCandidates : RecordVpcEndpoint(v, vpces[v])
          BY <1>3 DEF FindVpcEndpoint
    <2>2. /\ VpceVisible' = VpceVisible /\ VpceLive' = VpceLive
          /\ v \in VpceVisible /\ v \in VpceIds
          BY <1>3, <2>1 DEF FindVpcEndpoint, ec2, VpceVisible, VpceLive, VpceCandidates
    <2>3. Owner = "guarded"
          BY <1>3, GuardedValidation DEF FindVpcEndpoint, ValidatePcs
    <2>4. CASE api' = api
          BY <1>3, <2>2, <2>4 DEF OwnVpce!Fade
    <2>5. CASE api'.status.vpce = v /\ mem.status = api.status
      <3>1. api.status.vpce \in VpceVisible => api.status.vpce = v
            BY <2>1, <2>5 DEF VpceCandidates
      <3>2. CASE api.status.vpce \in VpceVisible
            BY <1>3, <2>2, <2>5, <3>1, <3>2 DEF OwnVpce!Fade
      <3>3. CASE api.status.vpce \notin VpceVisible
            BY <1>3, <2>2, <2>3, <2>5, <3>3 DEF OwnVpce!Note
      <3> QED
          BY <3>2, <3>3
    <2> QED
        BY <2>1, <2>4, <2>5, RecordEffect
  <1>4. CASE Owner' = Owner /\ CreateVpcEndpoint
    <2>1. VpceVisible = {} /\ VpceLive = {}
      <3>1. VpceVisible = {}
            BY <1>4 DEF CreateVpcEndpoint, VpceCandidates
      <3> QED
          BY <3>1 DEF VpceVisible, VpceLive, LiveStates
    <2>2. Owner = "guarded"
          BY <1>4, GuardedValidation DEF CreateVpcEndpoint, ValidatePcs
    <2>3. CASE vpces' = vpces /\ Fail
          BY <1>4, <2>3 DEF VpceVisible, VpceLive, Fail, NoWrite
    <2>4. ASSUME NEW v \in VpceIds, NEW st \in {"pendingAcceptance", "pending"},
                 vpces' = [vpces EXCEPT ![v] = st], RecordVpcEndpoint(v, st)
          PROVE  [OwnVpce!Next]_(OwnVpce!vars)
      <3>1. VpceVisible' = {v} /\ VpceLive' = {v}
            BY <2>1, <2>4 DEF VpceVisible, VpceLive, LiveStates, TypeOK
      <3>2. api'.status.vpce \in {api.status.vpce, v}
            BY <2>4, RecordEffect
      <3>3. OwnVpce!Make(v)
            BY <1>4, <2>1, <2>2, <3>1, <3>2 DEF OwnVpce!Make
      <3> QED
          BY <3>3
    <2> QED
        BY <1>4, <2>3, <2>4 DEF CreateVpcEndpoint
  <1>5. \/ VpceVisible' \subseteq VpceVisible /\ VpceLive' \subseteq VpceLive
        \/ CreateVpcEndpoint
    <2>1. CreateSecurityGroup \/ ZoneByName => VpceVisible' = VpceVisible /\ VpceLive' = VpceLive
          BY DEF CreateSecurityGroup, ZoneByName, ec2, VpceVisible, VpceLive
    <2> QED
        BY <2>1, ShrinkSteps DEF Shrinks, Creates
  <1>6. CASE /\ Owner' = Owner /\ ~CreateVpcEndpoint /\ (CleanupVpce \/ CleanupPoll)
             /\ api'.status.vpce # api.status.vpce
    <2>1. pc \in CleanupPcs
          BY <1>6 DEF CleanupVpce, CleanupPoll, CleanupPcs
    <2>2. CleanupWrite([mem.status EXCEPT !.vpce = None], "clSg")
          BY <1>6 DEF CleanupVpce, CleanupPoll, CleanupFail, Skip, NoWrite
    <2>3. fresh /\ api'.status = [mem.status EXCEPT !.vpce = None]
          BY <1>6, <2>2, WriteEffect
    <2>4. Owner = "guarded" /\ api'.status.vpce = None
          BY <1>s, <2>1, <2>3, GuardedCleanup DEF Statuses
    <2>5. api.status.vpce \notin VpceLive'
          BY <1>6, RememberStep DEF Remember
    <2> QED
        BY <1>5, <1>6, <2>4, <2>5 DEF OwnVpce!Forget
  <1>7. CASE Owner' = Owner /\ ~CreateVpcEndpoint /\ api'.status.vpce = api.status.vpce
        BY <1>5, <1>7 DEF OwnVpce!Fade
  <1>8. \/ FindVpcEndpoint \/ CreateVpcEndpoint \/ CleanupVpce \/ CleanupPoll
        \/ api'.status.vpce = api.status.vpce
        BY IdSteps DEF VpceKept, StartReconcile, cluster
  <1> QED
      BY <1>1, <1>2, <1>3, <1>4, <1>6, <1>7, <1>8, OwnerSteps

-----------------------------------------------------------------------------
(* The hosted zone *)

LEMMA ZoneStep ==
  ASSUME TypeOK, ControlInv, ReleaseInv, ReleaseInv', setup' = setup, [Next]_vars
  PROVE  [OwnZone!Next]_(OwnZone!vars)
  <1> USE DEF OwnZone!Next, OwnZone!vars
  <1>s. mem.status \in Statuses
        BY DEF TypeOK
  <1>o. ZoneOwned' = ZoneOwned
        BY DEF ZoneOwned
  <1>1. CASE ~ZoneOwned
    <2>1. OwnZones = {} /\ OwnZones' = {}
          BY <1>1, <1>o DEF OwnZones
    <2>2. Owner' = Owner => OwnZone!Fade
          BY <1>1, <1>o, <2>1 DEF OwnZone!Fade
    <2>3. Owner = "bare" /\ Owner' = "guarded" => OwnZone!Guard
          BY <1>1, <1>o, <2>1 DEF OwnZone!Guard
    <2>4. Owner # "gone" /\ Owner' = "gone" => OwnZone!Retire
          BY <1>1, <1>o, <2>1, OwnerValues DEF OwnZone!Retire
    <2> QED
        BY <2>2, <2>3, <2>4, OwnerSteps
  <1>2. CASE ZoneOwned
    <2>z. /\ OwnZones = ZonePresent /\ OwnZones' = ZonePresent' /\ ZoneOwned'
          /\ setup.zoneMode = "domainName" /\ ~setup.baseDomain /\ setup.foreign = {}
          BY <1>2, <1>o DEF OwnZones, ZoneOwned
    <2> USE <1>2, <2>z
    <2>1. CASE Still /\ Owner = "bare" /\ Owner' = "guarded"
      <3>1. ZonePresent' = ZonePresent
            BY <2>1 DEF Still, route53, ZonePresent
      <3> QED
          BY <2>1, <3>1 DEF Still, OwnZone!Guard
    <2>2. CASE Still /\ Owner # "gone" /\ Owner' = "gone"
      <3>1. ZonePresent' = ZonePresent /\ api'.status = api.status
            BY <2>2 DEF Still, route53, ZonePresent
      <3>2. api.status.zone \notin ZonePresent
            BY <2>2, <3>1, OwnerValuesNext DEF ReleaseInv, RecordedIsReleased
      <3>3. Owner = "bare" => ZonePresent = {}
            BY OwnerValues DEF ReleaseInv, CleanStart
      <3> QED
          BY <2>2, <3>1, <3>2, <3>3, OwnerValues DEF OwnZone!Retire
    <2>3. ASSUME NEW z \in ZoneIds, StoreZone(z, "tags"), mem.status.zone = None
          PROVE  \/ api' = api
                 \/ api'.status.zone = z /\ api.status.zone = None
      <3>1. WriteThen([mem.status EXCEPT !.zone = z], "tags")
            BY <2>3, ConstantsAssumption DEF StoreZone
      <3>2. [mem.status EXCEPT !.zone = z].zone = z
            BY <1>s DEF Statuses
      <3> QED
          BY <2>3, <3>1, <3>2, WriteEffect
    <2>4. CASE Owner' = Owner /\ ZoneByName
      <3>1. Owner = "guarded" /\ mem.status.zone = None
            BY <2>4, GuardedValidation DEF ZoneByName, ValidatePcs
      <3>2. None \notin ZonePresent
            BY ConstantsAssumption DEF ZonePresent
      <3>3. CASE Fail /\ zones' = zones
            BY <2>4, <3>3 DEF Fail, NoWrite, ZonePresent, OwnZone!Fade
      <3>4. ASSUME NEW z \in ZonePresent, StoreZone(z, "tags"), zones' = zones
            PROVE  [OwnZone!Next]_(OwnZone!vars)
        <4>1. z \in ZoneIds /\ ZonePresent' = ZonePresent
              BY <3>4 DEF ZonePresent
        <4>2. CASE api' = api
              BY <2>4, <4>1, <4>2 DEF OwnZone!Fade
        <4>3. CASE api'.status.zone = z /\ api.status.zone = None
          <5>1. OwnZone!Note(z)
                BY <2>4, <3>1, <3>2, <3>4, <4>1, <4>3 DEF OwnZone!Note
          <5> QED
              BY <4>1, <5>1
        <4> QED
            BY <2>3, <3>1, <3>4, <4>1, <4>2, <4>3
      <3>5. ASSUME NEW z \in ZoneIds, ZonePresent = {}, zones[z] = "unused",
                   zones' = [zones EXCEPT ![z] = "present"], StoreZone(z, "tags")
            PROVE  [OwnZone!Next]_(OwnZone!vars)
        <4>1. ZonePresent' = {z}
              BY <3>5 DEF ZonePresent, TypeOK
        <4>2. api'.status.zone \in {api.status.zone, z}
              BY <2>3, <3>1, <3>5
        <4>3. OwnZone!Make(z)
              BY <2>4, <3>1, <3>5, <4>1, <4>2 DEF OwnZone!Make
        <4> QED
            BY <4>3
      <3> QED
          BY <2>4, <3>3, <3>4, <3>5 DEF ZoneByName
    <2>5. ZonePresent' \subseteq ZonePresent \/ ZoneByName
      <3>1. CreateSecurityGroup \/ CreateVpcEndpoint => ZonePresent' = ZonePresent
            BY DEF CreateSecurityGroup, CreateVpcEndpoint, route53, ZonePresent
      <3> QED
          BY <3>1, ShrinkSteps DEF Shrinks, Creates
    <2>6. CASE /\ Owner' = Owner /\ ~ZoneByName /\ CleanupZone
               /\ api'.status.zone # api.status.zone
      <3>1. CleanupWrite([mem.status EXCEPT !.zone = None], "clVpce") /\ pc \in CleanupPcs
            BY <2>6 DEF CleanupZone, Skip, NoWrite, CleanupPcs
      <3>2. fresh /\ api'.status = [mem.status EXCEPT !.zone = None]
            BY <2>6, <3>1, WriteEffect
      <3>3. Owner = "guarded" /\ api'.status.zone = None
            BY <1>s, <3>1, <3>2, GuardedCleanup DEF Statuses
      <3>4. api.status.zone \notin ZonePresent'
            BY <2>6, RememberStep DEF Remember
      <3> QED
          BY <2>5, <2>6, <3>3, <3>4 DEF OwnZone!Forget
    <2>7. CASE Owner' = Owner /\ ~ZoneByName /\ api'.status.zone = api.status.zone
          BY <2>5, <2>7 DEF OwnZone!Fade
    <2>8. ZoneByName \/ CleanupZone \/ api'.status.zone = api.status.zone
          BY IdSteps DEF ZoneIdKept, StartReconcile, cluster, ZoneAutoDiscovered, ZoneById
    <2> QED
        BY <2>1, <2>2, <2>4, <2>6, <2>7, <2>8, OwnerSteps
  <1> QED
      BY <1>1, <1>2

-----------------------------------------------------------------------------
(* Whatever fails, conflicts or is lost between AWS calls and status       *)
(* writes, security group, endpoint and owned hosted zone each live as     *)
(* OwnedResource says: made only under the finalizer and never twice,      *)
(* noted while alive, and released before the resource goes                *)
(* (validation.go:43-330, helpers.go:43-330, cleanup.go:38-270).           *)
THEOREM Ownership == Spec => ImplementsOwnedResource
  <1> DEFINE Inv == TypeOK /\ ControlInv /\ ReleaseInv
  <1>1. Init => OwnSg!Init /\ OwnVpce!Init /\ OwnZone!Init
    <2> SUFFICES ASSUME Init PROVE OwnSg!Init /\ OwnVpce!Init /\ OwnZone!Init
        OBVIOUS
    <2>1. Owner = "bare" /\ api.status = EmptyStatus
          BY OwnerValues DEF Init
    <2>2. SgPresent = {} /\ VpceVisible = {} /\ VpceLive = {} /\ OwnZones = {}
      <3>1. SgPresent = {} /\ VpceVisible = {} /\ VpceLive = {}
            BY DEF Init, SgPresent, VpceVisible, VpceLive, LiveStates
      <3>2. ZoneOwned => ZonePresent = {}
            BY DEF Init, ZonePresent, ZoneOwned
      <3> QED
          BY <3>1, <3>2 DEF OwnZones
    <2> QED
        BY <2>1, <2>2 DEF OwnSg!Init, OwnVpce!Init, OwnZone!Init, EmptyStatus
  <1>2. Inv /\ ReleaseInv' /\ [Next]_vars
          => /\ [OwnSg!Next]_(OwnSg!vars)
             /\ [OwnVpce!Next]_(OwnVpce!vars)
             /\ [OwnZone!Next]_(OwnZone!vars)
        BY SetupFixed, SgStep, VpceStep, ZoneStep
  <1>3. Spec => []Inv
        BY TypeCorrect, ControlCorrect, ReleaseCorrect, PTL
  <1> QED
      BY <1>1, <1>2, <1>3, PTL
      DEF Spec, ImplementsOwnedResource, OwnSg!Spec, OwnVpce!Spec, OwnZone!Spec
=============================================================================
