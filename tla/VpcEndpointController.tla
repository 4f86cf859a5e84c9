----------------------- MODULE VpcEndpointController -----------------------
(***************************************************************************)
(* The VpcEndpoint controller (controllers/vpcendpoint) reconciling one    *)
(* VpcEndpoint custom resource: parseClusterInfo, the finalizer, the       *)
(* validations of the security group, the endpoint, the hosted zone, the   *)
(* DNS record and the ExternalName service, and cleanupAwsResources.       *)
(*                                                                         *)
(* The controller reads the resource from an informer cache that may lag,  *)
(* works on a private copy, and every write is a compare-and-swap on the   *)
(* resource version.  Its steps interleave with users (edit, delete), with *)
(* AWS (endpoints change state, things disappear), with faults of single   *)
(* calls and with crashes of the operator.                                 *)
(*                                                                         *)
(* One action is one or more AWS or API reads followed by at most one AWS  *)
(* effect and the Status().Update or Update that follows it.  An edit or a *)
(* deletion of the resource between the effect and the write has the same  *)
(* outcome as the same edit just before the action: the write conflicts    *)
(* and the effect stays.                                                   *)
(***************************************************************************)
EXTENDS Naturals, FiniteSets

CONSTANTS
  SgIds, VpceIds, ZoneIds,  \* ids AWS hands out; an exhausted set is the account's quota
  None,                     \* an empty id in the status
  Setups,                   \* the resource specs and surroundings to consider
  Troubles,                 \* what may go wrong outside the operator
  MaxFaults,                \* bound: failed calls, failed writes and crashes
  MaxEdits,                 \* bound: edits of the resource by others
  MaxLosses                 \* bound: troubles that happen

(* Infrastructure, HostedControlPlane, the endpoint service, the Secret and DNS *)
Sources == {"infra", "hcp", "service", "creds", "dns"}
AwsTroubles == {"reject", "fail", "delete", "sg", "zone", "svc"}
ZoneModes == {"none", "autoDiscover", "id", "domainName"}

(* The fields of a VpcEndpoint's spec the control flow depends on *)
SetupType ==
  [zoneMode     : ZoneModes,  \* the field of customDns.route53PrivateHostedZone that is set
   specZone     : ZoneIds,    \* the zone spec...id names, for zoneMode "id"
   foreign      : SUBSET ZoneIds,  \* matching private hosted zones AVO did not create
   hcpRef       : BOOLEAN,    \* domainNameRef.valueFrom.hostedControlPlaneRef is set
   baseDomain   : BOOLEAN,    \* domainName is the cluster's own base domain
   credOverride : BOOLEAN,    \* awsCredentialOverrideRef is set
   fixedRegion  : BOOLEAN,    \* region is set
   privateDns   : BOOLEAN,    \* the feature flag and enablePrivateDns
   externalName : BOOLEAN]    \* record.hostname and externalNameService.name are set

ASSUME ConstantsAssumption ==
  /\ None \notin SgIds \cup VpceIds \cup ZoneIds
  /\ Setups \subseteq SetupType
  /\ \A s \in Setups : s.hcpRef => s.zoneMode = "domainName" /\ ~s.baseDomain
  /\ Troubles \subseteq Sources \cup AwsTroubles
  /\ MaxFaults \in Nat /\ MaxEdits \in Nat /\ MaxLosses \in Nat

VARIABLES
  api,       \* the resource in the API server
  cache,     \* the informer's copy, what Reconcile's first Get returns
  synced,    \* cache has the server's resource version
  setup,     \* the resource's spec, which nobody changes here
  sources,   \* cluster objects the controller reads that can be read
  svc,       \* the ExternalName service
  pc,        \* where Reconcile is
  mem,       \* Reconcile's copy of the resource, and the endpoint state it read
  fresh,     \* mem has the server's resource version: its next write succeeds
  requeue,   \* how the last Reconcile asked to be called again
  hzCache,   \* zones with an unexpired GetHostedZone answer
  sgs,       \* security groups carrying the resource's tags
  vpces,     \* endpoints carrying the resource's tags
  attached,  \* endpoints with the expected subnets and security group
  zones,     \* private hosted zones of the resource's domain
  records,   \* in each zone, the endpoint the resource's CNAME points at
  faults, edits, losses  \* what is left of the bounds

cluster == <<api, cache, synced>>
world == <<setup, sources, svc>>
local == <<pc, mem, fresh, requeue>>
ec2 == <<sgs, vpces, attached>>
route53 == <<zones, records>>
budgets == <<faults, edits, losses>>
vars == <<api, cache, synced, setup, sources, svc, pc, mem, fresh, requeue, hzCache,
          sgs, vpces, attached, zones, records, faults, edits, losses>>

-----------------------------------------------------------------------------
(* The resource *)

InfoFields == {"infraId", "serviceName", "vpcId"}
CondTypes == {"sg", "vpce", "record", "tags", "svc"}
CondValues == {"Unset", "True", "False"}

Metas == [exists : BOOLEAN, deleting : BOOLEAN, finalizer : BOOLEAN]
Statuses == [info : SUBSET InfoFields,
             sg   : SgIds \cup {None},
             vpce : VpceIds \cup {None},
             zone : ZoneIds \cup {None},
             rrs  : BOOLEAN,
             cond : [CondTypes -> CondValues]]

SgStates == {"unused", "bare", "configured", "gone"}
LiveStates == {"pendingAcceptance", "pending", "available", "rejected", "failed"}
VpceStates == {"unused", "deleting", "deleted", "gone"} \cup LiveStates
ZoneStates == {"unused", "present", "gone"}

EmptyStatus == [info |-> {}, sg |-> None, vpce |-> None, zone |-> None,
                rrs |-> FALSE, cond |-> [t \in CondTypes |-> "Unset"]]
NoMeta == [exists |-> FALSE, deleting |-> FALSE, finalizer |-> FALSE]
NoMem == [meta |-> NoMeta, status |-> EmptyStatus, seen |-> "none"]

IsTrue(s, t) == s.cond[t] = "True"

SetCond(s, t, v) == [s EXCEPT !.cond[t] = v]

(* invalidateRoute53RecordCondition *)
Invalidated(s) ==
  [s EXCEPT !.cond = [t \in CondTypes |->
     IF t \in {"record", "tags"} /\ s.cond[t] = "True" THEN "False" ELSE s.cond[t]]]

-----------------------------------------------------------------------------
(* AWS, as the aws_client wrappers show it to the controller *)

SgPresent == {s \in SgIds : sgs[s] \in {"bare", "configured"}}
VpceVisible == {v \in VpceIds : vpces[v] \notin {"unused", "gone"}}
VpceLive == {v \in VpceIds : vpces[v] \in LiveStates}
ZonePresent == {z \in ZoneIds : zones[z] = "present"}

(* getHostedZoneCached answers for z *)
Fetchable(z) == z \in hzCache \cup ZonePresent

-----------------------------------------------------------------------------
(* Steps of Reconcile: writes, returns, faults *)

SpendFault == faults > 0 /\ faults' = faults - 1

(* Status().Update succeeds: the version matched, and a no-op keeps it *)
Persist(s) ==
  /\ fresh
  /\ api' = [api EXCEPT !.status = s]
  /\ synced' = (synced /\ s = api.status)
  /\ UNCHANGED <<cache, faults>>

(* Status().Update fails: a conflict, or the API server does not answer *)
Unpersisted ==
  /\ \/ ~fresh /\ UNCHANGED faults
     \/ fresh /\ SpendFault
  /\ UNCHANGED cluster

Continue(next, s) ==
  /\ pc' = next
  /\ mem' = [mem EXCEPT !.status = s]
  /\ UNCHANGED <<fresh, requeue>>

Return(q) ==
  /\ pc' = "idle"
  /\ mem' = NoMem
  /\ fresh' = FALSE
  /\ requeue' = q

(* A validation returned an error while mem's status was s *)
Failed(s) ==
  Return(IF IsTrue(s, "vpce") /\ ~IsTrue(s, "record") THEN "1m" ELSE "backoff")

WriteThen(s, next) ==
  \/ Persist(s) /\ Continue(next, s)
  \/ Unpersisted /\ Failed(s)

WriteThenFail(s) == (Persist(s) \/ Unpersisted) /\ Failed(s)

NoWrite == UNCHANGED <<api, cache, synced, faults>>

Skip(next) == NoWrite /\ Continue(next, mem.status)
Fail == NoWrite /\ Failed(mem.status)

-----------------------------------------------------------------------------
(* Reconcile: the Get, parseClusterInfo and the finalizer *)

StartReconcile ==
  /\ pc = "idle" /\ cache.meta.exists
  /\ pc' = "infra"
  /\ mem' = [meta |-> cache.meta, status |-> cache.status, seen |-> "none"]
  /\ fresh' = synced
  /\ requeue' = "none"
  /\ UNCHANGED <<cluster, world, hzCache, ec2, route53, budgets>>

(* The Get answers NotFound: nothing to do and nothing is requeued *)
ReconcileNotFound ==
  /\ pc = "idle" /\ ~cache.meta.exists
  /\ UNCHANGED vars

(* Mutant: validations start without the finalizer *)
AfterParseUnfinalized == IF mem.meta.deleting THEN "clRecord" ELSE "sg"

(* A deleted resource always still has the finalizer when Get returns it *)
AfterParse ==
  CASE mem.meta.deleting -> "clRecord"
    [] ~mem.meta.deleting /\ mem.meta.finalizer -> "sg"
    [] OTHER -> "finalizer"

(* parseClusterInfo failed; client: it had made the AWS client before *)
ParseFailed(s, client) ==
  IF /\ mem.meta.deleting
     /\ IF setup.credOverride THEN setup.fixedRegion /\ "creds" \in sources ELSE client
  THEN Continue("clRecord", s)
  ELSE Return("backoff")

ParseWrite(s, next, client) ==
  \/ Persist(s) /\ Continue(next, s)
  \/ Unpersisted /\ ParseFailed(s, client)

(* The object with the infra id *)
InfraSource == IF setup.hcpRef THEN "hcp" ELSE "infra"

(* Mutant: a failed lookup is ignored although no infra id is stored *)
ParseInfraTolerant ==
  /\ pc = "infra"
  /\ \/ /\ InfraSource \in sources
        /\ ParseWrite([mem.status EXCEPT !.info = @ \cup {"infraId"}], "service", FALSE)
     \/ InfraSource \notin sources /\ Skip("service")
  /\ UNCHANGED <<world, hzCache, ec2, route53, edits, losses>>

ParseInfra ==
  /\ pc = "infra"
  /\ \/ /\ InfraSource \in sources
        /\ ParseWrite([mem.status EXCEPT !.info = @ \cup {"infraId"}], "service", FALSE)
     \/ /\ InfraSource \notin sources
        /\ IF "infraId" \in mem.status.info
           THEN Skip("service")
           ELSE NoWrite /\ ParseFailed(mem.status, FALSE)
  /\ UNCHANGED <<world, hzCache, ec2, route53, edits, losses>>

(* getVpcEndpointServiceName; the second disjunct is a service without a name yet *)
ParseService ==
  /\ pc = "service"
  /\ \/ /\ "service" \in sources
        /\ ParseWrite([mem.status EXCEPT !.info = @ \cup {"serviceName"}], "client", FALSE)
     \/ /\ "service" \in sources
        /\ SpendFault /\ UNCHANGED cluster
        /\ ParseFailed(mem.status, FALSE)
     \/ /\ "service" \notin sources
        /\ IF "serviceName" \in mem.status.info
           THEN Skip("client")
           ELSE NoWrite /\ ParseFailed(mem.status, FALSE)
  /\ UNCHANGED <<world, hzCache, ec2, route53, edits, losses>>

(* Region and credentials of the AWS client can be read; without a region  *)
(* in the spec it is that of the Infrastructure object, never stored       *)
ClientPossible ==
  /\ setup.fixedRegion \/ "infra" \in sources
  /\ setup.credOverride => "creds" \in sources

ParseClient ==
  /\ pc = "client"
  /\ IF ClientPossible
     THEN Skip("vpc")
     ELSE NoWrite /\ ParseFailed(mem.status, FALSE)
  /\ UNCHANGED <<world, hzCache, ec2, route53, edits, losses>>

ParseVpc ==
  /\ pc = "vpc"
  /\ \/ /\ "vpcId" \in mem.status.info
        /\ Skip(AfterParse)
     \/ /\ "vpcId" \notin mem.status.info
        /\ ParseWrite([mem.status EXCEPT !.info = @ \cup {"vpcId"}], AfterParse, TRUE)
     \/ /\ "vpcId" \notin mem.status.info
        /\ SpendFault /\ UNCHANGED cluster
        /\ ParseFailed(mem.status, TRUE)
  /\ UNCHANGED <<world, hzCache, ec2, route53, edits, losses>>

(* Mutant: a failed Update of the finalizer does not end the Reconcile *)
AddFinalizerUnchecked ==
  /\ pc = "finalizer"
  /\ \/ /\ fresh
        /\ api' = [api EXCEPT !.meta = [@ EXCEPT !.finalizer = TRUE]]
        /\ synced' = FALSE
        /\ pc' = "sg"
        /\ mem' = [mem EXCEPT !.meta = api'.meta, !.status = api'.status]
        /\ UNCHANGED <<cache, faults, fresh, requeue>>
     \/ Unpersisted /\ Continue("sg", mem.status)
  /\ UNCHANGED <<world, hzCache, ec2, route53, edits, losses>>

AddFinalizer ==
  /\ pc = "finalizer"
  /\ \/ /\ fresh
        /\ api' = [api EXCEPT !.meta = [@ EXCEPT !.finalizer = TRUE]]
        /\ synced' = FALSE
        /\ pc' = "sg"
        /\ mem' = [mem EXCEPT !.meta = api'.meta, !.status = api'.status]
        /\ UNCHANGED <<cache, faults, fresh, requeue>>
     \/ Unpersisted /\ Return("backoff")
  /\ UNCHANGED <<world, hzCache, ec2, route53, edits, losses>>

-----------------------------------------------------------------------------
(* validateSecurityGroup *)

(* Mutant: no lookup by tags *)
SgCandidatesById == {mem.status.sg} \cap SgPresent

(* findOrCreateSecurityGroup: by the recorded id, by tags, or a new one;   *)
(* creating always ends in an error, and may fail after the group exists   *)
SgCandidates ==
  IF mem.status.sg \in SgPresent THEN {mem.status.sg} ELSE SgPresent

FindSecurityGroup ==
  /\ pc = "sg"
  /\ \E g \in SgCandidates : WriteThen([mem.status EXCEPT !.sg = g], "sgRules")
  /\ UNCHANGED <<world, hzCache, ec2, route53, edits, losses>>

CreateSecurityGroup ==
  /\ pc = "sg" /\ SgCandidates = {}
  /\ \/ \E g \in SgIds :
          /\ sgs[g] = "unused"
          /\ sgs' = [sgs EXCEPT ![g] = "bare"]
          /\ \/ WriteThenFail([mem.status EXCEPT !.sg = g])
             \/ SpendFault /\ UNCHANGED cluster /\ Failed(mem.status)
     \/ /\ \A g \in SgIds : sgs[g] # "unused"
        /\ Fail /\ UNCHANGED sgs
  /\ UNCHANGED <<world, hzCache, vpces, attached, route53, edits, losses>>

(* createMissingSecurityGroupTags, AuthorizeSecurityGroupRules; the group  *)
(* may have been deleted since it was found                                *)
ConfigureSecurityGroup ==
  /\ pc = "sgRules"
  /\ IF mem.status.sg \in SgPresent
     THEN /\ sgs' = [sgs EXCEPT ![mem.status.sg] = "configured"]
          /\ WriteThen(SetCond(mem.status, "sg", "True"), "vpce")
     ELSE Fail /\ UNCHANGED sgs
  /\ UNCHANGED <<world, hzCache, vpces, attached, route53, edits, losses>>

-----------------------------------------------------------------------------
(* validateVPCEndpoint *)

(* The end of findOrCreateVpcEndpoint: v was found, or created, in state st. *)
(* The id is stored before validateVPCEndpoint compares it with the old one. *)
RecordVpcEndpoint(v, st) ==
  LET s == [mem.status EXCEPT !.vpce = v] IN
  \/ /\ Persist(s)
     /\ pc' = "vpceState"
     /\ mem' = [mem EXCEPT !.status = s, !.seen = st]
     /\ UNCHANGED <<fresh, requeue>>
  \/ Unpersisted /\ Failed(s)

VpceCandidates ==
  IF mem.status.vpce \in VpceVisible THEN {mem.status.vpce} ELSE VpceVisible

FindVpcEndpoint ==
  /\ pc = "vpce"
  /\ \E v \in VpceCandidates : RecordVpcEndpoint(v, vpces[v])
  /\ UNCHANGED <<world, hzCache, ec2, route53, edits, losses>>

CreateVpcEndpoint ==
  /\ pc = "vpce" /\ VpceCandidates = {}
  /\ \/ \E v \in VpceIds, st \in {"pendingAcceptance", "pending"} :
          /\ vpces[v] = "unused"
          /\ vpces' = [vpces EXCEPT ![v] = st]
          /\ RecordVpcEndpoint(v, st)
     \/ /\ \A v \in VpceIds : vpces[v] # "unused"
        /\ Fail /\ UNCHANGED vpces
  /\ UNCHANGED <<world, hzCache, sgs, attached, route53, edits, losses>>

(* The switch on vpce.State, as it was read by findOrCreateVpcEndpoint *)

DnsEntry == IF setup.privateDns THEN "done" ELSE "zone"

(* Mutant: an endpoint in transition makes the condition Unknown *)
EndpointWaitingUnknown ==
  /\ pc = "vpceState" /\ mem.seen \in {"pendingAcceptance", "pending", "deleting"}
  /\ WriteThen(Invalidated(SetCond(mem.status, "vpce", "Unknown")), DnsEntry)
  /\ UNCHANGED <<world, hzCache, ec2, route53, edits, losses>>

EndpointWaiting ==
  /\ pc = "vpceState" /\ mem.seen \in {"pendingAcceptance", "pending", "deleting"}
  /\ WriteThen(Invalidated(SetCond(mem.status, "vpce", "False")), DnsEntry)
  /\ UNCHANGED <<world, hzCache, ec2, route53, edits, losses>>

(* The invalidation stays in memory: this branch never updates the status *)
EndpointRejected ==
  /\ pc = "vpceState" /\ mem.seen = "rejected"
  /\ vpces' = [vpces EXCEPT ![mem.status.vpce] =
                 IF @ \in LiveStates THEN "deleting" ELSE @]
  /\ NoWrite /\ Failed(Invalidated(mem.status))
  /\ UNCHANGED <<world, hzCache, sgs, attached, route53, edits, losses>>

EndpointBad ==
  /\ pc = "vpceState" /\ mem.seen \in {"failed", "deleted"}
  /\ WriteThenFail(Invalidated(SetCond(mem.status, "vpce", "False")))
  /\ UNCHANGED <<world, hzCache, ec2, route53, edits, losses>>

(* Private DNS, ensureVpcEndpointSubnets and ensureVpcEndpointSecurityGroups: *)
(* ModifyVpcEndpoint calls that an endpoint no longer live refuses            *)
EndpointAvailable ==
  /\ pc = "vpceState" /\ mem.seen = "available"
  /\ IF mem.status.vpce \in VpceLive \cup attached
     THEN /\ attached' = attached \cup {mem.status.vpce}
          /\ WriteThen(SetCond(mem.status, "vpce", "True"), DnsEntry)
     ELSE Fail /\ UNCHANGED attached
  /\ UNCHANGED <<world, hzCache, sgs, vpces, route53, edits, losses>>

-----------------------------------------------------------------------------
(* validateCustomDns *)

(* validateR53PrivateHostedZone stores id z, writing only when it changed *)
StoreZone(z, next) ==
  IF mem.status.zone = z THEN Skip(next)
  ELSE WriteThen([mem.status EXCEPT !.zone = z], next)

ZoneNotConfigured ==
  /\ pc = "zone" /\ setup.zoneMode = "none"
  /\ Skip("record")
  /\ UNCHANGED <<world, hzCache, ec2, route53, edits, losses>>

ZoneAutoDiscovered ==
  /\ pc = "zone" /\ setup.zoneMode = "autoDiscover"
  /\ IF "dns" \in sources /\ ZonePresent # {}
     THEN \E z \in ZonePresent : StoreZone(z, "record")
     ELSE Fail
  /\ UNCHANGED <<world, hzCache, ec2, route53, edits, losses>>

ZoneById ==
  /\ pc = "zone" /\ setup.zoneMode = "id"
  /\ IF Fetchable(setup.specZone)
     THEN hzCache' = hzCache \cup {setup.specZone} /\ StoreZone(setup.specZone, "record")
     ELSE Fail /\ UNCHANGED hzCache
  /\ UNCHANGED <<world, ec2, route53, edits, losses>>

(* findOrCreatePrivateHostedZone with a recorded id *)
ZoneRecorded ==
  /\ pc = "zone" /\ setup.zoneMode = "domainName" /\ mem.status.zone # None
  /\ IF Fetchable(mem.status.zone)
     THEN hzCache' = hzCache \cup {mem.status.zone} /\ Skip("tags")
     ELSE Fail /\ UNCHANGED hzCache
  /\ UNCHANGED <<world, ec2, route53, edits, losses>>

(* ... and without one: listed by VPC or by name, or created *)
ZoneByName ==
  /\ pc = "zone" /\ setup.zoneMode = "domainName" /\ mem.status.zone = None
  /\ \/ /\ setup.hcpRef /\ "hcp" \notin sources
        /\ Fail /\ UNCHANGED zones
     \/ /\ setup.hcpRef => "hcp" \in sources
        /\ \/ \E z \in ZonePresent : StoreZone(z, "tags") /\ UNCHANGED zones
           \/ /\ ZonePresent = {}
              /\ \E z \in ZoneIds :
                   /\ zones[z] = "unused"
                   /\ zones' = [zones EXCEPT ![z] = "present"]
                   /\ StoreZone(z, "tags")
           \/ /\ ZonePresent = {} /\ \A z \in ZoneIds : zones[z] # "unused"
              /\ Fail /\ UNCHANGED zones
  /\ UNCHANGED <<world, hzCache, ec2, records, edits, losses>>

(* createMissingPrivateZoneTags, unless the tags condition is True *)
ZoneTags ==
  /\ pc = "tags"
  /\ CASE IsTrue(mem.status, "tags") -> Skip("record")
       [] ~IsTrue(mem.status, "tags") /\ mem.status.zone \in ZonePresent ->
            WriteThen(SetCond(mem.status, "tags", "True"), "record")
       [] OTHER -> Fail
  /\ UNCHANGED <<world, hzCache, ec2, route53, edits, losses>>

(* validateR53HostedZoneRecord *)

SkipUpsert == IsTrue(mem.status, "record") /\ IsTrue(mem.status, "vpce")

(* generateRoute53Record: DNS entries exist once subnets are attached *)
HasDnsName(v) == v \in attached /\ vpces[v] = "available"

(* Mutant: an up-to-date record ends the DNS validation *)
RecordSkippedEarly ==
  /\ pc = "record" /\ SkipUpsert
  /\ Skip("done")
  /\ UNCHANGED <<world, hzCache, ec2, route53, edits, losses>>

RecordSkipped ==
  /\ pc = "record" /\ SkipUpsert
  /\ Skip("service2")
  /\ UNCHANGED <<world, hzCache, ec2, route53, edits, losses>>

RecordNoZone ==
  /\ pc = "record" /\ ~SkipUpsert /\ ~Fetchable(mem.status.zone)
  /\ Fail
  /\ UNCHANGED <<world, hzCache, ec2, route53, edits, losses>>

(* No record can be generated (or describing the endpoint failed): no error *)
RecordNotReady ==
  /\ pc = "record" /\ ~SkipUpsert /\ Fetchable(mem.status.zone)
  /\ hzCache' = hzCache \cup {mem.status.zone}
  /\ \/ ~HasDnsName(mem.status.vpce) /\ NoWrite
     \/ HasDnsName(mem.status.vpce) /\ SpendFault /\ UNCHANGED cluster
  /\ Continue("service2", mem.status)
  /\ UNCHANGED <<world, ec2, route53, edits, losses>>

(* Mutant: the record set's name is not stored *)
RecordUpsertUnnamed ==
  /\ pc = "record" /\ ~SkipUpsert /\ mem.status.zone \in ZonePresent
  /\ HasDnsName(mem.status.vpce)
  /\ hzCache' = hzCache \cup {mem.status.zone}
  /\ records' = [records EXCEPT ![mem.status.zone] = mem.status.vpce]
  /\ WriteThen(SetCond(mem.status, "record", "True"), "service2")
  /\ UNCHANGED <<world, ec2, zones, edits, losses>>

RecordUpsert ==
  /\ pc = "record" /\ ~SkipUpsert /\ Fetchable(mem.status.zone)
  /\ HasDnsName(mem.status.vpce)
  /\ hzCache' = hzCache \cup {mem.status.zone}
  /\ IF mem.status.zone \in ZonePresent
     THEN /\ records' = [records EXCEPT ![mem.status.zone] = mem.status.vpce]
          /\ WriteThen(SetCond([mem.status EXCEPT !.rrs = TRUE], "record", "True"),
                       "service2")
     ELSE Fail /\ UNCHANGED records
  /\ UNCHANGED <<world, ec2, zones, edits, losses>>

(* validateExternalNameService *)

ServiceNotNeeded ==
  /\ pc = "service2" /\ ~setup.externalName
  /\ Skip("done")
  /\ UNCHANGED <<world, hzCache, ec2, route53, edits, losses>>

ServiceNoRecord ==
  /\ pc = "service2" /\ setup.externalName /\ ~mem.status.rrs
  /\ Fail
  /\ UNCHANGED <<world, hzCache, ec2, route53, edits, losses>>

ServiceMissing ==
  /\ pc = "service2" /\ setup.externalName /\ mem.status.rrs /\ svc = "absent"
  /\ svc' = "ok"
  /\ WriteThenFail(SetCond(mem.status, "svc", "True"))
  /\ UNCHANGED <<setup, sources, hzCache, ec2, route53, edits, losses>>

ServiceFixed ==
  /\ pc = "service2" /\ setup.externalName /\ mem.status.rrs /\ svc = "wrong"
  /\ svc' = "ok"
  /\ WriteThen(SetCond(mem.status, "svc", "True"), "done")
  /\ UNCHANGED <<setup, sources, hzCache, ec2, route53, edits, losses>>

(* Reading, or updating, the service failed: recorded in the condition *)
ServiceError ==
  /\ pc = "service2" /\ setup.externalName /\ mem.status.rrs
  /\ fresh /\ SpendFault
  /\ LET s == SetCond(mem.status, "svc", "False") IN
       /\ api' = [api EXCEPT !.status = s]
       /\ synced' = (synced /\ s = api.status)
       /\ Failed(s)
  /\ UNCHANGED <<cache, world, hzCache, ec2, route53, edits, losses>>

ServiceAsExpected ==
  /\ pc = "service2" /\ setup.externalName /\ mem.status.rrs /\ svc = "ok"
  /\ Skip("done")
  /\ UNCHANGED <<world, hzCache, ec2, route53, edits, losses>>

(* All validations passed: look again in 15 minutes *)
Finish ==
  /\ pc = "done"
  /\ NoWrite /\ Return("15m")
  /\ UNCHANGED <<world, hzCache, ec2, route53, edits, losses>>

(* A call of a validation fails before it changes anything *)
ValidatePcs == {"sg", "sgRules", "vpce", "vpceState", "zone", "tags", "record", "service2"}

ValidationFault ==
  /\ pc \in ValidatePcs
  /\ SpendFault /\ UNCHANGED cluster
  /\ Failed(mem.status)
  /\ UNCHANGED <<world, hzCache, ec2, route53, edits, losses>>

-----------------------------------------------------------------------------
(* cleanupAwsResources *)

CleanupWrite(s, next) ==
  \/ Persist(s) /\ Continue(next, s)
  \/ Unpersisted /\ Return("backoff")

CleanupFail == NoWrite /\ Return("backoff")

CleanupRecord ==
  /\ pc = "clRecord"
  /\ CASE ~IsTrue(mem.status, "record") -> Skip("clZone") /\ UNCHANGED records
       [] IsTrue(mem.status, "record") /\ mem.status.zone \in ZonePresent ->
            /\ records' = [records EXCEPT ![mem.status.zone] = None]
            /\ CleanupWrite(SetCond([mem.status EXCEPT !.rrs = FALSE], "record", "False"),
                            "clZone")
       [] OTHER -> CleanupFail /\ UNCHANGED records
  /\ UNCHANGED <<world, hzCache, ec2, zones, edits, losses>>

(* The zone is kept: not looked up by name, or it is the cluster's own *)
ZoneKept ==
  \/ mem.status.zone = None
  \/ setup.zoneMode # "domainName"
  \/ setup.baseDomain /\ "dns" \in sources

CleanupZoneKept ==
  /\ pc = "clZone" /\ ZoneKept
  /\ Skip("clVpce")
  /\ UNCHANGED <<world, hzCache, ec2, route53, edits, losses>>

(* Mutant: without the cluster's DNS the zone is given up *)
CleanupZoneForgotten ==
  /\ pc = "clZone" /\ ~ZoneKept /\ "dns" \notin sources /\ ~setup.hcpRef
  /\ CleanupWrite([mem.status EXCEPT !.zone = None], "clVpce")
  /\ UNCHANGED <<world, hzCache, ec2, route53, edits, losses>>

CleanupZoneUnsafe ==
  /\ pc = "clZone" /\ ~ZoneKept /\ "dns" \notin sources /\ ~setup.hcpRef
  /\ CleanupFail
  /\ UNCHANGED <<world, hzCache, ec2, route53, edits, losses>>

(* DeleteHostedZone; a zone that still has records is emptied first.  Only *)
(* the plain success leaves the id in the status.                          *)
CleanupZone ==
  /\ pc = "clZone" /\ ~ZoneKept /\ ("dns" \in sources \/ setup.hcpRef)
  /\ LET z == mem.status.zone IN
     /\ zones' = [zones EXCEPT ![z] = "gone"]
     /\ records' = [records EXCEPT ![z] = None]
     /\ IF z \in ZonePresent /\ records[z] = None
        THEN Skip("clVpce")
        ELSE CleanupWrite([mem.status EXCEPT !.zone = None], "clVpce")
  /\ UNCHANGED <<world, hzCache, ec2, edits, losses>>

(* Mutant: an endpoint that is already gone is an error *)
CleanupVpceStrict ==
  /\ pc = "clVpce"
  /\ LET v == mem.status.vpce IN
     CASE v = None -> Skip("clSg") /\ UNCHANGED vpces
       [] v # None /\ v \in VpceVisible ->
            /\ vpces' = [vpces EXCEPT ![v] = IF @ \in LiveStates THEN "deleting" ELSE @]
            /\ Skip("clPoll")
       [] OTHER -> CleanupFail /\ UNCHANGED vpces
  /\ UNCHANGED <<world, hzCache, sgs, attached, route53, edits, losses>>

(* Mutant: every error of DeleteVPCEndpoint is taken for NotFound *)
CleanupVpceForgotten ==
  /\ pc = "clVpce"
  /\ IF mem.status.vpce = None THEN Skip("clSg")
     ELSE CleanupWrite([mem.status EXCEPT !.vpce = None], "clSg")
  /\ UNCHANGED <<world, hzCache, ec2, route53, edits, losses>>

CleanupVpce ==
  /\ pc = "clVpce"
  /\ LET v == mem.status.vpce IN
     CASE v = None -> Skip("clSg") /\ UNCHANGED vpces
       [] v # None /\ v \in VpceVisible ->
            /\ vpces' = [vpces EXCEPT ![v] = IF @ \in LiveStates THEN "deleting" ELSE @]
            /\ Skip("clPoll")
       [] OTHER -> /\ CleanupWrite([mem.status EXCEPT !.vpce = None], "clSg")
                   /\ UNCHANGED vpces
  /\ UNCHANGED <<world, hzCache, sgs, attached, route53, edits, losses>>

(* Mutant: no poll after the deletion was requested *)
CleanupPollOnce ==
  /\ pc = "clPoll"
  /\ CleanupWrite([mem.status EXCEPT !.vpce = None], "clSg")
  /\ UNCHANGED <<world, hzCache, ec2, route53, edits, losses>>

(* The poll sees the endpoint deleted, or three minutes pass *)
CleanupPoll ==
  /\ pc = "clPoll"
  /\ IF vpces[mem.status.vpce] = "deleting"
     THEN CleanupFail
     ELSE CleanupWrite([mem.status EXCEPT !.vpce = None], "clSg")
  /\ UNCHANGED <<world, hzCache, ec2, route53, edits, losses>>

(* AWS refuses to delete a group that an endpoint still uses *)
SgInUse == \E v \in attached : vpces[v] \in LiveStates \cup {"deleting"}

(* Mutant: the error of DeleteSecurityGroup is ignored *)
CleanupSgUnchecked ==
  /\ pc = "clSg"
  /\ \/ mem.status.sg = None /\ Skip("clFinalizer") /\ UNCHANGED sgs
     \/ /\ mem.status.sg # None /\ ~SgInUse
        /\ sgs' = [sgs EXCEPT ![mem.status.sg] = "gone"]
        /\ Skip("clFinalizer")
     \/ /\ mem.status.sg # None
        /\ SpendFault /\ UNCHANGED <<cluster, sgs>>
        /\ Continue("clFinalizer", mem.status)
  /\ UNCHANGED <<world, hzCache, vpces, attached, route53, edits, losses>>

CleanupSg ==
  /\ pc = "clSg"
  /\ \/ mem.status.sg = None /\ Skip("clFinalizer") /\ UNCHANGED sgs
     \/ /\ mem.status.sg # None /\ ~SgInUse
        /\ sgs' = [sgs EXCEPT ![mem.status.sg] = "gone"]
        /\ Skip("clFinalizer")
     \/ /\ mem.status.sg # None
        /\ \/ SgInUse /\ UNCHANGED faults
           \/ ~SgInUse /\ SpendFault
        /\ UNCHANGED <<cluster, sgs>>
        /\ Return("30s")
  /\ UNCHANGED <<world, hzCache, vpces, attached, route53, edits, losses>>

RemoveFinalizer ==
  /\ pc = "clFinalizer"
  /\ \/ /\ fresh
        /\ api' = [api EXCEPT !.meta = [@ EXCEPT !.finalizer = FALSE, !.exists = FALSE]]
        /\ synced' = FALSE
        /\ Return("none")
        /\ UNCHANGED <<cache, faults>>
     \/ Unpersisted /\ Return("backoff")
  /\ UNCHANGED <<world, hzCache, ec2, route53, edits, losses>>

CleanupPcs == {"clRecord", "clZone", "clVpce", "clPoll", "clSg", "clFinalizer"}

CleanupFault ==
  /\ pc \in CleanupPcs \ {"clFinalizer"}
  /\ SpendFault /\ UNCHANGED cluster
  /\ Return("backoff")
  /\ UNCHANGED <<world, hzCache, ec2, route53, edits, losses>>

(* The zone's records were deleted but its deletion then failed *)
CleanupZoneEmptied ==
  /\ pc = "clZone" /\ ~ZoneKept /\ ("dns" \in sources \/ setup.hcpRef)
  /\ mem.status.zone \in ZonePresent /\ records[mem.status.zone] # None
  /\ records' = [records EXCEPT ![mem.status.zone] = None]
  /\ SpendFault /\ UNCHANGED cluster
  /\ Return("backoff")
  /\ UNCHANGED <<world, hzCache, ec2, zones, edits, losses>>

-----------------------------------------------------------------------------
(* Everyone else *)

(* The operator's process stops; its successor lists the resource anew *)
Crash ==
  /\ pc # "idle" /\ SpendFault
  /\ Return("none")
  /\ hzCache' = {}
  /\ cache' = api /\ synced' = TRUE
  /\ UNCHANGED <<api, world, ec2, route53, edits, losses>>

CacheSync ==
  /\ ~synced
  /\ cache' = api /\ synced' = TRUE
  /\ UNCHANGED <<api, world, local, hzCache, ec2, route53, budgets>>

(* hostedZoneCacheTTL passes *)
CacheExpire ==
  /\ \E z \in hzCache : hzCache' = hzCache \ {z}
  /\ UNCHANGED <<cluster, world, local, ec2, route53, budgets>>

(* Someone else writes fields of the resource that the controller ignores *)
UserEdit ==
  /\ api.meta.exists /\ edits > 0
  /\ edits' = edits - 1
  /\ synced' = FALSE /\ fresh' = FALSE
  /\ UNCHANGED <<api, cache, world, pc, mem, requeue, hzCache, ec2, route53, faults, losses>>

UserDelete ==
  /\ api.meta.exists /\ ~api.meta.deleting
  /\ api' = [api EXCEPT !.meta = [@ EXCEPT !.deleting = TRUE, !.exists = api.meta.finalizer]]
  /\ synced' = FALSE /\ fresh' = FALSE
  /\ UNCHANGED <<cache, world, pc, mem, requeue, hzCache, ec2, route53, budgets>>

(* The service's owner accepts, AWS finishes what it was asked to do *)
EndpointProgress ==
  /\ \E v \in VpceIds :
       \/ vpces[v] = "pendingAcceptance" /\ vpces' = [vpces EXCEPT ![v] = "pending"]
       \/ vpces[v] = "pending" /\ vpces' = [vpces EXCEPT ![v] = "available"]
       \/ vpces[v] = "deleting" /\ vpces' = [vpces EXCEPT ![v] = "deleted"]
       \/ vpces[v] = "deleted" /\ vpces' = [vpces EXCEPT ![v] = "gone"]
  /\ UNCHANGED <<cluster, world, local, hzCache, sgs, attached, route53, budgets>>

SpendLoss(t) == t \in Troubles /\ losses > 0 /\ losses' = losses - 1

EndpointTrouble ==
  /\ \E v \in VpceIds :
       \/ /\ SpendLoss("reject") /\ vpces[v] \in {"pendingAcceptance", "available"}
          /\ vpces' = [vpces EXCEPT ![v] = "rejected"]
       \/ /\ SpendLoss("fail") /\ vpces[v] = "pending"
          /\ vpces' = [vpces EXCEPT ![v] = "failed"]
       \/ /\ SpendLoss("delete") /\ vpces[v] \in LiveStates
          /\ vpces' = [vpces EXCEPT ![v] = "deleting"]
  /\ UNCHANGED <<cluster, world, local, hzCache, sgs, attached, route53, faults, edits>>

SgLost ==
  /\ SpendLoss("sg") /\ ~SgInUse
  /\ \E g \in SgPresent : sgs' = [sgs EXCEPT ![g] = "gone"]
  /\ UNCHANGED <<cluster, world, local, hzCache, vpces, attached, route53, faults, edits>>

ZoneLost ==
  /\ SpendLoss("zone")
  /\ \E z \in ZonePresent : /\ zones' = [zones EXCEPT ![z] = "gone"]
                            /\ records' = [records EXCEPT ![z] = None]
  /\ UNCHANGED <<cluster, world, local, hzCache, ec2, faults, edits>>

ServiceTampered ==
  /\ SpendLoss("svc") /\ svc = "ok"
  /\ svc' \in {"absent", "wrong"}
  /\ UNCHANGED <<cluster, setup, sources, local, hzCache, ec2, route53, faults, edits>>

SourceLost ==
  /\ \E s \in sources : SpendLoss(s) /\ sources' = sources \ {s}
  /\ UNCHANGED <<cluster, setup, svc, local, hzCache, ec2, route53, faults, edits>>

-----------------------------------------------------------------------------
Init ==
  /\ api = [meta |-> [exists |-> TRUE, deleting |-> FALSE, finalizer |-> FALSE],
            status |-> EmptyStatus]
  /\ cache = api /\ synced = TRUE
  /\ setup \in Setups
  /\ sources = Sources
  /\ svc = "absent"
  /\ pc = "idle" /\ mem = NoMem /\ fresh = FALSE /\ requeue = "none"
  /\ hzCache = {}
  /\ sgs = [g \in SgIds |-> "unused"]
  /\ vpces = [v \in VpceIds |-> "unused"]
  /\ attached = {}
  /\ zones = [z \in ZoneIds |-> IF z \in setup.foreign THEN "present" ELSE "unused"]
  /\ records = [z \in ZoneIds |-> None]
  /\ faults = MaxFaults /\ edits = MaxEdits /\ losses = MaxLosses

Parse == ParseInfra \/ ParseService \/ ParseClient \/ ParseVpc \/ AddFinalizer

ValidateSg == FindSecurityGroup \/ CreateSecurityGroup \/ ConfigureSecurityGroup

ValidateVpce ==
  \/ FindVpcEndpoint \/ CreateVpcEndpoint
  \/ EndpointWaiting \/ EndpointRejected \/ EndpointBad \/ EndpointAvailable

ValidateDns ==
  \/ ZoneNotConfigured \/ ZoneAutoDiscovered \/ ZoneById
  \/ ZoneRecorded \/ ZoneByName \/ ZoneTags
  \/ RecordSkipped \/ RecordNoZone \/ RecordNotReady \/ RecordUpsert
  \/ ServiceNotNeeded \/ ServiceNoRecord \/ ServiceMissing
  \/ ServiceFixed \/ ServiceError \/ ServiceAsExpected

Cleanup ==
  \/ CleanupRecord \/ CleanupZoneKept \/ CleanupZoneUnsafe
  \/ CleanupZone \/ CleanupZoneEmptied
  \/ CleanupVpce \/ CleanupPoll \/ CleanupSg \/ RemoveFinalizer

Reconcile ==
  \/ StartReconcile \/ Parse
  \/ ValidateSg \/ ValidateVpce \/ ValidateDns \/ Finish
  \/ Cleanup

Fault == ValidationFault \/ CleanupFault \/ Crash

Environment ==
  \/ CacheSync \/ CacheExpire \/ UserEdit \/ UserDelete
  \/ EndpointProgress \/ EndpointTrouble \/ SgLost \/ ZoneLost
  \/ ServiceTampered \/ SourceLost

Next == Reconcile \/ ReconcileNotFound \/ Fault \/ Environment

Spec == Init /\ [][Next]_vars

Fairness ==
  /\ WF_vars(Reconcile)
  /\ WF_vars(CacheSync)
  /\ WF_vars(EndpointProgress)

FairSpec == Spec /\ Fairness

-----------------------------------------------------------------------------
(* Type invariant *)

Pcs == {"idle", "infra", "service", "client", "vpc", "finalizer", "done"}
         \cup ValidatePcs \cup CleanupPcs
Requeues == {"none", "backoff", "1m", "15m", "30s"}

(* The variables have the types their declarations say. *)
TypeOK ==
  /\ api \in [meta : Metas, status : Statuses]
  /\ cache \in [meta : Metas, status : Statuses]
  /\ synced \in BOOLEAN
  /\ setup \in Setups
  /\ sources \subseteq Sources
  /\ svc \in {"absent", "ok", "wrong"}
  /\ pc \in Pcs
  /\ mem \in [meta : Metas, status : Statuses, seen : VpceStates \cup {"none"}]
  /\ fresh \in BOOLEAN
  /\ requeue \in Requeues
  /\ hzCache \subseteq ZoneIds
  /\ sgs \in [SgIds -> SgStates]
  /\ vpces \in [VpceIds -> VpceStates]
  /\ attached \subseteq VpceIds
  /\ zones \in [ZoneIds -> ZoneStates]
  /\ records \in [ZoneIds -> VpceIds \cup {None}]
  /\ faults \in 0..MaxFaults /\ edits \in 0..MaxEdits /\ losses \in 0..MaxLosses

-----------------------------------------------------------------------------
(* Safety *)

(* While the resource exists without the finalizer, AVO has nothing in     *)
(* AWS for it: Reconcile stores the finalizer (lines 132-141) before any   *)
(* validation, so deleting an unfinalized resource loses nothing.          *)
FinalizerCoversResources ==
  api.meta.exists /\ ~api.meta.finalizer =>
    SgPresent = {} /\ VpceVisible = {} /\ ZonePresent \subseteq setup.foreign

(* A resource with the finalizer has its infra id, service name and VPC id *)
(* stored: parseClusterInfo during deletion, when the objects they come    *)
(* from may be gone, never fails for want of one of them.                  *)
InfoBeforeFinalizer == api.meta.finalizer => api.status.info = InfoFields

(* The lookup by id, then by tags, then create finds what an earlier       *)
(* Reconcile made even if its id was never stored: there is never a second *)
(* security group, endpoint or hosted zone of AVO's for the resource.      *)
OneOfEach ==
  /\ \A a, b \in SgPresent : a = b
  /\ \A a, b \in VpceVisible : a = b
  /\ \A a, b \in ZonePresent \ setup.foreign : a = b

(* cleanupAwsResources finishes before the finalizer goes: once the        *)
(* resource is gone, nothing its status named is left in AWS.              *)
RecordedIsReleased ==
  ~api.meta.exists =>
    /\ api.status.sg \notin SgPresent
    /\ api.status.vpce \notin VpceLive
    /\ setup.zoneMode = "domainName" /\ ~setup.baseDomain =>
         api.status.zone \notin ZonePresent

(* When the record condition is True the cleanup can find the record: zone *)
(* and name are stored, and as long as the resource is not being deleted a *)
(* zone that is still there holds a record (cleanup.go lines 51-105).      *)
RecordTracked ==
  IsTrue(api.status, "record") =>
    /\ api.status.zone # None /\ api.status.rrs
    /\ ~api.meta.deleting /\ setup.zoneMode # "autoDiscover"
         /\ api.status.zone \in ZonePresent => records[api.status.zone] # None

(* The cleanup waits for the endpoint before it deletes the security group *)
(* (lines 221-259), so its own endpoint never causes a DependencyViolation.*)
EndpointGoneBeforeSg == pc = "clSg" => ~SgInUse

(* A status id is dropped or replaced only when what it names is gone from *)
(* AWS: a conflict, a crash or a stale copy never makes AVO forget a       *)
(* resource it has recorded.                                               *)
NeverForget ==
  [][/\ api'.status.sg # api.status.sg => api.status.sg \notin SgPresent'
     /\ api'.status.vpce # api.status.vpce => api.status.vpce \notin VpceLive'
     /\ setup.zoneMode = "domainName" /\ api'.status.zone # api.status.zone
          => api.status.zone \notin ZonePresent']_vars

(* Resources are created only while the API server still has the resource  *)
(* with its finalizer, even by a Reconcile that runs on an outdated copy:  *)
(* the cleanup is never over before the last creation.                     *)
CreateUnderFinalizer ==
  [][ \/ SgPresent' \subseteq SgPresent /\ VpceVisible' \subseteq VpceVisible
           /\ ZonePresent' \subseteq ZonePresent
      \/ api.meta.exists /\ api.meta.finalizer]_vars

-----------------------------------------------------------------------------
(* Liveness *)

(* What no cleanup gets past, and what nothing repairs once it is so: no   *)
(* AWS client can be made (vpcendpoint_controller.go:121-124); the zone of *)
(* a reported record is gone (cleanup.go:64); the DNS object, without      *)
(* which a zone found by name is not deleted, is gone (cleanup.go:124).    *)
CleanupStuck ==
  \/ ~ClientPossible
  \/ IsTrue(api.status, "record") /\ api.status.zone \notin ZonePresent
  \/ /\ setup.zoneMode = "domainName" /\ ~setup.hcpRef
     /\ api.status.zone # None /\ "dns" \notin sources

(* A deleted resource eventually disappears unless its cleanup is stuck:   *)
(* retries after conflicts, faults, crashes and slow endpoint deletions    *)
(* come to an end, and so do cleanups without the control plane or the     *)
(* endpoint service, or on objects that are already gone.                  *)
CleanupCompletes == api.meta.deleting ~> ~api.meta.exists \/ CleanupStuck

Served ==
  /\ api.status.vpce \in attached /\ vpces[api.status.vpce] = "available"
  /\ ~setup.privateDns =>
       /\ IsTrue(api.status, "record")
       /\ records[api.status.zone] = api.status.vpce
       /\ setup.externalName => svc = "ok"

(* A resource nobody deletes ends up served, its endpoint available with   *)
(* subnets and group attached and its DNS name pointing at it, provided    *)
(* the cluster objects and the zone it needs stay and its endpoint is not  *)
(* rejected.                                                               *)
Undisturbed ==
  /\ ~api.meta.deleting /\ sources = Sources
  /\ \A v \in VpceIds : vpces[v] # "rejected"
  /\ setup.foreign \cup ({api.status.zone} \ {None}) \subseteq ZonePresent

EventuallyServed == []Undisturbed => <>[]Served

-----------------------------------------------------------------------------
(* What comments in the code say, and the code does not do *)

(* const.go:20-21: the finalizer prevents the resource's deletion "until   *)
(* all AWS resources have been cleaned up".                                *)
AllIsReleased ==
  ~api.meta.exists /\ pc = "idle" =>
    SgPresent = {} /\ VpceLive = {} /\ ZonePresent \subseteq setup.foreign

(* validation.go:409-411: the UPSERT is skipped "when the record was       *)
(* already created and the VPC endpoint hasn't changed".                   *)
SkipOnlyIfUnchanged ==
  pc = "record" /\ SkipUpsert => records[mem.status.zone] = mem.status.vpce

(* cleanup.go:108: "Only delete a Route53 Private Hosted Zone if AVO       *)
(* created it".                                                            *)
ForeignZonesKept == \A z \in setup.foreign : zones[z] = "present"
=============================================================================
