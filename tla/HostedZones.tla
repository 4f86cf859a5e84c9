---------------------------- MODULE HostedZones ----------------------------
(***************************************************************************)
(* Private hosted zones with one domain name, shared by several VpcEndpoint*)
(* resources of one operator: finding, adopting or creating the zone, the  *)
(* record, the association of further VPCs, the cache of zones, and the    *)
(* cleanup.  VpcEndpointController has one resource and no associations;   *)
(* here resources meet in a zone, and everything before and after the DNS  *)
(* steps of a Reconcile is left out: endpoints are available, and all      *)
(* resources have the finalizer.  So are the zone's tags and the Service,  *)
(* which VpcEndpointController has (ZoneTags, ServiceMissing).             *)
(*                                                                         *)
(* The operator has one worker.  A zone resolves in the VPCs it is         *)
(* associated with; there is at least one as long as it exists.            *)
(***************************************************************************)
EXTENDS Naturals, FiniteSets

CONSTANTS
  Resources,
  Vpcs,
  VpcOf,       \* .status.vpcId
  AssocOf,     \* .spec...associatedVpcs
  Hosts,       \* hostnames
  Namings,     \* .spec...record.hostname of the resources, one function for each case
  None,
  MaxZones,    \* bound: zones ever created
  MaxFaults,   \* bound: failed calls, lost answers and restarts
  MaxTroubles  \* bound: what outsiders do

Zones == 1..MaxZones

ASSUME HostedZonesAssumption ==
  /\ VpcOf \in [Resources -> Vpcs] /\ AssocOf \in [Resources -> SUBSET Vpcs]
  /\ Namings \subseteq [Resources -> Hosts]
  /\ None \notin Resources \cup Vpcs \cup Zones
  /\ MaxZones \in Nat /\ MaxFaults \in Nat /\ MaxTroubles \in Nat

VARIABLES
  phase,    \* of each resource: live, deleting or gone
  status,   \* .status.hostedZoneId, and whether AWSRoute53RecordCondition is True;
            \* and the hostname of the spec, which does not change
  zone,     \* in Route 53: the VPCs a zone is associated with, and the
            \* resources at whose endpoints its records point
  created,  \* zones ever created
  secret,   \* the credentials of the other VPCs' account can be read
  cache,    \* hostedZoneCache: the VPCs of a zone as they were fetched
  pc,       \* where the worker is
  self,     \* the resource it reconciles
  stale,    \* its copy of the resource is outdated
  todo,     \* VPCs still to be associated
  target,   \* the one being associated
  robbed,   \* history: resources whose zone or record others took
  unsure,   \* history: zones with an association whose answer was lost
  faults, troubles

kvars == <<phase, status>>
avars == <<zone, created, secret>>
locals == <<self, stale, todo, target>>
budget == <<faults, troubles>>
vars == <<phase, status, zone, created, secret, cache, pc, self, stale, todo, target, robbed,
          unsure, faults, troubles>>

-----------------------------------------------------------------------------
NoZone == [vpcs |-> {}, records |-> {}]
Live(z) == z # None /\ zone[z].vpcs # {}

(* Mutant: the worker does not forget the resource *)
ReturnKeeping == pc' = "idle" /\ UNCHANGED locals

Return == pc' = "idle" /\ self' = None /\ stale' = FALSE /\ todo' = {} /\ target' = None

Goto(step) == pc' = step

(* Status().Update, then the next step; or a conflict or failure, which    *)
(* ends the Reconcile                                                      *)
WriteThen(s, step) ==
  \/ /\ ~stale
     /\ status' = [status EXCEPT ![self] = s] /\ Goto(step)
     /\ UNCHANGED <<locals, faults>>
  \/ /\ stale \/ faults > 0
     /\ faults' = IF stale THEN faults ELSE faults - 1
     /\ Return /\ UNCHANGED status

(* getHostedZoneCached: the VPCs of z, or an error *)
Fetchable(z) == cache[z] # None \/ Live(z)
Fetched(z) == IF cache[z] # None THEN cache[z] ELSE zone[z].vpcs
Cached(z) ==
  /\ cache' = [cache EXCEPT ![z] = Fetched(z)]
  /\ unsure' = IF cache[z] = None THEN unsure \ {z} ELSE unsure

(* Those other than r who lose something with zone z *)
Victims(r, z) == {q \in Resources \ {r} : phase[q] # "gone" /\ status[q].zone = z}

(* A record has a name, hostname and domain, and a name has one record: it *)
(* is the record of every resource with that hostname                      *)
Namesharers(r) == {q \in Resources : status[q].host = status[r].host}

(* ... and those who reported it lose it when r sets or deletes it *)
Outnamed(r, z) == {q \in Victims(r, z) \cap Namesharers(r) : status[q].record}

-----------------------------------------------------------------------------
(* Reconcile *)

Start(r) ==
  /\ pc = "idle" /\ phase[r] # "gone"
  /\ self' = r
  /\ Goto(IF phase[r] = "deleting" THEN "cleanRecord"
          ELSE IF status[r].zone = None THEN "find" ELSE "zone")
  /\ UNCHANGED <<kvars, avars, cache, stale, todo, target, robbed, unsure, budget>>

(* findOrCreatePrivateHostedZone with an id in the status *)
KnownZone ==
  /\ pc = "zone"
  /\ LET z == status[self].zone IN
     \/ Fetchable(z) /\ Cached(z) /\ Goto("record") /\ UNCHANGED locals
     \/ ~Fetchable(z) /\ Return /\ UNCHANGED <<cache, unsure>>
  /\ UNCHANGED <<kvars, avars, robbed, budget>>

(* Mutant: ListHostedZonesByName is not asked *)
NamesakesUnasked == {z \in Zones : Live(z) /\ VpcOf[self] \in zone[z].vpcs}

(* ListHostedZonesByVPC, and ListHostedZonesByName if that has none *)
Namesakes ==
  LET byName == {z \in Zones : Live(z)}
      byVpc == {z \in byName : VpcOf[self] \in zone[z].vpcs}
  IN  IF byVpc # {} THEN byVpc ELSE byName

FindZone ==
  /\ pc = "find"
  /\ \E z \in Namesakes : WriteThen([status[self] EXCEPT !.zone = z], "record")
  /\ UNCHANGED <<phase, avars, cache, robbed, unsure, troubles>>

CreateZone ==
  /\ pc = "find" /\ Namesakes = {} /\ created < MaxZones
  /\ LET z == created + 1 IN
     /\ created' = z
     /\ zone' = [zone EXCEPT ![z] = [vpcs |-> {VpcOf[self]}, records |-> {}]]
     /\ WriteThen([status[self] EXCEPT !.zone = z], "record")
  /\ UNCHANGED <<phase, secret, cache, robbed, unsure, troubles>>

(* validateR53HostedZoneRecord *)
RecordSkipped ==
  /\ pc = "record" /\ status[self].record
  /\ Goto("authorization")
  /\ UNCHANGED <<kvars, avars, cache, locals, robbed, unsure, budget>>

RecordUpsert ==
  /\ pc = "record" /\ ~status[self].record
  /\ LET z == status[self].zone IN
     \/ /\ Fetchable(z) /\ Cached(z) /\ Live(z)
        /\ zone' = [zone EXCEPT ![z].records = (@ \ Namesharers(self)) \cup {self}]
        /\ robbed' = robbed \cup Outnamed(self, z)
        /\ WriteThen([status[self] EXCEPT !.record = TRUE], "authorization")
     \/ /\ Fetchable(z) /\ Cached(z) /\ ~Live(z)
        /\ Return /\ UNCHANGED <<status, zone, robbed, faults>>
     \/ /\ ~Fetchable(z)
        /\ Return /\ UNCHANGED <<status, zone, cache, robbed, unsure, faults>>
  /\ UNCHANGED <<phase, created, secret, troubles>>

(* validateR53HostedZoneAuthorization: what the fetched zone lacks *)
FindMissingVpcs ==
  /\ pc = "authorization"
  /\ LET z == status[self].zone IN
     \/ AssocOf[self] = {} /\ Return /\ UNCHANGED <<cache, unsure>>
     \/ /\ AssocOf[self] # {} /\ Fetchable(z) /\ Cached(z)
        /\ todo' = AssocOf[self] \ Fetched(z)
        /\ Goto("authorize") /\ UNCHANGED <<self, stale, target>>
     \/ AssocOf[self] # {} /\ ~Fetchable(z) /\ Return /\ UNCHANGED <<cache, unsure>>
  /\ UNCHANGED <<kvars, avars, robbed, budget>>

AllAssociated ==
  /\ pc = "authorize" /\ todo = {}
  /\ Return
  /\ UNCHANGED <<kvars, avars, cache, robbed, unsure, budget>>

(* ParseAWSCredentialOverride: the secret is there and has the keys *)
Credentials == secret

(* CreateVPCAssociationAuthorization, then the secret is read *)
AuthorizeVpc ==
  /\ pc = "authorize"
  /\ \E v \in todo :
       \/ Live(status[self].zone) /\ Credentials /\ target' = v /\ Goto("associate")
          /\ UNCHANGED <<self, stale, todo>>
       \/ ~(Live(status[self].zone) /\ Credentials) /\ Return
  /\ UNCHANGED <<kvars, avars, cache, robbed, unsure, budget>>

(* A VPC is associated with one zone of a name at most *)
Associable(z, v) == Live(z) /\ \A y \in Zones : v \notin zone[y].vpcs

Associated(z, v) == zone' = [zone EXCEPT ![z].vpcs = @ \cup {v}]

(* Mutant: the cache is not invalidated *)
AssociateVpcCached ==
  /\ pc = "associate"
  /\ LET z == status[self].zone IN
     \/ /\ Associable(z, target) /\ Associated(z, target)
        /\ todo' = todo \ {target} /\ target' = None
        /\ Goto("authorize") /\ UNCHANGED <<self, stale>>
     \/ ~Associable(z, target) /\ Return /\ UNCHANGED zone
  /\ UNCHANGED <<kvars, created, secret, cache, robbed, unsure, budget>>

AssociateVpc ==
  /\ pc = "associate"
  /\ LET z == status[self].zone IN
     \/ /\ Associable(z, target) /\ Associated(z, target)
        /\ cache' = [cache EXCEPT ![z] = None]
        /\ todo' = todo \ {target} /\ target' = None
        /\ Goto("authorize") /\ UNCHANGED <<self, stale>>
     \/ ~Associable(z, target) /\ Return /\ UNCHANGED <<zone, cache>>
  /\ UNCHANGED <<kvars, created, secret, robbed, unsure, budget>>

(* The VPC is associated, but the answer is an error *)
AssociateAnswerLost ==
  /\ pc = "associate" /\ faults > 0 /\ faults' = faults - 1
  /\ LET z == status[self].zone IN
     /\ Associable(z, target) /\ Associated(z, target)
     /\ unsure' = unsure \cup {z}
  /\ Return
  /\ UNCHANGED <<kvars, created, secret, cache, robbed, troubles>>

-----------------------------------------------------------------------------
(* cleanupAwsResources *)

(* Mutant: all records of the zone are deleted *)
CleanRecordAll ==
  /\ pc = "cleanRecord" /\ status[self].record /\ Live(status[self].zone)
  /\ zone' = [zone EXCEPT ![status[self].zone].records = {}]
  /\ WriteThen([status[self] EXCEPT !.record = FALSE], "cleanZone")
  /\ UNCHANGED <<phase, created, secret, cache, robbed, unsure, troubles>>

(* The record with the resource's name is deleted, wherever it points *)
CleanRecord ==
  /\ pc = "cleanRecord" /\ status[self].record
  /\ LET z == status[self].zone IN
     /\ Live(z)
     /\ zone' = [zone EXCEPT ![z].records = @ \ Namesharers(self)]
     /\ robbed' = robbed \cup Outnamed(self, z)
  /\ WriteThen([status[self] EXCEPT !.record = FALSE], "cleanZone")
  /\ UNCHANGED <<phase, created, secret, cache, unsure, troubles>>

(* GetHostedZone fails; nothing to do without a record *)
CleanRecordEnds ==
  /\ pc = "cleanRecord"
  /\ \/ status[self].record /\ ~Live(status[self].zone) /\ Return
     \/ ~status[self].record /\ Goto("cleanZone") /\ UNCHANGED locals
  /\ UNCHANGED <<kvars, avars, cache, robbed, unsure, budget>>

(* Mutant: NoSuchHostedZone is an error *)
CleanZoneGoneStrict ==
  /\ pc = "cleanZone" /\ ~Live(status[self].zone)
  /\ \/ status[self].zone = None /\ Goto("release") /\ UNCHANGED locals
     \/ status[self].zone # None /\ Return
  /\ UNCHANGED <<kvars, avars, cache, robbed, unsure, budget>>

(* There is no zone; NoSuchHostedZone is fine *)
CleanZoneGone ==
  /\ pc = "cleanZone" /\ ~Live(status[self].zone)
  /\ \/ /\ status[self].zone = None
        /\ Goto("release") /\ UNCHANGED <<status, locals, faults>>
     \/ /\ status[self].zone # None
        /\ WriteThen([status[self] EXCEPT !.zone = None], "release")
  /\ UNCHANGED <<phase, avars, cache, robbed, unsure, troubles>>

(* DeleteHostedZone of an empty zone; the id stays in the status *)
CleanZone ==
  /\ pc = "cleanZone"
  /\ LET z == status[self].zone IN
     /\ Live(z) /\ zone[z].records = {}
     /\ zone' = [zone EXCEPT ![z] = NoZone]
     /\ robbed' = robbed \cup Victims(self, z)
  /\ Goto("release")
  /\ UNCHANGED <<kvars, created, secret, cache, locals, unsure, budget>>

(* HostedZoneNotEmpty: all records are deleted, then the zone *)
CleanZoneRecords ==
  /\ pc = "cleanZone"
  /\ LET z == status[self].zone IN
     /\ Live(z) /\ zone[z].records # {}
     /\ zone' = [zone EXCEPT ![z].records = {}]
     /\ robbed' = robbed \cup Victims(self, z)
  /\ Goto("cleanZoneAgain")
  /\ UNCHANGED <<kvars, created, secret, cache, locals, unsure, budget>>

CleanZoneAgain ==
  /\ pc = "cleanZoneAgain"
  /\ LET z == status[self].zone IN
     \/ /\ Live(z) /\ zone' = [zone EXCEPT ![z] = NoZone]
        /\ robbed' = robbed \cup Victims(self, z)
        /\ WriteThen([status[self] EXCEPT !.zone = None], "release")
     \/ ~Live(z) /\ Return /\ UNCHANGED <<zone, status, robbed, faults>>
  /\ UNCHANGED <<phase, created, secret, cache, unsure, troubles>>

(* Endpoint and security group, then the finalizer *)
Release ==
  /\ pc = "release"
  /\ phase' = [phase EXCEPT ![self] = "gone"] /\ Return
  /\ UNCHANGED <<status, avars, cache, robbed, unsure, budget>>

-----------------------------------------------------------------------------
(* Faults, time, users and outsiders *)

CallFails ==
  /\ pc # "idle" /\ faults > 0 /\ faults' = faults - 1
  /\ Return
  /\ UNCHANGED <<kvars, avars, cache, robbed, unsure, troubles>>

(* The operator restarts with an empty cache *)
Crash ==
  /\ faults > 0 /\ faults' = faults - 1
  /\ Return /\ cache' = [z \in Zones |-> None]
  /\ UNCHANGED <<kvars, avars, robbed, unsure, troubles>>

(* Mutant: entries of the cache do not expire *)
CacheExpireNever(z) == FALSE /\ UNCHANGED vars

(* Two minutes have passed *)
CacheExpire(z) ==
  /\ cache[z] # None /\ cache' = [cache EXCEPT ![z] = None]
  /\ UNCHANGED <<kvars, avars, pc, locals, robbed, unsure, budget>>

UserDelete(r) ==
  /\ phase[r] = "live" /\ phase' = [phase EXCEPT ![r] = "deleting"]
  /\ stale' = (stale \/ self = r)
  /\ UNCHANGED <<status, avars, cache, pc, self, todo, target, robbed, unsure, budget>>

ZoneLost(z) ==
  /\ troubles > 0 /\ troubles' = troubles - 1
  /\ Live(z) /\ zone' = [zone EXCEPT ![z] = NoZone]
  /\ robbed' = robbed \cup Victims(None, z)
  /\ UNCHANGED <<kvars, created, secret, cache, pc, locals, unsure, faults>>

SecretChanges ==
  /\ troubles > 0 /\ troubles' = troubles - 1
  /\ secret' = ~secret
  /\ UNCHANGED <<kvars, zone, created, cache, pc, locals, robbed, unsure, faults>>

-----------------------------------------------------------------------------
Init ==
  /\ phase = [r \in Resources |-> "live"]
  /\ \E n \in Namings :
       status = [r \in Resources |-> [zone |-> None, record |-> FALSE, host |-> n[r]]]
  /\ zone = [z \in Zones |-> NoZone] /\ created = 0 /\ secret \in BOOLEAN
  /\ cache = [z \in Zones |-> None]
  /\ pc = "idle" /\ self = None /\ stale = FALSE /\ todo = {} /\ target = None
  /\ robbed = {} /\ unsure = {} /\ faults = MaxFaults /\ troubles = MaxTroubles

(* What the worker does after it took a resource from the queue *)
Work ==
  \/ KnownZone \/ FindZone \/ CreateZone \/ RecordSkipped \/ RecordUpsert
  \/ FindMissingVpcs \/ AllAssociated \/ AuthorizeVpc \/ AssociateVpc
  \/ CleanRecord \/ CleanRecordEnds \/ CleanZoneGone \/ CleanZone \/ CleanZoneRecords
  \/ CleanZoneAgain \/ Release

Next ==
  \/ \E r \in Resources : Start(r) \/ UserDelete(r)
  \/ Work
  \/ AssociateAnswerLost \/ CallFails \/ Crash \/ SecretChanges
  \/ \E z \in Zones : CacheExpire(z) \/ ZoneLost(z)

Spec == Init /\ [][Next]_vars

(* The queue is fair to each resource, and time passes *)
FairSpec ==
  /\ Spec
  /\ WF_vars(Work)
  /\ \A r \in Resources : SF_vars(Start(r))
  /\ \A z \in Zones : WF_vars(CacheExpire(z))

-----------------------------------------------------------------------------
Steps == {"idle", "zone", "find", "record", "authorization", "authorize", "associate",
          "cleanRecord", "cleanZone", "cleanZoneAgain", "release"}

(* The variables have the types their declarations say; the worker is idle *)
(* exactly when it has no resource, and a record needs a zone.             *)
TypeOK ==
  /\ phase \in [Resources -> {"live", "deleting", "gone"}]
  /\ status \in [Resources -> [zone : Zones \cup {None}, record : BOOLEAN, host : Hosts]]
  /\ zone \in [Zones -> [vpcs : SUBSET Vpcs, records : SUBSET Resources]]
  /\ created \in 0..MaxZones /\ secret \in BOOLEAN
  /\ cache \in [Zones -> (SUBSET Vpcs) \cup {None}]
  /\ pc \in Steps /\ self \in Resources \cup {None}
  /\ (pc = "idle") <=> (self = None)
  /\ stale \in BOOLEAN /\ todo \in SUBSET Vpcs /\ target \in Vpcs \cup {None}
  /\ robbed \subseteq Resources /\ unsure \subseteq Zones
  /\ faults \in 0..MaxFaults /\ troubles \in 0..MaxTroubles

(* There are never two zones of the domain, also when the status write     *)
(* that records a created one is lost and when the resources are in        *)
(* different VPCs (helpers.go:883-903).                                    *)
OneZonePerDomain == \A y, z \in Zones : Live(y) /\ Live(z) => y = z

(* A resource that reports its record as created has it, unless someone    *)
(* else deleted the zone or all its records, or set or deleted the record  *)
(* for a resource with the same hostname: the cleanup of a record deletes  *)
(* by name and leaves other names alone (cleanup.go:76-87, although the    *)
(* comment above it says "all records"), and the skipped upsert, which     *)
(* never looks at the record again, relies on that (validation.go:409-417).*)
RecordKept ==
  \A r \in Resources \ robbed :
    phase[r] = "live" /\ status[r].record
      => Live(status[r].zone) /\ r \in zone[status[r].zone].records

(* No VPC is associated a second time, which Route 53 refuses and which    *)
(* would fail every Reconcile, unless an answer was lost since the zone    *)
(* was last fetched (validation.go:392 invalidates the cache).             *)
AssociateOnce ==
  pc = "associate" /\ Live(status[self].zone)
    => target \notin zone[status[self].zone].vpcs \/ status[self].zone \in unsure

(* A deleted resource disappears, except when its zone was taken away      *)
(* while its record was reported: then GetHostedZone fails in every        *)
(* cleanup (cleanup.go:64).  A zone that another cleanup deleted first, or *)
(* that still has records of others, does not stop it.                     *)
CleanupEnds ==
  \A r \in Resources :
    phase[r] = "deleting" ~>
      phase[r] = "gone" \/ (r \in robbed /\ status[r].record /\ ~Live(status[r].zone))

Resolves(r) ==
  /\ Live(status[r].zone) /\ r \in zone[status[r].zone].records
  /\ AssocOf[r] \subseteq zone[status[r].zone].vpcs

(* A resource that stays, whose zone or name nobody takes and whose secret *)
(* can be read in the end, gets its record and all its associations,       *)
(* although calls fail and answers are lost: a cached zone that lacks an   *)
(* association expires (helpers.go:1059-1082).                             *)
EventuallyResolves ==
  \A r \in Resources :
    <>[](phase[r] = "live" /\ r \notin robbed /\ secret) => <>[]Resolves(r)

(* The record resolves in the resource's own VPC: its zone is associated   *)
(* with it, as a created one is (route53_hosted_zone.go:125-138).          *)
OwnVpcServed ==
  \A r \in Resources :
    Live(status[r].zone) => VpcOf[r] \in zone[status[r].zone].vpcs
=============================================================================
