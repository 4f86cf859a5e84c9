------------------------- MODULE HostedZones_proofs -------------------------
(***************************************************************************)
(* Shared hosted zones, for any number of resources, VPCs, zones, faults   *)
(* and troubles, wherever the resources are and whatever they associate.   *)
(***************************************************************************)
EXTENDS HostedZones, TLAPS

DnsSteps == {"zone", "record", "authorization", "authorize", "associate"}
CleanSteps == {"cleanRecord", "cleanZone", "cleanZoneAgain", "release"}

(* What the worker knows of its resource at each step *)
WorkerInv ==
  /\ pc \in DnsSteps => status[self].zone \in Zones
  /\ pc = "find" => status[self].zone = None
  /\ pc \in CleanSteps => phase[self] = "deleting"
  /\ pc = "associate" => target \in todo

(* A zone that was not created yet is nowhere, and a cached answer lacks a *)
(* VPC only if the answer to its association was lost                      *)
CacheInv ==
  \A z \in Zones :
    /\ created < z => zone[z].vpcs = {} /\ cache[z] = None
    /\ cache[z] # None => zone[z].vpcs \subseteq cache[z] \/ z \in unsure

(* What is still to be associated is not associated already *)
TodoInv ==
  pc \in {"authorize", "associate"} =>
    \/ status[self].zone \in unsure
    \/ todo \cap zone[status[self].zone].vpcs = {}

ZoneInv == WorkerInv /\ CacheInv /\ TodoInv

-----------------------------------------------------------------------------
(* Types *)

Entries == [zone : Zones \cup {None}, record : BOOLEAN, host : Hosts]

(* The variables of the worker and what its status writes change *)
WorkerOK ==
  /\ status \in [Resources -> Entries]
  /\ pc \in Steps /\ self \in Resources \cup {None}
  /\ (pc = "idle") <=> (self = None)
  /\ stale \in BOOLEAN /\ todo \in SUBSET Vpcs /\ target \in Vpcs \cup {None}
  /\ faults \in 0..MaxFaults

(* The objects of the API server and of Route 53, the cache and histories *)
WorldOK ==
  /\ phase \in [Resources -> {"live", "deleting", "gone"}]
  /\ zone \in [Zones -> [vpcs : SUBSET Vpcs, records : SUBSET Resources]]
  /\ created \in 0..MaxZones /\ secret \in BOOLEAN
  /\ cache \in [Zones -> (SUBSET Vpcs) \cup {None}]
  /\ robbed \subseteq Resources /\ unsure \subseteq Zones
  /\ troubles \in 0..MaxTroubles

LEMMA TypeSplit == TypeOK <=> WorkerOK /\ WorldOK
  BY DEF TypeOK, WorkerOK, WorldOK, Entries

LEMMA TypeSplitNext == TypeOK' <=> WorkerOK' /\ WorldOK'
  BY DEF TypeOK, WorkerOK, WorldOK, Entries

(* A worker under way has a resource, with a status *)
LEMMA Busy ==
  ASSUME TypeOK, pc # "idle"
  PROVE  /\ self \in Resources /\ status[self] \in Entries
         /\ \A z \in Zones \cup {None} : [status[self] EXCEPT !.zone = z] \in Entries
         /\ \A b \in BOOLEAN : [status[self] EXCEPT !.record = b] \in Entries
  BY DEF TypeOK, Entries

LEMMA ReturnTypes ==
  ASSUME TypeOK, Return, status' = status, faults' \in 0..MaxFaults
  PROVE  WorkerOK'
  BY DEF TypeOK, Return, WorkerOK, Entries, Steps

LEMMA GotoTypes ==
  ASSUME TypeOK, pc # "idle", NEW step \in Steps \ {"idle"}, Goto(step),
         self' = self, stale' = stale, todo' \subseteq Vpcs, target' \in Vpcs \cup {None},
         faults' = faults, status' = status
  PROVE  WorkerOK'
  BY DEF TypeOK, Goto, WorkerOK, Entries

LEMMA WriteTypes ==
  ASSUME TypeOK, pc # "idle", NEW step \in Steps \ {"idle"}, NEW s \in Entries,
         WriteThen(s, step)
  PROVE  WorkerOK'
  <1>1. CASE /\ ~stale /\ status' = [status EXCEPT ![self] = s] /\ Goto(step)
             /\ UNCHANGED <<locals, faults>>
        BY <1>1 DEF TypeOK, WorkerOK, Goto, locals, Entries
  <1>2. CASE /\ stale \/ faults > 0
             /\ faults' = IF stale THEN faults ELSE faults - 1
             /\ Return /\ UNCHANGED status
    <2>1. faults' \in 0..MaxFaults
          BY <1>2, HostedZonesAssumption DEF TypeOK
    <2> QED
        BY <1>2, <2>1, ReturnTypes
  <1> QED
      BY <1>1, <1>2 DEF WriteThen

LEMMA CachedTypes ==
  ASSUME TypeOK, NEW z \in Zones, Cached(z)
  PROVE  /\ cache' \in [Zones -> (SUBSET Vpcs) \cup {None}] /\ unsure' \subseteq Zones
         /\ Fetched(z) \in (SUBSET Vpcs) \cup {None}
  BY DEF TypeOK, Cached, Fetched

LEMMA StepNames ==
  /\ DnsSteps \cup CleanSteps \cup {"find"} = Steps \ {"idle"}
  BY DEF DnsSteps, CleanSteps, Steps

(* The steps of a Reconcile that find or create the zone and the record *)
LEMMA ZoneStepTypes ==
  ASSUME TypeOK, WorkerInv,
         KnownZone \/ FindZone \/ CreateZone \/ RecordSkipped \/ RecordUpsert
  PROVE  TypeOK'
  <1> USE HostedZonesAssumption, TypeSplit, TypeSplitNext, Busy, StepNames
      DEF DnsSteps, CleanSteps
  <1>1. CASE KnownZone
    <2>1. status[self].zone \in Zones /\ pc # "idle"
          BY <1>1 DEF KnownZone, WorkerInv
    <2>2. WorldOK'
          BY <1>1, <2>1, CachedTypes DEF KnownZone, kvars, avars, budget, WorldOK
    <2>3. WorkerOK'
          BY <1>1, <2>1, ReturnTypes, GotoTypes
          DEF KnownZone, kvars, budget, locals, TypeOK
    <2> QED
        BY <2>2, <2>3
  <1>2. CASE FindZone
    <2>1. PICK z \in Zones : WriteThen([status[self] EXCEPT !.zone = z], "record")
          BY <1>2 DEF FindZone, Namesakes
    <2>2. WorkerOK'
          BY <1>2, <2>1, WriteTypes DEF FindZone
    <2> QED
        BY <1>2, <2>2 DEF FindZone, avars, WorldOK
  <1>3. CASE CreateZone
    <2>1. created + 1 \in Zones /\ created + 1 \in 0..MaxZones
          BY <1>3 DEF CreateZone, Zones, TypeOK
    <2>2. WorkerOK'
          BY <1>3, <2>1, WriteTypes DEF CreateZone
    <2>3. VpcOf[self] \in Vpcs
          BY <1>3 DEF CreateZone
    <2>4. zone' \in [Zones -> [vpcs : SUBSET Vpcs, records : SUBSET Resources]]
          BY <1>3, <2>1, <2>3 DEF CreateZone, TypeOK
    <2> QED
        BY <1>3, <2>1, <2>2, <2>4 DEF CreateZone, WorldOK
  <1>4. CASE RecordSkipped
    <2>1. WorkerOK'
          BY <1>4, GotoTypes DEF RecordSkipped, kvars, budget, locals, TypeOK
    <2> QED
        BY <1>4, <2>1 DEF RecordSkipped, kvars, avars, budget, WorldOK
  <1>5. CASE RecordUpsert
    <2>1. status[self].zone \in Zones /\ pc # "idle" /\ self \in Resources
          BY <1>5 DEF RecordUpsert, WorkerInv
    <2>2. zone' \in [Zones -> [vpcs : SUBSET Vpcs, records : SUBSET Resources]]
      <3>0. (zone[status[self].zone].records \ Namesharers(self)) \cup {self} \in SUBSET Resources
        <4>1. zone[status[self].zone].records \in SUBSET Resources
              BY <2>1 DEF TypeOK
        <4> QED
            BY <2>1, <4>1
      <3>1. CASE zone' = [zone EXCEPT ![status[self].zone].records =
                            (@ \ Namesharers(self)) \cup {self}]
            BY <3>0, <3>1, <2>1 DEF TypeOK
      <3>2. CASE zone' = zone
            BY <3>2 DEF TypeOK
      <3> QED
          BY <1>5, <3>1, <3>2 DEF RecordUpsert
    <2>3. cache' \in [Zones -> (SUBSET Vpcs) \cup {None}] /\ unsure' \subseteq Zones
          BY <1>5, <2>1, CachedTypes DEF RecordUpsert, TypeOK
    <2>4. WorkerOK'
      <3>1. CASE WriteThen([status[self] EXCEPT !.record = TRUE], "authorization")
            BY <3>1, <2>1, WriteTypes
      <3>2. CASE Return /\ UNCHANGED <<status, faults>>
            BY <3>2, ReturnTypes DEF TypeOK
      <3> QED
          BY <1>5, <3>1, <3>2 DEF RecordUpsert
    <2>5. robbed' \subseteq Resources
          BY <1>5 DEF RecordUpsert, Outnamed, Victims, TypeOK
    <2> QED
        BY <1>5, <2>2, <2>3, <2>4, <2>5 DEF RecordUpsert, WorldOK
  <1> QED
      BY <1>1, <1>2, <1>3, <1>4, <1>5

(* The steps that associate further VPCs *)
LEMMA AssociationTypes ==
  ASSUME TypeOK, WorkerInv,
         \/ FindMissingVpcs \/ AllAssociated \/ AuthorizeVpc \/ AssociateVpc
         \/ AssociateAnswerLost
  PROVE  TypeOK'
  <1> USE HostedZonesAssumption, TypeSplit, TypeSplitNext, Busy, StepNames
      DEF DnsSteps, CleanSteps
  <1>1. CASE FindMissingVpcs
    <2>1. status[self].zone \in Zones /\ pc # "idle"
          BY <1>1 DEF FindMissingVpcs, WorkerInv
    <2>2. WorldOK'
          BY <1>1, <2>1, CachedTypes DEF FindMissingVpcs, kvars, avars, budget, WorldOK
    <2>3. WorkerOK'
          BY <1>1, <2>1, ReturnTypes, GotoTypes
          DEF FindMissingVpcs, kvars, budget, TypeOK
    <2> QED
        BY <2>2, <2>3
  <1>2. CASE AllAssociated
    <2>1. WorkerOK'
          BY <1>2, ReturnTypes DEF AllAssociated, kvars, budget, TypeOK
    <2> QED
        BY <1>2, <2>1 DEF AllAssociated, kvars, avars, budget, WorldOK
  <1>3. CASE AuthorizeVpc
    <2>1. WorkerOK'
          BY <1>3, ReturnTypes, GotoTypes DEF AuthorizeVpc, kvars, budget, TypeOK
    <2> QED
        BY <1>3, <2>1 DEF AuthorizeVpc, kvars, avars, budget, WorldOK
  <1>4. ASSUME pc = "associate", Associated(status[self].zone, target)
        PROVE  zone' \in [Zones -> [vpcs : SUBSET Vpcs, records : SUBSET Resources]]
    <2>1. status[self].zone \in Zones /\ target \in Vpcs
          BY <1>4 DEF WorkerInv, TypeOK
    <2>2. zone \in [Zones -> [vpcs : SUBSET Vpcs, records : SUBSET Resources]]
          BY DEF TypeOK
    <2>3. [zone[status[self].zone] EXCEPT !.vpcs = @ \cup {target}]
            \in [vpcs : SUBSET Vpcs, records : SUBSET Resources]
          BY <2>1, <2>2
    <2> QED
        BY <1>4, <2>1, <2>2, <2>3 DEF Associated
  <1>5. CASE AssociateVpc
    <2>1. zone' \in [Zones -> [vpcs : SUBSET Vpcs, records : SUBSET Resources]]
          BY <1>5, <1>4 DEF AssociateVpc, TypeOK
    <2>2. cache' \in [Zones -> (SUBSET Vpcs) \cup {None}]
          BY <1>5 DEF AssociateVpc, TypeOK
    <2>3. WorkerOK'
          BY <1>5, ReturnTypes, GotoTypes DEF AssociateVpc, kvars, budget, TypeOK
    <2> QED
        BY <1>5, <2>1, <2>2, <2>3 DEF AssociateVpc, kvars, budget, WorldOK
  <1>6. CASE AssociateAnswerLost
    <2>1. zone' \in [Zones -> [vpcs : SUBSET Vpcs, records : SUBSET Resources]]
          BY <1>6, <1>4 DEF AssociateAnswerLost
    <2>2. unsure' \subseteq Zones
          BY <1>6 DEF AssociateAnswerLost, WorkerInv, TypeOK
    <2>3. WorkerOK'
          BY <1>6, ReturnTypes DEF AssociateAnswerLost, kvars, TypeOK
    <2> QED
        BY <1>6, <2>1, <2>2, <2>3 DEF AssociateAnswerLost, kvars, WorldOK
  <1> QED
      BY <1>1, <1>2, <1>3, <1>5, <1>6

(* cleanupAwsResources *)
LEMMA CleanupTypes ==
  ASSUME TypeOK,
         \/ CleanRecord \/ CleanRecordEnds \/ CleanZoneGone \/ CleanZone \/ CleanZoneRecords
         \/ CleanZoneAgain \/ Release
  PROVE  TypeOK'
  <1> USE HostedZonesAssumption, TypeSplit, TypeSplitNext, Busy, StepNames
      DEF DnsSteps, CleanSteps
  <1>n. NoZone \in [vpcs : SUBSET Vpcs, records : SUBSET Resources]
        BY DEF NoZone
  <1>v. \A z : Victims(self, z) \subseteq Resources
        BY DEF Victims
  <1>1. CASE CleanRecord
    <2>1. zone' \in [Zones -> [vpcs : SUBSET Vpcs, records : SUBSET Resources]]
      <3>1. status[self].zone \in Zones
            BY <1>1 DEF CleanRecord, Live, Entries
      <3>2. PICK kept \in SUBSET Resources :
              zone' = [zone EXCEPT ![status[self].zone].records = kept]
        <4>1. zone[status[self].zone].records \ Namesharers(self) \in SUBSET Resources
          <5>1. zone[status[self].zone].records \in SUBSET Resources
                BY <3>1 DEF TypeOK
          <5> QED
              BY <5>1
        <4> QED
            BY <1>1, <4>1 DEF CleanRecord
      <3>3. zone \in [Zones -> [vpcs : SUBSET Vpcs, records : SUBSET Resources]]
            BY DEF TypeOK
      <3> QED
          BY <3>1, <3>2, <3>3
    <2>2. WorkerOK'
          BY <1>1, WriteTypes DEF CleanRecord
    <2>3. robbed' \subseteq Resources
          BY <1>1 DEF CleanRecord, Outnamed, Victims, TypeOK
    <2> QED
        BY <1>1, <2>1, <2>2, <2>3 DEF CleanRecord, WorldOK
  <1>2. CASE CleanRecordEnds
    <2>1. WorkerOK'
          BY <1>2, ReturnTypes, GotoTypes DEF CleanRecordEnds, kvars, budget, locals, TypeOK
    <2> QED
        BY <1>2, <2>1 DEF CleanRecordEnds, kvars, avars, budget, WorldOK
  <1>3. CASE CleanZoneGone
    <2>1. CASE Goto("release") /\ UNCHANGED <<status, locals, faults>>
          BY <1>3, <2>1, GotoTypes DEF CleanZoneGone, avars, locals, WorldOK, TypeOK
    <2>2. CASE WriteThen([status[self] EXCEPT !.zone = None], "release")
      <3>1. WorkerOK'
            BY <1>3, <2>2, WriteTypes DEF CleanZoneGone
      <3> QED
          BY <1>3, <3>1 DEF CleanZoneGone, avars, WorldOK
    <2> QED
        BY <1>3, <2>1, <2>2 DEF CleanZoneGone
  <1>4. CASE CleanZone \/ CleanZoneRecords
    <2>1. zone' \in [Zones -> [vpcs : SUBSET Vpcs, records : SUBSET Resources]]
      <3>1. status[self].zone \in Zones
            BY <1>4 DEF CleanZone, CleanZoneRecords, Live, Entries
      <3>2. CASE zone' = [zone EXCEPT ![status[self].zone] = NoZone]
            BY <1>n, <3>1, <3>2 DEF TypeOK
      <3>3. CASE zone' = [zone EXCEPT ![status[self].zone].records = {}]
            BY <3>1, <3>3 DEF TypeOK
      <3> QED
          BY <1>4, <3>2, <3>3 DEF CleanZone, CleanZoneRecords
    <2>2. robbed' \subseteq Resources
          BY <1>4, <1>v DEF CleanZone, CleanZoneRecords, TypeOK
    <2>3. WorkerOK'
          BY <1>4, GotoTypes DEF CleanZone, CleanZoneRecords, kvars, budget, locals, TypeOK
    <2> QED
        BY <1>4, <2>1, <2>2, <2>3 DEF CleanZone, CleanZoneRecords, kvars, budget, WorldOK
  <1>5. CASE CleanZoneAgain
    <2>1. zone' \in [Zones -> [vpcs : SUBSET Vpcs, records : SUBSET Resources]]
          BY <1>5, <1>n DEF CleanZoneAgain, TypeOK
    <2>2. robbed' \subseteq Resources
          BY <1>5, <1>v DEF CleanZoneAgain, TypeOK
    <2>3. WorkerOK'
      <3>1. CASE WriteThen([status[self] EXCEPT !.zone = None], "release")
            BY <1>5, <3>1, WriteTypes DEF CleanZoneAgain
      <3>2. CASE Return /\ UNCHANGED <<status, faults>>
            BY <3>2, ReturnTypes DEF TypeOK
      <3> QED
          BY <1>5, <3>1, <3>2 DEF CleanZoneAgain
    <2> QED
        BY <1>5, <2>1, <2>2, <2>3 DEF CleanZoneAgain, WorldOK
  <1>6. CASE Release
    <2>1. WorkerOK'
          BY <1>6, ReturnTypes DEF Release, budget, TypeOK
    <2> QED
        BY <1>6, <2>1 DEF Release, avars, budget, WorldOK
  <1> QED
      BY <1>1, <1>2, <1>3, <1>4, <1>5, <1>6

(* Faults, time, users and outsiders *)
LEMMA OutsideTypes ==
  ASSUME TypeOK,
         \/ CallFails \/ Crash \/ SecretChanges
         \/ \E r \in Resources : Start(r) \/ UserDelete(r)
         \/ \E z \in Zones : CacheExpire(z) \/ ZoneLost(z)
  PROVE  TypeOK'
  <1> USE HostedZonesAssumption, TypeSplit, TypeSplitNext
  <1>1. CASE CallFails \/ Crash
    <2>1. WorkerOK'
          BY <1>1, ReturnTypes DEF CallFails, Crash, kvars, TypeOK
    <2>2. cache' \in [Zones -> (SUBSET Vpcs) \cup {None}]
          BY <1>1 DEF CallFails, Crash, TypeOK
    <2> QED
        BY <1>1, <2>1, <2>2 DEF CallFails, Crash, kvars, avars, WorldOK
  <1>2. CASE SecretChanges
        BY <1>2 DEF SecretChanges, kvars, locals, TypeOK
  <1>3. ASSUME NEW r \in Resources, Start(r) PROVE TypeOK'
        BY <1>3 DEF Start, Goto, kvars, avars, budget, TypeOK, Steps
  <1>4. ASSUME NEW r \in Resources, UserDelete(r) PROVE TypeOK'
        BY <1>4 DEF UserDelete, avars, budget, TypeOK
  <1>5. ASSUME NEW z \in Zones, CacheExpire(z) PROVE TypeOK'
        BY <1>5 DEF CacheExpire, kvars, avars, locals, budget, TypeOK
  <1>6. ASSUME NEW z \in Zones, ZoneLost(z) PROVE TypeOK'
    <2>1. zone' \in [Zones -> [vpcs : SUBSET Vpcs, records : SUBSET Resources]]
          BY <1>6 DEF ZoneLost, NoZone, TypeOK
    <2>2. robbed' \subseteq Resources
          BY <1>6 DEF ZoneLost, Victims, TypeOK
    <2> QED
        BY <1>6, <2>1, <2>2 DEF ZoneLost, kvars, locals, TypeOK
  <1> QED
      BY <1>1, <1>2, <1>3, <1>4, <1>5, <1>6

-----------------------------------------------------------------------------
(* The worker, the cache and the associations *)

(* How a status write ends *)
LEMMA WriteCases ==
  ASSUME TypeOK, pc # "idle", NEW s \in Entries, NEW step, WriteThen(s, step)
  PROVE  \/ /\ pc' = step /\ self' = self /\ todo' = todo /\ target' = target
            /\ status' = [status EXCEPT ![self] = s] /\ status'[self] = s
         \/ pc' = "idle" /\ status' = status
  BY Busy DEF WriteThen, Goto, Return, locals, TypeOK

LEMMA IdleInv == ASSUME pc' = "idle" PROVE WorkerInv' /\ TodoInv'
  BY DEF WorkerInv, TodoInv, DnsSteps, CleanSteps

LEMMA ReturnIdle == Return => pc' = "idle"
  BY DEF Return

(* Nothing happens to the cache, and zones at most lose VPCs *)
LEMMA CacheKept ==
  ASSUME TypeOK, CacheInv, cache' = cache, unsure' = unsure, created' = created,
         \A z \in Zones : zone'[z].vpcs \subseteq zone[z].vpcs
  PROVE  CacheInv'
  BY DEF CacheInv

(* After getHostedZoneCached the answer has all of the zone's VPCs, unless *)
(* an association's answer was lost since it was fetched                   *)
LEMMA CachedInv ==
  ASSUME TypeOK, CacheInv, NEW z \in Zones, Fetchable(z), Cached(z), created' = created,
         \A y \in Zones : zone'[y].vpcs = zone[y].vpcs
  PROVE  /\ CacheInv'
         /\ zone[z].vpcs \subseteq Fetched(z) \/ z \in unsure'
  <1>1. cache' = [cache EXCEPT ![z] = Fetched(z)]
        BY DEF Cached
  <1>2. zone[z].vpcs \subseteq Fetched(z) \/ z \in unsure'
        BY DEF Cached, Fetched, CacheInv
  <1>3. ~(created < z)
        BY DEF Fetchable, CacheInv, Live
  <1>4. ASSUME NEW y \in Zones
        PROVE  /\ created' < y => zone'[y].vpcs = {} /\ cache'[y] = None
               /\ cache'[y] # None => zone'[y].vpcs \subseteq cache'[y] \/ y \in unsure'
    <2>1. CASE y = z
          BY <1>1, <1>2, <1>3, <2>1 DEF TypeOK
    <2>2. CASE y # z
          BY <1>1, <2>2 DEF CacheInv, Cached, TypeOK
    <2> QED
        BY <2>1, <2>2
  <1> QED
      BY <1>2, <1>4 DEF CacheInv

LEMMA ZoneStepInv ==
  ASSUME TypeOK, ZoneInv,
         KnownZone \/ FindZone \/ CreateZone \/ RecordSkipped \/ RecordUpsert
  PROVE  ZoneInv'
  <1> USE DEF ZoneInv, DnsSteps, CleanSteps
  <1>1. CASE KnownZone
    <2>1. status[self].zone \in Zones /\ UNCHANGED <<kvars, avars>>
          BY <1>1 DEF KnownZone, WorkerInv
    <2>2. CacheInv'
          BY <1>1, <2>1, CachedInv, CacheKept DEF KnownZone, avars
    <2>3. WorkerInv' /\ TodoInv'
          BY <1>1, <2>1, IdleInv, ReturnIdle
          DEF KnownZone, Goto, locals, kvars, WorkerInv, TodoInv
    <2> QED
        BY <2>2, <2>3
  <1>2. CASE FindZone
    <2>1. PICK z \in Zones : WriteThen([status[self] EXCEPT !.zone = z], "record")
          BY <1>2 DEF FindZone, Namesakes
    <2>2. pc # "idle" /\ [status[self] EXCEPT !.zone = z] \in Entries
          BY <1>2, Busy DEF FindZone
    <2>3. WorkerInv' /\ TodoInv'
      <3>1. [status[self] EXCEPT !.zone = z].zone = z
            BY <2>2, Busy DEF Entries
      <3> QED
          BY <2>1, <2>2, <3>1, WriteCases, IdleInv DEF WorkerInv, TodoInv
    <2> QED
        BY <1>2, <2>3, CacheKept DEF FindZone, avars
  <1>3. CASE CreateZone
    <2> DEFINE z == created + 1
    <2>1. z \in Zones /\ created' = z
          BY <1>3, HostedZonesAssumption DEF CreateZone, Zones, TypeOK
    <2>2. pc # "idle" /\ [status[self] EXCEPT !.zone = z] \in Entries
          BY <1>3, <2>1, Busy DEF CreateZone
    <2>3. WriteThen([status[self] EXCEPT !.zone = z], "record")
          BY <1>3 DEF CreateZone
    <2>4. WorkerInv' /\ TodoInv'
      <3>1. [status[self] EXCEPT !.zone = z].zone = z
            BY <1>3, Busy DEF CreateZone, Entries
      <3> QED
          BY <2>1, <2>2, <2>3, <3>1, WriteCases, IdleInv DEF WorkerInv, TodoInv
    <2>5. CacheInv'
      <3>1. cache[z] = None /\ cache' = cache /\ unsure' = unsure
            BY <1>3, <2>1 DEF CreateZone, CacheInv, TypeOK
      <3>2. \A y \in Zones : y # z => zone'[y] = zone[y]
            BY <1>3 DEF CreateZone, TypeOK
      <3>3. \A y \in Zones : created' < y => created < y /\ y # z
            BY <2>1 DEF TypeOK, Zones
      <3> QED
          BY <3>1, <3>2, <3>3 DEF CacheInv
    <2> QED
        BY <2>4, <2>5
  <1>4. CASE RecordSkipped
    <2>1. WorkerInv' /\ TodoInv'
          BY <1>4 DEF RecordSkipped, Goto, locals, kvars, WorkerInv, TodoInv
    <2> QED
        BY <1>4, <2>1, CacheKept DEF RecordSkipped, avars
  <1>5. CASE RecordUpsert
    <2>1. status[self].zone \in Zones /\ pc = "record" /\ pc # "idle"
          BY <1>5 DEF RecordUpsert, WorkerInv
    <2>2. \A y \in Zones : zone'[y].vpcs = zone[y].vpcs
      <3>1. CASE zone' = [zone EXCEPT ![status[self].zone].records =
                            (@ \ Namesharers(self)) \cup {self}]
            BY <3>1, <2>1 DEF TypeOK
      <3>2. CASE zone' = zone
            BY <3>2
      <3> QED
          BY <1>5, <3>1, <3>2 DEF RecordUpsert
    <2>3. CacheInv'
          BY <1>5, <2>1, <2>2, CachedInv, CacheKept DEF RecordUpsert
    <2>4. [status[self] EXCEPT !.record = TRUE] \in Entries
          BY <2>1, Busy
    <2>5. [status[self] EXCEPT !.record = TRUE].zone = status[self].zone
          BY <2>1, Busy DEF Entries
    <2>6. WorkerInv' /\ TodoInv'
          BY <1>5, <2>1, <2>4, <2>5, WriteCases, IdleInv, ReturnIdle
          DEF RecordUpsert, WorkerInv, TodoInv
    <2> QED
        BY <2>3, <2>6
  <1> QED
      BY <1>1, <1>2, <1>3, <1>4, <1>5

LEMMA AssociationInv ==
  ASSUME TypeOK, ZoneInv,
         \/ FindMissingVpcs \/ AllAssociated \/ AuthorizeVpc \/ AssociateVpc
         \/ AssociateAnswerLost
  PROVE  ZoneInv'
  <1> USE DEF ZoneInv, DnsSteps, CleanSteps
  <1> DEFINE z == status[self].zone
  <1>1. CASE FindMissingVpcs
    <2>1. z \in Zones /\ UNCHANGED <<kvars, avars>> /\ pc # "idle"
          BY <1>1 DEF FindMissingVpcs, WorkerInv
    <2>2. CASE Return /\ UNCHANGED <<cache, unsure>>
          BY <2>1, <2>2, CacheKept, IdleInv, ReturnIdle DEF avars
    <2>3. CASE /\ Fetchable(z) /\ Cached(z) /\ todo' = AssocOf[self] \ Fetched(z)
               /\ Goto("authorize") /\ UNCHANGED <<self, stale, target>>
      <3>1. CacheInv' /\ (zone[z].vpcs \subseteq Fetched(z) \/ z \in unsure')
            BY <2>1, <2>3, CachedInv DEF avars
      <3> QED
          BY <2>1, <2>3, <3>1 DEF Goto, kvars, avars, WorkerInv, TodoInv
    <2> QED
        BY <1>1, <2>2, <2>3 DEF FindMissingVpcs
  <1>2. CASE AllAssociated
        BY <1>2, CacheKept, IdleInv, ReturnIdle DEF AllAssociated, avars
  <1>3. CASE AuthorizeVpc
    <2>1. CacheInv'
          BY <1>3, CacheKept DEF AuthorizeVpc, avars
    <2>2. WorkerInv' /\ TodoInv'
          BY <1>3, IdleInv, ReturnIdle
          DEF AuthorizeVpc, Goto, kvars, avars, WorkerInv, TodoInv
    <2> QED
        BY <2>1, <2>2
  <1>4. ASSUME pc = "associate", Associable(z, target), Associated(z, target)
        PROVE  /\ z \in Zones /\ target \in todo /\ ~(created < z)
               /\ zone'[z].vpcs = zone[z].vpcs \cup {target}
               /\ \A y \in Zones : y # z => zone'[y] = zone[y]
    <2>1. z \in Zones /\ target \in todo
          BY <1>4 DEF WorkerInv
    <2>2. ~(created < z)
          BY <1>4, <2>1 DEF Associable, Live, CacheInv
    <2> QED
        BY <1>4, <2>1, <2>2 DEF Associated, TypeOK
  <1>5. CASE AssociateVpc
    <2>1. CASE Return /\ UNCHANGED <<zone, cache>>
          BY <1>5, <2>1, CacheKept, IdleInv, ReturnIdle DEF AssociateVpc
    <2>2. CASE /\ Associable(z, target) /\ Associated(z, target)
               /\ cache' = [cache EXCEPT ![z] = None]
               /\ todo' = todo \ {target} /\ target' = None
               /\ Goto("authorize") /\ UNCHANGED <<self, stale>>
      <3>1. CacheInv'
            BY <1>4, <1>5, <2>2 DEF AssociateVpc, CacheInv, TypeOK
      <3>2. WorkerInv'
            BY <1>4, <1>5, <2>2 DEF AssociateVpc, Goto, kvars, WorkerInv
      <3>3. TodoInv'
            BY <1>4, <1>5, <2>2 DEF AssociateVpc, Goto, kvars, TodoInv
      <3> QED
          BY <3>1, <3>2, <3>3
    <2> QED
        BY <1>5, <2>1, <2>2 DEF AssociateVpc
  <1>6. CASE AssociateAnswerLost
    <2>1. CacheInv'
          BY <1>4, <1>6 DEF AssociateAnswerLost, CacheInv
    <2> QED
        BY <1>6, <2>1, IdleInv, ReturnIdle DEF AssociateAnswerLost
  <1> QED
      BY <1>1, <1>2, <1>3, <1>5, <1>6

LEMMA CleanupInv ==
  ASSUME TypeOK, ZoneInv,
         \/ CleanRecord \/ CleanRecordEnds \/ CleanZoneGone \/ CleanZone \/ CleanZoneRecords
         \/ CleanZoneAgain \/ Release
  PROVE  ZoneInv'
  <1> USE DEF ZoneInv, DnsSteps, CleanSteps
  <1>1. \A y \in Zones : zone'[y].vpcs \subseteq zone[y].vpcs
    <2>1. CASE zone' = zone
          BY <2>1
    <2>2. ASSUME NEW w, zone' = [zone EXCEPT ![w] = NoZone]
          PROVE  \A y \in Zones : zone'[y].vpcs \subseteq zone[y].vpcs
          BY <2>2 DEF TypeOK, NoZone
    <2>3. ASSUME NEW w, NEW rs, zone' = [zone EXCEPT ![w].records = rs]
          PROVE  \A y \in Zones : zone'[y].vpcs \subseteq zone[y].vpcs
          BY <2>3 DEF TypeOK
    <2> QED
        BY <2>1, <2>2, <2>3 DEF CleanRecord, CleanRecordEnds, CleanZoneGone, CleanZone,
           CleanZoneRecords, CleanZoneAgain, Release, avars
  <1>2. CacheInv'
        BY <1>1, CacheKept DEF CleanRecord, CleanRecordEnds, CleanZoneGone, CleanZone,
           CleanZoneRecords, CleanZoneAgain, Release, avars
  <1>3. pc \in CleanSteps /\ pc # "idle" /\ phase[self] = "deleting"
        BY DEF CleanRecord, CleanRecordEnds, CleanZoneGone, CleanZone, CleanZoneRecords,
           CleanZoneAgain, Release, WorkerInv
  <1>4. \/ pc' = "idle"
        \/ pc' \in CleanSteps /\ self' = self /\ phase' = phase
    <2>1. ASSUME NEW s \in Entries, NEW step, WriteThen(s, step)
          PROVE  pc' = "idle" \/ (pc' = step /\ self' = self)
          BY <1>3, <2>1, WriteCases
    <2>2. CASE CleanRecord \/ CleanZoneAgain \/ CleanZoneGone
          BY <1>3, <2>1, <2>2, Busy, ReturnIdle
          DEF CleanRecord, CleanZoneAgain, CleanZoneGone, Goto, locals
    <2>3. CASE CleanRecordEnds \/ CleanZone \/ CleanZoneRecords \/ Release
          BY <2>3, ReturnIdle
          DEF CleanRecordEnds, CleanZone, CleanZoneRecords, Release, Goto, locals, kvars
    <2> QED
        BY <2>2, <2>3
  <1>5. WorkerInv' /\ TodoInv'
        BY <1>3, <1>4, IdleInv DEF WorkerInv, TodoInv
  <1> QED
      BY <1>2, <1>5

LEMMA OutsideInv ==
  ASSUME TypeOK, ZoneInv,
         \/ CallFails \/ Crash \/ SecretChanges
         \/ \E r \in Resources : Start(r) \/ UserDelete(r)
         \/ \E z \in Zones : CacheExpire(z) \/ ZoneLost(z)
  PROVE  ZoneInv'
  <1> USE DEF ZoneInv, DnsSteps, CleanSteps
  <1>1. CASE CallFails \/ SecretChanges
        BY <1>1, CacheKept, IdleInv, ReturnIdle
        DEF CallFails, SecretChanges, avars, kvars, locals, WorkerInv, TodoInv
  <1>2. CASE Crash
        BY <1>2, IdleInv, ReturnIdle DEF Crash, avars, CacheInv
  <1>3. ASSUME NEW r \in Resources, Start(r) PROVE ZoneInv'
    <2>1. CacheInv'
          BY <1>3, CacheKept DEF Start, avars
    <2>2. status[r].zone \in Zones \cup {None} /\ phase[r] \in {"live", "deleting", "gone"}
          BY DEF TypeOK
    <2>3. WorkerInv' /\ TodoInv'
          BY <1>3, <2>2 DEF Start, Goto, kvars, WorkerInv, TodoInv
    <2> QED
        BY <2>1, <2>3
  <1>4. ASSUME NEW r \in Resources, UserDelete(r) PROVE ZoneInv'
    <2>1. CacheInv'
          BY <1>4, CacheKept DEF UserDelete, avars
    <2>2. WorkerInv'
          BY <1>4 DEF UserDelete, WorkerInv, TypeOK
    <2>3. TodoInv'
          BY <1>4 DEF UserDelete, avars, TodoInv
    <2> QED
        BY <2>1, <2>2, <2>3
  <1>5. ASSUME NEW z \in Zones, CacheExpire(z) PROVE ZoneInv'
    <2>1. CacheInv'
          BY <1>5 DEF CacheExpire, avars, CacheInv, TypeOK
    <2> QED
        BY <1>5, <2>1 DEF CacheExpire, kvars, avars, locals, WorkerInv, TodoInv
  <1>6. ASSUME NEW z \in Zones, ZoneLost(z) PROVE ZoneInv'
    <2>1. \A y \in Zones : zone'[y].vpcs \subseteq zone[y].vpcs
          BY <1>6 DEF ZoneLost, NoZone, TypeOK
    <2>2. CacheInv'
          BY <1>6, <2>1, CacheKept DEF ZoneLost
    <2>3. WorkerInv'
          BY <1>6 DEF ZoneLost, kvars, locals, WorkerInv
    <2>4. TodoInv'
          BY <1>6, <2>1 DEF ZoneLost, kvars, locals, TodoInv, WorkerInv
    <2> QED
        BY <2>2, <2>3, <2>4
  <1> QED
      BY <1>1, <1>2, <1>3, <1>4, <1>5, <1>6

LEMMA InitInv == Init => TypeOK /\ ZoneInv
  <1> SUFFICES ASSUME Init PROVE TypeOK /\ ZoneInv
      OBVIOUS
  <1>1. zone \in [Zones -> [vpcs : SUBSET Vpcs, records : SUBSET Resources]]
        BY DEF Init, NoZone
  <1>2. /\ status \in [Resources -> [zone : Zones \cup {None}, record : BOOLEAN, host : Hosts]]
        /\ \A r \in Resources : status[r].zone = None /\ ~status[r].record
    <2>1. PICK n \in Namings :
            status = [r \in Resources |-> [zone |-> None, record |-> FALSE, host |-> n[r]]]
          BY DEF Init
    <2>2. n \in [Resources -> Hosts]
          BY HostedZonesAssumption
    <2> QED
        BY <2>1, <2>2
  <1>3. TypeOK
    <2>1. /\ phase \in [Resources -> {"live", "deleting", "gone"}]
          /\ cache \in [Zones -> (SUBSET Vpcs) \cup {None}]
          BY DEF Init
    <2>2. created \in 0..MaxZones /\ faults \in 0..MaxFaults /\ troubles \in 0..MaxTroubles
          BY HostedZonesAssumption DEF Init
    <2> QED
        BY <1>1, <1>2, <2>1, <2>2 DEF Init, TypeOK, Steps
  <1>4. ZoneInv
        BY DEF Init, ZoneInv, WorkerInv, CacheInv, TodoInv, DnsSteps, CleanSteps, NoZone
  <1> QED
      BY <1>3, <1>4

LEMMA StepInv == TypeOK /\ ZoneInv /\ [Next]_vars => TypeOK' /\ ZoneInv'
  <1> SUFFICES ASSUME TypeOK, ZoneInv, [Next]_vars PROVE TypeOK' /\ ZoneInv'
      OBVIOUS
  <1>1. CASE UNCHANGED vars
        BY <1>1 DEF vars, TypeOK, ZoneInv, WorkerInv, CacheInv, TodoInv
  <1>2. CASE Work
        BY <1>2, ZoneStepTypes, AssociationTypes, CleanupTypes, ZoneStepInv, AssociationInv,
           CleanupInv DEF Work, ZoneInv
  <1>3. CASE AssociateAnswerLost
        BY <1>3, AssociationTypes, AssociationInv DEF ZoneInv
  <1>4. CASE Next /\ ~Work /\ ~AssociateAnswerLost
        BY <1>4, OutsideTypes, OutsideInv DEF Next
  <1> QED
      BY <1>1, <1>2, <1>3, <1>4

(* The worker knows its resource's zone where it uses it, and the cache    *)
(* lacks an association only if its answer was lost: the inductive         *)
(* invariant of the hosted zones (helpers.go:1059-1082).                   *)
THEOREM ZonesCorrect == Spec => [](TypeOK /\ ZoneInv)
  BY InitInv, StepInv, PTL DEF Spec

(* The variables of the hosted zones keep their types, and the worker is   *)
(* idle exactly when it has no resource.                                   *)
THEOREM ZoneTypes == Spec => []TypeOK
  BY ZonesCorrect, PTL

(* AssociateVPCWithHostedZone is not called for an associated VPC, unless  *)
(* an earlier answer was lost (validation.go:340-396).                     *)
THEOREM AssociatedOnce == Spec => []AssociateOnce
  <1>1. TypeOK /\ ZoneInv => AssociateOnce
        BY DEF ZoneInv, WorkerInv, TodoInv, AssociateOnce
  <1> QED
      BY <1>1, ZonesCorrect, PTL

-----------------------------------------------------------------------------
(* One zone per domain *)

(* Only CreateHostedZone makes a zone *)
LEMMA LiveSteps ==
  ASSUME TypeOK, ZoneInv, [Next]_vars, ~CreateZone
  PROVE  \A z \in Zones : zone[z].vpcs = {} => zone'[z].vpcs = {}
  <1> SUFFICES ASSUME NEW z \in Zones, zone[z].vpcs = {} PROVE zone'[z].vpcs = {}
      OBVIOUS
  <1>0. CASE zone' = zone
        BY <1>0
  <1>1. ASSUME NEW w, zone' = [zone EXCEPT ![w] = NoZone] PROVE zone'[z].vpcs = {}
        BY <1>1 DEF NoZone, TypeOK
  <1>2. ASSUME NEW w, NEW rs, zone' = [zone EXCEPT ![w].records = rs] PROVE zone'[z].vpcs = {}
        BY <1>2 DEF TypeOK
  <1>3. ASSUME NEW w, NEW v, Associable(w, v), Associated(w, v) PROVE zone'[z].vpcs = {}
    <2>1. w # z
          BY <1>3 DEF Associable, Live
    <2> QED
        BY <1>3, <2>1 DEF Associated, TypeOK
  <1>4. CASE CleanRecord \/ CleanZone \/ CleanZoneRecords \/ CleanZoneAgain
        BY <1>0, <1>1, <1>2, <1>4 DEF CleanRecord, CleanZone, CleanZoneRecords, CleanZoneAgain
  <1>5. CASE RecordUpsert
        BY <1>0, <1>2, <1>5 DEF RecordUpsert
  <1>6. CASE AssociateVpc \/ AssociateAnswerLost
        BY <1>0, <1>3, <1>6 DEF AssociateVpc, AssociateAnswerLost
  <1>7. ASSUME NEW w \in Zones, ZoneLost(w) PROVE zone'[z].vpcs = {}
        BY <1>1, <1>7 DEF ZoneLost
  <1>8. CASE \/ KnownZone \/ FindZone \/ RecordSkipped \/ FindMissingVpcs \/ AllAssociated
             \/ AuthorizeVpc \/ CleanRecordEnds \/ CleanZoneGone \/ Release
             \/ CallFails \/ Crash \/ SecretChanges \/ UNCHANGED vars
        BY <1>0, <1>8 DEF KnownZone, FindZone, RecordSkipped, FindMissingVpcs, AllAssociated,
           AuthorizeVpc, CleanRecordEnds, CleanZoneGone, Release, CallFails, Crash,
           SecretChanges, avars, vars
  <1>9. ASSUME NEW r \in Resources, Start(r) \/ UserDelete(r) PROVE zone'[z].vpcs = {}
        BY <1>0, <1>9 DEF Start, UserDelete, avars
  <1>10. ASSUME NEW w \in Zones, CacheExpire(w) PROVE zone'[z].vpcs = {}
        BY <1>0, <1>10 DEF CacheExpire, avars
  <1> QED
      BY <1>4, <1>5, <1>6, <1>7, <1>8, <1>9, <1>10 DEF Next, Work

(* findOrCreatePrivateHostedZone never makes a second zone of the domain,  *)
(* though lost writes, restarts and resources in different VPCs make it    *)
(* look for one again and again (helpers.go:883-903).                      *)
THEOREM OneZone == Spec => []OneZonePerDomain
  <1>n. \A z \in Zones : z # None
        BY HostedZonesAssumption
  <1>1. Init => OneZonePerDomain
        BY DEF Init, OneZonePerDomain, Live, NoZone
  <1>2. TypeOK /\ ZoneInv /\ OneZonePerDomain /\ [Next]_vars => OneZonePerDomain'
    <2> SUFFICES ASSUME TypeOK, ZoneInv, OneZonePerDomain, [Next]_vars
                 PROVE  OneZonePerDomain'
        OBVIOUS
    <2>1. CASE CreateZone
      <3>1. \A z \in Zones : zone[z].vpcs = {}
            BY <1>n, <2>1 DEF CreateZone, Namesakes, Live
      <3>2. \A z \in Zones : zone'[z].vpcs # {} => z = created + 1
            BY <2>1, <3>1 DEF CreateZone, TypeOK
      <3> QED
          BY <3>2 DEF OneZonePerDomain, Live
    <2>2. CASE ~CreateZone
          BY <1>n, <2>2, LiveSteps DEF OneZonePerDomain, Live
    <2> QED
        BY <2>1, <2>2
  <1> QED
      BY <1>1, <1>2, ZonesCorrect, PTL DEF Spec

-----------------------------------------------------------------------------
(* Records *)

(* What r needs of the zone it names *)
HasRecord(r) == Live(status[r].zone) /\ r \in zone[status[r].zone].records

(* A step that takes no record away and leaves the statuses alone *)
LEMMA RecordsStay ==
  ASSUME TypeOK, RecordKept, status' = status, robbed \subseteq robbed',
         \A r \in Resources : phase'[r] = "live" => phase[r] = "live",
         \A r \in Resources \ robbed' : phase[r] = "live" /\ HasRecord(r) => HasRecord(r)'
  PROVE  RecordKept'
  BY DEF RecordKept, HasRecord

(* A step of the worker that writes its own resource's status *)
LEMMA RecordsWritten ==
  ASSUME TypeOK, RecordKept, pc # "idle", NEW s \in Entries, NEW step, WriteThen(s, step),
         phase' = phase, robbed \subseteq robbed',
         phase[self] = "live" /\ s.record
           => zone'[s.zone].vpcs # {} /\ s.zone # None /\ self \in zone'[s.zone].records,
         \A r \in Resources \ robbed' :
           phase[r] = "live" /\ status[r].record /\ HasRecord(r) =>
             /\ zone'[status[r].zone].vpcs # {}
             /\ r \in zone'[status[r].zone].records
  PROVE  RecordKept'
  <1>1. self \in Resources
        BY Busy
  <1> SUFFICES ASSUME NEW r \in Resources \ robbed', phase'[r] = "live", status'[r].record
               PROVE  HasRecord(r)'
      BY DEF RecordKept, HasRecord
  <1>2. CASE r # self
    <2>1. status'[r] = status[r]
          BY <1>1, <1>2, WriteCases DEF TypeOK
    <2>2. HasRecord(r)
          BY <2>1 DEF RecordKept, HasRecord
    <2> QED
        BY <1>2, <2>1, <2>2 DEF HasRecord, Live
  <1>3. CASE r = self
    <2>1. CASE status' = status
          BY <2>1 DEF RecordKept, HasRecord, Live
    <2>2. CASE status'[self] = s
          BY <1>3, <2>2 DEF HasRecord, Live
    <2> QED
        BY <2>1, <2>2, WriteCases
  <1> QED
      BY <1>2, <1>3

LEMMA RecordStep ==
  ASSUME TypeOK, ZoneInv, RecordKept, [Next]_vars
  PROVE  RecordKept'
  <1> USE DEF CleanSteps
  <1> DEFINE z == status[self].zone
  <1>n. \A y \in Zones : y # None
        BY HostedZonesAssumption
  <1>t. \A r \in Resources : status[r].zone \in Zones \cup {None}
        BY DEF TypeOK
  <1>1. CASE zone' = zone /\ status' = status /\ robbed' = robbed
    <2>1. \A r \in Resources : phase'[r] = "live" => phase[r] = "live"
      <3>1. CASE phase' = phase
            BY <3>1
      <3>2. ASSUME NEW r \in Resources, UserDelete(r) \/ Release
            PROVE  \A q \in Resources : phase'[q] = "live" => phase[q] = "live"
            BY <3>2 DEF UserDelete, Release, TypeOK
      <3> QED
          BY <3>1, <3>2, Busy DEF Next, Work, vars, kvars, Start, KnownZone, FindZone, CreateZone,
             RecordSkipped, RecordUpsert, FindMissingVpcs, AllAssociated, AuthorizeVpc,
             AssociateVpc, AssociateAnswerLost, CleanRecord, CleanRecordEnds, CleanZoneGone,
             CleanZone, CleanZoneRecords, CleanZoneAgain, Release, CallFails, Crash, SecretChanges,
             CacheExpire, ZoneLost
    <2> QED
        BY <1>1, <2>1, RecordsStay DEF HasRecord, Live
  <1>2. CASE FindZone
    <2>1. PICK w \in Zones : WriteThen([status[self] EXCEPT !.zone = w], "record")
          BY <1>2 DEF FindZone, Namesakes
    <2>2. pc # "idle" /\ self \in Resources /\ z = None
          BY <1>2, Busy DEF FindZone, ZoneInv, WorkerInv
    <2>3. /\ [status[self] EXCEPT !.zone = w] \in Entries
          /\ [status[self] EXCEPT !.zone = w].record = status[self].record
          BY <2>2, Busy DEF Entries
    <2>4. CASE self \in robbed
      <3>1. \A r \in Resources \ robbed : status'[r] = status[r]
            BY <2>1, <2>2, <2>3, <2>4, WriteCases DEF TypeOK
      <3> QED
          BY <1>2, <3>1 DEF FindZone, avars, RecordKept, Live
    <2>5. CASE self \notin robbed
      <3>1. ~(phase[self] = "live" /\ status[self].record)
            BY <2>2, <2>5 DEF RecordKept, Live
      <3> QED
          BY <1>2, <2>1, <2>2, <2>3, <3>1, RecordsWritten DEF FindZone, avars, HasRecord, Live
    <2> QED
        BY <2>4, <2>5
  <1>3. CASE CreateZone
    <2>1. \A y \in Zones \cup {None} : ~Live(y)
          BY <1>3 DEF CreateZone, Namesakes, Live
    <2>2. \A r \in Resources \ robbed : ~(phase[r] = "live" /\ status[r].record)
          BY <1>t, <2>1 DEF RecordKept
    <2>3. \A r \in Resources : status'[r].record = status[r].record
      <3>1. created + 1 \in Zones
            BY <1>3, HostedZonesAssumption DEF CreateZone, Zones, TypeOK
      <3>2. /\ [status[self] EXCEPT !.zone = created + 1] \in Entries
            /\ [status[self] EXCEPT !.zone = created + 1].record = status[self].record
            BY <1>3, <3>1, Busy DEF CreateZone, Entries
      <3> QED
          BY <1>3, <3>2, WriteCases, Busy DEF CreateZone, TypeOK
    <2> QED
        BY <1>3, <2>2, <2>3 DEF CreateZone, RecordKept
  <1>c. ASSUME pc \in CleanSteps PROVE self \in Resources /\ phase[self] = "deleting" /\ pc # "idle"
        BY <1>c, Busy DEF ZoneInv, WorkerInv
  <1>o. ASSUME self \in Resources, z \in Zones, robbed' = robbed \cup Outnamed(self, z),
               phase[self] = "live" => ~status[self].record,
               \A y \in Zones : zone'[y].vpcs = zone[y].vpcs,
               \A y \in Zones \ {z} : zone'[y].records = zone[y].records,
               zone[z].records \ Namesharers(self) \subseteq zone'[z].records
        PROVE  \A r \in Resources \ robbed' :
                 phase[r] = "live" /\ status[r].record /\ HasRecord(r) =>
                   /\ zone'[status[r].zone].vpcs # {}
                   /\ r \in zone'[status[r].zone].records
    <2> SUFFICES ASSUME NEW r \in Resources \ robbed', phase[r] = "live", status[r].record,
                        HasRecord(r)
                 PROVE  /\ zone'[status[r].zone].vpcs # {}
                        /\ r \in zone'[status[r].zone].records
        OBVIOUS
    <2>1. /\ status[r].zone \in Zones /\ zone[status[r].zone].vpcs # {}
          /\ r \in zone[status[r].zone].records
          BY <1>t DEF HasRecord, Live
    <2>2. CASE status[r].zone # z
          BY <1>o, <2>1, <2>2
    <2>3. CASE status[r].zone = z
      <3>1. r \notin Outnamed(self, z) /\ r # self
            BY <1>o
      <3>2. r \notin Namesharers(self)
            BY <2>3, <3>1 DEF Outnamed, Victims
      <3> QED
          BY <1>o, <2>1, <2>3, <3>2
    <2> QED
        BY <2>2, <2>3
  <1>4. CASE RecordUpsert /\ ~UNCHANGED <<status, zone, robbed>>
    <2>1. /\ Live(z) /\ zone' = [zone EXCEPT ![z].records = (@ \ Namesharers(self)) \cup {self}]
          /\ WriteThen([status[self] EXCEPT !.record = TRUE], "authorization")
          /\ phase' = phase /\ robbed' = robbed \cup Outnamed(self, z) /\ pc # "idle"
          /\ ~status[self].record
          BY <1>4 DEF RecordUpsert
    <2>2. z \in Zones /\ self \in Resources
          BY <1>t, <2>1, Busy DEF Live
    <2>3. /\ [status[self] EXCEPT !.record = TRUE] \in Entries
          /\ [status[self] EXCEPT !.record = TRUE].zone = z
          BY <2>1, Busy DEF Entries
    <2>4. /\ zone'[z].vpcs # {} /\ self \in zone'[z].records
          /\ zone[z].records \ Namesharers(self) \subseteq zone'[z].records
          /\ \A y \in Zones : zone'[y].vpcs = zone[y].vpcs
          /\ \A y \in Zones \ {z} : zone'[y].records = zone[y].records
          BY <2>1, <2>2 DEF Live, TypeOK
    <2>5. \A r \in Resources \ robbed' :
            phase[r] = "live" /\ status[r].record /\ HasRecord(r) =>
              /\ zone'[status[r].zone].vpcs # {}
              /\ r \in zone'[status[r].zone].records
          BY <1>o, <2>1, <2>2, <2>4
    <2> QED
        BY <1>n, <2>1, <2>2, <2>3, <2>4, <2>5, RecordsWritten
  <1>5. CASE AssociateVpc \/ AssociateAnswerLost
    <2>1. \A y \in Zones : /\ zone[y].vpcs \subseteq zone'[y].vpcs
                           /\ zone[y].records = zone'[y].records
      <3>1. CASE zone' = zone
            BY <3>1
      <3>2. CASE Associated(z, target)
            BY <3>2 DEF Associated, TypeOK
      <3> QED
          BY <1>5, <3>1, <3>2 DEF AssociateVpc, AssociateAnswerLost
    <2> QED
        BY <1>5, <1>t, <2>1, RecordsStay
        DEF AssociateVpc, AssociateAnswerLost, kvars, HasRecord, Live
  <1>6. CASE CleanRecord
    <2>1. self \in Resources /\ phase[self] = "deleting" /\ pc # "idle"
          BY <1>6, <1>c DEF CleanRecord
    <2>2. /\ Live(z) /\ zone' = [zone EXCEPT ![z].records = @ \ Namesharers(self)]
          /\ WriteThen([status[self] EXCEPT !.record = FALSE], "cleanZone")
          /\ phase' = phase /\ robbed' = robbed \cup Outnamed(self, z)
          BY <1>6 DEF CleanRecord
    <2>3. z \in Zones
          BY <1>t, <2>1, <2>2 DEF Live
    <2>4. /\ zone[z].records \ Namesharers(self) \subseteq zone'[z].records
          /\ \A y \in Zones : zone'[y].vpcs = zone[y].vpcs
          /\ \A y \in Zones \ {z} : zone'[y].records = zone[y].records
          BY <2>2, <2>3 DEF TypeOK
    <2>5. [status[self] EXCEPT !.record = FALSE] \in Entries
          BY <2>1, Busy
    <2>6. \A r \in Resources \ robbed' :
            phase[r] = "live" /\ status[r].record /\ HasRecord(r) =>
              /\ zone'[status[r].zone].vpcs # {}
              /\ r \in zone'[status[r].zone].records
          BY <1>o, <2>1, <2>2, <2>3, <2>4
    <2> QED
        BY <2>1, <2>2, <2>5, <2>6, RecordsWritten
  <1>7. CASE CleanZoneGone /\ WriteThen([status[self] EXCEPT !.zone = None], "release")
    <2>1. self \in Resources /\ phase[self] = "deleting" /\ pc # "idle"
          BY <1>7, <1>c DEF CleanZoneGone
    <2>2. [status[self] EXCEPT !.zone = None] \in Entries
          BY <2>1, Busy
    <2> QED
        BY <1>7, <2>1, <2>2, RecordsWritten DEF CleanZoneGone, avars, HasRecord, Live
  <1>8. ASSUME NEW w,
               robbed' = robbed \cup Victims(self, w) \/ robbed' = robbed \cup Victims(None, w),
               phase[self] = "deleting" \/ robbed' = robbed \cup Victims(None, w),
               \A y \in Zones \ {w} : zone'[y] = zone[y]
        PROVE  \A r \in Resources \ robbed' :
                 phase[r] = "live" /\ HasRecord(r) =>
                   /\ zone'[status[r].zone].vpcs # {}
                   /\ r \in zone'[status[r].zone].records
    <2> SUFFICES ASSUME NEW r \in Resources \ robbed', phase[r] = "live", HasRecord(r)
                 PROVE  zone'[status[r].zone] = zone[status[r].zone]
        BY DEF HasRecord, Live
    <2>1. status[r].zone # w
          BY <1>8, HostedZonesAssumption DEF Victims
    <2> QED
        BY <1>8, <1>t, <2>1 DEF HasRecord, Live
  <1>9. CASE CleanZone \/ CleanZoneRecords
    <2>1. phase[self] = "deleting" /\ robbed' = robbed \cup Victims(self, z)
          BY <1>9, <1>c DEF CleanZone, CleanZoneRecords
    <2>2. \A y \in Zones \ {z} : zone'[y] = zone[y]
          BY <1>9 DEF CleanZone, CleanZoneRecords, TypeOK
    <2> QED
        BY <1>9, <1>8, <2>1, <2>2, RecordsStay
        DEF CleanZone, CleanZoneRecords, kvars, HasRecord, Live
  <1>10. CASE CleanZoneAgain /\ ~UNCHANGED <<status, zone, robbed>>
    <2>1. /\ phase[self] = "deleting" /\ robbed' = robbed \cup Victims(self, z) /\ pc # "idle"
          /\ WriteThen([status[self] EXCEPT !.zone = None], "release")
          /\ zone' = [zone EXCEPT ![z] = NoZone] /\ phase' = phase
          BY <1>10, <1>c DEF CleanZoneAgain
    <2>2. \A y \in Zones \ {z} : zone'[y] = zone[y]
          BY <2>1 DEF TypeOK
    <2>3. [status[self] EXCEPT !.zone = None] \in Entries
          BY <2>1, Busy
    <2> QED
        BY <1>8, <2>1, <2>2, <2>3, RecordsWritten
  <1>11. ASSUME NEW w \in Zones, ZoneLost(w) PROVE RecordKept'
    <2>1. robbed' = robbed \cup Victims(None, w) /\ \A y \in Zones \ {w} : zone'[y] = zone[y]
          BY <1>11 DEF ZoneLost, TypeOK
    <2> QED
        BY <1>11, <1>8, <2>1, RecordsStay DEF ZoneLost, kvars, HasRecord, Live
  <1> QED
      BY <1>1, <1>2, <1>3, <1>4, <1>5, <1>6, <1>7, <1>9, <1>10, <1>11
      DEF Next, Work, vars, kvars, avars, Start, UserDelete, KnownZone, RecordSkipped,
          RecordUpsert, FindMissingVpcs, AllAssociated, AuthorizeVpc, CleanRecordEnds,
          CleanZoneGone, CleanZoneAgain, Release, CallFails, Crash, SecretChanges, CacheExpire

(* A record that a resource reports as created is there, whatever other    *)
(* resources do, unless they or outsiders deleted the zone or emptied it,  *)
(* or a resource with the same hostname set or deleted the record          *)
(* (cleanup.go:76-87, validation.go:409-445).                              *)
THEOREM RecordsKept == Spec => []RecordKept
  <1>1. Init => RecordKept
        BY DEF Init, RecordKept
  <1> QED
      BY <1>1, RecordStep, ZonesCorrect, PTL DEF Spec
=============================================================================
