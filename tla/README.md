# TLA+ model of the AWS VPCE Operator

The AWS VPCE Operator (AVO) is a Kubernetes operator. From a `VpcEndpoint`
custom resource it makes an AWS PrivateLink endpoint with its security group,
a Route 53 private hosted zone and CNAME record, and optionally an
`ExternalName` service, and removes all of it when the resource is deleted. A
second controller stamps out `VpcEndpoint`s for HyperShift control planes from
a `VpcEndpointTemplate`, a third accepts endpoint connections.

This directory models the controllers, checks them with TLC on small instances
and proves the main safety properties with TLAPS for every value of the
constants. `PROJECT.json` lists components, runs, mutants, the map from
definitions to source lines, findings, hazards and theorems.

## Inventory

| Component | State | Operations | What makes it correct |
|---|---|---|---|
| VpcEndpoint controller (`controllers/vpcendpoint`) | the resource's finalizer and status (ids, conditions, cluster info); a private copy per Reconcile; the hosted zone cache | parse cluster info, add finalizer, validate group / endpoint / zone / record / service, clean up, remove finalizer | nothing in AWS without finalizer or beyond it; one of each; ids never forgotten; deletion ends; DNS points at the live endpoint |
| VpcEndpointTemplate controller (`controllers/vpcendpointtemplate`) | the template's finalizer; the VpcEndpoints it made | add finalizer, per control plane: create, replace spec, delete extras, delete; on deletion delete all | every live control plane served, every deleting one released, templates go |
| VpcEndpointAcceptance controller (`controllers/vpcendpointacceptance`) | none; it polls | poll pending connections, judge each by the criteria, accept the batch | only entitled connections accepted, rejections stand, nobody waits for ever |
| AWS client (`pkg/aws_client`) | none | find by id and by tags, create, delete, modify | lookup order makes retries idempotent |
| Security group rules and tags (`helpers.go`, `security_group_rules.go`) | permissions of the group | compare wanted and present rules, authorize the missing ones | ready means configured; never asks twice |
| VPC, subnets and groups of the endpoint (`helpers.go`, `subnet.go`, `pkg/util`) | `.status.vpcId`, the endpoint's subnets and groups | choose a VPC, discover subnets, remove and add | AWS accepts each change; the spec is met in the end |
| Private hosted zones (`helpers.go`, `validation.go`, `cleanup.go`) | zones, records and associations, which resources share; the zone cache | find by VPC or name, create, upsert, authorize and associate, delete | one zone per domain; no record lost; cleanup ends |
| Cluster lookups (`pkg/infrastructures`, `hostedcontrolplanes`, `dnses`, `secrets`) | none | read an object | may fail at any time, also during deletion |
| Naming, metrics, manager wiring | – | – | not modelled |

The controllers interact only through API objects (a template creates
VpcEndpoints, whose controller reconciles them) and through AWS (acceptance
moves an endpoint from `pendingAcceptance` to `pending`). What is hard:

* **Interleaving.** Reconcile runs for seconds to minutes on a copy read from
  an informer cache. Users edit and delete the resource meanwhile; every write
  is conditional on the resource version, so any of a dozen `Status().Update`
  calls may conflict and end the Reconcile between an AWS effect and its record.
* **Stale reads.** The cache may lack the controller's own last writes, the
  hosted zone cache answers for two minutes, the template controller has three
  caches that lag independently.
* **Partial failure.** A Reconcile or a cleanup is repeated from the start
  after any failed call or crash, on what its first half already did.
* **Outside events.** Endpoints are rejected, fail, are deleted or replaced;
  groups and zones vanish; HostedControlPlane, DNS or Infrastructure objects
  are gone when the cleanup wants them.

## Modules

| Module | Content |
|---|---|
| `VpcEndpointController` | one VpcEndpoint resource, its controller, AWS and everyone else |
| `OwnedResource` | abstract: the life of one AWS object of a resource |
| `VpcEndpointOwnership` | the refinement: the controller implements `OwnedResource` three times |
| `MCVpcEndpointController` | the configurations of the resource that the runs use |
| `VpcEndpointController_proofs` | types and control flow: `TypeCorrect`, `ControlCorrect`, `InfoStored` |
| `VpcEndpointRelease_proofs` | creation and release of AWS resources: seven more theorems |
| `VpcEndpointRecord_proofs` | the DNS record: `RecordCorrect`, `RecordsTracked` |
| `VpcEndpointOwnership_proofs` | the refinement: `Ownership` |
| `EndpointConfiguration`, `MCEndpointConfiguration` | rules, tags, VPC, subnets and groups, one AWS call at a time |
| `EndpointConfiguration_proofs` | types, requests and True conditions: six theorems |
| `HostedZones`, `MCHostedZones` | resources that share the zone of a domain; associations; the zone cache |
| `HostedZones_proofs` | types, one zone, its records and associations: five theorems |
| `VpcEndpointTemplate`, `MCVpcEndpointTemplate` | one template, its controller, control planes and VpcEndpoints |
| `VpcEndpointTemplate_proofs` | types and creation under the finalizer: three theorems, and `TemplateTypesCorrect`, a step towards them |
| `VpcEndpointAcceptance`, `MCVpcEndpointAcceptance` | the provider's side: poll and accept |
| `VpcEndpointAcceptance_proofs` | types and entitlement: four theorems |

`EndpointConfiguration` and `HostedZones` look into steps that are one action
of `VpcEndpointController` (`ConfigureSecurityGroup`, `EndpointAvailable`,
`ParseVpc`; the zone and record actions) and leave out the others. The
template's `EndpointGone` and the `EndpointProgress` of the core stand for the
other controllers: the composition is by assumption, each one's liveness
property being what the other one's fairness uses.

### VpcEndpointController

*State.* `api` is the resource in the API server (metadata and status), `cache`
the informer's copy, `mem` Reconcile's private copy. `synced` and `fresh` say
whether cache and private copy have the server's resource version; they stand
for the versions themselves, which are only ever compared. `setup` holds the
fields of the spec that the control flow depends on. `sources` are the cluster
objects that can be read: `infra` is the Infrastructure object, which gives the
region unless `.spec.region` does, and the infra name unless the domain name
refers to a HostedControlPlane; `hcp` is that control plane; `service` is the
AWSEndpointService, `creds` the Secret that overrides the credentials, `dns`
the DNS object. `svc` is the ExternalName service, `hzCache` the zones
`getHostedZoneCached` answers for. AWS is `sgs`, `vpces`, `zones` (one state
per id), `attached` (endpoints with subnets and group) and `records` (per zone,
the endpoint the CNAME points at).

*Actions.* `pc` walks through `Reconcile`; one action is a group of reads, at
most one AWS effect and the write that follows it:

| Code | Actions |
|---|---|
| `Get`, `parseClusterInfo` and its fallback during deletion | `StartReconcile`, `ReconcileNotFound`, `ParseInfra`, `ParseService`, `ParseClient`, `ParseVpc` |
| finalizer | `AddFinalizer`, `RemoveFinalizer` |
| `validateSecurityGroup` | `FindSecurityGroup`, `CreateSecurityGroup`, `ConfigureSecurityGroup` |
| `validateVPCEndpoint` | `FindVpcEndpoint`, `CreateVpcEndpoint`, then one of `EndpointWaiting`, `EndpointRejected`, `EndpointBad`, `EndpointAvailable` |
| `validateR53PrivateHostedZone` | `ZoneNotConfigured`, `ZoneAutoDiscovered`, `ZoneById`, `ZoneRecorded`, `ZoneByName`, `ZoneTags` |
| `validateR53HostedZoneRecord` | `RecordSkipped`, `RecordNoZone`, `RecordNotReady`, `RecordUpsert` |
| `validateExternalNameService` | `ServiceNotNeeded` … `ServiceAsExpected` |
| `cleanupAwsResources` | `CleanupRecord`, `CleanupZone*`, `CleanupVpce`, `CleanupPoll`, `CleanupSg` |
| a failing call, a crash | `ValidationFault`, `CleanupFault`, `Crash`, and the failing disjunct of each write (`Unpersisted`) |
| everyone else | `CacheSync`, `CacheExpire`, `UserEdit`, `UserDelete`, `EndpointProgress`, `EndpointTrouble`, `SgLost`, `ZoneLost`, `ServiceTampered`, `SourceLost` |

*Why effect and write may be one action.* Between an AWS effect and the write
that records it the controller reads nothing. A user's write in between makes
the record conflict; the same write just before the action does the same. A
crash or a lost answer in between is the failing disjunct of the write.

*Abstractions.* Lookups by tags are consistent (AWS may lag for seconds after a
creation, and the code passes no client token). Deleting a group that is gone
succeeds, as the wrapper makes it. Ids are never reused. Only AVO's own
finalizer is considered. The spec does not change. The domain name taken from
another DNS object (`dnsRef`) is left out, as is garbage collection of the
service; associated VPCs are in `HostedZones`. The branches at
`cleanup.go:56-60` and `:278-285` are not taken: a True record condition comes
with a zone id (`RecordTracked`) and the wrapper of DeleteSecurityGroup hides
NotFound. Requeue delays are kept as names only.

### OwnedResource and VpcEndpointOwnership

`OwnedResource` is what a user may rely on for each kind of AWS object: `Make`
only under the finalizer and only if none is there, `Note` the id, `Fade`
(AWS or anyone deletes), `Forget` the id only of an object that is not alive,
`Retire` only when the noted object is released. It has no caches, copies,
conditions or steps; an object that was made and not noted may be left behind,
which is the finding `leak`. The mapping reads `owner` from the resource's
metadata, `present` and `alive` from AWS, `noted` from the status. A hosted
zone counts only when it is looked up by name and nobody had one before.

### EndpointConfiguration

Group and endpoint exist; `rules`, `tagged`, `subnets`, `groups` are theirs in
AWS, `nodes` the cluster's groups, `used` the number of other endpoints per
VPC. A Reconcile walks through `Place` (`parseClusterInfo`), `FindGroup`,
`CreateTags`, `DescribeRules`, `GenerateMissing`, `AuthorizeIngress`,
`AuthorizeEgress`, `DescribeEndpoint`, `Discover`, `RemoveSubnets`,
`AddSubnets`, `AddGroups`, `RemoveGroups`, `Finish`; what an earlier call
described (`view`, `seen`) is what later ones are computed from. `Drift` lets
outsiders change anything in AWS between two calls, `UserEdits` changes the
spec, which makes the next status write conflict (`stale`). AWS refuses a
permission the group has or the request repeats (`Accepts`), two subnets in a
zone or a foreign VPC (`Fits`), and the removal of what is not there or of the
last group. Blocks are in the canonical form AWS stores; a rule's protocol and
port range are one value.

### HostedZones

Resources with one domain name, their status (zone id, record condition), and
the zones of that name in Route 53, each with its VPCs and records. One worker
takes a resource at a time. `Namesakes` is the lookup by VPC and then by name;
`Fetched` the zone cache, which all resources share. `AssociateAnswerLost` is
an association whose answer does not arrive. `robbed` and `unsure` are history
variables that name the exceptions of the properties: resources whose zone or
records someone else took away, zones with a lost answer that the cache does
not show. Endpoints, groups, tags and services are left out.

Each resource has a hostname (`host`, one of the functions in `Namings`). A
zone has one record per name; the model keeps the set of resources a zone's
records point at. The code upserts and deletes by name (`validation.go:434`,
`cleanup.go:78-79`), so of two resources with one hostname the one that upserts
turns the record to its own endpoint and the one that is cleaned up deletes it,
whoever it points at. The other one is then `Outnamed` and counts as robbed:
neither code nor API keeps two resources from sharing a hostname, and nothing
puts the record back.

### VpcEndpointAcceptance

Resources and Account objects are read from caches that lag separately, the
connections once per Reconcile; `Judge` takes one connection per step, since
the Account objects are listed anew for each. `Accept` may succeed in part:
the answer's list of unsuccessful items is not read by the code. `heard` and
`polled` are history variables. Accounts are compared as given; credentials,
region and pagination are a call that may fail. The Account objects are those
of the namespace that the resource names: an empty namespace, with which the
code lists those of all namespaces, is not distinguished.

### VpcEndpointTemplate

`tpl`, `hcps`, `vpces` are the API server's objects, `tplCache`, `hcpCache`,
`vpceCache` the copies every read comes from. In each namespace two
VpcEndpoints can exist: `own`, named like the template, and `other`, made by a
user; both carry the selector's labels (a template whose labels do not match
its selector is outside the model). `queued` is the work queue: the template's
events, control planes' events, errors and the resync set it, changes of
VpcEndpoints do not. The loops over control planes and over VpcEndpoints to
delete take one element per step in any order, as lists from a cache have none.
`Listed` is one list for both uses. In the code the deletion of a template
lists by the whole selector (line 76), the validation of a control plane by its
`matchLabels` alone (line 121): the model is that of a selector without
`matchExpressions`.

## Runs

| Run | Result | Shows |
|---|---|---|
| `bookkeeping` | pass | nine safety properties and the refinement for six configurations with all troubles, 2 groups, 2 endpoints, 2 zones |
| `live` | pass | a resource nobody deprives of what it needs is served; a deleted one goes, or is in one of three states no cleanup gets past |
| `configuration` | pass | rules and placement: safe requests, ready means configured, convergence |
| `shared_zone` | pass | two resources in one zone, with different hostnames or the same one: one zone, no record lost but to deletions and namesakes, cleanup and resolution complete |
| `template` | pass | control planes served and released, the template goes |
| `acceptance` | pass | only entitled connections are accepted, none waits for ever |
| `leak` | violation | a resource created while the deletion arrives stays in AWS |
| `stale_record` | violation | a CNAME of a replaced endpoint is kept |
| `foreign_zone` | violation | an adopted zone is deleted |
| `unserved_vpc` | violation | an adopted zone does not resolve in the endpoint's own VPC |
| `tpl_extras` | violation | all matching VpcEndpoints are kept |
| `tpl_orphan` | violation | a VpcEndpoint outlives its template |

The violations quote the comment in the code they contradict (see `findings`).
Two more comments differ from the code without a run of their own.
`cleanup.go:75` says "Delete all records in the hosted zone except the default
SOA and NS records", but the loop below it deletes the records with the
resource's own name and leaves the others; `RecordKept` states what the code
does, which is right, since other resources rely on their records. And
`cleanup.go:116-117` says of a missing DNS object "we can't verify safety
without the DNS CR, so skip deletion", but line 124 returns the error: an
exception of `CleanupCompletes`.

*Properties.* `FinalizerCoversResources`, `CreateUnderFinalizer`: the finalizer
precedes every creation and outlives the last one. `InfoBeforeFinalizer`: a
cleanup never lacks the stored cluster info. `OneOfEach`: retries find what an
earlier attempt created. `NeverForget`, `RecordedIsReleased`: ids stay until
their resource is gone, and a removed finalizer leaves nothing recorded behind.
`RecordTracked`: a True record condition means a record the cleanup can find.
`EndpointGoneBeforeSg`: the cleanup's order. `ImplementsOwnedResource`: the
refinement. `CreateUnderTemplate`, `HcpServed`, `HcpReleased`, `TemplateGoes`:
the template's counterparts.

`CleanupCompletes`: a deleted resource disappears, or is stuck
(`CleanupStuck`) in one of three states, from which no cleanup gets on until
someone helps:
* No AWS client can be made. The region is never stored: without
  `.spec.region` every Reconcile reads it from the Infrastructure object, and
  the credentials from the Secret if one overrides them. When one of these is
  gone, `vpcendpoint_controller.go:121-124` (or `:109-113`, `:115-119` with an
  override) fails in every Reconcile. Infra name, service name and VPC id, in
  contrast, are stored.
* The record condition is True and the zone is gone: `GetHostedZone` fails
  (`cleanup.go:64`).
* The zone was looked up by name and the DNS object is gone
  (`cleanup.go:124`).

The run violates the property as soon as one of the three is left out.
`EventuallyServed`: a resource is served whatever fails, conflicts, crashes or
is tampered with, while nobody deletes it, the cluster objects and the zone it
uses stay and its endpoint is not rejected. It says nothing of a zone that
vanishes while the zone cache still answers for it; that hazard is
`RecordTracked`'s.

`ReadyMeansConfigured`: the True conditions of group and endpoint are earned.
`AuthorizeOnlyMissing`, `AdditionFits`, `RemovalFits`: what is asked of AWS,
computed from older descriptions, is acceptable unless an outsider interfered
in this very Reconcile. For `RemovalFits` that means subnets the endpoint has,
and groups it has that are not its last ones, whence the order of the calls:
the operator's own group is added first. `Converges`: half-done changes are
completed. Its precondition `Satisfiable` excludes specs AWS cannot grant: two
rules for one permission, subnets in one zone, no VPC to choose from.

`OneZonePerDomain`, `RecordKept`, `AssociateOnce`: sharing a zone is safe while
nobody deletes it and the resources' hostnames differ. `CleanupEnds` and
`EventuallyResolves` name what is not repaired: a resource whose zone was taken
away neither resolves again nor, with its record condition True, can be cleaned
up (`cleanup.go:64`).

`AcceptOnlyEntitled`, `RejectionStands`: a batch is accepted on the strength
of what this Reconcile read. `NoneWaitsForEver`: polling makes up for events
that do not exist and for items that silently failed.

*Bounds.* `MaxFaults`, `MaxEdits`, `MaxLosses`, `MaxDrifts`, `MaxTroubles`
limit failed calls and crashes, foreign writes and troubles; one of each
already meets every conflict and failure point, since each may happen at any
step and a deletion comes on top. Two ids per kind are needed to see a second
group or a replaced endpoint. An exhausted set of ids acts as an account quota.
`Live.cfg` has one id for group and endpoint: a second one would be reached
only after a rejection or an outside deletion, which it leaves out (the safety
run has them), and two for the zone, so that one can be lost before its id is
stored. It has every loss of a cluster object that a cleanup can meet, and no
edits: conflicts come from the deletion and from Reconciles that start on a
cached copy without the controller's own last write. `Configuration.cfg` allows
two drifts, so that an outsider can act against a repair; its four subnets give
every relation of zone, VPC and tag the code tells apart, its six specs every
way of placement, of rules, and two that cannot be met. `SharedZone.cfg` has
two resources in different VPCs, which both associate a third VPC and the first
one that of the second; their hostnames differ or are the same (`Namings`), one
fault (a lost answer, a failed write or call, or a restart) and three zones, as
many as can come to be. With two faults the same properties hold too (four
minutes, not among the runs). For the template one namespace shows every
interaction with control plane, user and template; with two namespaces,
`MaxSpecs = 1` and `MaxTroubles = 0` the same properties hold too (five
minutes, not among the runs). `Acceptance.cfg` has two connections of two
accounts, so that a batch can be entitled in part. Symmetry is used for ids and
namespaces in safety runs only; zone ids are not symmetric because a setup may
name one.

*Fairness.* `WF(Reconcile)`: the work queue redelivers a request until it
succeeds, and the controller requeues itself (backoff, 30 s, 1 min, 15 min; for
templates errors and the informers' ten-hour resync). `WF(CacheSync)` and the
caches of the template: watches deliver, relists repair. `WF` of
`EndpointProgress`: AWS finishes transitions and the service's owner accepts.
`WF(EndpointGone)`, for templates: the VpcEndpoint controller's cleanup ends,
which is `CleanupCompletes` with its limits; events and caches are fair per
object. Where several resources share a worker (`HostedZones`,
`VpcEndpointAcceptance`) taking a resource from the queue is strongly fair per
resource, because the queue is first in, first out and the worker is not always
free. `WF(CacheExpire)` and `WF(TimerFires)`: time passes. Faults, edits and
troubles are never fair.

Deadlock is checked except in `Acceptance.cfg`, `SharedZone.cfg` and
`UnservedVpc.cfg`: there all resources may be gone, which ends everything.

## Proofs

Every safety property that a passing run checks, and the refinement, is proved
for all values of the constants. The assumptions are those of the modules:
`ConstantsAssumption` (`None` is no id, setups are well-formed, the bounds are
natural numbers), and `ConfigurationAssumption`, `HostedZonesAssumption`,
`TemplateAssumption`, `AcceptanceAssumption` of the same kind. Sets of ids,
resources, VPCs, namespaces, setups and bounds are arbitrary, so nothing
depends on how many faults, edits or losses there are.

`VpcEndpointController_proofs` shows that each action preserves `TypeOK`
(`TypeCorrect`), with lemmas about `Persist`, `Continue`, `Return` and their
combinations. `InfoBeforeFinalizer` is not inductive: whether a Reconcile may
store the finalizer depends on what its private copy holds. `ControlInv`
strengthens it with
* `VersionInv`: a synced cache equals the server's copy; a fresh private copy
  equals it too while a Reconcile runs;
* `MetaInv`: a copy never is ahead of the server (its finalizer is the server's
  or was removed, its deletion is the server's);
* `InfoInv`: a copy with the finalizer has all cluster info;
* `PcInv`: what `mem` holds at each `pc`.

`VpcEndpointRelease_proofs` builds on it. `CreatedUnderFinalizer` follows since
a step that creates is a validation step, where `PcInv` gives the finalizer.
`NeverTwo` needs the types only: a creation is guarded by an empty lookup.
`ReleaseCorrect` proves `ReleaseInv`: an unfinalized resource has nothing in
AWS, and at each step of the cleanup everything before it is released;
`FinalizerCovers` and `Released` follow.
`Remembered` compares, for every action, the ids before and after a successful
write. `EndpointGoneFirst` uses `AttachInv`: an endpoint that uses the group is
the one the status names, so waiting for that one is enough.

`VpcEndpointAcceptance_proofs` (assumption: `AcceptanceAssumption`) shows the
types and, with `EntitledInv`, `AcceptOnlyEntitled` and `RejectionStands`. The
two action properties speak of the step that accepts; the invariant carries to
that step what the earlier ones established: `left` and `chosen` came from
this Reconcile's poll and service, and each chosen connection was entitled by
the resource or by an Account object in `heard`, which contains every list the
cache had since the Reconcile began. `AcceptedByBatch` shows that no other
step makes a connection available.

`VpcEndpointRecord_proofs` is about what the record condition promises.
`RecordTracked` is not inductive, for three reasons, and `RecordInv` has a part
for each. A status write stores the private copy, which may be an outdated
one that conflicts or the current one, so both halves of the promise must
hold of every copy (`CopiesTracked`; in setups that name the zone's id, every
copy has that id or none, so looking it up again does not move a record). The
cleanup removes the zone and then its id, so it must have dropped the condition
before (`RecordFirst`). And a zone that is created must not be the one the
status names, or it would be there without the record: ids are used once, and
what the status or the zone cache names has been used (`ZonesUsed`). The lemmas
say who changes what: `FlagSteps` the condition, `ZoneChoice` the zone's id,
`RecordSteps` the records, `ZoneLife` the zones.

`VpcEndpointOwnership_proofs` shows that the controller implements
`OwnedResource`: the initial states map to initial states, and for security
group, endpoint and zone a lemma (`SgStep`, `VpceStep`, `ZoneStep`) maps each
step to the abstract step or a stutter. `OwnerSteps` does the owner, whose
changes leave AWS and the status alone; otherwise validations and cleanup run
under the finalizer (`GuardedValidation`, `GuardedCleanup`), creations are
guarded by an empty lookup, and what `Retire` and `Forget` demand is
`ReleaseInv` and the lemma behind `Remembered`.

`EndpointConfiguration_proofs`: the properties relate what is asked of AWS to
what AWS has, several calls after it was described. `ConfigInv` says, for a
Reconcile no outsider disturbed, what holds between the calls: the description
is still true until the first change, and from then on the state is the
description plus what was changed since (`RulesInv`, `EndpointInv`).
`ReadyConfigured`, `OnlyMissingAuthorized`, `AdditionAccepted` and
`RemovalAccepted` follow at their steps; the last one from the part of
`EndpointInv` that says that the operator's group is there once it was added.

`HostedZones_proofs`: `ZoneInv` says what the worker knows of its resource at
each step (`WorkerInv`), that zones are created in order and that a cached
answer lacks a VPC only if an answer was lost (`CacheInv`), and that what is
still to be associated is not associated (`TodoInv`). `AssociatedOnce` follows;
`OneZone` is inductive on top of it, since a zone is created only when the
lookups by VPC and by name find none; so is `RecordsKept`, whose history
variable `robbed` gets every resource whose zone or records somebody else
deletes, and every one that loses its record to a resource with the same
hostname. The theorem assumes nothing of the hostnames; with hostnames that
differ the second case is empty.

`VpcEndpointTemplate_proofs`: a Reconcile decides on a cached template, so
`CreateUnderTemplate` needs that such a copy can be trusted. `HeldInv`: the
finalizer is removed only by a Reconcile that saw the deletion, the cache never
goes back from a deletion, so a cached copy that has the finalizer and is not
being deleted means that the server has the finalizer, and so does the
Reconcile that began with it.

All inductive invariants were checked with TLC before they were proved.

Model-checked only: the liveness properties (`CleanupCompletes`,
`EventuallyServed`, `HcpServed`, `HcpReleased`, `TemplateGoes`, `Converges`,
`CleanupEnds`, `EventuallyResolves`, `NoneWaitsForEver`), which depend on
fairness and are out of the prover's reach, and the six violations, which are
counterexamples.

## Hazards without a property

`PROJECT.json` lists them with a note: an auto-discovered zone may change; AWS
lookups may lag; blocks with host bits set are
asked for again and again; a control plane may vanish between two Reconciles.

## Not modelled

* Naming (`pkg/util/naming.go`): string formatting; models identify the
  resource's tags with the resource. (The cut of a long name at line 133 does
  not count the hyphen: at the boundary a name has 256 characters.)
* Metrics and events: write-only.
* Manager, rate limiter, configuration (`main.go`, `controllers/util`,
  `config`): start-up wiring; scheduling appears as fairness and `Crash`, and
  delays are left out, so a one-minute retry and a backoff are the same later
  Reconcile.
* Generated code, CEL rules of the API types, request formatting and the
  construction of AWS clients.

## Plan

All controllers are modelled and their safety properties proved. What is left:

1. for the violations, theorems that say where the comment does hold:
   `ForeignZonesKept` when zones are not looked up by name and nobody else
   deletes them, `SkipOnlyIfUnchanged` while no endpoint was replaced;
2. the safety half of the liveness properties: a cleanup never goes back to an
   earlier resource within a Reconcile, and nothing it released returns.
