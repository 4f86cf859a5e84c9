----------------------- MODULE EndpointConfiguration -----------------------
(***************************************************************************)
(* How the VpcEndpoint controller configures what it created: the rules    *)
(* and tags of the security group, the VPC, subnets and security groups of *)
(* the endpoint.  VpcEndpointController has each of these as one step that *)
(* succeeds or fails; here every AWS call is a step, computed from what an *)
(* earlier one described, while outsiders change AWS and users the spec.   *)
(*                                                                         *)
(* Group and endpoint exist and the endpoint is available.  The changes    *)
(* AWS refuses are those that the code's comments speak of: a permission   *)
(* the group has already, two subnets of an endpoint in one zone.          *)
(***************************************************************************)
EXTENDS Naturals, FiniteSets

CONSTANTS
  Subnets, Zones, Vpcs,
  NetOf,        \* zone, VPC and tags of a subnet (those with spec.vpc.subnetTags)
  ServiceZones, \* zones of the VPC endpoint service
  TaggedVpcs,   \* VPCs with the tags of spec.vpc.tags
  CidrOf,       \* the primary CIDR block of a VPC
  Cidrs,        \* IPv4 blocks, in the form AWS stores them
  Ports,        \* protocol and port range of a rule
  NodeGroups,   \* security groups the cluster's nodes may have
  OwnGroup,     \* .status.securityGroupId
  OtherGroups,  \* the VPC's default group and others
  Wants,        \* the specs of the resource
  None,
  MaxUse,       \* bound: other endpoints per VPC
  MaxFaults,    \* bound: failed calls and restarts
  MaxDrifts     \* bound: changes by outsiders and users

Rules == [port : Ports, cidr : Cidrs \cup {None}]
Permissions == [egress : BOOLEAN, port : Ports, from : Cidrs \cup NodeGroups]
Groups == {OwnGroup} \cup OtherGroups

ASSUME ConfigurationAssumption ==
  /\ NetOf \in [Subnets -> [zone : Zones, vpc : Vpcs, tags : SUBSET {"cluster", "private"}]]
  /\ ServiceZones \subseteq Zones /\ TaggedVpcs \subseteq Vpcs
  /\ CidrOf \in [Vpcs -> Cidrs]
  /\ Cidrs \cap NodeGroups = {} /\ None \notin Cidrs /\ None \notin Vpcs
  /\ OwnGroup \notin OtherGroups
  /\ Wants \subseteq
       [ingress : SUBSET Rules, egress : SUBSET Rules, useVpcCidr : BOOLEAN,
        place : {"tags", "ids", "auto", "subnets"}, ids : SUBSET Vpcs,
        subnets : SUBSET Subnets]
  /\ MaxUse \in Nat /\ MaxFaults \in Nat /\ MaxDrifts \in Nat

VARIABLES
  want,     \* the resource's spec
  vpcId,    \* .status.vpcId
  tagged,   \* the security group has all of the operator's tags
  rules,    \* its permissions
  nodes,    \* the security groups of the cluster's nodes
  subnets,  \* the endpoint's subnets
  groups,   \* the endpoint's security groups
  used,     \* other endpoints in each VPC
  pc,       \* where Reconcile is
  mem,      \* Reconcile's copy of the spec
  stale,    \* the resource was written meanwhile
  view,     \* rulesResp.SecurityGroupRules
  asked,    \* the ingress and egress permissions to authorize
  seen,     \* the endpoint as it was described
  expected, \* the subnets it should have
  touched,  \* history: somebody changed something during this Reconcile
  drifts, faults

avars == <<tagged, rules, nodes, subnets, groups, used>>
locals == <<mem, stale, view, asked, seen, expected>>
vars == <<want, vpcId, tagged, rules, nodes, subnets, groups, used, pc, mem, stale, view,
          asked, seen, expected, touched, drifts, faults>>

-----------------------------------------------------------------------------
(* util.StringSliceTwoWayDiff *)

TwoWayDiff(current, wanted) == [create |-> wanted \ current, delete |-> current \ wanted]

-----------------------------------------------------------------------------
(* generateMissingSecurityGroupRules *)

(* What a rule allows: its CIDR block, that of the VPC, or the nodes *)
Sources(w, rule) ==
  CASE rule.cidr # None -> {rule.cidr}
    [] rule.cidr = None /\ w.useVpcCidr -> {CidrOf[vpcId]}
    [] OTHER -> nodes

(* Mutant: egress rules are looked for among ingress rules *)
CandidateIngress(egress, rule, from, p) ==
  ~p.egress /\ p.port = rule.port /\ p.from = from

(* avoAndAwsSecurityGroupRuleCandidate, and the comparison of the source *)
Candidate(egress, rule, from, p) ==
  p.egress = egress /\ p.port = rule.port /\ p.from = from

(* The rules of one direction that no described permission grants; the     *)
(* request may name a permission twice, for two rules                      *)
Missing(egress, list, w) ==
  {q \in list \X (Cidrs \cup NodeGroups) :
     /\ q[2] \in Sources(w, q[1])
     /\ ~ \E p \in view : Candidate(egress, q[1], q[2], p)}

Permission(egress, q) == [egress |-> egress, port |-> q[1].port, from |-> q[2]]

(* AWS refuses a permission that the group has or the request repeats *)
Accepts(egress, request) ==
  /\ \A q \in request : Permission(egress, q) \notin rules
  /\ \A q, p \in request : Permission(egress, q) = Permission(egress, p) => q = p

-----------------------------------------------------------------------------
(* Placement *)

(* In a zone of the service, and in the resource's VPC *)
InPlace(s) == NetOf[s].zone \in ServiceZones /\ NetOf[s].vpc = vpcId

(* AutodiscoverPrivateSubnets: tagged as private, or else all *)
Autodiscovered(clustered) ==
  LET all == {s \in Subnets : clustered => "cluster" \in NetOf[s].tags}
      private == {s \in all : "private" \in NetOf[s].tags}
  IN  IF private # {} THEN private ELSE all

(* With vpc.ids or vpc.tags the subnets need not have the cluster's tag *)
Searched(w) == Autodiscovered(w.place = "auto")

Expected(w) ==
  IF w.place = "subnets" THEN w.subnets ELSE {s \in Searched(w) : InPlace(s)}

CandidateVpcs(w) == IF w.place = "tags" THEN TaggedVpcs ELSE w.ids

(* SelectVPCForVPCEndpoint; ties are broken by the order of a Go map *)
LeastUsed(vpcs) == {v \in vpcs : \A u \in vpcs : used[v] <= used[u]}

(* The VPCs parseClusterInfo may choose; GetVPCId wants a single one *)
Choices(w) ==
  LET home == {NetOf[s].vpc : s \in IF w.place = "auto" THEN Searched(w) ELSE w.subnets}
  IN  CASE w.place \in {"tags", "ids"} -> LeastUsed(CandidateVpcs(w))
        [] OTHER -> IF Cardinality(home) = 1 THEN home ELSE {}

(* AWS: the endpoint's subnets are in its VPC and in different zones *)
Fits(set) ==
  /\ \A s \in set : NetOf[s].vpc = vpcId
  /\ \A s, t \in set : NetOf[s].zone = NetOf[t].zone => s = t

-----------------------------------------------------------------------------
(* Reconcile; every error ends it and it is tried again *)

NoEndpoint == [subnets |-> {}, groups |-> {}]
Nothing == [ingress |-> {}, egress |-> {}]

Return ==
  /\ pc' = "idle" /\ mem' = None /\ stale' = FALSE
  /\ view' = {} /\ asked' = Nothing /\ seen' = NoEndpoint /\ expected' = {}

Goto(step) == pc' = step

(* Mutant: the resource is not read *)
BeginUnread ==
  /\ pc = "idle"
  /\ touched' = FALSE
  /\ Goto(IF vpcId = None THEN "place" ELSE "find")
  /\ UNCHANGED <<want, vpcId, avars, locals, drifts, faults>>

Begin ==
  /\ pc = "idle"
  /\ mem' = want /\ touched' = FALSE
  /\ Goto(IF vpcId = None THEN "place" ELSE "find")
  /\ UNCHANGED <<want, vpcId, avars, stale, view, asked, seen, expected, drifts, faults>>

(* A VPC is chosen and stored; a conflict ends the Reconcile *)
Place ==
  /\ pc = "place"
  /\ \/ /\ ~stale /\ vpcId' \in Choices(mem)
        /\ Goto("find") /\ UNCHANGED locals
     \/ /\ stale \/ Choices(mem) = {}
        /\ Return /\ UNCHANGED vpcId
  /\ UNCHANGED <<want, avars, touched, drifts, faults>>

FindGroup ==
  /\ pc = "find"
  /\ Goto(IF tagged THEN "describe" ELSE "tag")
  /\ UNCHANGED <<want, vpcId, avars, locals, touched, drifts, faults>>

(* createMissingSecurityGroupTags *)
CreateTags ==
  /\ pc = "tag"
  /\ tagged' = TRUE /\ Goto("describe")
  /\ UNCHANGED <<want, vpcId, rules, nodes, subnets, groups, used, locals, touched, drifts,
                 faults>>

DescribeRules ==
  /\ pc = "describe"
  /\ view' = rules /\ Goto("generate")
  /\ UNCHANGED <<want, vpcId, avars, mem, stale, asked, seen, expected, touched, drifts, faults>>

GenerateMissing ==
  /\ pc = "generate"
  /\ asked' = [ingress |-> Missing(FALSE, mem.ingress, mem),
               egress |-> Missing(TRUE, mem.egress, mem)]
  /\ Goto("ingress")
  /\ UNCHANGED <<want, vpcId, avars, mem, stale, view, seen, expected, touched, drifts, faults>>

(* One half of AuthorizeSecurityGroupRules; an empty request is not sent *)
Authorize(egress, request, next) ==
  /\ \/ /\ Accepts(egress, request)
        /\ rules' = rules \cup {Permission(egress, q) : q \in request}
        /\ Goto(next) /\ UNCHANGED locals
     \/ ~Accepts(egress, request) /\ Return /\ UNCHANGED rules
  /\ UNCHANGED <<want, vpcId, tagged, nodes, subnets, groups, used, touched, drifts, faults>>

AuthorizeIngress == pc = "ingress" /\ Authorize(FALSE, asked.ingress, "egress")

(* Mutant: egress rules are not authorized *)
AuthorizeEgressSkipped ==
  /\ pc = "egress" /\ Goto("grouped")
  /\ UNCHANGED <<want, vpcId, avars, locals, touched, drifts, faults>>

AuthorizeEgress == pc = "egress" /\ Authorize(TRUE, asked.egress, "grouped")

(* AWSSecurityGroupCondition is set to True, unless the write conflicts;   *)
(* the endpoint is described                                               *)
DescribeEndpoint ==
  /\ pc = "grouped"
  /\ \/ stale /\ Return
     \/ /\ ~stale
        /\ seen' = [subnets |-> subnets, groups |-> groups] /\ Goto("discover")
        /\ UNCHANGED <<mem, stale, view, asked, expected>>
  /\ UNCHANGED <<want, vpcId, avars, touched, drifts, faults>>

Discover ==
  /\ pc = "discover"
  /\ \/ /\ mem.place # "subnets" /\ Searched(mem) = {} /\ Return
     \/ /\ mem.place = "subnets" \/ Searched(mem) # {}
        /\ expected' = Expected(mem) /\ Goto("remove")
        /\ UNCHANGED <<mem, stale, view, asked, seen>>
  /\ UNCHANGED <<want, vpcId, avars, touched, drifts, faults>>

(* Mutant: subnets are added without removing others first *)
RemoveSubnetsSkipped ==
  /\ pc = "remove" /\ Goto("add")
  /\ UNCHANGED <<want, vpcId, avars, locals, touched, drifts, faults>>

(* First half of ensureVpcEndpointSubnets *)
RemoveSubnets ==
  /\ pc = "remove"
  /\ LET gone == TwoWayDiff(seen.subnets, expected).delete IN
     \/ gone \subseteq subnets /\ subnets' = subnets \ gone /\ Goto("add") /\ UNCHANGED locals
     \/ ~(gone \subseteq subnets) /\ Return /\ UNCHANGED subnets
  /\ UNCHANGED <<want, vpcId, tagged, rules, nodes, groups, used, touched, drifts, faults>>

AddSubnets ==
  /\ pc = "add"
  /\ LET new == TwoWayDiff(seen.subnets, expected).create IN
     \/ /\ new = {} \/ Fits(subnets \cup new)
        /\ subnets' = subnets \cup new /\ Goto("addGroup") /\ UNCHANGED locals
     \/ new # {} /\ ~Fits(subnets \cup new) /\ Return /\ UNCHANGED subnets
  /\ UNCHANGED <<want, vpcId, tagged, rules, nodes, groups, used, touched, drifts, faults>>

(* Mutant: the group is not added before others are removed *)
AddGroupsSkipped ==
  /\ pc = "addGroup" /\ Goto("removeGroup")
  /\ UNCHANGED <<want, vpcId, avars, locals, touched, drifts, faults>>

(* ensureVpcEndpointSecurityGroups: add first, then remove *)
AddGroups ==
  /\ pc = "addGroup"
  /\ groups' = groups \cup TwoWayDiff(seen.groups, {OwnGroup}).create
  /\ Goto("removeGroup")
  /\ UNCHANGED <<want, vpcId, tagged, rules, nodes, subnets, used, locals, touched, drifts,
                 faults>>

(* AWS refuses to remove a group that is not there, or the last one *)
Removable(set) == set = {} \/ (set \subseteq groups /\ groups \ set # {})

RemoveGroups ==
  /\ pc = "removeGroup"
  /\ LET gone == TwoWayDiff(seen.groups, {OwnGroup}).delete IN
     \/ Removable(gone) /\ groups' = groups \ gone /\ Goto("ready") /\ UNCHANGED locals
     \/ ~Removable(gone) /\ Return /\ UNCHANGED groups
  /\ UNCHANGED <<want, vpcId, tagged, rules, nodes, subnets, used, touched, drifts, faults>>

(* AWSVpcEndpointCondition is set to True, or the write conflicts *)
Finish ==
  /\ pc = "ready" /\ Return
  /\ UNCHANGED <<want, vpcId, avars, touched, drifts, faults>>

(* A call fails or the operator restarts *)
CallFails ==
  /\ pc # "idle" /\ faults > 0 /\ faults' = faults - 1
  /\ Return
  /\ UNCHANGED <<want, vpcId, avars, touched, drifts>>

-----------------------------------------------------------------------------
(* Outsiders and users *)

Toggle(set, x) == IF x \in set THEN set \ {x} ELSE set \cup {x}

Drift ==
  /\ drifts > 0 /\ drifts' = drifts - 1 /\ touched' = TRUE
  /\ \/ /\ tagged' = FALSE /\ tagged
        /\ UNCHANGED <<rules, nodes, subnets, groups, used>>
     \/ /\ \E p \in Permissions : rules' = Toggle(rules, p)
        /\ UNCHANGED <<tagged, nodes, subnets, groups, used>>
     \/ /\ \E g \in NodeGroups : nodes' = Toggle(nodes, g)
        /\ UNCHANGED <<tagged, rules, subnets, groups, used>>
     \/ /\ vpcId # None
        /\ \E s \in Subnets : subnets' = Toggle(subnets, s) /\ Fits(subnets')
        /\ UNCHANGED <<tagged, rules, nodes, groups, used>>
     \/ /\ \E g \in Groups : groups' = Toggle(groups, g) /\ groups' # {}
        /\ UNCHANGED <<tagged, rules, nodes, subnets, used>>
     \/ /\ \E v \in Vpcs, n \in 0..MaxUse : used' = [used EXCEPT ![v] = n] /\ used' # used
        /\ UNCHANGED <<tagged, rules, nodes, subnets, groups>>
  /\ UNCHANGED <<want, vpcId, pc, locals, faults>>

UserEdits ==
  /\ drifts > 0 /\ drifts' = drifts - 1
  /\ want' \in Wants \ {want} /\ stale' = (pc # "idle")
  /\ UNCHANGED <<vpcId, avars, pc, mem, view, asked, seen, expected, touched, faults>>

-----------------------------------------------------------------------------
Init ==
  /\ want \in Wants /\ vpcId = None
  /\ tagged \in BOOLEAN /\ rules = {} /\ nodes \in SUBSET NodeGroups
  /\ subnets = {} /\ groups = OtherGroups
  /\ used = [v \in Vpcs |-> 0]
  /\ pc = "idle" /\ mem = None /\ stale = FALSE /\ view = {} /\ asked = Nothing
  /\ seen = NoEndpoint /\ expected = {}
  /\ touched = FALSE /\ drifts = MaxDrifts /\ faults = MaxFaults

Reconcile ==
  \/ Begin \/ Place \/ FindGroup \/ CreateTags \/ DescribeRules \/ GenerateMissing
  \/ AuthorizeIngress \/ AuthorizeEgress \/ DescribeEndpoint \/ Discover
  \/ RemoveSubnets \/ AddSubnets \/ AddGroups \/ RemoveGroups \/ Finish

Next == Reconcile \/ CallFails \/ Drift \/ UserEdits

Spec == Init /\ [][Next]_vars

FairSpec == Spec /\ WF_vars(Reconcile)

-----------------------------------------------------------------------------
Steps == {"idle", "place", "find", "tag", "describe", "generate", "ingress", "egress",
          "grouped", "discover", "remove", "add", "addGroup", "removeGroup", "ready"}

(* The variables have the types their declarations say. *)
TypeOK ==
  /\ want \in Wants /\ vpcId \in Vpcs \cup {None}
  /\ tagged \in BOOLEAN /\ rules \subseteq Permissions /\ nodes \subseteq NodeGroups
  /\ subnets \subseteq Subnets /\ groups \subseteq Groups
  /\ used \in [Vpcs -> 0..MaxUse]
  /\ pc \in Steps /\ mem \in Wants \cup {None} /\ (pc # "idle" => mem \in Wants)
  /\ stale \in BOOLEAN /\ view \subseteq Permissions
  /\ asked \in [ingress : SUBSET (Rules \X (Cidrs \cup NodeGroups)),
                egress : SUBSET (Rules \X (Cidrs \cup NodeGroups))]
  /\ seen \in [subnets : SUBSET Subnets, groups : SUBSET Groups]
  /\ expected \subseteq Subnets
  /\ touched \in BOOLEAN /\ drifts \in 0..MaxDrifts /\ faults \in 0..MaxFaults

(* The permissions a spec stands for *)
Granted(egress, list, w) ==
  {Permission(egress, q) : q \in {r \in list \X (Cidrs \cup NodeGroups) : r[2] \in Sources(w, r[1])}}

RulesDone(w) ==
  /\ vpcId # None /\ tagged
  /\ Granted(FALSE, w.ingress, w) \cup Granted(TRUE, w.egress, w) \subseteq rules

PlaceDone(w) == subnets = Expected(w) /\ groups = {OwnGroup}

(* When the controller is about to report the group or the endpoint as     *)
(* ready, and nobody else changed AWS during this Reconcile, everything    *)
(* the spec asks for is there, whatever was there before, whichever call   *)
(* failed in earlier Reconciles (validation.go:86-116, 232-258).           *)
ReadyMeansConfigured ==
  ~touched => /\ pc = "grouped" => RulesDone(mem)
              /\ pc = "ready" => PlaceDone(mem)

(* The authorization, "Not idempotent" (validation.go:92), is never asked  *)
(* for a permission the group has, also not after one of an earlier        *)
(* Reconcile was half done, unless an outsider added it meanwhile.         *)
AuthorizeOnlyMissing ==
  ~touched =>
    /\ pc = "ingress" => \A q \in asked.ingress : Permission(FALSE, q) \notin rules
    /\ pc \in {"ingress", "egress"} => \A q \in asked.egress : Permission(TRUE, q) \notin rules

(* Removing before adding "to avoid DuplicateSubnetsInSameZone"            *)
(* (helpers.go:742-743) does: if the expected subnets are in different     *)
(* zones of the VPC, AWS accepts the addition.                             *)
AdditionFits ==
  pc = "add" /\ ~touched /\ Fits(expected)
    => Fits(subnets \cup TwoWayDiff(seen.subnets, expected).create)

(* What is removed, computed from an endpoint described several calls      *)
(* before, is something AWS lets go: subnets the endpoint has, and groups  *)
(* it has that are not its last ones, because the operator's own group was *)
(* added first, whether or not the endpoint had it (helpers.go:744,        *)
(* 776-793).                                                               *)
RemovalFits ==
  ~touched =>
    /\ pc = "remove" => TwoWayDiff(seen.subnets, expected).delete \subseteq subnets
    /\ pc = "removeGroup" => Removable(TwoWayDiff(seen.groups, {OwnGroup}).delete)

(* The spec can be met: no two rules stand for one permission, a VPC can   *)
(* be chosen, and the subnets are in different zones of it                 *)
Unambiguous(egress, list, w) ==
  \A q, p \in {r \in list \X (Cidrs \cup NodeGroups) : r[2] \in Sources(w, r[1])} :
    Permission(egress, q) = Permission(egress, p) => q = p

Satisfiable(w) ==
  /\ vpcId # None \/ Choices(w) # {}
  /\ vpcId # None =>
       /\ Unambiguous(FALSE, w.ingress, w) /\ Unambiguous(TRUE, w.egress, w)
       /\ w.place # "subnets" => Searched(w) # {}
       /\ Fits(Expected(w))

(* A spec that can be met is met in the end and stays so, although calls   *)
(* fail between any two steps, which leaves rules half authorized or the   *)
(* endpoint without subnets, and outsiders undo parts of it.               *)
Converges ==
  \A w \in Wants :
    <>[](want = w /\ Satisfiable(w)) => <>[](RulesDone(w) /\ PlaceDone(w))
=============================================================================
