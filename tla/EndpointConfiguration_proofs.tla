-------------------- MODULE EndpointConfiguration_proofs --------------------
(***************************************************************************)
(* The configuration of security group and endpoint, for any VPCs, subnets,*)
(* rules and specs, and any number of faults and drifts.                   *)
(***************************************************************************)
EXTENDS EndpointConfiguration, TLAPS

(* After the placement the resource has a VPC *)
PlacedInv == pc \notin {"idle", "place"} => vpcId # None

(* From the description of the group to the condition: what was asked for  *)
(* was computed from the group's rules, and is authorized one half after   *)
(* the other                                                               *)
RulesInv ==
  /\ pc \in {"describe", "generate", "ingress", "egress", "grouped"} => tagged
  /\ pc \in {"generate", "ingress"} => view = rules
  /\ pc \in {"ingress", "egress"} =>
       /\ asked.ingress = Missing(FALSE, mem.ingress, mem)
       /\ asked.egress = Missing(TRUE, mem.egress, mem)
  /\ pc = "egress" => rules = view \cup {Permission(FALSE, q) : q \in asked.ingress}
  /\ pc = "grouped" => RulesDone(mem)

(* From the description of the endpoint to the condition: what has been    *)
(* removed and added, counted from the described endpoint                  *)
EndpointInv ==
  /\ pc \in {"discover", "remove"} => seen.subnets = subnets
  /\ pc \in {"discover", "remove", "add", "addGroup"} => seen.groups = groups
  /\ pc \in {"remove", "add"} => expected = Expected(mem)
  /\ pc = "add" => subnets = seen.subnets \cap expected
  /\ pc \in {"addGroup", "removeGroup"} => subnets = Expected(mem)
  /\ pc = "removeGroup" => groups = seen.groups \cup {OwnGroup}
  /\ pc = "ready" => PlaceDone(mem)

ConfigInv == PlacedInv /\ (~touched => RulesInv /\ EndpointInv)

-----------------------------------------------------------------------------
(* Types *)

Requests == SUBSET (Rules \X (Cidrs \cup NodeGroups))

(* The variables of a Reconcile *)
LocalOK ==
  /\ pc \in Steps /\ mem \in Wants \cup {None} /\ (pc # "idle" => mem \in Wants)
  /\ stale \in BOOLEAN /\ view \subseteq Permissions
  /\ asked \in [ingress : Requests, egress : Requests]
  /\ seen \in [subnets : SUBSET Subnets, groups : SUBSET Groups]
  /\ expected \subseteq Subnets

(* Spec, status and AWS *)
WorldOK ==
  /\ want \in Wants /\ vpcId \in Vpcs \cup {None}
  /\ tagged \in BOOLEAN /\ rules \subseteq Permissions /\ nodes \subseteq NodeGroups
  /\ subnets \subseteq Subnets /\ groups \subseteq Groups
  /\ used \in [Vpcs -> 0..MaxUse]
  /\ touched \in BOOLEAN /\ drifts \in 0..MaxDrifts /\ faults \in 0..MaxFaults

LEMMA TypeSplit == TypeOK <=> LocalOK /\ WorldOK
  BY DEF TypeOK, LocalOK, WorldOK, Requests

LEMMA TypeSplitNext == TypeOK' <=> LocalOK' /\ WorldOK'
  BY DEF TypeOK, LocalOK, WorldOK, Requests

LEMMA WantFields ==
  ASSUME NEW w \in Wants
  PROVE  /\ w.ingress \subseteq Rules /\ w.egress \subseteq Rules
         /\ w.ids \subseteq Vpcs /\ w.subnets \subseteq Subnets
  BY ConfigurationAssumption

LEMMA ReturnTypes == ASSUME Return PROVE LocalOK'
  BY DEF Return, LocalOK, Steps, Nothing, NoEndpoint, Requests

LEMMA GotoTypes ==
  ASSUME TypeOK, pc # "idle", NEW step \in Steps, Goto(step), UNCHANGED locals
  PROVE  LocalOK'
  BY TypeSplit DEF LocalOK, Goto, locals

(* What the placement and the search for subnets return *)
LEMMA PlacementTypes ==
  ASSUME NEW w \in Wants
  PROVE  Expected(w) \subseteq Subnets /\ Choices(w) \subseteq Vpcs
  <1>1. \A b : Autodiscovered(b) \subseteq Subnets
        BY DEF Autodiscovered
  <1>2. Searched(w) \subseteq Subnets
        BY <1>1 DEF Searched
  <1>3. Expected(w) \subseteq Subnets
        BY <1>2, WantFields DEF Expected
  <1>4. LeastUsed(CandidateVpcs(w)) \subseteq Vpcs
        BY WantFields, ConfigurationAssumption DEF LeastUsed, CandidateVpcs
  <1>5. \A s \in Subnets : NetOf[s].vpc \in Vpcs
        BY ConfigurationAssumption
  <1>6. {NetOf[s].vpc : s \in IF w.place = "auto" THEN Searched(w) ELSE w.subnets} \subseteq Vpcs
        BY <1>2, <1>5, WantFields
  <1> QED
      BY <1>3, <1>4, <1>6 DEF Choices

LEMMA MissingTypes ==
  ASSUME NEW e \in BOOLEAN, NEW list \in SUBSET Rules, NEW w
  PROVE  Missing(e, list, w) \in Requests
  BY DEF Missing, Requests

LEMMA PermissionTypes ==
  ASSUME NEW e \in BOOLEAN, NEW q \in Rules \X (Cidrs \cup NodeGroups)
  PROVE  Permission(e, q) \in Permissions
  BY DEF Permission, Permissions, Rules

LEMMA AuthorizeTypes ==
  ASSUME TypeOK, pc # "idle", NEW e \in BOOLEAN, NEW request \in Requests, NEW step \in Steps,
         Authorize(e, request, step)
  PROVE  TypeOK'
  <1>1. LocalOK'
        BY ReturnTypes, GotoTypes DEF Authorize
  <1>2. {Permission(e, q) : q \in request} \subseteq Permissions
        BY PermissionTypes DEF Requests
  <1>3. rules' \subseteq Permissions
        BY <1>2 DEF Authorize, TypeOK
  <1> QED
      BY <1>1, <1>3, TypeSplit, TypeSplitNext DEF Authorize, WorldOK

(* The placement and the rules of the security group *)
LEMMA GroupTypes ==
  ASSUME TypeOK,
         \/ Begin \/ Place \/ FindGroup \/ CreateTags \/ DescribeRules \/ GenerateMissing
         \/ AuthorizeIngress \/ AuthorizeEgress
  PROVE  TypeOK'
  <1> USE TypeSplit, TypeSplitNext
  <1>s. {"place", "find", "tag", "describe", "generate", "ingress", "egress", "grouped"}
          \subseteq Steps
        BY DEF Steps
  <1>m. pc # "idle" => mem \in Wants
        BY DEF TypeOK
  <1>1. CASE Begin
        BY <1>1, <1>s DEF Begin, Goto, avars, TypeOK
  <1>2. CASE Place
    <2>1. LocalOK'
          BY <1>2, <1>s, ReturnTypes, GotoTypes DEF Place
    <2>2. vpcId' \in Vpcs \cup {None}
          BY <1>2, <1>m, PlacementTypes DEF Place, TypeOK
    <2> QED
        BY <1>2, <2>1, <2>2 DEF Place, avars, WorldOK
  <1>3. CASE FindGroup
    <2>1. LocalOK'
          BY <1>3, <1>s, GotoTypes DEF FindGroup
    <2> QED
        BY <1>3, <2>1 DEF FindGroup, avars, WorldOK
  <1>4. CASE CreateTags
    <2>1. LocalOK'
          BY <1>4, <1>s, GotoTypes DEF CreateTags
    <2> QED
        BY <1>4, <2>1 DEF CreateTags, WorldOK
  <1>5. CASE DescribeRules
        BY <1>5, <1>s DEF DescribeRules, Goto, avars, TypeOK
  <1>6. CASE GenerateMissing
    <2>1. mem.ingress \in SUBSET Rules /\ mem.egress \in SUBSET Rules
          BY <1>6, <1>m, WantFields DEF GenerateMissing
    <2>2. asked' \in [ingress : Requests, egress : Requests]
          BY <1>6, <2>1, MissingTypes DEF GenerateMissing
    <2> QED
        BY <1>6, <1>s, <2>2 DEF GenerateMissing, Goto, avars, LocalOK, WorldOK
  <1>7. asked.ingress \in Requests /\ asked.egress \in Requests
        BY DEF LocalOK
  <1>8. CASE AuthorizeIngress
        BY <1>8, <1>7, <1>s, AuthorizeTypes DEF AuthorizeIngress
  <1>9. CASE AuthorizeEgress
        BY <1>9, <1>7, <1>s, AuthorizeTypes DEF AuthorizeEgress
  <1> QED
      BY <1>1, <1>2, <1>3, <1>4, <1>5, <1>6, <1>8, <1>9

(* Subnets and security groups of the endpoint *)
LEMMA EndpointTypes ==
  ASSUME TypeOK,
         \/ DescribeEndpoint \/ Discover \/ RemoveSubnets \/ AddSubnets \/ AddGroups
         \/ RemoveGroups \/ Finish
  PROVE  TypeOK'
  <1> USE TypeSplit, TypeSplitNext DEF TwoWayDiff
  <1>s. {"discover", "remove", "add", "addGroup", "removeGroup", "ready"} \subseteq Steps
        BY DEF Steps
  <1>m. pc # "idle" => mem \in Wants
        BY DEF TypeOK
  <1>1. CASE DescribeEndpoint
    <2>1. LocalOK'
          BY <1>1, <1>s, ReturnTypes DEF DescribeEndpoint, Goto, TypeOK, LocalOK
    <2> QED
        BY <1>1, <2>1 DEF DescribeEndpoint, avars, WorldOK
  <1>2. CASE Discover
    <2>1. Expected(mem) \subseteq Subnets
          BY <1>2, <1>m, PlacementTypes DEF Discover
    <2>2. LocalOK'
          BY <1>2, <2>1, <1>s, ReturnTypes DEF Discover, Goto, LocalOK
    <2> QED
        BY <1>2, <2>2 DEF Discover, avars, WorldOK
  <1>3. CASE RemoveSubnets
    <2>1. LocalOK'
          BY <1>3, <1>s, ReturnTypes, GotoTypes DEF RemoveSubnets
    <2> QED
        BY <1>3, <2>1 DEF RemoveSubnets, WorldOK
  <1>4. CASE AddSubnets
    <2>1. LocalOK'
          BY <1>4, <1>s, ReturnTypes, GotoTypes DEF AddSubnets
    <2>2. subnets' \subseteq Subnets
          BY <1>4 DEF AddSubnets, TypeOK
    <2> QED
        BY <1>4, <2>1, <2>2 DEF AddSubnets, WorldOK
  <1>5. CASE AddGroups
    <2>1. LocalOK'
          BY <1>5, <1>s, GotoTypes DEF AddGroups
    <2>2. groups' \subseteq Groups
          BY <1>5 DEF AddGroups, TypeOK, Groups
    <2> QED
        BY <1>5, <2>1, <2>2 DEF AddGroups, WorldOK
  <1>6. CASE RemoveGroups
    <2>1. LocalOK'
          BY <1>6, <1>s, ReturnTypes, GotoTypes DEF RemoveGroups
    <2> QED
        BY <1>6, <2>1 DEF RemoveGroups, WorldOK
  <1>7. CASE Finish
        BY <1>7, ReturnTypes DEF Finish, avars, WorldOK
  <1> QED
      BY <1>1, <1>2, <1>3, <1>4, <1>5, <1>6, <1>7

(* Faults, outsiders and users *)
LEMMA OutsideTypes ==
  ASSUME TypeOK, CallFails \/ Drift \/ UserEdits
  PROVE  TypeOK'
  <1> USE TypeSplit, TypeSplitNext, ConfigurationAssumption
  <1>1. CASE CallFails
        BY <1>1, ReturnTypes DEF CallFails, avars, WorldOK
  <1>2. CASE Drift
    <2>t. \A S, T, x : S \subseteq T /\ x \in T => Toggle(S, x) \subseteq T
          BY DEF Toggle
    <2>1. rules' \subseteq Permissions /\ nodes' \subseteq NodeGroups
          BY <1>2, <2>t DEF Drift, TypeOK
    <2>2. subnets' \subseteq Subnets /\ groups' \subseteq Groups
          BY <1>2, <2>t DEF Drift, TypeOK
    <2>3. used' \in [Vpcs -> 0..MaxUse] /\ tagged' \in BOOLEAN
      <3>1. ASSUME NEW v \in Vpcs, NEW n \in 0..MaxUse, used' = [used EXCEPT ![v] = n]
            PROVE  used' \in [Vpcs -> 0..MaxUse]
            BY <3>1 DEF TypeOK
      <3>2. used' = used => used' \in [Vpcs -> 0..MaxUse]
            BY DEF TypeOK
      <3>3. tagged' \in BOOLEAN
            BY <1>2 DEF Drift, TypeOK
      <3> QED
          BY <1>2, <3>1, <3>2, <3>3 DEF Drift
    <2>4. LocalOK'
          BY <1>2 DEF Drift, locals, LocalOK
    <2> QED
        BY <1>2, <2>1, <2>2, <2>3, <2>4 DEF Drift, WorldOK
  <1>3. CASE UserEdits
    <2>1. stale' \in BOOLEAN
          BY <1>3, Zenon DEF UserEdits
    <2> QED
        BY <1>3, <2>1 DEF UserEdits, avars, LocalOK, WorldOK
  <1> QED
      BY <1>1, <1>2, <1>3

LEMMA InitTypes == Init => TypeOK
  <1> SUFFICES ASSUME Init PROVE TypeOK
      OBVIOUS
  <1>1. LocalOK
        BY DEF Init, LocalOK, Steps, Nothing, NoEndpoint, Requests
  <1>2. used \in [Vpcs -> 0..MaxUse] /\ drifts \in 0..MaxDrifts /\ faults \in 0..MaxFaults
        BY ConfigurationAssumption DEF Init
  <1>3. groups \subseteq Groups
        BY DEF Init, Groups
  <1> QED
      BY <1>1, <1>2, <1>3, TypeSplit DEF Init, WorldOK

LEMMA StepTypes == TypeOK /\ [Next]_vars => TypeOK'
  <1>1. ASSUME TypeOK, UNCHANGED vars PROVE TypeOK'
        BY <1>1 DEF TypeOK, vars
  <1> QED
      BY <1>1, GroupTypes, EndpointTypes, OutsideTypes DEF Next, Reconcile

(* Every step of the configuration, of outsiders and of users keeps the    *)
(* types of all variables; a Reconcile under way has a copy of the spec    *)
(* (validation.go:66-258, helpers.go:371-800).                             *)
THEOREM ConfigurationTypes == Spec => []TypeOK
  BY InitTypes, StepTypes, PTL DEF Spec

-----------------------------------------------------------------------------
(* What a Reconcile that nobody disturbs has done so far *)

(* A rule's permission is in the description or in the request *)
LEMMA MissingGrants ==
  ASSUME view \subseteq Permissions, NEW e \in BOOLEAN, NEW list \in SUBSET Rules, NEW w
  PROVE  Granted(e, list, w) \subseteq view \cup {Permission(e, q) : q \in Missing(e, list, w)}
  <1> SUFFICES ASSUME NEW q \in list \X (Cidrs \cup NodeGroups), q[2] \in Sources(w, q[1]),
                      q \notin Missing(e, list, w)
               PROVE  Permission(e, q) \in view
      BY DEF Granted
  <1>1. PICK p \in view : Candidate(e, q[1], q[2], p)
        BY DEF Missing
  <1>2. p \in Permissions
        BY <1>1
  <1>3. p = Permission(e, q)
        BY <1>1, <1>2 DEF Candidate, Permission, Permissions
  <1> QED
      BY <1>1, <1>3

(* What is requested is not in the description *)
LEMMA MissingIsMissing ==
  ASSUME NEW e \in BOOLEAN, NEW list \in SUBSET Rules, NEW w, NEW q \in Missing(e, list, w)
  PROVE  Permission(e, q) \notin view
  BY DEF Missing, Candidate, Permission

LEMMA SameRules ==
  ASSUME UNCHANGED <<vpcId, nodes, view, mem>>
  PROVE  /\ Missing(FALSE, mem.ingress, mem)' = Missing(FALSE, mem.ingress, mem)
         /\ Missing(TRUE, mem.egress, mem)' = Missing(TRUE, mem.egress, mem)
         /\ Granted(FALSE, mem.ingress, mem)' = Granted(FALSE, mem.ingress, mem)
         /\ Granted(TRUE, mem.egress, mem)' = Granted(TRUE, mem.egress, mem)
  BY DEF Missing, Granted, Sources

LEMMA SameExpected ==
  ASSUME UNCHANGED <<vpcId, mem>>
  PROVE  Expected(mem)' = Expected(mem)
  BY DEF Expected, InPlace

LEMMA IdleInv == ASSUME pc' = "idle" PROVE ConfigInv'
  BY DEF ConfigInv, PlacedInv, RulesInv, EndpointInv

LEMMA ReturnIdle == Return => pc' = "idle"
  BY DEF Return

LEMMA GroupInv ==
  ASSUME TypeOK, ConfigInv,
         \/ Begin \/ Place \/ FindGroup \/ CreateTags \/ DescribeRules \/ GenerateMissing
         \/ AuthorizeIngress \/ AuthorizeEgress
  PROVE  ConfigInv'
  <1>1. CASE Begin \/ FindGroup \/ CreateTags \/ DescribeRules
        BY <1>1 DEF Begin, FindGroup, CreateTags, DescribeRules, Goto, avars, locals,
           ConfigInv, PlacedInv, RulesInv, EndpointInv
  <1>2. CASE Place
    <2>1. CASE Return
          BY <2>1, IdleInv, ReturnIdle
    <2>2. CASE vpcId' \in Choices(mem) /\ Goto("find")
      <3>1. vpcId' # None
            BY <1>2, <2>2, PlacementTypes, ConfigurationAssumption DEF Place, TypeOK
      <3> QED
          BY <2>2, <3>1 DEF Goto, ConfigInv, PlacedInv, RulesInv, EndpointInv
    <2> QED
        BY <1>2, <2>1, <2>2 DEF Place
  <1>3. CASE GenerateMissing
    <2>1. /\ pc = "generate" /\ pc' = "ingress" /\ UNCHANGED <<vpcId, nodes, view, mem, touched>>
          /\ UNCHANGED <<tagged, rules>>
          /\ asked'.ingress = Missing(FALSE, mem.ingress, mem)
          /\ asked'.egress = Missing(TRUE, mem.egress, mem)
          BY <1>3 DEF GenerateMissing, Goto, avars
    <2> QED
        BY <2>1, SameRules DEF ConfigInv, PlacedInv, RulesInv, EndpointInv
  <1>4. CASE AuthorizeIngress
    <2>1. CASE Return
          BY <2>1, IdleInv, ReturnIdle
    <2>2. CASE rules' = rules \cup {Permission(FALSE, q) : q \in asked.ingress}
               /\ Goto("egress") /\ UNCHANGED locals
      <3>1. UNCHANGED <<vpcId, nodes, view, mem, touched, tagged, asked>>
            BY <1>4, <2>2 DEF AuthorizeIngress, Authorize, locals
      <3> QED
          BY <1>4, <2>2, <3>1, SameRules
          DEF AuthorizeIngress, Goto, ConfigInv, PlacedInv, RulesInv, EndpointInv, Permission
    <2> QED
        BY <1>4, <2>1, <2>2 DEF AuthorizeIngress, Authorize
  <1>5. CASE AuthorizeEgress
    <2>1. CASE Return
          BY <2>1, IdleInv, ReturnIdle
    <2>2. CASE rules' = rules \cup {Permission(TRUE, q) : q \in asked.egress}
               /\ Goto("grouped") /\ UNCHANGED locals
      <3>1. UNCHANGED <<vpcId, nodes, view, mem, touched, tagged, asked>> /\ pc = "egress"
            BY <1>5, <2>2 DEF AuthorizeEgress, Authorize, locals
      <3>2. /\ mem.ingress \in SUBSET Rules /\ mem.egress \in SUBSET Rules
            /\ view \subseteq Permissions
            BY <3>1, WantFields DEF TypeOK
      <3>3. ASSUME ~touched
            PROVE  Granted(FALSE, mem.ingress, mem) \cup Granted(TRUE, mem.egress, mem)
                     \subseteq rules'
        <4>1. /\ asked.ingress = Missing(FALSE, mem.ingress, mem)
              /\ asked.egress = Missing(TRUE, mem.egress, mem)
              /\ rules = view \cup {Permission(FALSE, q) : q \in asked.ingress}
              BY <3>1, <3>3 DEF ConfigInv, RulesInv
        <4>2. Granted(FALSE, mem.ingress, mem)
                \subseteq view \cup {Permission(FALSE, q) : q \in asked.ingress}
              BY <3>2, <4>1, MissingGrants
        <4>3. Granted(TRUE, mem.egress, mem)
                \subseteq view \cup {Permission(TRUE, q) : q \in asked.egress}
              BY <3>2, <4>1, MissingGrants
        <4> QED
            BY <2>2, <4>1, <4>2, <4>3
      <3>4. ~touched => RulesDone(mem)'
            BY <3>1, <3>3, SameRules DEF ConfigInv, PlacedInv, RulesInv, RulesDone
      <3> QED
          BY <2>2, <3>1, <3>4 DEF Goto, ConfigInv, PlacedInv, RulesInv, EndpointInv
    <2> QED
        BY <1>5, <2>1, <2>2 DEF AuthorizeEgress, Authorize
  <1> QED
      BY <1>1, <1>2, <1>3, <1>4, <1>5

LEMMA EndpointStepInv ==
  ASSUME TypeOK, ConfigInv,
         \/ DescribeEndpoint \/ Discover \/ RemoveSubnets \/ AddSubnets \/ AddGroups
         \/ RemoveGroups \/ Finish
  PROVE  ConfigInv'
  <1>r. CASE Return
        BY <1>r, IdleInv, ReturnIdle
  <1>1. CASE DescribeEndpoint /\ ~Return
    <2>1. /\ pc = "grouped" /\ pc' = "discover"
          /\ seen'.subnets = subnets /\ seen'.groups = groups
          /\ UNCHANGED <<vpcId, subnets, groups>>
          BY <1>1 DEF DescribeEndpoint, Goto, avars
    <2> QED
        BY <2>1 DEF ConfigInv, PlacedInv, RulesInv, EndpointInv
  <1>2. CASE Discover /\ ~Return
    <2>1. /\ pc = "discover" /\ pc' = "remove" /\ expected' = Expected(mem)
          /\ UNCHANGED <<vpcId, mem, touched, seen, subnets, groups>>
          BY <1>2 DEF Discover, Goto, avars
    <2> QED
        BY <2>1, SameExpected DEF ConfigInv, PlacedInv, RulesInv, EndpointInv
  <1>3. CASE RemoveSubnets /\ ~Return
    <2>1. /\ pc = "remove" /\ pc' = "add" /\ subnets' = subnets \ (seen.subnets \ expected)
          /\ UNCHANGED <<vpcId, mem, touched, seen, expected, groups>>
          BY <1>3 DEF RemoveSubnets, TwoWayDiff, Goto, locals
    <2>2. seen.subnets = subnets => subnets' = seen.subnets \cap expected
          BY <2>1
    <2> QED
        BY <2>1, <2>2, SameExpected DEF ConfigInv, PlacedInv, RulesInv, EndpointInv
  <1>4. CASE AddSubnets /\ ~Return
    <2>1. /\ pc = "add" /\ pc' = "addGroup" /\ subnets' = subnets \cup (expected \ seen.subnets)
          /\ UNCHANGED <<vpcId, mem, touched, seen, expected, groups>>
          BY <1>4 DEF AddSubnets, TwoWayDiff, Goto, locals
    <2>2. subnets = seen.subnets \cap expected => subnets' = expected
          BY <2>1
    <2> QED
        BY <2>1, <2>2, SameExpected DEF ConfigInv, PlacedInv, RulesInv, EndpointInv
  <1>5. CASE AddGroups
    <2>1. /\ pc = "addGroup" /\ pc' = "removeGroup"
          /\ groups' = groups \cup ({OwnGroup} \ seen.groups)
          /\ UNCHANGED <<vpcId, mem, touched, seen, subnets>>
          BY <1>5 DEF AddGroups, TwoWayDiff, Goto, locals
    <2>2. seen.groups = groups => groups' = seen.groups \cup {OwnGroup}
          BY <2>1
    <2> QED
        BY <2>1, <2>2, SameExpected DEF ConfigInv, PlacedInv, RulesInv, EndpointInv
  <1>6. CASE RemoveGroups /\ ~Return
    <2>1. /\ pc = "removeGroup" /\ pc' = "ready"
          /\ groups' = groups \ (seen.groups \ {OwnGroup})
          /\ UNCHANGED <<vpcId, mem, touched, seen, subnets>>
          BY <1>6 DEF RemoveGroups, TwoWayDiff, Goto, locals
    <2>2. groups = seen.groups \cup {OwnGroup} => groups' = {OwnGroup}
          BY <2>1
    <2> QED
        BY <2>1, <2>2, SameExpected
        DEF ConfigInv, PlacedInv, RulesInv, EndpointInv, PlaceDone
  <1> QED
      BY <1>r, <1>1, <1>2, <1>3, <1>4, <1>5, <1>6 DEF Finish

LEMMA OutsideInv ==
  ASSUME TypeOK, ConfigInv, CallFails \/ Drift \/ UserEdits
  PROVE  ConfigInv'
  <1>1. CASE CallFails
        BY <1>1, IdleInv, ReturnIdle DEF CallFails
  <1>2. CASE Drift
        BY <1>2 DEF Drift, ConfigInv, PlacedInv
  <1>3. CASE UserEdits
    <2>1. UNCHANGED <<vpcId, avars, pc, mem, view, asked, seen, expected, touched>>
          BY <1>3 DEF UserEdits
    <2> QED
        BY <2>1, SameRules, SameExpected
        DEF avars, ConfigInv, PlacedInv, RulesInv, EndpointInv, RulesDone, PlaceDone
  <1> QED
      BY <1>1, <1>2, <1>3

LEMMA StepInv == TypeOK /\ ConfigInv /\ [Next]_vars => ConfigInv'
  <1>1. ASSUME ConfigInv, UNCHANGED vars PROVE ConfigInv'
        BY <1>1, SameRules, SameExpected
        DEF vars, ConfigInv, PlacedInv, RulesInv, EndpointInv, RulesDone, PlaceDone
  <1> QED
      BY <1>1, GroupInv, EndpointStepInv, OutsideInv DEF Next, Reconcile

(* Between the description of the group and the report of the endpoint a   *)
(* Reconcile that no outsider disturbed knows what AWS has: the rules it   *)
(* asked for are those missing from the description, and what it removed   *)
(* and added is what separated the described endpoint from the expected    *)
(* one (validation.go:66-258, helpers.go:371-800).                         *)
THEOREM ConfigurationCorrect == Spec => [](TypeOK /\ ConfigInv)
  <1>1. Init => ConfigInv
        BY DEF Init, ConfigInv, PlacedInv, RulesInv, EndpointInv
  <1>2. TypeOK /\ ConfigInv /\ [Next]_vars => (TypeOK /\ ConfigInv)'
        BY StepTypes, StepInv
  <1> QED
      BY <1>1, <1>2, InitTypes, PTL DEF Spec

(* When the controller reports the group or the endpoint as ready, what    *)
(* the spec asks for is there, whatever AWS had before and wherever an     *)
(* earlier Reconcile stopped, unless somebody else changed AWS during the  *)
(* Reconcile (validation.go:86-116, 232-258).                              *)
THEOREM ReadyConfigured == Spec => []ReadyMeansConfigured
  <1>1. ConfigInv => ReadyMeansConfigured
        BY DEF ConfigInv, RulesInv, EndpointInv, ReadyMeansConfigured
  <1> QED
      BY <1>1, ConfigurationCorrect, PTL

(* A permission that the group has is not authorized again, whichever half *)
(* of an earlier authorization was done (validation.go:92,                 *)
(* helpers.go:371-470).                                                    *)
THEOREM OnlyMissingAuthorized == Spec => []AuthorizeOnlyMissing
  <1>1. ASSUME TypeOK, ConfigInv PROVE AuthorizeOnlyMissing
    <2> SUFFICES ASSUME ~touched, pc \in {"ingress", "egress"}
                 PROVE  /\ pc = "ingress" =>
                             \A q \in asked.ingress : Permission(FALSE, q) \notin rules
                        /\ \A q \in asked.egress : Permission(TRUE, q) \notin rules
        BY DEF AuthorizeOnlyMissing
    <2>1. mem.ingress \in SUBSET Rules /\ mem.egress \in SUBSET Rules
          BY <1>1, WantFields DEF TypeOK
    <2>2. /\ asked.ingress = Missing(FALSE, mem.ingress, mem)
          /\ asked.egress = Missing(TRUE, mem.egress, mem)
          /\ pc = "ingress" => view = rules
          /\ pc = "egress" => rules = view \cup {Permission(FALSE, q) : q \in asked.ingress}
          BY <1>1 DEF ConfigInv, RulesInv
    <2>3. /\ \A q \in asked.ingress : Permission(FALSE, q) \notin view
          /\ \A q \in asked.egress : Permission(TRUE, q) \notin view
          BY <2>1, <2>2, MissingIsMissing
    <2>4. \A q, p : Permission(TRUE, q) # Permission(FALSE, p)
          BY DEF Permission
    <2> QED
        BY <2>2, <2>3, <2>4
  <1> QED
      BY <1>1, ConfigurationCorrect, PTL

(* Because what is not expected is removed first, the addition leaves the  *)
(* endpoint with exactly the expected subnets: if those are in different   *)
(* zones of the VPC, AWS accepts it (helpers.go:742-765).                  *)
THEOREM AdditionAccepted == Spec => []AdditionFits
  <1>1. ASSUME ConfigInv PROVE AdditionFits
    <2> SUFFICES ASSUME pc = "add", ~touched, Fits(expected)
                 PROVE  Fits(subnets \cup TwoWayDiff(seen.subnets, expected).create)
        BY DEF AdditionFits
    <2>1. subnets = seen.subnets \cap expected
          BY <1>1 DEF ConfigInv, EndpointInv
    <2>2. subnets \cup TwoWayDiff(seen.subnets, expected).create = expected
          BY <2>1 DEF TwoWayDiff
    <2> QED
        BY <2>2
  <1> QED
      BY <1>1, ConfigurationCorrect, PTL

(* AWS accepts what the controller asks to remove: the described subnets   *)
(* are still the endpoint's, and since its own group was added before, the *)
(* groups it removes are not the last ones (helpers.go:744, 776-793).      *)
THEOREM RemovalAccepted == Spec => []RemovalFits
  <1>1. ASSUME ConfigInv PROVE RemovalFits
    <2>1. ASSUME ~touched, pc = "remove"
          PROVE  TwoWayDiff(seen.subnets, expected).delete \subseteq subnets
      <3>1. seen.subnets = subnets
            BY <1>1, <2>1 DEF ConfigInv, EndpointInv
      <3> QED
          BY <3>1 DEF TwoWayDiff
    <2>2. ASSUME ~touched, pc = "removeGroup"
          PROVE  Removable(TwoWayDiff(seen.groups, {OwnGroup}).delete)
      <3>1. groups = seen.groups \cup {OwnGroup}
            BY <1>1, <2>2 DEF ConfigInv, EndpointInv
      <3>2. TwoWayDiff(seen.groups, {OwnGroup}).delete = seen.groups \ {OwnGroup}
            BY DEF TwoWayDiff
      <3>3. OwnGroup \in groups \ (seen.groups \ {OwnGroup})
            BY <3>1
      <3> QED
          BY <3>1, <3>2, <3>3 DEF Removable
    <2> QED
        BY <2>1, <2>2 DEF RemovalFits
  <1> QED
      BY <1>1, ConfigurationCorrect, PTL
=============================================================================
