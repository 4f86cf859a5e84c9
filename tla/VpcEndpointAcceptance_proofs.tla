-------------------- MODULE VpcEndpointAcceptance_proofs --------------------
(***************************************************************************)
(* The acceptance controller's types, and what entitles a connection, for  *)
(* any number of resources, connections, accounts, edits and faults.       *)
(***************************************************************************)
EXTENDS VpcEndpointAcceptance, TLAPS

-----------------------------------------------------------------------------
(* Types *)

LEMMA NoObjectType == NoObject \in Objects
  BY DEF NoObject, Objects

LEMMA InitTypes == Init => TypeOK
  <1> SUFFICES ASSUME Init PROVE TypeOK
      OBVIOUS
  <1>1. objects \in [Resources -> Objects] /\ cache \in [Resources -> Objects]
        BY DEF Init
  <1>2. conns \in [Connections -> ConnectionStates]
        BY DEF Init, ConnectionStates
  <1> QED
      BY <1>1, <1>2, NoObjectType, AcceptanceAssumption DEF Init, TypeOK

(* What every step that ends a Reconcile leaves *)
LEMMA IdleTypes ==
  ASSUME Idle
  PROVE  /\ pc' = "idle" /\ cur' = None /\ mem' \in Objects
         /\ left' = {} /\ chosen' = {} /\ polled' = {} /\ heard' = {}
  BY NoObjectType DEF Idle

LEMMA ReturnTypes ==
  ASSUME TypeOK, Return, pc # "idle"
  PROVE  queue' \subseteq Resources /\ delayed' \subseteq Resources
  BY DEF TypeOK, Return

LEMMA ReconcileTypes ==
  ASSUME TypeOK, Reconcile
  PROVE  TypeOK'
  <1>1. ASSUME NEW r \in Resources, Ignore(r) PROVE TypeOK'
        BY <1>1 DEF TypeOK, Ignore, kvars, rvars
  <1>2. ASSUME NEW r \in Resources, Begin(r) PROVE TypeOK'
        BY <1>2 DEF TypeOK, Begin, kvars
  <1>3. CASE Poll
        BY <1>3 DEF TypeOK, Poll, kvars, qvars
  <1>4. ASSUME NEW c \in Connections, Judge(c) PROVE TypeOK'
        BY <1>4 DEF TypeOK, Judge, kvars, qvars
  <1>5. CASE Accept
    <2>1. PICK done \in SUBSET {c \in chosen : conns[c] \in {"pendingAcceptance", "rejected"}} :
            /\ conns' = [c \in Connections |-> IF c \in done THEN "available" ELSE conns[c]]
            /\ IF \E c \in chosen \ done : Pending(c)
               THEN faults > 0 /\ faults' = faults - 1
               ELSE UNCHANGED faults
          BY <1>5 DEF Accept
    <2>2. conns' \in [Connections -> ConnectionStates]
          BY <2>1 DEF TypeOK, ConnectionStates
    <2>3. faults' \in 0..MaxFaults
          BY <2>1, AcceptanceAssumption DEF TypeOK
    <2>4. Return /\ Idle /\ pc # "idle"
          BY <1>5 DEF Accept, Return
    <2> QED
        BY <1>5, <2>2, <2>3, <2>4, IdleTypes, ReturnTypes, AcceptanceAssumption
        DEF TypeOK, Accept, kvars
  <1> QED
      BY <1>1, <1>2, <1>3, <1>4, <1>5 DEF Reconcile

LEMMA EnvironmentTypes ==
  ASSUME TypeOK, Environment
  PROVE  TypeOK'
  <1>1. CASE CallFails
    <2>1. Return /\ Idle /\ pc # "idle"
          BY <1>1 DEF CallFails, Return
    <2>2. faults' \in 0..MaxFaults
          BY <1>1, AcceptanceAssumption DEF TypeOK, CallFails
    <2> QED
        BY <1>1, <2>1, <2>2, IdleTypes, ReturnTypes, AcceptanceAssumption
        DEF TypeOK, CallFails, kvars
  <1>2. CASE Crash
    <2>1. faults' \in 0..MaxFaults
          BY <1>2, AcceptanceAssumption DEF TypeOK, Crash
    <2>2. Idle
          BY <1>2 DEF Crash
    <2> QED
        BY <1>2, <2>1, <2>2, IdleTypes, AcceptanceAssumption DEF TypeOK, Crash
  <1>3. CASE AccountSync
        BY <1>3 DEF TypeOK, AccountSync, qvars, rvars
  <1>4. ASSUME NEW r \in Resources, TimerFires(r) PROVE TypeOK'
        BY <1>4 DEF TypeOK, TimerFires, kvars, rvars
  <1>5. ASSUME NEW r \in Resources, ResourceEvent(r) PROVE TypeOK'
        BY <1>5 DEF TypeOK, ResourceEvent, rvars
  <1>6. ASSUME NEW r \in Resources, UserChanges(r) PROVE TypeOK'
    <2>1. edits' \in 0..MaxEdits
          BY <1>6, AcceptanceAssumption DEF TypeOK, UserChanges, SpendEdit
    <2>2. objects' \in [Resources -> Objects]
      <3>1. CASE \E o \in Objects : objects' = [objects EXCEPT ![r] = o]
            BY <3>1 DEF TypeOK
      <3>2. CASE objects' = [objects EXCEPT ![r].st = "deleting"]
            BY <3>2 DEF TypeOK, Objects
      <3>3. CASE objects' = [objects EXCEPT ![r] = NoObject]
            BY <3>3, NoObjectType DEF TypeOK
      <3> QED
          BY <1>6, <3>1, <3>2, <3>3 DEF UserChanges
    <2> QED
        BY <1>6, <2>1, <2>2 DEF TypeOK, UserChanges, qvars, rvars
  <1>7. ASSUME NEW a \in AccountSpaces \X Accounts, AccountChanges(a) PROVE TypeOK'
    <2>1. edits' \in 0..MaxEdits
          BY <1>7, AcceptanceAssumption DEF TypeOK, AccountChanges, SpendEdit
    <2> QED
        BY <1>7, <2>1 DEF TypeOK, AccountChanges, qvars, rvars
  <1>8. ASSUME NEW c \in Connections, ConnectionChanges(c) PROVE TypeOK'
        BY <1>8 DEF TypeOK, ConnectionChanges, ConnectionStates, kvars, qvars, rvars
  <1> QED
      BY <1>1, <1>2, <1>3, <1>4, <1>5, <1>6, <1>7, <1>8 DEF Environment

LEMMA StepTypes == TypeOK /\ [Next]_vars => TypeOK'
  <1>1. ASSUME TypeOK, UNCHANGED vars PROVE TypeOK'
        BY <1>1 DEF TypeOK, vars
  <1> QED
      BY <1>1, ReconcileTypes, EnvironmentTypes DEF Next

(* Every step of the acceptance controller, of users, of AWS and of the    *)
(* caches keeps the types of all variables; a Reconcile under way has a    *)
(* resource (vpcendpointacceptance_controller.go:55-129).                  *)
THEOREM AcceptanceTypes == Spec => []TypeOK
  BY InitTypes, StepTypes, PTL DEF Spec

-----------------------------------------------------------------------------
(* Entitlement *)

(* What a Reconcile holds is of this Reconcile: the connections it judges  *)
(* waited at its poll and belong to its resource's service, the chosen     *)
(* ones were entitled by an Account object the cache had since it began.   *)
EntitledInv ==
  /\ pc \in {"idle", "poll"} => left = {} /\ chosen = {}
  /\ pc # "idle" => listed \subseteq heard
  /\ left \cup chosen \subseteq polled
  /\ \A c \in left \cup chosen : ServiceOf[c] = mem.id
  /\ \A c \in chosen : mem.always \/ <<mem.space, OwnerOf[c]>> \in heard

LEMMA IdleEntitled == Idle => EntitledInv'
  BY DEF Idle, EntitledInv

LEMMA ReconcileEntitled ==
  ASSUME TypeOK, EntitledInv, Reconcile
  PROVE  EntitledInv'
  <1>1. ASSUME NEW r \in Resources, Ignore(r) PROVE EntitledInv'
        BY <1>1 DEF EntitledInv, Ignore, kvars, rvars
  <1>2. ASSUME NEW r \in Resources, Begin(r) PROVE EntitledInv'
        BY <1>2 DEF EntitledInv, Begin, kvars
  <1>3. CASE Poll
        BY <1>3 DEF EntitledInv, Poll, kvars, TypeOK
  <1>4. ASSUME NEW c \in Connections, Judge(c) PROVE EntitledInv'
        BY <1>4 DEF EntitledInv, Judge, Judged, kvars
  <1>5. CASE Accept
        BY <1>5, IdleEntitled DEF Accept, Return
  <1> QED
      BY <1>1, <1>2, <1>3, <1>4, <1>5 DEF Reconcile

LEMMA EnvironmentEntitled ==
  ASSUME TypeOK, EntitledInv, Environment
  PROVE  EntitledInv'
  <1>1. CASE CallFails
        BY <1>1, IdleEntitled DEF CallFails, Return
  <1>2. CASE Crash
        BY <1>2, IdleEntitled DEF Crash
  <1>3. CASE AccountSync
        BY <1>3 DEF EntitledInv, AccountSync, rvars
  <1>4. ASSUME NEW r \in Resources, TimerFires(r) \/ ResourceEvent(r) \/ UserChanges(r)
        PROVE  EntitledInv'
        BY <1>4 DEF EntitledInv, TimerFires, ResourceEvent, UserChanges, kvars, rvars
  <1>5. ASSUME NEW a \in AccountSpaces \X Accounts, AccountChanges(a) PROVE EntitledInv'
        BY <1>5 DEF EntitledInv, AccountChanges, rvars
  <1>6. ASSUME NEW c \in Connections, ConnectionChanges(c) PROVE EntitledInv'
        BY <1>6 DEF EntitledInv, ConnectionChanges, kvars, rvars
  <1> QED
      BY <1>1, <1>2, <1>3, <1>4, <1>5, <1>6 DEF Environment

LEMMA StepEntitled == TypeOK /\ EntitledInv /\ [Next]_vars => EntitledInv'
  <1>1. ASSUME EntitledInv, UNCHANGED vars PROVE EntitledInv'
        BY <1>1 DEF EntitledInv, vars
  <1> QED
      BY <1>1, ReconcileEntitled, EnvironmentEntitled DEF Next

(* The inductive invariant of a batch: what left, chosen, polled and heard *)
(* have to do with each other while Reconcile judges.                      *)
THEOREM BatchCorrect == Spec => [](TypeOK /\ EntitledInv)
  <1>1. Init => EntitledInv
        BY DEF Init, EntitledInv
  <1> QED
      BY <1>1, InitTypes, StepTypes, StepEntitled, PTL DEF Spec

(* Only AcceptVpcEndpointConnections makes a connection available *)
LEMMA AcceptedByBatch ==
  ASSUME TypeOK, [Next]_vars, NEW c \in Connections, Accepted(c)
  PROVE  Accept /\ c \in chosen
  <1>1. UNCHANGED conns => FALSE
        BY DEF Accepted
  <1>2. ASSUME NEW d \in Connections, ConnectionChanges(d) PROVE FALSE
        BY <1>2 DEF ConnectionChanges, Accepted, TypeOK
  <1>3. ~Environment
        BY <1>1, <1>2 DEF Environment, CallFails, Crash, AccountSync, TimerFires,
           ResourceEvent, UserChanges, AccountChanges
  <1>4. Accept
        BY <1>1, <1>3 DEF Next, vars, Reconcile, Ignore, Begin, Poll, Judge
  <1>5. c \in chosen
        BY <1>4 DEF Accept, Accepted, TypeOK
  <1> QED
      BY <1>4, <1>5

(* Whatever changes between the Get, the List of each connection and the   *)
(* call, a connection is accepted only if this Reconcile saw it entitled.  *)
THEOREM OnlyEntitled == Spec => AcceptOnlyEntitled
  <1>1. ASSUME TypeOK, EntitledInv, [Next]_vars, NEW c \in Connections, Accepted(c)
        PROVE  /\ ServiceOf[c] = mem.id
               /\ mem.always \/ <<mem.space, OwnerOf[c]>> \in heard
        BY <1>1, AcceptedByBatch DEF EntitledInv
  <1>2. TypeOK /\ EntitledInv /\ [Next]_vars =>
          [\A c \in Connections : Accepted(c) =>
             /\ ServiceOf[c] = mem.id
             /\ mem.always \/ <<mem.space, OwnerOf[c]>> \in heard]_vars
        BY <1>1
  <1> QED
      BY <1>2, BatchCorrect, PTL DEF Spec, AcceptOnlyEntitled

(* A connection that did not wait at this Reconcile's poll, a rejected one *)
(* say, is not accepted by it.                                             *)
THEOREM RejectedStay == Spec => RejectionStands
  <1>1. ASSUME TypeOK, EntitledInv, [Next]_vars, NEW c \in Connections, Accepted(c)
        PROVE  c \in polled
        BY <1>1, AcceptedByBatch DEF EntitledInv
  <1>2. TypeOK /\ EntitledInv /\ [Next]_vars =>
          [\A c \in Connections : Accepted(c) => c \in polled]_vars
        BY <1>1
  <1> QED
      BY <1>2, BatchCorrect, PTL DEF Spec, RejectionStands
=============================================================================
