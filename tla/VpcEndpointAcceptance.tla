----------------------- MODULE VpcEndpointAcceptance -----------------------
(***************************************************************************)
(* The VpcEndpointAcceptance controller (controllers/vpcendpointacceptance)*)
(* on the provider's side of a VPC endpoint service: every minute it polls *)
(* AWS for connections that wait for acceptance and accepts the ones its   *)
(* criteria allow.                                                         *)
(*                                                                         *)
(* The resource and the Account objects its criteria refer to are read     *)
(* from informer caches that lag on their own; the connections are polled  *)
(* once and may change before the batch is accepted.  One worker serves    *)
(* all resources.                                                          *)
(***************************************************************************)
EXTENDS Naturals, FiniteSets

CONSTANTS
  Resources,     \* VpcEndpointAcceptance resources
  Connections,   \* VPC endpoint connections
  Services,      \* VPC endpoint services
  Accounts,      \* AWS accounts
  AccountSpaces, \* Kubernetes namespaces with Account objects
  ServiceOf,     \* the service of a connection
  OwnerOf,       \* the account that asks for a connection
  None,          \* an empty spec.id; no namespace; no resource
  MaxEdits,      \* bound: changes of resources and of Account objects
  MaxFaults      \* bound: failed calls, unsuccessful items and restarts

ASSUME AcceptanceAssumption ==
  /\ ServiceOf \in [Connections -> Services]
  /\ OwnerOf \in [Connections -> Accounts]
  /\ None \notin Services /\ None \notin AccountSpaces /\ None \notin Resources
  /\ MaxEdits \in Nat /\ MaxFaults \in Nat

VARIABLES
  objects,    \* the resources in the API server
  cache,      \* the informer's copies
  accounts,   \* the Account objects, <<namespace, AWS account>>
  listed,     \* the informer's copy of them
  conns,      \* the state of each connection in AWS
  queue,      \* requests in the work queue
  delayed,    \* requests that are added to it later
  pc,         \* where Reconcile is
  cur, mem,   \* the resource Reconcile works on, and its copy of it
  left,       \* polled connections still to judge
  chosen,     \* vpceToAccept
  polled,     \* history: connections that waited when this Reconcile polled
  heard,      \* history: Account objects the cache had during this Reconcile
  edits, faults

kvars == <<objects, cache, accounts, listed>>
qvars == <<queue, delayed>>
rvars == <<pc, cur, mem, left, chosen>>
vars == <<objects, cache, accounts, listed, conns, queue, delayed, pc, cur, mem, left,
          chosen, polled, heard, edits, faults>>

(* spec.id, alwaysAccept and awsAccountOperatorAccount.namespace *)
Objects ==
  [st : {"absent", "live", "deleting"}, id : Services \cup {None},
   always : BOOLEAN, space : AccountSpaces \cup {None}]

NoObject == [st |-> "absent", id |-> None, always |-> FALSE, space |-> None]

ConnectionStates == {"none", "pendingAcceptance", "available", "rejected", "deleted"}
Pending(c) == conns[c] = "pendingAcceptance"

-----------------------------------------------------------------------------
(* Reconcile *)

Idle ==
  /\ pc' = "idle" /\ cur' = None /\ mem' = NoObject /\ left' = {} /\ chosen' = {}
  /\ polled' = {} /\ heard' = {}

(* Mutant: no RequeueAfter *)
ReturnForgotten == Idle /\ UNCHANGED qvars

(* Both RequeueAfter and the rate limiter bring the request back later *)
Return == Idle /\ delayed' = delayed \cup {cur} /\ UNCHANGED queue

(* The resource is not found or being deleted: no requeue *)
Ignore(r) ==
  /\ pc = "idle" /\ r \in queue /\ cache[r].st # "live"
  /\ queue' = queue \ {r}
  /\ UNCHANGED <<kvars, conns, delayed, rvars, polled, heard, edits, faults>>

(* Mutant: the request's name is not kept *)
BeginUnnamed(r) ==
  /\ pc = "idle" /\ r \in queue /\ cache[r].st = "live"
  /\ queue' = queue \ {r}
  /\ pc' = "poll" /\ mem' = cache[r]
  /\ polled' = {} /\ heard' = listed
  /\ UNCHANGED <<kvars, conns, delayed, cur, left, chosen, edits, faults>>

Begin(r) ==
  /\ pc = "idle" /\ r \in queue /\ cache[r].st = "live"
  /\ queue' = queue \ {r}
  /\ pc' = "poll" /\ cur' = r /\ mem' = cache[r]
  /\ polled' = {} /\ heard' = listed
  /\ UNCHANGED <<kvars, conns, delayed, left, chosen, edits, faults>>

(* Mutant: the connections are not filtered by their state *)
PollAnyState ==
  /\ pc = "poll"
  /\ pc' = "judge" /\ left' = {c \in Connections : ServiceOf[c] = mem.id}
  /\ polled' = {c \in Connections : Pending(c)}
  /\ UNCHANGED <<kvars, conns, qvars, cur, mem, chosen, heard, edits, faults>>

(* GetVpcEndpointConnectionsPendingAcceptance; an empty id has none *)
Poll ==
  /\ pc = "poll"
  /\ pc' = "judge"
  /\ left' = {c \in Connections : ServiceOf[c] = mem.id /\ Pending(c)}
  /\ polled' = {c \in Connections : Pending(c)}
  /\ UNCHANGED <<kvars, conns, qvars, cur, mem, chosen, heard, edits, faults>>

(* Mutant: any account may connect once there is an Account object *)
JudgedByAnyAccount(c) == mem.always \/ \E a \in listed : a[1] = mem.space

(* The Account objects are listed anew for every connection *)
Judged(c) == mem.always \/ <<mem.space, OwnerOf[c]>> \in listed

Judge(c) ==
  /\ pc = "judge" /\ c \in left
  /\ left' = left \ {c}
  /\ chosen' = IF Judged(c) THEN chosen \cup {c} ELSE chosen
  /\ UNCHANGED <<kvars, conns, qvars, pc, cur, mem, polled, heard, edits, faults>>

(* AcceptVpcEndpointConnections, one call for all.  What cannot be accepted *)
(* is reported as unsuccessful, which nobody reads; whether a connection    *)
(* rejected meanwhile can is up to AWS.                                     *)
Accept ==
  /\ pc = "judge" /\ left = {}
  /\ \E done \in SUBSET {c \in chosen : conns[c] \in {"pendingAcceptance", "rejected"}} :
       /\ conns' = [c \in Connections |-> IF c \in done THEN "available" ELSE conns[c]]
       /\ IF \E c \in chosen \ done : Pending(c)
          THEN faults > 0 /\ faults' = faults - 1
          ELSE UNCHANGED faults
  /\ Return
  /\ UNCHANGED <<kvars, edits>>

CallFails ==
  /\ pc # "idle" /\ faults > 0 /\ faults' = faults - 1
  /\ Return
  /\ UNCHANGED <<kvars, conns, edits>>

(* The operator restarts: its caches are listed anew and wake it *)
Crash ==
  /\ faults > 0 /\ faults' = faults - 1
  /\ Idle
  /\ cache' = objects /\ listed' = accounts
  /\ queue' = {r \in Resources : objects[r].st # "absent"} /\ delayed' = {}
  /\ UNCHANGED <<objects, accounts, conns, edits>>

-----------------------------------------------------------------------------
(* Caches, the work queue, users, and the consumers' operators *)

TimerFires(r) ==
  /\ r \in delayed
  /\ delayed' = delayed \ {r} /\ queue' = queue \cup {r}
  /\ UNCHANGED <<kvars, conns, rvars, polled, heard, edits, faults>>

ResourceEvent(r) ==
  /\ cache[r] # objects[r]
  /\ cache' = [cache EXCEPT ![r] = objects[r]]
  /\ queue' = queue \cup {r}
  /\ UNCHANGED <<objects, accounts, listed, conns, delayed, rvars, polled, heard,
                 edits, faults>>

(* Nobody is woken by a change of an Account object *)
AccountSync ==
  /\ listed # accounts
  /\ listed' = accounts
  /\ heard' = IF pc = "idle" THEN {} ELSE heard \cup accounts
  /\ UNCHANGED <<objects, cache, accounts, conns, qvars, rvars, polled, edits, faults>>

SpendEdit == edits > 0 /\ edits' = edits - 1

(* A resource is created, edited or deleted; another's finalizer may hold it *)
UserChanges(r) ==
  /\ SpendEdit
  /\ \/ /\ objects[r].st # "deleting"
        /\ \E o \in Objects : o.st = "live" /\ o # objects[r]
                              /\ objects' = [objects EXCEPT ![r] = o]
     \/ /\ objects[r].st = "live"
        /\ objects' = [objects EXCEPT ![r].st = "deleting"]
     \/ /\ objects[r].st # "absent"
        /\ objects' = [objects EXCEPT ![r] = NoObject]
  /\ UNCHANGED <<cache, accounts, listed, conns, qvars, rvars, polled, heard, faults>>

AccountChanges(a) ==
  /\ SpendEdit
  /\ accounts' = IF a \in accounts THEN accounts \ {a} ELSE accounts \cup {a}
  /\ UNCHANGED <<objects, cache, listed, conns, qvars, rvars, polled, heard, faults>>

(* A consumer asks for a connection or gives it up; a person rejects it *)
ConnectionChanges(c) ==
  /\ \/ conns[c] = "none" /\ conns' = [conns EXCEPT ![c] = "pendingAcceptance"]
     \/ conns[c] \in {"pendingAcceptance", "available"}
        /\ conns' = [conns EXCEPT ![c] = "rejected"]
     \/ conns[c] \notin {"none", "deleted"} /\ conns' = [conns EXCEPT ![c] = "deleted"]
  /\ UNCHANGED <<kvars, qvars, rvars, polled, heard, edits, faults>>

-----------------------------------------------------------------------------
Init ==
  /\ objects \in [Resources -> {o \in Objects : o.st = "live"}] /\ cache = objects
  /\ accounts \in SUBSET (AccountSpaces \X Accounts) /\ listed = accounts
  /\ conns = [c \in Connections |-> "none"]
  /\ queue = Resources /\ delayed = {}
  /\ pc = "idle" /\ cur = None /\ mem = NoObject /\ left = {} /\ chosen = {}
  /\ polled = {} /\ heard = {}
  /\ edits = MaxEdits /\ faults = MaxFaults

Reconcile ==
  \/ \E r \in Resources : Ignore(r) \/ Begin(r)
  \/ Poll \/ (\E c \in Connections : Judge(c)) \/ Accept

Environment ==
  \/ CallFails \/ Crash \/ AccountSync
  \/ \E r \in Resources : TimerFires(r) \/ ResourceEvent(r) \/ UserChanges(r)
  \/ \E a \in AccountSpaces \X Accounts : AccountChanges(a)
  \/ \E c \in Connections : ConnectionChanges(c)

Next == Reconcile \/ Environment

Spec == Init /\ [][Next]_vars

(* The work queue is first in, first out: no request waits for ever *)
Fairness ==
  /\ WF_vars(Reconcile) /\ WF_vars(AccountSync)
  /\ \A r \in Resources :
       SF_vars(Ignore(r) \/ Begin(r)) /\ WF_vars(TimerFires(r)) /\ WF_vars(ResourceEvent(r))

FairSpec == Spec /\ Fairness

-----------------------------------------------------------------------------
(* The variables have the types their declarations say. *)
TypeOK ==
  /\ objects \in [Resources -> Objects] /\ cache \in [Resources -> Objects]
  /\ accounts \subseteq AccountSpaces \X Accounts /\ listed \subseteq AccountSpaces \X Accounts
  /\ conns \in [Connections -> ConnectionStates]
  /\ queue \subseteq Resources /\ delayed \subseteq Resources
  /\ pc \in {"idle", "poll", "judge"} /\ (pc # "idle" => cur \in Resources)
  /\ cur \in Resources \cup {None} /\ mem \in Objects
  /\ left \subseteq Connections /\ chosen \subseteq Connections
  /\ polled \subseteq Connections /\ heard \subseteq AccountSpaces \X Accounts
  /\ edits \in 0..MaxEdits /\ faults \in 0..MaxFaults

Accepted(c) == conns[c] # "available" /\ conns'[c] = "available"

(* A connection is accepted only for the service the resource named when   *)
(* this Reconcile read it, and only if the resource accepts everyone or    *)
(* the owner's Account object was in the cache at some moment of this      *)
(* Reconcile; resources, accounts and connections may change between the   *)
(* Get, the List of each connection and the call (lines 58-119).           *)
AcceptOnlyEntitled ==
  [][\A c \in Connections : Accepted(c) =>
       /\ ServiceOf[c] = mem.id
       /\ mem.always \/ <<mem.space, OwnerOf[c]>> \in heard]_vars

(* A rejection made before this Reconcile polled stands: only connections  *)
(* that waited at the poll are accepted (vpc_endpoint_service.go:52-73).   *)
RejectionStands ==
  [][\A c \in Connections : Accepted(c) => c \in polled]_vars

Wanted(r, c) ==
  /\ objects[r].st = "live" /\ objects[r].id = ServiceOf[c]
  /\ objects[r].always \/ <<objects[r].space, OwnerOf[c]>> \in accounts

(* A connection some resource goes on wanting does not wait for ever,      *)
(* although no event announces a connection or an Account object, calls    *)
(* fail and items of the batch are silently unsuccessful (lines 90-124).   *)
NoneWaitsForEver ==
  \A r \in Resources, c \in Connections :
    <>[]Wanted(r, c) => <>[]~Pending(c)
=============================================================================
