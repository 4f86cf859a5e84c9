------------------------ MODULE VpcEndpointTemplate ------------------------
(***************************************************************************)
(* The VpcEndpointTemplate controller (controllers/vpcendpointtemplate)    *)
(* reconciling one template of type HostedControlPlane: it wants a         *)
(* VpcEndpoint with the template's spec in the namespace of every hosted   *)
(* control plane, and none where the control plane or the template is      *)
(* being deleted.                                                          *)
(*                                                                         *)
(* Template, control planes and VpcEndpoints are each read from an         *)
(* informer cache that lags on its own; creations, updates and deletions   *)
(* go to the API server.  Changes of the first two wake the controller     *)
(* when they reach the cache, changes of VpcEndpoints do not.              *)
(***************************************************************************)
EXTENDS Naturals, FiniteSets

CONSTANTS
  Namespaces,  \* namespaces of hosted control planes
  None,        \* no namespace
  MaxSpecs,    \* bound: versions of the template's spec
  MaxTroubles  \* bound: failed calls, crashes, what users do to VpcEndpoints

ASSUME TemplateAssumption ==
  /\ None \notin Namespaces
  /\ MaxSpecs \in Nat \ {0} /\ MaxTroubles \in Nat

(* In each namespace there can be the VpcEndpoint named like the template, *)
(* which the controller creates, and one that a user made; both carry the  *)
(* labels of the template's selector.                                      *)
Keys == Namespaces \X {"own", "other"}

VARIABLES
  tpl,        \* the template in the API server
  tplCache,   \* the informer's copy
  tplSynced,  \* tplCache has the server's resource version
  hcps,       \* the hosted control planes
  hcpCache,   \* the informer's copies
  vpces,      \* the VpcEndpoints
  vpceCache,  \* the informer's copies
  stale,      \* VpcEndpoints whose copy has an old resource version
  queued,     \* the work queue holds the template's request
  pc,         \* where Reconcile is
  mem,        \* Reconcile's copy of the template
  fresh,      \* mem has the server's resource version
  todo,       \* control planes still to validate, and whether they are deleting
  dels,       \* VpcEndpoints still to delete
  after,      \* where to go when they are deleted
  target,     \* the namespace a VpcEndpoint is to be created in
  troubles    \* how many failures and user edits may still happen

tvars == <<tpl, tplCache, tplSynced>>
hvars == <<hcps, hcpCache>>
evars == <<vpces, vpceCache, stale>>
rvars == <<pc, mem, fresh, todo, dels, after, target>>
vars == <<tpl, tplCache, tplSynced, hcps, hcpCache, vpces, vpceCache, stale, queued,
          pc, mem, fresh, todo, dels, after, target, troubles>>

Specs == 1..MaxSpecs
Templates == [exists : BOOLEAN, deleting : BOOLEAN, finalizer : BOOLEAN, spec : Specs]
HcpStates == {"absent", "live", "deleting"}
Endpoints == [st : {"absent", "live", "deleting"}, spec : Specs]

NoTemplate == [exists |-> FALSE, deleting |-> FALSE, finalizer |-> FALSE, spec |-> 1]
NoEndpoint == [st |-> "absent", spec |-> 1]

Exists(e) == e.st # "absent"

(* The List of a namespace's VpcEndpoints with the selector's labels *)
Listed(ns) == {k \in Keys : k[1] = ns /\ Exists(vpceCache[k])}

-----------------------------------------------------------------------------
(* Reconcile *)

SpendTrouble == troubles > 0 /\ troubles' = troubles - 1

(* Reconcile returns; an error puts the request back into the queue *)
Done ==
  /\ pc' = "idle" /\ mem' = NoTemplate /\ fresh' = FALSE
  /\ todo' = {} /\ dels' = {} /\ after' = "idle" /\ target' = None

Return == Done /\ UNCHANGED queued
ReturnError == Done /\ queued' = TRUE

TemplateNotFound ==
  /\ pc = "idle" /\ queued /\ ~tplCache.exists
  /\ queued' = FALSE
  /\ UNCHANGED <<tvars, hvars, evars, rvars, troubles>>

(* Mutant: the error of the finalizer's Update is dropped *)
TemplateRegisteredUnchecked ==
  /\ pc = "idle" /\ queued /\ tplCache.exists /\ ~tplCache.deleting
  /\ tpl' = [tpl EXCEPT !.finalizer = @ \/ (~tplCache.finalizer /\ tplSynced)]
  /\ tplSynced' = (tplSynced /\ tplCache.finalizer)
  /\ pc' = "list" /\ mem' = tplCache /\ fresh' = tplSynced
  /\ queued' = FALSE
  /\ UNCHANGED <<tplCache, hvars, evars, todo, dels, after, target, troubles>>

(* A template without the finalizer is first updated; a conflict ends it *)
TemplateRegistered ==
  /\ pc = "idle" /\ queued /\ tplCache.exists /\ ~tplCache.deleting
  /\ \/ /\ tplCache.finalizer
        /\ pc' = "list" /\ mem' = tplCache /\ fresh' = tplSynced
        /\ queued' = FALSE
        /\ UNCHANGED <<tvars, todo, dels, after, target>>
     \/ /\ ~tplCache.finalizer /\ tplSynced
        /\ tpl' = [tpl EXCEPT !.finalizer = TRUE]
        /\ tplSynced' = FALSE
        /\ pc' = "list" /\ mem' = tpl' /\ fresh' = TRUE
        /\ queued' = FALSE
        /\ UNCHANGED <<tplCache, todo, dels, after, target>>
     \/ /\ ~tplCache.finalizer /\ ~tplSynced
        /\ ReturnError
        /\ UNCHANGED tvars
  /\ UNCHANGED <<hvars, evars, troubles>>

(* A deleting template: the VpcEndpoints of all namespaces are listed *)
TemplateDeleting ==
  /\ pc = "idle" /\ queued /\ tplCache.exists /\ tplCache.deleting
  /\ queued' = FALSE
  /\ pc' = "delete" /\ mem' = tplCache /\ fresh' = tplSynced
  /\ dels' = UNION {Listed(ns) : ns \in Namespaces}
  /\ after' = "finalizer"
  /\ UNCHANGED <<tvars, hvars, evars, todo, target, troubles>>

(* FilterHostedControlPlanes *)
ListHostedControlPlanes ==
  /\ pc = "list"
  /\ todo' = {p \in Namespaces \X BOOLEAN :
                hcpCache[p[1]] = IF p[2] THEN "deleting" ELSE "live"}
  /\ pc' = "hcps"
  /\ UNCHANGED <<tvars, hvars, evars, queued, mem, fresh, dels, after, target, troubles>>

-----------------------------------------------------------------------------
(* ValidateVpcEndpointForHostedControlPlanes, one control plane at a time *)

Validated(p) == pc = "hcps" /\ p \in todo /\ todo' = todo \ {p}

(* Mutant: the VpcEndpoints of a deleting control plane are left alone *)
HcpDeletingSkipped(ns) ==
  /\ Validated(<<ns, TRUE>>)
  /\ UNCHANGED <<tvars, hvars, evars, queued, pc, mem, fresh, dels, after, target,
                 troubles>>

HcpDeleting(ns) ==
  /\ Validated(<<ns, TRUE>>)
  /\ pc' = "delete" /\ dels' = Listed(ns) /\ after' = "hcps"
  /\ UNCHANGED <<tvars, hvars, evars, queued, mem, fresh, target, troubles>>

Matching(ns) == {k \in Listed(ns) : vpceCache[k].spec = mem.spec}

(* More than one: those that do not match are deleted *)
DeleteExtras(ns) ==
  /\ Validated(<<ns, FALSE>>) /\ Cardinality(Listed(ns)) > 1
  /\ pc' = "delete" /\ dels' = Listed(ns) \ Matching(ns)
  /\ IF Matching(ns) # {} THEN after' = "hcps" /\ UNCHANGED target
                          ELSE after' = "create" /\ target' = ns
  /\ UNCHANGED <<tvars, hvars, evars, queued, mem, fresh, troubles>>

(* Mutant: a single VpcEndpoint is taken as it is *)
ReplaceSpecKept(ns) ==
  /\ Cardinality(Listed(ns)) = 1
  /\ Validated(<<ns, FALSE>>)
  /\ UNCHANGED <<tvars, hvars, evars, queued, pc, mem, fresh, dels, after, target,
                 troubles>>

(* Exactly one: ReplaceVpcEndpointSpec; an old copy makes the Update fail *)
ReplaceSpec(ns) ==
  /\ Cardinality(Listed(ns)) = 1
  /\ \E k \in Listed(ns) :
       \/ /\ vpceCache[k].spec = mem.spec
          /\ Validated(<<ns, FALSE>>)
          /\ UNCHANGED <<vpces, stale, queued, pc, mem, fresh, dels, after, target>>
       \/ /\ vpceCache[k].spec # mem.spec /\ k \notin stale
          /\ Validated(<<ns, FALSE>>)
          /\ vpces' = [vpces EXCEPT ![k].spec = mem.spec]
          /\ stale' = stale \cup {k}
          /\ UNCHANGED <<queued, pc, mem, fresh, dels, after, target>>
       \/ /\ vpceCache[k].spec # mem.spec /\ k \in stale
          /\ pc = "hcps" /\ <<ns, FALSE>> \in todo
          /\ ReturnError
          /\ UNCHANGED <<vpces, stale>>
  /\ UNCHANGED <<tvars, hvars, vpceCache, troubles>>

CreateMissing(ns) ==
  /\ Validated(<<ns, FALSE>>) /\ Listed(ns) = {}
  /\ pc' = "create" /\ target' = ns
  /\ UNCHANGED <<tvars, hvars, evars, queued, mem, fresh, dels, after, troubles>>

(* Mutant: the new VpcEndpoint gets no spec *)
CreateVpcEndpointBlank ==
  /\ pc = "create" /\ ~Exists(vpces[<<target, "own">>])
  /\ vpces' = [vpces EXCEPT ![<<target, "own">>] = [st |-> "live", spec |-> 0]]
  /\ stale' = stale \cup {<<target, "own">>}
  /\ pc' = "hcps" /\ target' = None
  /\ UNCHANGED <<tvars, hvars, vpceCache, queued, mem, fresh, todo, dels, after,
                 troubles>>

(* CreateVpcEndpoint: the name may still be taken, also by one terminating *)
CreateVpcEndpoint ==
  /\ pc = "create"
  /\ LET k == <<target, "own">> IN
     IF Exists(vpces[k])
     THEN ReturnError /\ UNCHANGED <<vpces, stale>>
     ELSE /\ vpces' = [vpces EXCEPT ![k] = [st |-> "live", spec |-> mem.spec]]
          /\ stale' = stale \cup {k}
          /\ pc' = "hcps" /\ target' = None
          /\ UNCHANGED <<queued, mem, fresh, todo, dels, after>>
  /\ UNCHANGED <<tvars, hvars, vpceCache, troubles>>

(* Delete by name: NotFound is an error; one that no finalizer holds goes *)
(* at once, deleting a terminating one changes nothing                    *)
DeleteVpcEndpoint ==
  /\ pc = "delete"
  /\ \E k \in dels :
       \/ /\ ~Exists(vpces[k])
          /\ ReturnError /\ UNCHANGED <<vpces, stale>>
       \/ /\ vpces[k].st = "deleting"
          /\ dels' = dels \ {k}
          /\ UNCHANGED <<vpces, stale, queued, pc, mem, fresh, todo, after, target>>
       \/ /\ vpces[k].st = "live"
          /\ \E e \in {NoEndpoint, [vpces[k] EXCEPT !.st = "deleting"]} :
               vpces' = [vpces EXCEPT ![k] = e]
          /\ stale' = stale \cup {k}
          /\ dels' = dels \ {k}
          /\ UNCHANGED <<queued, pc, mem, fresh, todo, after, target>>
  /\ UNCHANGED <<tvars, hvars, vpceCache, troubles>>

Deleted ==
  /\ pc = "delete" /\ dels = {}
  /\ pc' = after /\ after' = "idle"
  /\ UNCHANGED <<tvars, hvars, evars, queued, mem, fresh, todo, dels, target, troubles>>

(* Mutant: the removal of the finalizer is not saved *)
RemoveFinalizerUnsaved ==
  /\ pc = "finalizer"
  /\ Return
  /\ UNCHANGED <<tvars, hvars, evars, troubles>>

RemoveFinalizer ==
  /\ pc = "finalizer"
  /\ IF fresh
     THEN /\ tpl' = [tpl EXCEPT !.finalizer = FALSE, !.exists = FALSE]
          /\ tplSynced' = FALSE
          /\ Return /\ UNCHANGED tplCache
     ELSE ReturnError /\ UNCHANGED tvars
  /\ UNCHANGED <<hvars, evars, troubles>>

Finish ==
  /\ pc = "hcps" /\ todo = {}
  /\ Return
  /\ UNCHANGED <<tvars, hvars, evars, troubles>>

CallFails ==
  /\ pc # "idle" /\ SpendTrouble
  /\ ReturnError
  /\ UNCHANGED <<tvars, hvars, evars>>

(* The operator restarts: its caches are listed anew and wake it *)
Crash ==
  /\ SpendTrouble
  /\ Done /\ queued' = TRUE
  /\ tplCache' = tpl /\ tplSynced' = TRUE
  /\ hcpCache' = hcps
  /\ vpceCache' = vpces /\ stale' = {}
  /\ UNCHANGED <<tpl, hcps, vpces>>

-----------------------------------------------------------------------------
(* Caches, users and the other controllers *)

(* The template's changes wake the controller when the cache gets them *)
TemplateEvent ==
  /\ ~tplSynced
  /\ tplCache' = tpl /\ tplSynced' = TRUE
  /\ queued' = TRUE
  /\ UNCHANGED <<tpl, hvars, evars, rvars, troubles>>

(* mapAndEnqueue: a control plane's change wakes every template in the cache *)
HcpEvent(ns) ==
  /\ hcpCache[ns] # hcps[ns]
  /\ hcpCache' = [hcpCache EXCEPT ![ns] = hcps[ns]]
  /\ queued' = (queued \/ tplCache.exists)
  /\ UNCHANGED <<tvars, hcps, evars, rvars, troubles>>

(* Nobody is woken by a change of a VpcEndpoint *)
EndpointSync(k) ==
  /\ k \in stale
  /\ vpceCache' = [vpceCache EXCEPT ![k] = vpces[k]]
  /\ stale' = stale \ {k}
  /\ UNCHANGED <<tvars, hvars, vpces, queued, rvars, troubles>>

(* The informers' periodic resync *)
Resync ==
  /\ tplCache.exists /\ ~queued
  /\ queued' = TRUE
  /\ UNCHANGED <<tvars, hvars, evars, rvars, troubles>>

TemplateEdited ==
  /\ tpl.exists /\ tpl.spec < MaxSpecs
  /\ tpl' = [tpl EXCEPT !.spec = @ + 1]
  /\ tplSynced' = FALSE /\ fresh' = FALSE
  /\ UNCHANGED <<tplCache, hvars, evars, queued, pc, mem, todo, dels, after, target,
                 troubles>>

TemplateDeleted ==
  /\ tpl.exists /\ ~tpl.deleting
  /\ tpl' = [tpl EXCEPT !.deleting = TRUE, !.exists = tpl.finalizer]
  /\ tplSynced' = FALSE /\ fresh' = FALSE
  /\ UNCHANGED <<tplCache, hvars, evars, queued, pc, mem, todo, dels, after, target,
                 troubles>>

(* A control plane is created, its deletion is asked for, it is gone; the *)
(* namespace may get another one                                          *)
HcpChanges(ns) ==
  /\ hcps' = [hcps EXCEPT ![ns] = CASE @ = "absent" -> "live"
                                    [] @ = "live" -> "deleting"
                                    [] @ = "deleting" -> "absent"]
  /\ UNCHANGED <<tvars, hcpCache, evars, queued, rvars, troubles>>

(* The VpcEndpoint controller's cleanup is over *)
EndpointGone(k) ==
  /\ vpces[k].st = "deleting"
  /\ vpces' = [vpces EXCEPT ![k] = NoEndpoint]
  /\ stale' = stale \cup {k}
  /\ UNCHANGED <<tvars, hvars, vpceCache, queued, rvars, troubles>>

(* A user creates the other VpcEndpoint, or edits or deletes one *)
UserChanges(k) ==
  /\ SpendTrouble
  /\ \/ /\ k[2] = "other" /\ ~Exists(vpces[k])
        /\ \E s \in Specs : vpces' = [vpces EXCEPT ![k] = [st |-> "live", spec |-> s]]
     \/ /\ vpces[k].st = "live"
        /\ \/ vpces' = [vpces EXCEPT ![k].st = "deleting"]
           \/ \E s \in Specs \ {vpces[k].spec} : vpces' = [vpces EXCEPT ![k].spec = s]
  /\ stale' = stale \cup {k}
  /\ UNCHANGED <<tvars, hvars, vpceCache, queued, rvars>>

-----------------------------------------------------------------------------
Init ==
  /\ tpl = [exists |-> TRUE, deleting |-> FALSE, finalizer |-> FALSE, spec |-> 1]
  /\ tplCache = tpl /\ tplSynced = TRUE
  /\ hcps = [ns \in Namespaces |-> "absent"] /\ hcpCache = hcps
  /\ vpces = [k \in Keys |-> NoEndpoint] /\ vpceCache = vpces
  /\ stale = {}
  /\ queued = TRUE
  /\ pc = "idle" /\ mem = NoTemplate /\ fresh = FALSE
  /\ todo = {} /\ dels = {} /\ after = "idle" /\ target = None
  /\ troubles = MaxTroubles

Validate ==
  \E ns \in Namespaces :
    HcpDeleting(ns) \/ DeleteExtras(ns) \/ ReplaceSpec(ns) \/ CreateMissing(ns)

Reconcile ==
  \/ TemplateNotFound \/ TemplateRegistered \/ TemplateDeleting \/ ListHostedControlPlanes
  \/ Validate \/ CreateVpcEndpoint \/ DeleteVpcEndpoint \/ Deleted
  \/ RemoveFinalizer \/ Finish

Environment ==
  \/ CallFails \/ Crash \/ TemplateEvent \/ Resync \/ TemplateEdited \/ TemplateDeleted
  \/ \E ns \in Namespaces : HcpEvent(ns) \/ HcpChanges(ns)
  \/ \E k \in Keys : EndpointSync(k) \/ EndpointGone(k) \/ UserChanges(k)

Next == Reconcile \/ Environment

Spec == Init /\ [][Next]_vars

(* The informers deliver the events of every object *)
Fairness ==
  /\ WF_vars(Reconcile)
  /\ WF_vars(TemplateEvent) /\ WF_vars(Resync)
  /\ \A ns \in Namespaces : WF_vars(HcpEvent(ns))
  /\ \A k \in Keys : WF_vars(EndpointSync(k)) /\ WF_vars(EndpointGone(k))

FairSpec == Spec /\ Fairness

-----------------------------------------------------------------------------
(* The variables have the types their declarations say. *)
TypeOK ==
  /\ tpl \in Templates /\ tplCache \in Templates /\ tplSynced \in BOOLEAN
  /\ hcps \in [Namespaces -> HcpStates] /\ hcpCache \in [Namespaces -> HcpStates]
  /\ vpces \in [Keys -> Endpoints] /\ vpceCache \in [Keys -> Endpoints]
  /\ stale \subseteq Keys
  /\ queued \in BOOLEAN
  /\ pc \in {"idle", "list", "hcps", "delete", "create", "finalizer"}
  /\ mem \in Templates /\ fresh \in BOOLEAN
  /\ todo \subseteq Namespaces \X BOOLEAN
  /\ dels \subseteq Keys
  /\ after \in {"idle", "hcps", "create", "finalizer"}
  /\ target \in Namespaces \cup {None}
  /\ troubles \in 0..MaxTroubles

(* The controller creates a VpcEndpoint only while the API server still    *)
(* has the template with its finalizer, whatever its caches say: a         *)
(* template's deletion (lines 74-102) comes after its last creation.       *)
CreateUnderTemplate ==
  [][\A ns \in Namespaces :
       LET k == <<ns, "own">> IN
       ~Exists(vpces[k]) /\ Exists(vpces'[k]) => tpl.exists /\ tpl.finalizer]_vars

(* Where nothing disturbs a live control plane any more, it gets and keeps *)
(* a VpcEndpoint with the template's spec (lines 151-188).                 *)
Served(ns) ==
  \E k \in Keys : k[1] = ns /\ vpces[k] = [st |-> "live", spec |-> tpl.spec]

HcpServed ==
  \A ns \in Namespaces :
    <>[](hcps[ns] = "live" /\ ~tpl.deleting) => <>[]Served(ns)

(* Where a control plane is being deleted its VpcEndpoints are deleted     *)
(* (lines 138-149).                                                        *)
HcpReleased ==
  \A ns \in Namespaces :
    <>[](hcps[ns] = "deleting" /\ ~tpl.deleting)
      => <>[](\A k \in Keys : k[1] = ns => vpces[k].st # "live")

(* A deleted template disappears: NotFound errors, conflicts and restarts  *)
(* do not keep its finalizer forever (lines 74-102).                       *)
TemplateGoes == tpl.deleting ~> ~tpl.exists

-----------------------------------------------------------------------------
(* What comments in the code say, and the code does not do *)

(* Lines 126 and 158-159: "We want one VpcEndpoint per namespace/HCP per   *)
(* vpcet", "Make sure we only keep one matching".                          *)
OnePerHcp ==
  \A ns \in Namespaces :
    <>[](hcps[ns] = "live" /\ ~tpl.deleting)
      => <>[](\A k, l \in Keys :
                k[1] = ns /\ l[1] = ns /\ vpces[k].st = "live" /\ vpces[l].st = "live" => k = l)

(* Line 62: "If the VpcEndpointTemplate is deleting, delete all the        *)
(* VpcEndpoints matching the template".                                    *)
NoneOutlivesTemplate ==
  ~tpl.exists => \A ns \in Namespaces : vpces[<<ns, "own">>].st # "live"
=============================================================================
