--------------------- MODULE VpcEndpointTemplate_proofs ---------------------
(***************************************************************************)
(* The template controller for any set of namespaces, any number of        *)
(* versions of the template, of failures and of user edits.                *)
(***************************************************************************)
EXTENDS VpcEndpointTemplate, TLAPS

(* A creation under way, or to follow the deletions, has a namespace; only *)
(* deletions are followed by something                                     *)
TargetInv ==
  /\ pc = "create" \/ after = "create" => target \in Namespaces
  /\ after # "idle" => pc = "delete"

(* Reconcile is serving control planes: it may still create a VpcEndpoint *)
Serving == pc \in {"list", "hcps", "create"} \/ (pc = "delete" /\ after \in {"hcps", "create"})

(* Reconcile is deleting for a template that is being deleted *)
Releasing == pc = "finalizer" \/ (pc = "delete" /\ after = "finalizer")

Held(t) == t.exists /\ t.finalizer

(* A copy of the template that is not being deleted and has the finalizer  *)
(* is as good as the template: the finalizer is only removed after a copy  *)
(* that is being deleted, which the cache never takes back                 *)
HeldInv ==
  /\ tplSynced => tplCache = tpl
  /\ Held(tplCache) /\ ~tplCache.deleting => Held(tpl)
  /\ Releasing => tplCache.deleting
  /\ tplCache.deleting => tpl.deleting
  /\ Serving => Held(tpl)

TemplateInv == TargetInv /\ HeldInv

-----------------------------------------------------------------------------
(* Types *)

TplOK == tpl \in Templates /\ tplCache \in Templates /\ tplSynced \in BOOLEAN
HcpOK == hcps \in [Namespaces -> HcpStates] /\ hcpCache \in [Namespaces -> HcpStates]
EndpointsOK ==
  /\ vpces \in [Keys -> Endpoints] /\ vpceCache \in [Keys -> Endpoints]
  /\ stale \subseteq Keys
WorkOK ==
  /\ pc \in {"idle", "list", "hcps", "delete", "create", "finalizer"}
  /\ mem \in Templates /\ fresh \in BOOLEAN
  /\ todo \subseteq Namespaces \X BOOLEAN
  /\ dels \subseteq Keys
  /\ after \in {"idle", "hcps", "create", "finalizer"}
  /\ target \in Namespaces \cup {None}
CountOK == queued \in BOOLEAN /\ troubles \in 0..MaxTroubles

LEMMA TypeSplit == TypeOK <=> TplOK /\ HcpOK /\ EndpointsOK /\ WorkOK /\ CountOK
  BY DEF TypeOK, TplOK, HcpOK, EndpointsOK, WorkOK, CountOK

LEMMA TypeSplitNext == TypeOK' <=> TplOK' /\ HcpOK' /\ EndpointsOK' /\ WorkOK' /\ CountOK'
  BY DEF TypeOK, TplOK, HcpOK, EndpointsOK, WorkOK, CountOK

LEMMA NoneTypes == NoTemplate \in Templates /\ NoEndpoint \in Endpoints /\ 1 \in Specs
  BY TemplateAssumption DEF NoTemplate, NoEndpoint, Templates, Endpoints, Specs

(* What a step leaves alone keeps its type *)
LEMMA Kept ==
  ASSUME TypeOK
  PROVE  /\ UNCHANGED tvars => TplOK'
         /\ UNCHANGED hvars => HcpOK'
         /\ UNCHANGED evars => EndpointsOK'
         /\ UNCHANGED rvars => WorkOK'
         /\ UNCHANGED <<queued, troubles>> => CountOK'
  BY TypeSplit DEF tvars, hvars, evars, rvars, TplOK, HcpOK, EndpointsOK, WorkOK, CountOK

LEMMA DoneTypes == ASSUME Done PROVE WorkOK' /\ TargetInv' /\ pc' = "idle"
  BY NoneTypes DEF Done, WorkOK, TargetInv

LEMMA ListedTypes == \A ns : Listed(ns) \subseteq Keys
  BY DEF Listed

(* The template is read, and its finalizer set or removed *)
LEMMA TemplateTypes ==
  ASSUME TypeOK, TargetInv,
         TemplateNotFound \/ TemplateRegistered \/ TemplateDeleting \/ RemoveFinalizer
  PROVE  TypeOK' /\ TargetInv'
  <1> USE TypeSplit, TypeSplitNext
  <1>1. CASE TemplateNotFound
        BY <1>1, Kept DEF TemplateNotFound, rvars, TargetInv, CountOK
  <1>2. CASE TemplateRegistered
    <2>1. TplOK'
          BY <1>2, Kept DEF TemplateRegistered, TplOK, Templates
    <2>2. WorkOK' /\ TargetInv'
      <3>1. mem' \in Templates => (WorkOK' /\ TargetInv') \/ Done
            BY <1>2 DEF TemplateRegistered, ReturnError, WorkOK, TplOK, TargetInv
      <3>2. mem' \in Templates \/ Done
            BY <1>2, <2>1 DEF TemplateRegistered, ReturnError, TplOK
      <3> QED
          BY <3>1, <3>2, DoneTypes
    <2>3. CountOK'
          BY <1>2 DEF TemplateRegistered, ReturnError, CountOK
    <2> QED
        BY <1>2, <2>1, <2>2, <2>3, Kept DEF TemplateRegistered
  <1>3. CASE TemplateDeleting
    <2>1. dels' \subseteq Keys
          BY <1>3, ListedTypes DEF TemplateDeleting
    <2>2. WorkOK' /\ TargetInv' /\ CountOK'
          BY <1>3, <2>1 DEF TemplateDeleting, WorkOK, TplOK, TargetInv, CountOK
    <2> QED
        BY <1>3, <2>2, Kept DEF TemplateDeleting
  <1>4. CASE RemoveFinalizer
    <2>1. TplOK'
          BY <1>4, Kept DEF RemoveFinalizer, TplOK, Templates
    <2>2. WorkOK' /\ TargetInv' /\ CountOK'
          BY <1>4, DoneTypes DEF RemoveFinalizer, Return, ReturnError, CountOK
    <2> QED
        BY <1>4, <2>1, <2>2, Kept DEF RemoveFinalizer
  <1> QED
      BY <1>1, <1>2, <1>3, <1>4

(* One control plane is validated *)
LEMMA ValidateTypes ==
  ASSUME TypeOK, TargetInv, NEW ns \in Namespaces,
         HcpDeleting(ns) \/ DeleteExtras(ns) \/ ReplaceSpec(ns) \/ CreateMissing(ns)
  PROVE  TypeOK' /\ TargetInv'
  <1> USE TypeSplit, TypeSplitNext
  <1>1. CASE HcpDeleting(ns)
    <2>1. WorkOK' /\ TargetInv' /\ CountOK'
          BY <1>1, ListedTypes DEF HcpDeleting, Validated, WorkOK, TargetInv, CountOK
    <2> QED
        BY <1>1, <2>1, Kept DEF HcpDeleting
  <1>2. CASE DeleteExtras(ns)
    <2>1. WorkOK' /\ TargetInv' /\ CountOK'
          BY <1>2, ListedTypes DEF DeleteExtras, Validated, WorkOK, TargetInv, CountOK
    <2> QED
        BY <1>2, <2>1, Kept DEF DeleteExtras
  <1>3. CASE ReplaceSpec(ns)
    <2>1. PICK k \in Listed(ns) :
            \/ Validated(<<ns, FALSE>>)
               /\ UNCHANGED <<vpces, stale, queued, pc, mem, fresh, dels, after, target>>
            \/ /\ Validated(<<ns, FALSE>>)
               /\ vpces' = [vpces EXCEPT ![k].spec = mem.spec] /\ stale' = stale \cup {k}
               /\ UNCHANGED <<queued, pc, mem, fresh, dels, after, target>>
            \/ ReturnError /\ UNCHANGED <<vpces, stale>>
          BY <1>3 DEF ReplaceSpec
    <2>2. WorkOK' /\ TargetInv' /\ CountOK'
          BY <1>3, <2>1, DoneTypes
          DEF ReplaceSpec, Validated, ReturnError, WorkOK, TargetInv, CountOK
    <2>3. vpces[k] \in Endpoints /\ k \in Keys /\ mem.spec \in Specs
          BY <2>1, ListedTypes DEF EndpointsOK, WorkOK, Templates
    <2>4. [vpces[k] EXCEPT !.spec = mem.spec] \in Endpoints
          BY <2>3 DEF Endpoints
    <2>5. vpces' \in [Keys -> Endpoints] /\ stale' \subseteq Keys
          BY <2>1, <2>3, <2>4 DEF EndpointsOK
    <2>6. EndpointsOK'
          BY <1>3, <2>5 DEF EndpointsOK, ReplaceSpec
    <2> QED
        BY <1>3, <2>2, <2>6, Kept DEF ReplaceSpec
  <1>4. CASE CreateMissing(ns)
    <2>1. WorkOK' /\ TargetInv' /\ CountOK'
          BY <1>4 DEF CreateMissing, Validated, WorkOK, TargetInv, CountOK
    <2> QED
        BY <1>4, <2>1, Kept DEF CreateMissing
  <1> QED
      BY <1>1, <1>2, <1>3, <1>4

(* One VpcEndpoint changes in the API server *)
LEMMA PutTypes ==
  ASSUME TypeOK, NEW k \in Keys, NEW e \in Endpoints,
         vpces' = [vpces EXCEPT ![k] = e], stale' = stale \cup {k}, UNCHANGED vpceCache
  PROVE  EndpointsOK'
  BY TypeSplit DEF EndpointsOK

(* The other steps of a Reconcile *)
LEMMA WorkTypes ==
  ASSUME TypeOK, TargetInv,
         \/ ListHostedControlPlanes \/ CreateVpcEndpoint \/ DeleteVpcEndpoint \/ Deleted
         \/ Finish
  PROVE  TypeOK' /\ TargetInv'
  <1> USE TypeSplit, TypeSplitNext
  <1>1. CASE ListHostedControlPlanes
    <2>1. WorkOK' /\ TargetInv' /\ CountOK'
          BY <1>1 DEF ListHostedControlPlanes, WorkOK, TargetInv, CountOK
    <2> QED
        BY <1>1, <2>1, Kept DEF ListHostedControlPlanes
  <1>2. CASE CreateVpcEndpoint
    <2> DEFINE k == <<target, "own">>
    <2>1. k \in Keys /\ mem.spec \in Specs
          BY <1>2 DEF CreateVpcEndpoint, TargetInv, Keys, WorkOK, Templates
    <2>2. CASE Exists(vpces[k])
      <3>1. ReturnError /\ UNCHANGED evars /\ UNCHANGED <<tvars, hvars, troubles>>
            BY <1>2, <2>2 DEF CreateVpcEndpoint, evars
      <3>2. CountOK'
            BY <3>1 DEF ReturnError, CountOK
      <3> QED
          BY <3>1, <3>2, DoneTypes, Kept DEF ReturnError
    <2>3. CASE ~Exists(vpces[k])
      <3>1. EndpointsOK'
        <4>1. [st |-> "live", spec |-> mem.spec] \in Endpoints
              BY <2>1 DEF Endpoints
        <4> QED
            BY <1>2, <2>1, <2>3, <4>1, PutTypes DEF CreateVpcEndpoint
      <3>2. WorkOK' /\ CountOK'
            BY <1>2, <2>3 DEF CreateVpcEndpoint, WorkOK, CountOK
      <3>3. TargetInv'
            BY <1>2, <2>3 DEF CreateVpcEndpoint, TargetInv
      <3> QED
          BY <1>2, <3>1, <3>2, <3>3, Kept DEF CreateVpcEndpoint
    <2> QED
        BY <2>2, <2>3
  <1>3. CASE DeleteVpcEndpoint
    <2>1. PICK k \in dels :
            \/ ReturnError /\ UNCHANGED <<vpces, stale>>
            \/ /\ dels' = dels \ {k}
               /\ UNCHANGED <<vpces, stale, queued, pc, mem, fresh, todo, after, target>>
            \/ /\ \E e \in {NoEndpoint, [vpces[k] EXCEPT !.st = "deleting"]} :
                    vpces' = [vpces EXCEPT ![k] = e]
               /\ stale' = stale \cup {k} /\ dels' = dels \ {k}
               /\ UNCHANGED <<queued, pc, mem, fresh, todo, after, target>>
          BY <1>3 DEF DeleteVpcEndpoint
    <2>2. UNCHANGED <<tvars, hvars, vpceCache, troubles>>
          BY <1>3 DEF DeleteVpcEndpoint
    <2>3. WorkOK' /\ TargetInv' /\ CountOK'
          BY <2>1, <2>2, DoneTypes DEF ReturnError, WorkOK, TargetInv, CountOK
    <2>4. k \in Keys /\ vpces[k] \in Endpoints
          BY <2>1 DEF WorkOK, EndpointsOK
    <2>5. {NoEndpoint, [vpces[k] EXCEPT !.st = "deleting"]} \subseteq Endpoints
          BY <2>4, NoneTypes DEF Endpoints
    <2>6. EndpointsOK'
          BY <2>1, <2>2, <2>4, <2>5, PutTypes DEF EndpointsOK
    <2> QED
        BY <2>2, <2>3, <2>6, Kept
  <1>4. CASE Deleted
    <2>1. WorkOK' /\ TargetInv' /\ CountOK'
          BY <1>4 DEF Deleted, WorkOK, TargetInv, CountOK
    <2> QED
        BY <1>4, <2>1, Kept DEF Deleted
  <1>5. CASE Finish
    <2>1. WorkOK' /\ TargetInv' /\ CountOK'
          BY <1>5, DoneTypes DEF Finish, Return, CountOK
    <2> QED
        BY <1>5, <2>1, Kept DEF Finish
  <1> QED
      BY <1>1, <1>2, <1>3, <1>4, <1>5

(* Failures, restarts and the informers *)
LEMMA CacheTypes ==
  ASSUME TypeOK, TargetInv,
         \/ CallFails \/ Crash \/ TemplateEvent \/ Resync
         \/ \E ns \in Namespaces : HcpEvent(ns)
         \/ \E k \in Keys : EndpointSync(k)
  PROVE  TypeOK' /\ TargetInv'
  <1> USE TypeSplit, TypeSplitNext, TemplateAssumption
  <1>r. UNCHANGED rvars => TargetInv'
        BY DEF TargetInv, rvars
  <1>t. SpendTrouble => troubles' \in 0..MaxTroubles
        BY DEF SpendTrouble, CountOK
  <1>1. CASE CallFails
    <2>1. WorkOK' /\ TargetInv' /\ CountOK'
          BY <1>1, <1>t, DoneTypes DEF CallFails, ReturnError, CountOK
    <2> QED
        BY <1>1, <2>1, Kept DEF CallFails
  <1>2. CASE Crash
    <2>1. WorkOK' /\ TargetInv' /\ CountOK'
          BY <1>2, <1>t, DoneTypes DEF Crash, CountOK
    <2>2. TplOK' /\ HcpOK' /\ EndpointsOK'
          BY <1>2 DEF Crash, TplOK, HcpOK, EndpointsOK
    <2> QED
        BY <2>1, <2>2
  <1>3. CASE TemplateEvent
    <2>1. TplOK' /\ CountOK'
          BY <1>3 DEF TemplateEvent, TplOK, CountOK
    <2> QED
        BY <1>3, <1>r, <2>1, Kept DEF TemplateEvent
  <1>4. CASE Resync
    <2>1. CountOK'
          BY <1>4 DEF Resync, CountOK
    <2> QED
        BY <1>4, <1>r, <2>1, Kept DEF Resync
  <1>5. ASSUME NEW ns \in Namespaces, HcpEvent(ns) PROVE TypeOK' /\ TargetInv'
    <2>1. HcpOK'
          BY <1>5 DEF HcpEvent, HcpOK
    <2>2. queued' \in BOOLEAN
          BY <1>5, Zenon DEF HcpEvent
    <2>3. CountOK'
          BY <1>5, <2>2 DEF HcpEvent, CountOK
    <2> QED
        BY <1>5, <1>r, <2>1, <2>3, Kept DEF HcpEvent
  <1>6. ASSUME NEW k \in Keys, EndpointSync(k) PROVE TypeOK' /\ TargetInv'
    <2>1. EndpointsOK'
          BY <1>6 DEF EndpointSync, EndpointsOK
    <2> QED
        BY <1>6, <1>r, <2>1, Kept DEF EndpointSync
  <1> QED
      BY <1>1, <1>2, <1>3, <1>4, <1>5, <1>6

(* Users and the other controllers *)
LEMMA UserTypes ==
  ASSUME TypeOK, TargetInv,
         \/ TemplateEdited \/ TemplateDeleted
         \/ \E ns \in Namespaces : HcpChanges(ns)
         \/ \E k \in Keys : EndpointGone(k) \/ UserChanges(k)
  PROVE  TypeOK' /\ TargetInv'
  <1> USE TypeSplit, TypeSplitNext, TemplateAssumption
  <1>r. UNCHANGED rvars => TargetInv'
        BY DEF TargetInv, rvars
  <1>1. CASE TemplateEdited
    <2>1. tpl' \in Templates
      <3>1. tpl.spec + 1 \in Specs
            BY <1>1 DEF TemplateEdited, TplOK, Templates, Specs
      <3> QED
          BY <1>1, <3>1 DEF TemplateEdited, TplOK, Templates
    <2>2. TplOK' /\ WorkOK' /\ TargetInv' /\ CountOK'
          BY <1>1, <2>1 DEF TemplateEdited, TplOK, WorkOK, TargetInv, CountOK
    <2> QED
        BY <1>1, <2>2, Kept DEF TemplateEdited
  <1>2. CASE TemplateDeleted
    <2>1. tpl' \in Templates
          BY <1>2 DEF TemplateDeleted, TplOK, Templates
    <2>2. TplOK' /\ WorkOK' /\ TargetInv' /\ CountOK'
          BY <1>2, <2>1 DEF TemplateDeleted, TplOK, WorkOK, TargetInv, CountOK
    <2> QED
        BY <1>2, <2>2, Kept DEF TemplateDeleted
  <1>3. ASSUME NEW ns \in Namespaces, HcpChanges(ns) PROVE TypeOK' /\ TargetInv'
    <2>1. hcps[ns] \in HcpStates
          BY DEF HcpOK
    <2>2. HcpOK'
          BY <1>3, <2>1 DEF HcpChanges, HcpOK, HcpStates
    <2> QED
        BY <1>3, <1>r, <2>2, Kept DEF HcpChanges
  <1>4. ASSUME NEW k \in Keys, EndpointGone(k) PROVE TypeOK' /\ TargetInv'
    <2>1. EndpointsOK'
          BY <1>4, PutTypes, NoneTypes DEF EndpointGone
    <2> QED
        BY <1>4, <1>r, <2>1, Kept DEF EndpointGone
  <1>5. ASSUME NEW k \in Keys, UserChanges(k) PROVE TypeOK' /\ TargetInv'
    <2>1. vpces[k] \in Endpoints
          BY DEF EndpointsOK
    <2>2. /\ \A s \in Specs : [st |-> "live", spec |-> s] \in Endpoints
          /\ [vpces[k] EXCEPT !.st = "deleting"] \in Endpoints
          /\ \A s \in Specs : [vpces[k] EXCEPT !.spec = s] \in Endpoints
          BY <2>1 DEF Endpoints
    <2>3. PICK e \in Endpoints : vpces' = [vpces EXCEPT ![k] = e]
          BY <1>5, <2>2 DEF UserChanges
    <2>4. EndpointsOK'
          BY <1>5, <2>3, PutTypes DEF UserChanges
    <2>5. CountOK'
          BY <1>5 DEF UserChanges, SpendTrouble, CountOK
    <2> QED
        BY <1>5, <1>r, <2>4, <2>5, Kept DEF UserChanges
  <1> QED
      BY <1>1, <1>2, <1>3, <1>4, <1>5

LEMMA InitTypes == Init => TypeOK /\ TargetInv
  <1> SUFFICES ASSUME Init PROVE TypeOK /\ TargetInv
      OBVIOUS
  <1>1. TplOK
        BY NoneTypes DEF Init, TplOK, Templates
  <1>2. HcpOK
        BY DEF Init, HcpOK, HcpStates
  <1>3. EndpointsOK
        BY NoneTypes DEF Init, EndpointsOK
  <1>4. WorkOK /\ TargetInv
        BY NoneTypes DEF Init, WorkOK, TargetInv
  <1>5. CountOK
        BY TemplateAssumption DEF Init, CountOK
  <1> QED
      BY <1>1, <1>2, <1>3, <1>4, <1>5, TypeSplit

LEMMA StepTypes == TypeOK /\ TargetInv /\ [Next]_vars => TypeOK' /\ TargetInv'
  <1>1. ASSUME TypeOK, TargetInv, UNCHANGED vars PROVE TypeOK' /\ TargetInv'
        BY <1>1 DEF TypeOK, TargetInv, vars
  <1> QED
      BY <1>1, TemplateTypes, ValidateTypes, WorkTypes, CacheTypes, UserTypes
      DEF Next, Reconcile, Validate, Environment

(* Every step of the controller, of its caches and of users keeps the      *)
(* types of all variables; a VpcEndpoint is only created in a namespace    *)
(* that was chosen for it (vpcendpointtemplate_controller.go:48-241).      *)
THEOREM TemplateTypesCorrect == Spec => [](TypeOK /\ TargetInv)
  BY InitTypes, StepTypes, PTL DEF Spec

-----------------------------------------------------------------------------
(* The template that creations are made for *)

(* A step that neither touches the template nor enters or leaves the       *)
(* deletion for a template                                                 *)
LEMMA HeldKept ==
  ASSUME HeldInv, UNCHANGED tvars, Serving' => Serving, Releasing' => Releasing
  PROVE  HeldInv'
  BY DEF HeldInv, tvars, Held

LEMMA IdleNeither == ASSUME pc' = "idle" PROVE ~Serving' /\ ~Releasing'
  BY DEF Serving, Releasing

LEMMA HeldTemplate ==
  ASSUME TypeOK, TargetInv, HeldInv,
         TemplateNotFound \/ TemplateRegistered \/ TemplateDeleting \/ RemoveFinalizer
  PROVE  HeldInv'
  <1>t. tpl \in Templates /\ tplCache \in Templates
        BY DEF TypeOK
  <1>1. CASE TemplateNotFound
        BY <1>1, HeldKept DEF TemplateNotFound, rvars, Serving, Releasing
  <1>2. CASE TemplateRegistered
    <2>1. CASE Done /\ UNCHANGED tvars
          BY <2>1, IdleNeither, HeldKept DEF Done
    <2>2. after = "idle"
          BY <1>2 DEF TemplateRegistered, TargetInv
    <2>3. CASE tplCache.finalizer /\ UNCHANGED <<tvars, after>> /\ pc' = "list"
          BY <1>2, <2>3 DEF TemplateRegistered, tvars, HeldInv, Held, Serving, Releasing
    <2>4. CASE /\ ~tplCache.finalizer /\ tplSynced /\ tpl' = [tpl EXCEPT !.finalizer = TRUE]
               /\ tplSynced' = FALSE /\ pc' = "list" /\ UNCHANGED <<tplCache, after>>
      <3>1. Held(tpl') /\ (tpl'.deleting <=> tpl.deleting)
            BY <1>2, <2>4, <1>t DEF TemplateRegistered, HeldInv, Held, Templates
      <3> QED
          BY <2>4, <3>1 DEF HeldInv, Serving, Releasing
    <2> QED
        BY <1>2, <2>1, <2>3, <2>4 DEF TemplateRegistered, ReturnError
  <1>3. CASE TemplateDeleting
        BY <1>3 DEF TemplateDeleting, tvars, HeldInv, Held, Serving, Releasing
  <1>4. CASE RemoveFinalizer
    <2>1. ~Serving' /\ ~Releasing'
          BY <1>4, IdleNeither DEF RemoveFinalizer, Return, ReturnError, Done
    <2>2. CASE UNCHANGED tvars
          BY <2>1, <2>2, HeldKept
    <2>3. CASE /\ tpl' = [tpl EXCEPT !.finalizer = FALSE, !.exists = FALSE]
               /\ tplSynced' = FALSE /\ UNCHANGED tplCache
      <3>1. tplCache.deleting
            BY <1>4 DEF RemoveFinalizer, HeldInv, Releasing
      <3>2. tpl'.deleting <=> tpl.deleting
            BY <2>3, <1>t DEF Templates
      <3> QED
          BY <2>1, <2>3, <3>1, <3>2 DEF HeldInv
    <2> QED
        BY <1>4, <2>2, <2>3 DEF RemoveFinalizer
  <1> QED
      BY <1>1, <1>2, <1>3, <1>4

LEMMA HeldValidate ==
  ASSUME TargetInv, HeldInv, NEW ns \in Namespaces,
         HcpDeleting(ns) \/ DeleteExtras(ns) \/ ReplaceSpec(ns) \/ CreateMissing(ns)
  PROVE  HeldInv'
  <1>1. UNCHANGED tvars
        BY DEF HcpDeleting, DeleteExtras, ReplaceSpec, CreateMissing
  <1>2. pc = "hcps" /\ after = "idle"
        BY DEF HcpDeleting, DeleteExtras, ReplaceSpec, CreateMissing, Validated, TargetInv
  <1>3. ~Releasing'
        BY <1>2
        DEF HcpDeleting, DeleteExtras, ReplaceSpec, CreateMissing, Validated, ReturnError, Done,
            Releasing
  <1>4. Serving
        BY <1>2 DEF Serving
  <1> QED
      BY <1>1, <1>3, <1>4, HeldKept

LEMMA HeldWork ==
  ASSUME TypeOK, TargetInv, HeldInv,
         \/ ListHostedControlPlanes \/ CreateVpcEndpoint \/ DeleteVpcEndpoint \/ Deleted
         \/ Finish
  PROVE  HeldInv'
  <1>1. UNCHANGED tvars
        BY DEF ListHostedControlPlanes, CreateVpcEndpoint, DeleteVpcEndpoint, Deleted, Finish
  <1>2. CASE Done
        BY <1>1, <1>2, IdleNeither, HeldKept DEF Done
  <1>3. CASE ~Done /\ (ListHostedControlPlanes \/ CreateVpcEndpoint)
    <2>1. Serving /\ ~Releasing'
          BY <1>3
          DEF ListHostedControlPlanes, CreateVpcEndpoint, ReturnError, Serving, Releasing
    <2> QED
        BY <1>1, <2>1, HeldKept
  <1>4. CASE ~Done /\ DeleteVpcEndpoint
    <2>1. UNCHANGED <<pc, after>>
          BY <1>4 DEF DeleteVpcEndpoint, ReturnError
    <2> QED
        BY <1>1, <2>1, HeldKept DEF Serving, Releasing
  <1>5. CASE Deleted
    <2>1. pc = "delete" /\ pc' = after /\ after' = "idle"
          BY <1>5 DEF Deleted
    <2>2. after \in {"idle", "hcps", "create", "finalizer"}
          BY DEF TypeOK
    <2> QED
        BY <1>1, <2>1, <2>2, HeldKept DEF Serving, Releasing
  <1> QED
      BY <1>2, <1>3, <1>4, <1>5 DEF Finish, Return

LEMMA HeldEnvironment ==
  ASSUME TypeOK, HeldInv, Environment
  PROVE  HeldInv'
  <1>t. tpl \in Templates /\ tplCache \in Templates
        BY DEF TypeOK
  <1>1. CASE CallFails
        BY <1>1, IdleNeither, HeldKept DEF CallFails, ReturnError, Done
  <1>2. CASE Crash
    <2>1. ~Serving' /\ ~Releasing'
          BY <1>2, IdleNeither DEF Crash, Done
    <2> QED
        BY <1>2, <2>1 DEF Crash, HeldInv
  <1>3. CASE TemplateEvent
    <2>1. UNCHANGED <<pc, after>> /\ tplCache' = tpl /\ tpl' = tpl
          BY <1>3 DEF TemplateEvent, rvars
    <2> QED
        BY <2>1 DEF HeldInv, Serving, Releasing
  <1>4. CASE TemplateEdited \/ TemplateDeleted
    <2>1. UNCHANGED <<pc, after, tplCache>> /\ tplSynced' = FALSE
          BY <1>4 DEF TemplateEdited, TemplateDeleted
    <2>2. Held(tpl) => Held(tpl')
          BY <1>4, <1>t DEF TemplateEdited, TemplateDeleted, Held, Templates
    <2>3. tpl.deleting => tpl'.deleting
          BY <1>4, <1>t DEF TemplateEdited, TemplateDeleted, Templates
    <2> QED
        BY <2>1, <2>2, <2>3 DEF HeldInv, Serving, Releasing
  <1>5. CASE UNCHANGED <<tvars, rvars>>
        BY <1>5, HeldKept DEF rvars, Serving, Releasing
  <1> QED
      BY <1>1, <1>2, <1>3, <1>4, <1>5
      DEF Environment, Resync, HcpEvent, HcpChanges, EndpointSync, EndpointGone, UserChanges

(* While control planes are being served the API server has the template   *)
(* with its finalizer, although the controller only reads a cached copy:   *)
(* the finalizer goes only after a copy that is being deleted, and from    *)
(* such a copy on no cached copy starts to serve again                     *)
(* (vpcendpointtemplate_controller.go:55-123).                             *)
THEOREM TemplateHeld == Spec => [](TypeOK /\ TemplateInv)
  <1>1. Init => HeldInv
        BY DEF Init, HeldInv, Held, Serving, Releasing
  <1>2. ASSUME TypeOK, TargetInv, HeldInv, [Next]_vars PROVE HeldInv'
    <2>1. CASE UNCHANGED vars
          BY <1>2, <2>1 DEF vars, HeldInv, Serving, Releasing
    <2> QED
        BY <1>2, <2>1, HeldTemplate, HeldValidate, HeldWork, HeldEnvironment
        DEF Next, Reconcile, Validate
  <1> QED
      BY <1>1, <1>2, InitTypes, StepTypes, PTL DEF Spec, TemplateInv

(* The variables of the template controller have their types               *)
(* (vpcendpointtemplate_controller.go:48-241).                             *)
THEOREM TemplateVariables == Spec => []TypeOK
  BY TemplateTypesCorrect, PTL

(* Whatever the caches say, a VpcEndpoint is created for a template only   *)
(* while the API server has it with the finalizer: the deletions of a      *)
(* template that is being deleted come after its last creation             *)
(* (vpcendpointtemplate_controller.go:74-102, 178-185).                    *)
THEOREM CreatedUnderTemplate == Spec => CreateUnderTemplate
  <1>1. ASSUME TypeOK, TemplateInv, [Next]_vars, NEW ns \in Namespaces,
               ~Exists(vpces[<<ns, "own">>]), Exists(vpces'[<<ns, "own">>])
        PROVE  Held(tpl)
    <2> DEFINE k == <<ns, "own">>
    <2>k. k \in Keys /\ k[2] = "own" /\ vpces[k] \in Endpoints /\ vpces[k].st = "absent"
          BY <1>1 DEF Keys, TypeOK, Exists
    <2>f. vpces \in [Keys -> Endpoints]
          BY <1>1 DEF TypeOK
    <2>1. CASE CreateVpcEndpoint
          BY <1>1, <2>1 DEF CreateVpcEndpoint, TemplateInv, HeldInv, Serving
    <2>2. CASE DeleteVpcEndpoint
      <3>1. vpces'[k] = vpces[k]
            BY <1>1, <2>2, <2>k, <2>f DEF DeleteVpcEndpoint, TypeOK, NoEndpoint
      <3> QED
          BY <1>1, <3>1
    <2>3. ASSUME NEW m \in Namespaces, ReplaceSpec(m) PROVE FALSE
      <3>1. vpces'[k].st = vpces[k].st
            BY <2>3, <2>k, <2>f, ListedTypes DEF ReplaceSpec, Endpoints
      <3> QED
          BY <1>1, <3>1 DEF Exists
    <2>4. ASSUME NEW j \in Keys, EndpointGone(j) PROVE FALSE
          BY <1>1, <2>4, <2>k, <2>f DEF EndpointGone, NoEndpoint, Exists
    <2>5. ASSUME NEW j \in Keys, UserChanges(j) PROVE FALSE
      <3>1. j # k
            BY <2>5, <2>k DEF UserChanges, Exists
      <3>2. vpces'[k] = vpces[k]
            BY <2>5, <2>k, <2>f, <3>1 DEF UserChanges
      <3> QED
          BY <1>1, <3>2
    <2>6. vpces' # vpces
          BY <1>1
    <2> QED
        BY <1>1, <2>1, <2>2, <2>3, <2>4, <2>5, <2>6
        DEF Next, Reconcile, Validate, Environment, vars, evars, TemplateNotFound,
            TemplateRegistered, TemplateDeleting, ListHostedControlPlanes, HcpDeleting,
            DeleteExtras, CreateMissing, Deleted, RemoveFinalizer, Finish, CallFails, Crash,
            TemplateEvent, HcpEvent, EndpointSync, Resync, TemplateEdited, TemplateDeleted,
            HcpChanges
  <1>2. TypeOK /\ TemplateInv /\ [Next]_vars =>
          [\A ns \in Namespaces :
             LET k == <<ns, "own">> IN
             ~Exists(vpces[k]) /\ Exists(vpces'[k]) => tpl.exists /\ tpl.finalizer]_vars
        BY <1>1 DEF Held
  <1> QED
      BY <1>2, TemplateHeld, PTL DEF Spec, CreateUnderTemplate
=============================================================================
