--------------------------- MODULE OwnedResource ---------------------------
(***************************************************************************)
(* What a VpcEndpoint promises for each kind of AWS object it owns, without*)
(* caches, copies, conditions or steps: the object is made only under the  *)
(* finalizer and never twice, its id stays noted while it is alive, and    *)
(* the resource goes only when the noted object is released.  An object    *)
(* that was made but not noted yet may be left behind.                     *)
(***************************************************************************)
CONSTANTS Ids, None

VARIABLES
  owner,    \* the resource: bare, guarded by the finalizer, or gone
  present,  \* objects in AWS that a lookup finds
  alive,    \* those of them whose deletion has not begun
  noted     \* the id in the resource's status

vars == <<owner, present, alive, noted>>

Init == owner = "bare" /\ present = {} /\ alive = {} /\ noted = None

Guard ==
  /\ owner = "bare" /\ owner' = "guarded"
  /\ UNCHANGED <<present, alive, noted>>

(* An object is made, and noted at once if the write succeeds *)
Make(i) ==
  /\ owner = "guarded" /\ present = {}
  /\ present' = {i} /\ alive' = {i} /\ noted' \in {noted, i}
  /\ UNCHANGED owner

(* One is found that was not noted before *)
Note(i) ==
  /\ owner = "guarded" /\ i \in present /\ noted \notin present
  /\ noted' = i
  /\ UNCHANGED <<owner, present, alive>>

(* The operator or others delete, AWS finishes deletions *)
Fade ==
  /\ present' \subseteq present /\ alive' \subseteq alive
  /\ UNCHANGED <<owner, noted>>

(* The id is dropped; the object may be deleted in the same step *)
Forget ==
  /\ owner = "guarded" /\ noted' = None
  /\ present' \subseteq present /\ alive' \subseteq alive /\ noted \notin alive'
  /\ UNCHANGED owner

Retire ==
  /\ owner' = "gone"
  /\ \/ owner = "guarded" /\ noted \notin alive
     \/ owner = "bare" /\ present = {}
  /\ UNCHANGED <<present, alive, noted>>

Next == Fade \/ Guard \/ Forget \/ Retire \/ \E i \in Ids : Make(i) \/ Note(i)

Spec == Init /\ [][Next]_vars
=============================================================================
