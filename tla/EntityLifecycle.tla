---------------------------- MODULE EntityLifecycle ----------------------------
(***************************************************************************)
(* What the micro-ROS task promises about the entities it makes, in any    *)
(* order of its lists and for any failure: an entity is made after those   *)
(* it refers to and finished after those that refer to it, a session opens *)
(* only over all of them with every reference in place, and the task goes  *)
(* back to where it holds nothing before it makes the first one again.     *)
(***************************************************************************)
CONSTANTS
  Entities,  \* what a session needs
  Required   \* the pairs of an entity and one it refers to in a session

VARIABLES
  stage,  \* "none", "making", "live" or "finishing"
  alive,  \* the entities that exist
  refs    \* the pairs of an entity and one it refers to

lifeVars == <<stage, alive, refs>>

Init == stage = "none" /\ alive = {} /\ refs = {}

Begin == stage = "none" /\ stage' = "making" /\ UNCHANGED <<alive, refs>>

\* A new entity may refer to what there is; nothing refers to it yet.
Add(e) ==
  /\ alive' = alive \cup {e}
  /\ \E used \in SUBSET alive : refs' = refs \cup ({e} \X used)

Make == stage = "making" /\ UNCHANGED stage /\ \E e \in Entities \ alive : Add(e)

Refer ==
  /\ stage = "making" /\ UNCHANGED <<stage, alive>>
  /\ \E user, e \in alive : refs' = refs \cup {<<user, e>>}

Open ==
  /\ stage = "making" /\ stage' = "live"
  /\ alive = Entities /\ refs = Required
  /\ UNCHANGED <<alive, refs>>

\* A call that fails may leave behind what it was to make.
GiveUp ==
  /\ stage = "making" /\ stage' = "finishing"
  /\ UNCHANGED <<alive, refs>> \/ \E e \in Entities \ alive : Add(e)

Close == stage = "live" /\ stage' = "finishing" /\ UNCHANGED <<alive, refs>>

Finish ==
  /\ stage = "finishing" /\ UNCHANGED stage
  /\ \E e \in alive :
       /\ \A user \in alive : <<user, e>> \notin refs
       /\ alive' = alive \ {e}
       /\ refs' = {r \in refs : r[1] # e}

End ==
  /\ stage = "finishing" /\ stage' = "none"
  /\ alive = {} /\ UNCHANGED <<alive, refs>>

Next == Begin \/ Make \/ Refer \/ Open \/ GiveUp \/ Close \/ Finish \/ End

Spec == Init /\ [][Next]_lifeVars
=============================================================================
