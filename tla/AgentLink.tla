------------------------------- MODULE AgentLink -------------------------------
(***************************************************************************)
(* What the micro-ROS task promises the motion backend: commands come from *)
(* the executor of a session alone; a session ends while the executor      *)
(* rests, with a stop as the last word; and without a session nothing but  *)
(* a stop is said.                                                         *)
(*                                                                         *)
(* MicroRosSession keeps this promise, and ChassisSystem relies on it.     *)
(***************************************************************************)

VARIABLES
  link,  \* no session, its executor at work, or at rest in a session
  word   \* the last word to the motion backend

linkVars == <<link, word>>

Init == link = "away" /\ word = "none"

Open == link = "away" /\ link' = "spin" /\ UNCHANGED word

Say == link = "spin" /\ word' \in {"command", "stop"} /\ UNCHANGED link

Rest == link = "spin" /\ link' = "rest" /\ UNCHANGED word

Resume == link = "rest" /\ link' = "spin" /\ UNCHANGED word

Close == link = "rest" /\ link' = "away" /\ word' = "stop"

\* A failed set-up.
StopOnly == link = "away" /\ word' = "stop" /\ UNCHANGED link

Next == Open \/ Say \/ Rest \/ Resume \/ Close \/ StopOnly

Spec == Init /\ [][Next]_linkVars
=============================================================================
