----------------------------- MODULE MotionGate -----------------------------
(***************************************************************************)
(* What the chassis promises about motion, whatever its handlers do.  A    *)
(* permit has to be made ready (a ZERO), then granted (an ARM), before any *)
(* wheel is driven; a trip (a fault, a timeout, new gains) takes it back   *)
(* to locked, so that there is no way from a trip to motion that does not  *)
(* pass through ZERO and ARM again.                                        *)
(***************************************************************************)
CONSTANT Wheels

VARIABLES
  permit,  \* "locked", "ready" or "granted"
  moving   \* the wheels that are driven

vars == <<permit, moving>>

Init == permit = "locked" /\ moving = {}

\* A ZERO, from anywhere; or a stop request, which keeps the ZERO seen before.
MakeReady == permit' = "ready" /\ moving' = {}

\* An ARM.
Grant == permit = "ready" /\ permit' = "granted" /\ moving' = {}

\* The control task sets the wheels.
Drive == permit = "granted" /\ UNCHANGED permit /\ moving' \in SUBSET Wheels

\* A fault, a command timeout or a change of gains.
Trip == permit' = "locked" /\ moving' = {}

Next == MakeReady \/ Grant \/ Drive \/ Trip

Spec == Init /\ [][Next]_vars
=============================================================================
