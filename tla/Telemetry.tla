------------------------------- MODULE Telemetry -------------------------------
(***************************************************************************)
(* What a publisher of sensor data promises its subscriber, by its own     *)
(* books: each message is of a later measurement than the one before, made *)
(* when its stamp says, and stamps increase, whatever is lost, retried or  *)
(* skipped in between and wherever the epoch of the stamps steps.          *)
(***************************************************************************)
EXTENDS Integers

CONSTANTS
  Early,  \* how much earlier than the measurement a stamp may be
  Late    \* how much later

VARIABLES
  clock,   \* of the robot
  offset,  \* from the clock to the epoch of the stamps
  last     \* the newest message: its place among the measurements, when it
           \* was measured, and its stamp

telemetryVars == <<clock, offset, last>>

Init == clock = 0 /\ offset = 0 /\ last = [place |-> 0, measured |-> 0, stamp |-> 0]

\* When the stamp says that the message was measured.
Claimed(message) == message.stamp - offset

Send ==
  /\ last'.place > last.place
  /\ last'.measured >= last.measured /\ last'.measured <= clock
  /\ last'.stamp > last.stamp
  /\ Claimed(last') - last'.measured <= Late
  /\ last'.measured - Claimed(last') <= Early
  /\ UNCHANGED <<clock, offset>>

Resync == offset' \in Int /\ UNCHANGED <<clock, last>>

Pass == clock' = clock + 1 /\ UNCHANGED <<offset, last>>

Next == Send \/ Resync \/ Pass

Spec == Init /\ [][Next]_telemetryVars
=============================================================================
