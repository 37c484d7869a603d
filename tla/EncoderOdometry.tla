---------------------------- MODULE EncoderOdometry ----------------------------
(***************************************************************************)
(* How the chassis task of robot_chassis_diag.c turns four pulse counters  *)
(* into odometry.  A counter starts again from zero when it reaches either *)
(* limit, and the wheels go on moving while the task reads the counters    *)
(* one after the other; a read that fails ends the period with the         *)
(* counters before it already remembered as read.                          *)
(*                                                                         *)
(* The odometry of a wheel is the sum of the deltas the task has used;     *)
(* the pose that robot_chassis_odom_update integrates is a function of     *)
(* these deltas, one period at a time, and is left out, as are its stamp   *)
(* and the lock that lets a reader copy both whole.                        *)
(***************************************************************************)
EXTENDS Integers

CONSTANTS
  WheelCount,   \* ROBOT_CHASSIS_WHEEL_COUNT
  Limit,        \* ENCODER_COUNT_LIMIT
  MaxMove,      \* assumption: farthest a wheel moves between two of its reads
  MaxTravel,    \* bound: farthest a wheel is from where its odometry was zeroed
  MaxFailures   \* bound: failed periods until the odometry is zeroed

ASSUME OdometryAssumption ==
  /\ WheelCount \in Nat \ {0}
  /\ Limit \in Nat \ {0}
  /\ MaxMove \in Nat /\ 2 * MaxMove < Limit
  /\ MaxTravel \in Nat /\ MaxFailures \in Nat

VARIABLES
  counter,    \* the pulse counters
  last,       \* s_last_counts
  delta,      \* delta, local to one period
  next,       \* the wheel to be read next, WheelCount when all are
  phase,      \* where the task is: asleep, at the console, reading
  odom,       \* s_odom, as the deltas of each wheel
  unread,     \* ghost: how far each wheel has moved since its counter was read
  travelled,  \* ghost: how far it had moved then, from where odom was zeroed
  failures    \* ghost: periods that failed since

task == <<last, delta, next, phase, odom, failures>>
vars == <<counter, task, unread, travelled>>

Wheels == 0 .. WheelCount - 1
AllZero == [w \in Wheels |-> 0]
Magnitude(n) == IF n < 0 THEN -n ELSE n

Counts == (1 - Limit) .. (Limit - 1)

TypeOK ==
  /\ counter \in [Wheels -> Counts] /\ last \in [Wheels -> Counts]
  /\ delta \in [Wheels -> Int]
  /\ next \in 0 .. WheelCount
  /\ phase \in {"sleep", "console", "read"}
  /\ odom \in [Wheels -> Int]
  /\ unread \in [Wheels -> -MaxMove .. MaxMove]
  /\ travelled \in [Wheels -> Int]
  /\ failures \in 0 .. MaxFailures

\* The counters are cleared when they are initialised.
Init ==
  /\ counter = AllZero /\ last = AllZero /\ delta = AllZero
  /\ next = 0 /\ phase = "sleep"
  /\ odom = AllZero
  /\ unread = AllZero /\ travelled = AllZero /\ failures = 0

-----------------------------------------------------------------------------
(* The wheels. *)

\* One pulse: the counter restarts from zero at either limit.
Advance(c, s) == IF Magnitude(c + s) = Limit THEN 0 ELSE c + s

Pulse(w) ==
  \E s \in {-1, 1} :
    /\ Magnitude(unread[w] + s) <= MaxMove
    /\ Magnitude(travelled[w] + unread[w] + s) <= MaxTravel
    /\ counter' = [counter EXCEPT ![w] = Advance(@, s)]
    /\ unread' = [unread EXCEPT ![w] = @ + s]
    /\ UNCHANGED <<task, travelled>>

-----------------------------------------------------------------------------
(* The task. *)

Nearer(a, b) == IF Magnitude(a) < Magnitude(b) THEN a ELSE b

\* Mutant: only the restart at the upper limit is undone.
DeltaUpperOnly(current, previous) ==
  Nearer(current - previous + Limit, current - previous)

\* robot_chassis_safe_count_delta: the shortest of the direct path and the two
\* that cross a limit.
SafeDelta(current, previous) ==
  Nearer(current - previous - Limit,
         Nearer(current - previous + Limit, current - previous))

Wake ==
  /\ phase = "sleep" /\ phase' = "console"
  /\ UNCHANGED <<counter, last, delta, next, odom, unread, travelled, failures>>

\* ODOMZERO, which the console accepts while the chassis is DISARMED.  It does
\* not read the counters: the next delta still starts at the last read.
OdomZero ==
  /\ phase = "console"
  /\ odom' = AllZero
  /\ travelled' = AllZero /\ failures' = 0
  /\ UNCHANGED <<counter, last, delta, next, phase, unread>>

ConsoleDone ==
  /\ phase = "console" /\ phase' = "read"
  /\ next' = 0 /\ delta' = AllZero
  /\ UNCHANGED <<counter, last, odom, unread, travelled, failures>>

Remember(w) == last' = [last EXCEPT ![w] = counter[w]]

Read ==
  /\ phase = "read" /\ next < WheelCount /\ next' = next + 1
  /\ delta' = [delta EXCEPT ![next] = SafeDelta(counter[next], last[next])]
  /\ Remember(next)
  /\ travelled' = [travelled EXCEPT ![next] = @ + unread[next]]
  /\ unread' = [unread EXCEPT ![next] = 0]
  /\ UNCHANGED <<counter, phase, odom, failures>>

\* A counter does not answer: this period's deltas are not used.
ReadFails ==
  /\ phase = "read" /\ next < WheelCount /\ phase' = "sleep"
  /\ failures < MaxFailures /\ failures' = failures + 1
  /\ UNCHANGED <<counter, last, delta, next, odom, unread, travelled>>

\* Mutant: the first wheel is left out.
AccumulateRest == [w \in Wheels |-> IF w = 0 THEN odom[w] ELSE odom[w] + delta[w]]

Accumulate == [w \in Wheels |-> odom[w] + delta[w]]

Update ==
  /\ phase = "read" /\ next = WheelCount /\ phase' = "sleep"
  /\ odom' = Accumulate
  /\ UNCHANGED <<counter, last, delta, next, unread, travelled, failures>>

-----------------------------------------------------------------------------
TaskNext == Wake \/ OdomZero \/ ConsoleDone \/ Read \/ ReadFails \/ Update

Next == (\E w \in Wheels : Pulse(w)) \/ TaskNext

Spec == Init /\ [][Next]_vars

-----------------------------------------------------------------------------
(* Properties. *)

\* Between two periods the odometry of a wheel is its exact movement up to its
\* last read, across every restart of its counter: of every wheel as long as no
\* read has failed, and of the wheel that is read last whatever fails, since a
\* failed read loses for good only what the wheels before it had moved.
OdomExact ==
  phase # "read" =>
    \A w \in Wheels :
      failures = 0 \/ w = WheelCount - 1 => odom[w] = travelled[w]

\* What the failures can cost: no wheel is ever off by more than the movement
\* of as many periods as failed.
DriftBounded ==
  phase # "read" =>
    \A w \in Wheels : Magnitude(travelled[w] - odom[w]) <= failures * MaxMove
=============================================================================
