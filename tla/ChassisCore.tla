----------------------------- MODULE ChassisCore -----------------------------
(***************************************************************************)
(* The chassis state machine of robot_chassis_diag_core.c as operators on  *)
(* one record, the robot_chassis_core_t that the control task owns.  Every *)
(* operator returns the record as the C function leaves it; what a bool    *)
(* function returns is the companion predicate (CanArm, Accepts, ...).     *)
(*                                                                         *)
(* Counts, outputs and the integral are integers, as in the code (the      *)
(* integral is a float that only ever sums integers below its limit).      *)
(* Gains are multiples of 1/GainScale, so 5.0 and 0.25 are 20 and 1 with a *)
(* scale of 4.  Time is the uint32_t millisecond clock, a value below      *)
(* ClockMod that wraps.                                                    *)
(***************************************************************************)
EXTENDS Integers

CONSTANTS
  Wheels,          \* the wheels, in the code LF, LR, RF, RR
  MaxTarget,       \* config.max_target_counts
  MaxOutput,       \* config.max_output
  IntegralLimit,   \* config.integral_limit
  GainScale,       \* gains are stored as multiples of 1 / GainScale
  CommandTimeout,  \* config.command_timeout_ms, in clock units
  StallSteps,      \* config.stall_steps
  ClockMod,        \* 2^32 in the code: the clock counts 0 .. ClockMod - 1
  IntMin           \* INT_MIN, the one int whose abs() is undefined

ASSUME CoreAssumption ==
  /\ MaxTarget \in Nat \ {0}
  /\ MaxOutput \in Nat \ {0}
  /\ IntegralLimit \in Nat \ {0}
  /\ GainScale \in Nat \ {0}
  /\ CommandTimeout \in Nat \ {0}
  /\ StallSteps \in Nat \ {0}
  /\ ClockMod \in Nat \ {0}
  /\ IntMin \in Int
  /\ IntMin < -MaxTarget

-----------------------------------------------------------------------------
(* Types. *)

States == {"DISARMED", "ARMED", "FAULT_LATCHED"}

\* The reasons that latch a fault, and all of them.
FaultReasons == {"INVALID_TARGET", "ENCODER_STALL"}
StopReasons == {"STARTUP", "NONE", "EXPLICIT", "TIMEOUT"} \cup FaultReasons

Clock == 0 .. ClockMod - 1

Cores ==
  [state : States, stop_reason : StopReasons,
   target : [Wheels -> Int], output : [Wheels -> Int],
   integral : [Wheels -> Int], stall : [Wheels -> Nat],
   last_command : Clock, zero_seen : BOOLEAN,
   kp : Nat, ki : Nat]

-----------------------------------------------------------------------------
(* Arithmetic. *)

Magnitude(n) == IF n < 0 THEN -n ELSE n

Clamp(n, limit) ==
  IF n > limit THEN limit ELSE IF n < -limit THEN -limit ELSE n

\* lroundf of n / d: to the nearest integer, halves away from zero.
RoundRatio(n, d) ==
  LET r == (2 * Magnitude(n) + d) \div (2 * d)
  IN  IF n < 0 THEN -r ELSE r

RoundScaled(n) == RoundRatio(n, GainScale)

\* now_ms - last_command_ms in uint32_t arithmetic.
Age(now, last) == IF now >= last THEN now - last ELSE now - last + ClockMod

-----------------------------------------------------------------------------
(* The operations of robot_chassis_diag_core.c. *)

AllZero == [w \in Wheels |-> 0]

\* robot_chassis_core_twist_to_targets, of what the two sides would move in one
\* period in multiples of 1/GainScale counts, in exact arithmetic: when the
\* faster side is beyond the limit both are scaled down together.
TwistCounts(left, right) ==
  LET peak == IF Magnitude(left) > Magnitude(right) THEN Magnitude(left)
              ELSE Magnitude(right)
      Limited(n) == IF peak > MaxTarget * GainScale
                    THEN RoundRatio(n * MaxTarget, peak) ELSE RoundScaled(n)
  IN  [left |-> Limited(left), right |-> Limited(right)]

\* The same of a finite twist that overflows a float: its peak is infinite and
\* the scale 0, so a side that did not overflow rests and the other is lroundf of
\* inf * 0, which C leaves open; unspecified are the numbers a build returns.
OverflowCounts(unspecified) ==
  [left : unspecified \cup {0}, right : unspecified \cup {0}]

InitialCore(kp, ki) ==
  [state |-> "DISARMED", stop_reason |-> "STARTUP",
   target |-> AllZero, output |-> AllZero,
   integral |-> AllZero, stall |-> AllZero,
   last_command |-> 0, zero_seen |-> FALSE, kp |-> kp, ki |-> ki]

\* Mutant: the integral survives.
ZeroControlButIntegral(c) ==
  [c EXCEPT !.target = AllZero, !.output = AllZero, !.stall = AllZero]

ZeroControl(c) ==
  [c EXCEPT !.target = AllZero, !.output = AllZero,
            !.integral = AllZero, !.stall = AllZero]

CanUpdateGains(c) == c.state = "DISARMED"

UpdateGains(c, kp, ki) ==
  IF CanUpdateGains(c)
  THEN [ZeroControl(c) EXCEPT !.kp = kp, !.ki = ki, !.zero_seen = FALSE,
                              !.stop_reason = "EXPLICIT"]
  ELSE c

AcceptZero(c, now) ==
  LET z == [ZeroControl(c) EXCEPT !.last_command = now, !.zero_seen = TRUE]
  IN  IF c.state = "FAULT_LATCHED" THEN z
      ELSE [z EXCEPT !.state = "DISARMED", !.stop_reason = "EXPLICIT"]

\* Mutant: any disarmed chassis may be armed.
CanArmUnseen(c) == c.state = "DISARMED"

CanArm(c) == c.state = "DISARMED" /\ c.zero_seen

Arm(c, now) ==
  IF CanArm(c)
  THEN [ZeroControl(c) EXCEPT !.state = "ARMED", !.stop_reason = "NONE",
                              !.last_command = now]
  ELSE c

\* A fault latches and forgets the ZERO, a timeout forgets the ZERO, every
\* other stop disarms, whatever the state was.
Stop(c, reason) ==
  [ZeroControl(c) EXCEPT
     !.stop_reason = reason,
     !.state = IF reason \in FaultReasons THEN "FAULT_LATCHED" ELSE "DISARMED",
     !.zero_seen = c.zero_seen /\ reason \notin FaultReasons \cup {"TIMEOUT"}]

\* Mutant: only the positive side is checked.
OverLimitAbove(t, absWraps) == t > MaxTarget

\* abs(t) > max_target_counts.  abs(INT_MIN) is undefined: a build that
\* computes abs() in registers gets INT_MIN back, which is not above the
\* limit (absWraps); one that compares against the two bounds rejects it.
OverLimit(t, absWraps) ==
  IF t = IntMin THEN ~absWraps ELSE Magnitude(t) > MaxTarget

Accepts(c, targets, absWraps) ==
  c.state = "ARMED" /\ \A w \in Wheels : ~OverLimit(targets[w], absWraps)

AcceptTargets(c, targets, now) ==
  IF targets = AllZero
  THEN [ZeroControl(c) EXCEPT !.last_command = now, !.stop_reason = "EXPLICIT"]
  ELSE [c EXCEPT !.target = targets, !.last_command = now,
                 !.stop_reason = "NONE"]

Submit(c, targets, now, absWraps) ==
  IF c.state # "ARMED" THEN c
  ELSE IF Accepts(c, targets, absWraps) THEN AcceptTargets(c, targets, now)
  ELSE Stop(c, "INVALID_TARGET")

CanClearFault(c) == c.state = "FAULT_LATCHED" /\ c.zero_seen

ClearFault(c) ==
  IF CanClearFault(c)
  THEN [ZeroControl(c) EXCEPT !.state = "DISARMED", !.stop_reason = "EXPLICIT"]
  ELSE c

-----------------------------------------------------------------------------
(* robot_chassis_core_step: timeout, stall detection, PI.  The C loop      *)
(* returns at the first stalled wheel, after which Stop has zeroed what    *)
(* the loop had computed, so the order of the wheels does not matter.      *)

NewStall(c, delta) ==
  [w \in Wheels |-> IF c.target[w] # 0 /\ delta[w] = 0 THEN c.stall[w] + 1
                    ELSE 0]

NewIntegral(c, delta) ==
  [w \in Wheels |-> IF c.target[w] = 0 THEN 0
                    ELSE Clamp(c.integral[w] + c.target[w] - delta[w],
                               IntegralLimit)]

\* The clamp is to an integer, so it commutes with the rounding after it, as
\* ClampAndRoundCommute shows.
PiOutput(c, error, integral) ==
  Clamp(RoundScaled(c.kp * error + c.ki * integral), MaxOutput)

NewOutput(c, delta) ==
  [w \in Wheels |-> IF c.target[w] = 0 THEN 0
                    ELSE PiOutput(c, c.target[w] - delta[w],
                                  NewIntegral(c, delta)[w])]

\* Mutant: a stamp of zero is taken for no command at all.
TimedOutIfStamped(c, now) ==
  c.last_command # 0 /\ Age(now, c.last_command) > CommandTimeout

\* Mutant: the deadline is compared, not the age, and does not survive the wrap
\* of the clock.
TimedOutByDeadline(c, now) == now > c.last_command + CommandTimeout

TimedOut(c, now) == Age(now, c.last_command) > CommandTimeout

Stalled(c, delta) == \E w \in Wheels : NewStall(c, delta)[w] >= StallSteps

Step(c, delta, now) ==
  IF c.state # "ARMED" THEN [c EXCEPT !.output = AllZero]
  ELSE IF TimedOut(c, now) THEN Stop(c, "TIMEOUT")
  ELSE IF Stalled(c, delta) THEN Stop(c, "ENCODER_STALL")
  ELSE [c EXCEPT !.stall = NewStall(c, delta),
                 !.integral = NewIntegral(c, delta),
                 !.output = NewOutput(c, delta)]
=============================================================================
