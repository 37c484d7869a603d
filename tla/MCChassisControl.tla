--------------------------- MODULE MCChassisControl ---------------------------
(* Small instances of ChassisControl for TLC. *)
EXTENDS ChassisControl

\* The vector of a twist, one wheel on the left and the others on the right.
Vector(counts) ==
  [w \in Wheels |-> IF w = CHOOSE v \in Wheels : TRUE THEN counts.left
                    ELSE counts.right]

Converted(left, right) == Vector(TwistCounts(left, right))

\* What overflows becomes rest or a number beyond the limit.
Overflowed == {Vector(counts) : counts \in OverflowCounts({2})}

\* Twists within the limit, beyond it, that round to rest or away from it, that
\* turn, and that overflow.
MCTwistTargets == {Converted(left, right) : left, right \in {0, 1, 3}} \cup Overflowed
MCStraightTwists == {Converted(n, n) : n \in {0, 3}}
MCTurnTwists == {AllZero, Converted(3, -3)}

\* Within the limit, and beyond it on both sides.
MCRunTargets == {-2, -1, 0, 1}
MCRunLine == {1}
MCRunIntMin == {1, IntMin}

\* The console does not use this kind of line.
MCNoLine == {}

MCGains == {<<1, 1>>, <<2, 0>>}
MCOneGain == {<<1, 1>>}
MCInitialGains == <<1, 1>>

\* Standing still, moving as told, moving against.
MCDeltas == {-1, 0, 1}
MCStandOrMove == {0, 1}

MCNoFailure == {{}}
MCOneFailure == {{}, {CHOOSE w \in Wheels : TRUE}}
MCFailures == SUBSET Wheels

MCIntMin == -8
=============================================================================
