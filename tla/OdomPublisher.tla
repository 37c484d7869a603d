---------------------------- MODULE OdomPublisher ----------------------------
(***************************************************************************)
(* The way of the odometry from the control task to its ROS message.  The  *)
(* control task of robot_chassis_diag.c integrates the pose once a period  *)
(* and stamps it with the time the period began; ODOMZERO resets it in     *)
(* between and stamps it with the time of the reset.  publish_odom_snapshot*)
(* of robot_microros.c copies pose and stamp under the spin lock, turns    *)
(* the stamp into the Agent's epoch and publishes it reliably: a message   *)
(* may arrive although the call reports that it failed.                    *)
(*                                                                         *)
(* The pose itself is the subject of EncoderOdometry; here it is the time  *)
(* its encoder counts were read.                                           *)
(***************************************************************************)
EXTENDS Integers

CONSTANTS
  Offsets,    \* what a synchronisation may put between clock and epoch
  MaxPeriod,  \* assumption: longest time from one period's start to the next
  MaxStall,   \* assumption: longest time from now_us to the epoch's reading
  MaxTime     \* bound: the end of time

ASSUME OdomAssumption ==
  /\ Offsets \subseteq Int
  /\ MaxPeriod \in Nat \ {0} /\ MaxStall \in Nat /\ MaxTime \in Nat

VARIABLES
  clock,      \* esp_timer_get_time
  phase,      \* where the control task is in its period
  wokeAt,     \* its now_us
  readAt,     \* history: when the counts it works on were read
  odom,       \* s_odom and s_odom_sampled_at_us
  step,       \* where publish_odom_snapshot is
  snapshot,   \* its snapshot
  now,        \* its now_us
  stamp,      \* its sampled_at_ns
  published,  \* s_last_published_odom_..., NothingPublished if there is none
  delivered,  \* history: the stamp, by this clock, of the last that left
  live,       \* whether there is a session whose executor runs the callback
  synced,     \* s_time_synced
  offset      \* external: epoch time less clock

control == <<phase, wokeAt, readAt, odom>>
publisher == <<step, snapshot, now, stamp>>
books == <<published, delivered>>
session == <<live, synced, offset>>
vars == <<clock, control, publisher, books, session>>

-----------------------------------------------------------------------------
Poses == [sampledAt : Nat, counted : Nat]
NoPose == [sampledAt |-> 0, counted |-> 0]
NothingPublished == [sampledAt |-> 0, stamp |-> 0, counted |-> 0]

\* robot_chassis_diag_get_odom_snapshot returns it.
Valid(pose) == pose.sampledAt > 0

\* The publisher holds a valid pose from the copy to the end of the call.
TypeOK ==
  /\ clock \in Nat
  /\ phase \in {"rest", "console", "integrate"}
  /\ wokeAt \in Nat /\ readAt \in Nat
  /\ odom \in Poses
  /\ step \in {"idle", "copied", "aged", "publish"}
  /\ snapshot \in Poses
  /\ step # "idle" => Valid(snapshot)
  /\ now \in Nat /\ stamp \in Nat
  /\ published \in [sampledAt : Nat, stamp : Nat, counted : Nat]
  /\ delivered \in Int
  /\ live \in BOOLEAN /\ synced \in BOOLEAN
  /\ offset \in Offsets \cup {0}

Init ==
  /\ clock = 0
  /\ phase = "rest" /\ wokeAt = 0 /\ readAt = 0
  /\ odom = NoPose
  /\ step = "idle" /\ snapshot = NoPose /\ now = 0 /\ stamp = 0
  /\ published = NothingPublished /\ delivered = 0
  /\ live = FALSE /\ synced = FALSE /\ offset = 0

Tick ==
  /\ clock < MaxTime /\ clock' = clock + 1
  /\ clock' - wokeAt <= MaxPeriod
  /\ step = "aged" => clock' - now <= MaxStall
  /\ UNCHANGED <<control, publisher, books, session>>

-----------------------------------------------------------------------------
(* The control task. *)

\* Both assignments are in one critical section.
SetOdom(sampledAt, counted) ==
  odom' = [sampledAt |-> sampledAt, counted |-> counted]

Wake ==
  /\ phase = "rest" /\ phase' = "console"
  /\ wokeAt' = clock
  /\ UNCHANGED <<clock, readAt, odom, publisher, books, session>>

\* Only accepted while the core is DISARMED, which it may be in any period.
\* The new pose is zero here and now.
OdomZero ==
  /\ phase = "console"
  /\ SetOdom(clock, clock)
  /\ UNCHANGED <<clock, phase, wokeAt, readAt, publisher, books, session>>

ReadCounts ==
  /\ phase = "console" /\ phase' = "integrate"
  /\ readAt' = clock
  /\ UNCHANGED <<clock, wokeAt, odom, publisher, books, session>>

\* A failed read leaves pose and stamp alone.
ReadFails ==
  /\ phase = "console" /\ phase' = "rest"
  /\ UNCHANGED <<clock, wokeAt, readAt, odom, publisher, books, session>>

Integrate ==
  /\ phase = "integrate" /\ phase' = "rest"
  /\ SetOdom(wokeAt, readAt)
  /\ UNCHANGED <<clock, wokeAt, readAt, publisher, books, session>>

-----------------------------------------------------------------------------
(* publish_odom_snapshot. *)

Return ==
  step' = "idle" /\ snapshot' = NoPose /\ now' = 0 /\ stamp' = 0

\* Mutant: only the stamp of the message is compared.
UsableByStamp == Valid(odom) /\ synced

\* The sample time zero stands for s_has_published_odom_sample being false.
Usable == Valid(odom) /\ synced /\ odom.sampledAt > published.sampledAt

\* Returning at once changes nothing.
Copy ==
  /\ step = "idle" /\ live
  /\ Usable
  /\ step' = "copied" /\ snapshot' = odom
  /\ UNCHANGED <<clock, control, now, stamp, books, session>>

ReadClock ==
  /\ step = "copied" /\ step' = "aged"
  /\ now' = clock
  /\ UNCHANGED <<clock, control, snapshot, stamp, books, session>>

Age == IF now < snapshot.sampledAt THEN 0 ELSE now - snapshot.sampledAt

\* Mutant: publishing refreshes the stamp.
StampOfPublication(epochNow) == epochNow

\* Mutant: the age is counted the wrong way.
StampAhead(epochNow) == epochNow + Age

StampOfSnapshot(epochNow) == epochNow - Age

\* An epoch or stamp that is not positive, or a stamp that is not later than
\* the last, drops the snapshot for this time.
ReadEpoch ==
  LET epochNow == clock + offset
      sampledAtEpoch == StampOfSnapshot(epochNow)
  IN /\ step = "aged"
     /\ IF epochNow > 0 /\ sampledAtEpoch > published.stamp
        THEN step' = "publish" /\ stamp' = sampledAtEpoch
             /\ UNCHANGED <<snapshot, now>>
        ELSE Return
     /\ UNCHANGED <<clock, control, books, session>>

Publish ==
  /\ step = "publish"
  /\ published' = [sampledAt |-> snapshot.sampledAt, stamp |-> stamp,
                   counted |-> snapshot.counted]
  /\ delivered' = stamp - offset
  /\ Return
  /\ UNCHANGED <<clock, control, session>>

\* A message that is not acknowledged in time may have arrived all the same.
PublishFails ==
  /\ step = "publish"
  /\ delivered' \in {delivered, stamp - offset}
  /\ Return
  /\ UNCHANGED <<clock, control, published, session>>

-----------------------------------------------------------------------------
(* The rest of the micro-ROS task, between two callbacks. *)

BeginSession ==
  /\ ~live /\ live' = TRUE /\ synced' = FALSE
  /\ UNCHANGED <<clock, control, publisher, books, offset>>

EndSession ==
  /\ live /\ step = "idle"
  /\ live' = FALSE /\ synced' = FALSE
  /\ UNCHANGED <<clock, control, publisher, books, offset>>

Synchronise ==
  /\ live /\ step = "idle"
  /\ \/ synced' = TRUE /\ offset' \in Offsets
     \/ synced' = FALSE /\ UNCHANGED offset
  /\ UNCHANGED <<clock, control, publisher, books, live>>

-----------------------------------------------------------------------------
ControlNext == Wake \/ OdomZero \/ ReadCounts \/ ReadFails \/ Integrate

PublisherNext == Copy \/ ReadClock \/ ReadEpoch \/ Publish \/ PublishFails

SessionNext == BeginSession \/ EndSession \/ Synchronise

Next == Tick \/ ControlNext \/ PublisherNext \/ SessionNext

Spec == Init /\ [][Next]_vars

-----------------------------------------------------------------------------
(* Properties. *)

\* The stamp of a message names the moment its encoder counts were read, but
\* for the part of the period the console took before that and the delay
\* between two readings of the clock, however often the message was retried.
StampIsHonest ==
  step = "publish" =>
    /\ (stamp - offset) - snapshot.counted <= MaxStall
    /\ snapshot.counted - (stamp - offset) <= MaxPeriod

\* ODOMZERO makes the stamp of the next pose go back and the epoch may step
\* back as well, yet no recorded message has a pose from earlier counts than
\* the one before, and each has a later sample time and a later stamp.
OnlyNewer ==
  [][published' # published =>
       /\ published'.counted >= published.counted
       /\ published'.sampledAt > published.sampledAt
       /\ published'.stamp > published.stamp]_vars

\* The callback keeps the promise of Telemetry to the subscriber, with the pose's
\* sample time as its place among the measurements.
Subscriber ==
  INSTANCE Telemetry WITH
    last <- [place |-> published.sampledAt, measured |-> published.counted,
             stamp |-> published.stamp],
    Early <- MaxPeriod, Late <- MaxStall
TelemetrySpec == Subscriber!Spec

\* What has left the robot, recorded or not, may be out of order, but by no
\* more than the reset of a period and the delay of a stamp.
InOrderOnTheWire ==
  [][delivered' >= delivered - (MaxPeriod + MaxStall)]_vars
=============================================================================
