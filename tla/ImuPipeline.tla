----------------------------- MODULE ImuPipeline -----------------------------
(***************************************************************************)
(* The way of an IMU sample from the sensor to its ROS message: the task   *)
(* of the ICM42670P backend polls the sensor, stamps and reads a sample    *)
(* and overwrites the length-one queue of robot_imu.c; the timer callback  *)
(* of the micro-ROS task peeks it, judges its age, turns its stamp into    *)
(* the Agent's epoch and publishes it.                                     *)
(*                                                                         *)
(* The sensor, the two tasks and the clock go on in any order between      *)
(* their reads of the clock and their accesses to the queue.  The epoch is *)
(* what the last synchronisation made it: it may step either way.          *)
(***************************************************************************)
EXTENDS Integers

CONSTANTS
  StaleTimeout,      \* CONFIG_ROBOT_IMU_STALE_TIMEOUT_MS
  SequenceMod,       \* 2^32 in the code
  Offsets,           \* what a synchronisation may put between clock and epoch
  ConversionPeriod,  \* assumption: the sensor converts at least this often
  MaxRead,           \* assumption: longest time from stamp to register read
  MaxStall,          \* assumption: longest time from now_us to the end of
                     \* rcl_publish
  MaxTime            \* bound: the end of time

ASSUME PipelineAssumption ==
  /\ StaleTimeout \in Nat
  /\ SequenceMod \in Nat /\ SequenceMod > 2
  /\ Offsets \subseteq Int
  /\ ConversionPeriod \in Nat \ {0}
  /\ MaxRead \in Nat /\ MaxStall \in Nat /\ MaxTime \in Nat

VARIABLES
  clock,      \* esp_timer_get_time
  converted,  \* external: when the values in the data registers were taken
  ready,      \* external: the data-ready bit, which reading it clears
  task,       \* where icm42670p_task is
  sampledAt,  \* its sampled_at_us
  taken,      \* history: when the values it has read were taken
  sequence,   \* s_sample_sequence
  latest,     \* s_latest_sample_queue
  step,       \* where imu_timer_callback is
  sample,     \* its sample
  now,        \* its now_us
  stamp,      \* its sampled_at_ns
  state,      \* s_last_imu_state
  published,  \* s_last_published_imu_..., NoSample if there is none
  gap,        \* whether the last publication counted a coalescing event
  live,       \* whether there is a session whose executor runs the callback
  synced,     \* s_time_synced
  offset      \* external: epoch time less clock

sensor == <<converted, ready>>
producer == <<task, sampledAt, taken, sequence, latest>>
callback == <<step, sample, now, stamp>>
record == <<published, gap>>
session == <<live, synced, offset>>
vars == <<clock, sensor, producer, callback, state, record, session>>

-----------------------------------------------------------------------------
(* A sample carries its stamp and sequence number, and for the properties  *)
(* the time its values were taken and how many samples were submitted up   *)
(* to it.  The values themselves are always finite, being integers that    *)
(* are scaled.                                                             *)

Sequences == 0 .. SequenceMod - 1
Samples ==
  [sampledAt : Nat, sequence : Sequences \ {0}, taken : Nat, serial : Nat \ {0}]
NoSample == [sampledAt |-> 0, sequence |-> 0, taken |-> 0, serial |-> 0]

Published ==
  [sequence : Sequences \ {0}, stamp : Nat \ {0}, taken : Nat, serial : Nat \ {0}]
NothingPublished == [sequence |-> 0, stamp |-> 0, taken |-> 0, serial |-> 0]

States == {"fresh", "no_sample", "stale", "clock_invalid", "argument_invalid"}

TypeOK ==
  /\ clock \in Nat /\ converted \in Nat /\ ready \in BOOLEAN
  /\ task \in {"wait", "stamp", "read", "submit"}
  /\ sampledAt \in Nat /\ taken \in Nat
  /\ sequence \in Sequences
  /\ latest \in Samples \cup {NoSample}
  /\ step \in {"idle", "peeked", "classified", "publish"}
  /\ sample \in Samples \cup {NoSample}
  /\ now \in Nat /\ stamp \in Nat
  /\ state \in States
  /\ published \in Published \cup {NothingPublished}
  /\ gap \in BOOLEAN
  /\ live \in BOOLEAN /\ synced \in BOOLEAN
  /\ offset \in Offsets \cup {0}

Init ==
  /\ clock = 0 /\ converted = 0 /\ ready = FALSE
  /\ task = "wait" /\ sampledAt = 0 /\ taken = 0
  /\ sequence = 0 /\ latest = NoSample
  /\ step = "idle" /\ sample = NoSample /\ now = 0 /\ stamp = 0
  /\ state = "argument_invalid"
  /\ published = NothingPublished /\ gap = FALSE
  /\ live = FALSE /\ synced = FALSE /\ offset = 0

-----------------------------------------------------------------------------
(* Sensor and clock.  Data that stands in the registers for longer than a  *)
(* conversion, a register read or a callback that takes longer than        *)
(* assumed would be a clock that ticks too far.                            *)

Tick ==
  /\ clock < MaxTime /\ clock' = clock + 1
  /\ clock' - converted <= ConversionPeriod
  /\ task = "read" => clock' - sampledAt <= MaxRead
  /\ step \in {"classified", "publish"} => clock' - now <= MaxStall
  /\ UNCHANGED <<sensor, producer, callback, state, record, session>>

Convert ==
  /\ converted < clock
  /\ converted' = clock /\ ready' = TRUE
  /\ UNCHANGED <<clock, producer, callback, state, record, session>>

-----------------------------------------------------------------------------
(* The backend's task.  It stays in "wait" while the sensor is not ready,  *)
(* while a status read fails, after a timeout and in a test pause.         *)

DataReady ==
  /\ task = "wait" /\ ready
  /\ task' = "stamp" /\ ready' = FALSE
  /\ UNCHANGED <<clock, converted, sampledAt, taken, sequence, latest,
                 callback, state, record, session>>

TakeStamp ==
  /\ task = "stamp" /\ task' = "read"
  /\ sampledAt' = clock
  /\ UNCHANGED <<clock, sensor, taken, sequence, latest,
                 callback, state, record, session>>

\* A failed read drops the sample.
ReadData ==
  /\ task = "read"
  /\ \/ task' = "submit" /\ taken' = converted /\ UNCHANGED sampledAt
     \/ task' = "wait" /\ sampledAt' = 0 /\ UNCHANGED taken
  /\ UNCHANGED <<clock, sensor, sequence, latest,
                 callback, state, record, session>>

Successor(n) == IF n + 1 = SequenceMod THEN 1 ELSE n + 1

\* Only the task itself reads s_sample_sequence, so that its commitment after
\* the overwrite is part of the step.
Submit ==
  /\ task = "submit" /\ task' = "wait"
  /\ latest' = [sampledAt |-> sampledAt, sequence |-> Successor(sequence),
                taken |-> taken, serial |-> latest.serial + 1]
  /\ sequence' = Successor(sequence)
  /\ sampledAt' = 0 /\ taken' = 0
  /\ UNCHANGED <<clock, sensor, callback, state, record, session>>

-----------------------------------------------------------------------------
(* The timer callback. *)

Return ==
  step' = "idle" /\ sample' = NoSample /\ now' = 0 /\ stamp' = 0

Peek ==
  /\ step = "idle" /\ live
  /\ step' = "peeked" /\ sample' = latest
  /\ UNCHANGED <<clock, sensor, producer, now, stamp, state, record, session>>

\* Mutant: off by one.
TooOldOneLate(age) == age > StaleTimeout + 1

TooOld(age) == age > StaleTimeout

\* robot_imu_classify_sample.
Classify(s, t) ==
  CASE s = NoSample -> "no_sample"
    [] s # NoSample /\ t < s.sampledAt -> "clock_invalid"
    [] s # NoSample /\ t >= s.sampledAt /\ TooOld(t - s.sampledAt) -> "stale"
    [] OTHER -> "fresh"

\* Mutant: the check of the stamp is taken to be enough.
NeverTheSame == FALSE

\* The number zero stands for s_has_published_imu_sample being false.
SameAsPublished == sample.sequence = published.sequence

Examine ==
  /\ step = "peeked"
  /\ state' = Classify(sample, clock)
  /\ IF state' = "fresh" /\ ~SameAsPublished /\ synced
     THEN step' = "classified" /\ now' = clock /\ UNCHANGED <<sample, stamp>>
     ELSE Return
  /\ UNCHANGED <<clock, sensor, producer, record, session>>

\* Mutant: publishing refreshes the stamp.
StampOfPublication(epochNow) == epochNow

StampOfSample(epochNow) == epochNow - (now - sample.sampledAt)

\* An epoch or stamp that is not positive, or a stamp that is not later than
\* the last, drops the sample for this time.
TakeEpoch ==
  LET epochNow == clock + offset
      sampledAtEpoch == StampOfSample(epochNow)
  IN /\ step = "classified"
     /\ IF epochNow > 0 /\ sampledAtEpoch > published.stamp
        THEN step' = "publish" /\ stamp' = sampledAtEpoch
             /\ UNCHANGED <<sample, now>>
        ELSE Return
     /\ UNCHANGED <<clock, sensor, producer, state, record, session>>

\* Mutant: the reader does not skip zero.
ExpectedWithZero(n) == (n + 1) % SequenceMod

Expected(n) == IF n + 1 = SequenceMod THEN 1 ELSE n + 1

Publish ==
  /\ step = "publish"
  /\ published' = [sequence |-> sample.sequence, stamp |-> stamp,
                   taken |-> sample.taken, serial |-> sample.serial]
  /\ gap' = /\ published # NothingPublished
            /\ sample.sequence # Expected(published.sequence)
  /\ Return
  /\ UNCHANGED <<clock, sensor, producer, state, session>>

\* The sample stays unpublished in the books, whether or not it has left.
PublishFails ==
  /\ step = "publish"
  /\ Return
  /\ UNCHANGED <<clock, sensor, producer, state, record, session>>

-----------------------------------------------------------------------------
(* What the rest of the micro-ROS task does to the callback's state while  *)
(* the callback does not run.                                              *)

BeginSession ==
  /\ ~live /\ live' = TRUE
  /\ synced' = FALSE /\ state' = "argument_invalid"
  /\ UNCHANGED <<clock, sensor, producer, callback, record, offset>>

EndSession ==
  /\ live /\ step = "idle"
  /\ live' = FALSE /\ synced' = FALSE
  /\ UNCHANGED <<clock, sensor, producer, callback, state, record, offset>>

Synchronise ==
  /\ live /\ step = "idle"
  /\ \/ synced' = TRUE /\ offset' \in Offsets
     \/ synced' = FALSE /\ UNCHANGED offset
  /\ UNCHANGED <<clock, sensor, producer, callback, state, record, live>>

-----------------------------------------------------------------------------
ProducerNext == DataReady \/ TakeStamp \/ ReadData \/ Submit

CallbackNext == Peek \/ Examine \/ TakeEpoch \/ Publish \/ PublishFails

SessionNext == BeginSession \/ EndSession \/ Synchronise

Next == Tick \/ Convert \/ ProducerNext \/ CallbackNext \/ SessionNext

Spec == Init /\ [][Next]_vars

-----------------------------------------------------------------------------
(* Properties. *)

\* Publishing does not refresh the time of acquisition: the stamp of a message
\* names the moment its values were taken, but for one conversion and the two
\* delays between reading a clock and using it.  Retries, waiting samples and
\* steps of the epoch do not add to that.
StampIsHonest ==
  step = "publish" =>
    /\ (stamp - offset) - sample.taken <= ConversionPeriod + MaxStall
    /\ sample.taken - (stamp - offset) <= MaxRead

\* Whatever the backend does (pauses, failed reads), the values of a message
\* are never older than the stale timeout and these delays when it is sent.
FreshWhenPublished ==
  step = "publish" =>
    clock - sample.taken <= StaleTimeout + ConversionPeriod + MaxStall

\* Across retries, lost sessions, epochs that step back and sequence numbers
\* that wrap, each recorded message is of a later sample than the one before
\* and has a later stamp: no sample is published twice, none out of order.
OnlyNewer ==
  [][published' # published =>
       /\ published'.serial > published.serial
       /\ published'.stamp > published.stamp]_vars

\* The callback keeps the promise of Telemetry to the subscriber: a later sample
\* each time, measured when its stamp says, wherever the epoch steps.
Subscriber ==
  INSTANCE Telemetry WITH
    last <- [place |-> published.serial, measured |-> published.taken,
             stamp |-> published.stamp],
    Early <- MaxRead, Late <- ConversionPeriod + MaxStall
TelemetrySpec == Subscriber!Spec

\* A coalescing event is counted exactly when samples were skipped, also
\* where the numbers wrap, as long as fewer were skipped than there are
\* numbers.
GapsAreSeen ==
  [][published' # published /\ published.serial > 0
       /\ published'.serial - published.serial < SequenceMod - 1
     => gap' = (published'.serial # published.serial + 1)]_vars
=============================================================================
