------------------------------ MODULE ImuBackend ------------------------------
(***************************************************************************)
(* robot_imu_start and the ICM42670P backend it starts: the handles they   *)
(* make, the sensor's registers, the release after a failure, the sampling *)
(* task's turns, and the test pause that the chassis console asks for.     *)
(*                                                                         *)
(* Three tasks meet here.  The main task starts the backend, the sampling  *)
(* task exists once the start is all but complete, and the console's task  *)
(* may ask for a pause at any moment, also while a start is failing.  What *)
(* becomes of the samples is the subject of ImuPipeline.                   *)
(*                                                                         *)
(* The module has no Next of its own: Startup composes it with the task    *)
(* that calls it.                                                          *)
(***************************************************************************)
EXTENDS Integers, Sequences

CONSTANTS
  DataReadyTimeout,  \* ICM42670P_DATA_READY_TIMEOUT_MS
  I2cTimeout,        \* ICM42670P_I2C_TIMEOUT_MS
  PauseMin,          \* ICM42670P_TEST_PAUSE_MIN_MS
  PauseMax           \* ICM42670P_TEST_PAUSE_MAX_MS

ASSUME ImuBackendAssumption ==
  /\ DataReadyTimeout \in Nat \ {0} /\ I2cTimeout \in Nat \ {0}
  /\ PauseMin \in Nat \ {0} /\ PauseMax \in Nat /\ PauseMin <= PauseMax

VARIABLES
  backend,   \* which backend the build has
  imu,       \* where the start is
  imuStep,   \* the stage it has reached
  held,      \* handles and task that exist
  sensor,    \* external: what each of the sensor's registers holds
  asking,    \* the pause the console has checked and is about to send, or 0
  pause,     \* s_test_pause_queue: a pause, or 0
  sampler,   \* where the sampling task is
  waited,    \* time spent in wait_for_data_ready, or the pause's duration
  pauseAge   \* history: how long pause has been waiting

imuStart == <<imu, imuStep, held, sensor>>
imuTask == <<pause, sampler, waited, pauseAge>>
imuVars == <<backend, imuStart, asking, imuTask>>

\* The calls that may fail, in their order.
ImuStages ==
  [icm42670p |->
     << "latest", "pause", "bus", "device", "who_am_i", "reset", "reset_done",
        "who_am_i_again", "byte_order", "gyro", "accel", "read_interrupt",
        "interrupt", "power", "task" >>,
   synthetic |-> << "latest", "task" >>,
   disabled |-> <<>>]

Backends == DOMAIN ImuStages
Stages == ImuStages[backend]
Resources == {"latest", "pause", "bus", "device", "task"}

\* The registers that the backend configures, and the others it relies on.
Configured == {"gyro", "accel", "interrupt", "power"}
Registers == Configured \cup {"other"}
AfterReset == [r \in Registers |-> "reset"]
Wanted == [r \in Registers |-> IF r \in Configured THEN "set" ELSE "reset"]

Pauses == PauseMin .. PauseMax

ImuTypeOK ==
  /\ backend \in Backends
  /\ imu \in {"idle", "starting", "releasing", "failed", "started"}
  /\ imuStep \in Nat
  /\ held \subseteq Resources
  /\ sensor \in [Registers -> {"reset", "set", "odd"}]
  /\ asking \in Pauses \cup {0} /\ pause \in Pauses \cup {0}
  /\ sampler \in {"off", "top", "paused", "poll", "read"}
  /\ waited \in Nat
  /\ pauseAge \in Nat

\* The sensor has kept what an earlier run of the program wrote, or was just
\* powered.
ImuInit ==
  /\ backend \in Backends
  /\ imu = "idle" /\ imuStep = 1 /\ held = {}
  /\ sensor \in {AfterReset, [r \in Registers |-> "odd"]}
  /\ asking = 0 /\ pause = 0
  /\ sampler = "off" /\ waited = 0 /\ pauseAge = 0

-----------------------------------------------------------------------------
(* robot_imu_start, in the main task. *)

ImuEnter ==
  /\ imu = "idle" /\ imu' = "starting"
  /\ UNCHANGED <<backend, imuStep, held, sensor, asking, imuTask>>

\* What a stage may leave in the sensor: a write may be lost.
Written(stage) ==
  IF stage = "reset" THEN {AfterReset, sensor}
  ELSE IF stage \in Configured THEN {[sensor EXCEPT ![stage] = "set"], sensor}
  ELSE {sensor}

\* Mutant: a register is written and not read back.
VerifiesNothing(stage, after) == stage = "reset_done" => after = AfterReset

\* The stages that read back what was written, and the reset-done bit.
Verifies(stage, after) ==
  /\ stage = "reset_done" => after = AfterReset
  /\ stage \in Configured => after[stage] = "set"

\* The task that the last stage makes runs before the stage returns.
ImuStageDone ==
  /\ imu = "starting" /\ imuStep <= Len(Stages)
  /\ sensor' \in Written(Stages[imuStep]) /\ Verifies(Stages[imuStep], sensor')
  /\ held' = held \cup ({Stages[imuStep]} \cap Resources)
  /\ sampler' = IF Stages[imuStep] = "task" /\ backend = "icm42670p"
                THEN "top" ELSE sampler
  /\ imuStep' = imuStep + 1
  /\ UNCHANGED <<backend, imu, asking, pause, waited, pauseAge>>

ImuStageFails ==
  /\ imu = "starting" /\ imuStep <= Len(Stages)
  /\ sensor' \in Written(Stages[imuStep])
  /\ imu' = "releasing"
  /\ UNCHANGED <<backend, imuStep, held, asking, imuTask>>

\* cleanup_start_failure, then the end of robot_imu_start.
ReleaseOrder == <<"device", "bus", "pause", "latest">>

ImuRelease ==
  /\ imu = "releasing"
  /\ \E i \in DOMAIN ReleaseOrder :
       /\ ReleaseOrder[i] \in held
       /\ \A j \in 1 .. i - 1 : ReleaseOrder[j] \notin held
       /\ held' = held \ {ReleaseOrder[i]}
  /\ UNCHANGED <<backend, imu, imuStep, sensor, asking, imuTask>>

ImuReleased ==
  /\ imu = "releasing" /\ \A i \in DOMAIN ReleaseOrder : ReleaseOrder[i] \notin held
  /\ imu' = "failed"
  /\ UNCHANGED <<backend, imuStep, held, sensor, asking, imuTask>>

\* s_started is set when everything else is in place.
ImuStarted ==
  /\ imu = "starting" /\ imuStep = Len(Stages) + 1 /\ imu' = "started"
  /\ UNCHANGED <<backend, imuStep, held, sensor, asking, imuTask>>

-----------------------------------------------------------------------------
(* robot_imu_request_test_pause, in the console's task. *)

\* Mutant: whether the start has succeeded is not looked at.
MayPauseQueueOnly == "pause" \in held

MayPause == imu = "started" /\ "pause" \in held

\* A request that is refused changes nothing.
PauseCheck ==
  /\ asking = 0 /\ backend = "icm42670p" /\ MayPause
  /\ asking' \in Pauses
  /\ UNCHANGED <<backend, imuStart, imuTask>>

\* xQueueOverwrite: the newest request replaces one not yet taken.
PauseSend ==
  /\ asking # 0 /\ asking' = 0 /\ pause' = asking
  /\ UNCHANGED <<backend, imuStart, sampler, waited, pauseAge>>

-----------------------------------------------------------------------------
(* icm42670p_task.  Its own calls let time pass; d is what a call takes.   *)

SamplerStep == UNCHANGED <<backend, imuStart, asking>>

Passes(d) == pauseAge' = IF pause = 0 THEN 0 ELSE pauseAge + d

Turn ==
  /\ SamplerStep
  /\ sampler = "top" /\ pause = 0
  /\ sampler' = "poll" /\ waited' = 0
  /\ UNCHANGED <<pause, pauseAge>>

TakePause ==
  /\ SamplerStep
  /\ sampler = "top" /\ pause # 0
  /\ sampler' = "paused" /\ waited' = pause
  /\ pause' = 0 /\ pauseAge' = 0

Resume ==
  /\ SamplerStep
  /\ sampler = "paused" /\ sampler' = "poll" /\ waited' = 0
  /\ Passes(waited)
  /\ UNCHANGED pause

\* Mutant: the wait starts anew at every poll.
GoesOnWaitingAnew(elapsed) == elapsed - waited < DataReadyTimeout

GoesOnWaiting(elapsed) == elapsed < DataReadyTimeout

\* One status read and, unless it finds data ready, a delay of one.
Poll ==
  /\ SamplerStep
  /\ sampler = "poll"
  /\ \E d \in 0 .. I2cTimeout, ready \in BOOLEAN :
       IF ready
       THEN sampler' = "read" /\ waited' = 0 /\ Passes(d)
       ELSE LET elapsed == waited + d + 1
            IN  /\ IF GoesOnWaiting(elapsed)
                   THEN waited' = elapsed /\ UNCHANGED sampler
                   ELSE waited' = 0 /\ sampler' = "top"
                /\ Passes(d + 1)
  /\ UNCHANGED pause

\* Reading, converting and submitting, whether they succeed or not.
ReadSample ==
  /\ SamplerStep
  /\ sampler = "read" /\ sampler' = "top"
  /\ \E d \in 0 .. I2cTimeout : Passes(d)
  /\ UNCHANGED <<pause, waited>>

ImuCallNext ==
  \/ ImuStageDone \/ ImuStageFails \/ ImuRelease \/ ImuReleased \/ ImuStarted
PauseNext == PauseCheck \/ PauseSend
SamplerNext == Turn \/ TakePause \/ Resume \/ Poll \/ ReadSample

-----------------------------------------------------------------------------
(* Properties. *)

\* The sampling task exists only with every handle it uses, and then only on a
\* sensor whose registers hold what was verified after a real reset, whatever
\* an earlier run had left in them.
TaskIsProvided ==
  "task" \in held =>
    /\ "latest" \in held
    /\ backend = "icm42670p" =>
         {"pause", "bus", "device"} \subseteq held /\ sensor = Wanted

\* No handle outlives a failed start, and none is deleted while the console is
\* between checking and using it.
NothingDangles ==
  /\ imu = "failed" => held = {}
  /\ asking # 0 => "pause" \in held

\* A pause that was accepted begins after at most one turn of the sampling
\* task, itself with a pause, a wait for data and a read, although each of
\* their I2C calls may run into its timeout.
PauseServedSoon ==
  pauseAge <= PauseMax + (DataReadyTimeout - 1) + 2 * I2cTimeout
=============================================================================
