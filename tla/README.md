# Verification of the ESP32-S3 robot firmware

TLA+ specifications of the firmware's own logic, TLC configurations that check
them on small instances, and TLAPS proofs of the properties that matter most.
Everything here is translated from the C sources; the file and line of each
definition are in `PROJECT.json` under `map`.

* [Inventory](#inventory) - the parts of the system, their state, what is hard
* [Modules](#modules) - what models what, and how
* [Runs](#runs) - what TLC checks, with which bounds, and what it shows
* [Fairness](#fairness)
* [Proofs](#proofs)
* [Findings](#findings)
* [Not modelled](#not-modelled)
* [Plan](#plan)

## Inventory

The firmware has four build modes (`src/src/main.c`): the dry-run mode, the
chassis diagnostic, the micro-ROS chassis (both at once) and the read-only
encoder probe. Everything is FreeRTOS tasks on a dual-core chip that share
queues; tasks on different cores run truly concurrently.

| Component | State it keeps | Operations | Interacts with |
|---|---|---|---|
| Chassis core (`robot_chassis_diag_core.c`) | `robot_chassis_core_t`: state, stop reason, targets, outputs, integral, stall counters, command stamp, `zero_seen`, gains | init, update_gains, accept_zero, arm, submit, stop, clear_fault, step | called only by the control task |
| Chassis task (`robot_chassis_diag.c`) | the core, motor drivers, `s_last_counts`, `s_odom`, remote queue (8 events), line buffer | every 10 ms: console lines, remote events, encoder reads, core step, motors, odometry | console; micro-ROS task through `s_remote_queue`; IMU task through its pause queue; readers of the odometry under a spin lock |
| Drive backend (`robot_drive.c`) | length-one event and snapshot queues, sequence number, the task's active command | submit_cmd_vel, request_stop, get_snapshot, periodic task | micro-ROS task, `app_main` after a failed start |
| Drive core and kinematics | none | compute_targets | drive task |
| micro-ROS (`robot_microros.c`) | entities and their initialised flags, command cache (length one), time-sync state, last published stamps, ping failures | discovery, staged creation and destruction, callbacks, publishers, time sync, pings | both motion backends, IMU, Agent |
| IMU (`robot_imu.c`, policy, ICM42670P backend) | latest-sample queue, sequence, counters, pause queue | submit, get_latest, classify, request_pause, start and cleanup | publisher, console |
| Wi-Fi (`robot_wifi.c`) | event bits, retry count | connect, event handler | `app_main` |
| Start-up (`main.c`) | none | ordered starts, stop on failure | all |
| Encoder probe (`robot_encoder_probe.c`) | four counter handles | start, print periodically | none |

What is hard, by component (the full list, with lines, is `hazards` in
`PROJECT.json`), and what makes the component correct:

* **Chassis core.** Eight operations can come in any order from two sources.
  Correct means: motion only through ZERO and ARM; nothing survives a stop;
  limits hold at every step; a command expires, also across the wrap of the
  32-bit millisecond clock.
* **Chassis task.** Console, queue, encoders and motors meet in one period, and
  any driver call can fail for one wheel. Correct means: motors follow the core
  after each handler, a stop is served, silence stops the robot, odometry loses
  no more than a failed read costs.
* **Drive backend.** Reading the clock, taking a number, overwriting a queue,
  taking an event and evaluating it are separate steps. Correct means: motion
  shown is fresh, commands never come from the future, a refused command or a
  stop ends the motion before it.
* **micro-ROS.** Creation can fail at any stage, time synchronisation blocks for
  longer than the command timeout, sessions come and go. Correct means: one
  complete entity set per session, nothing of a session leaks into the next,
  stamps only increase.
* **Session over chassis.** The stop of a lost session goes through a bounded
  queue without waiting, while the control task may still hold what the session
  sent. Correct means: that stop gets through, and nothing a session has armed
  outlives it.
* **IMU backend.** A start of fifteen stages beside a console that may ask for a
  pause; a sensor that keeps its registers over a processor reset. Correct
  means: samples only from a sensor whose registers were verified, no handle
  left or used after its release, a pause served soon.
* **Wi-Fi.** Handler and waiting caller in two tasks, bits that are never
  cleared. Correct means: the caller returns what happened first, retries are
  given back by an address, and a station that has not given up keeps trying.
* **Start-up.** A failure at any stage, after motors and console are up. Correct
  means: complete, or stopped.

## Modules

| Module | Models |
|---|---|
| `ChassisCore` | the functions of `robot_chassis_diag_core.c` as operators on one record |
| `ChassisControl` | the control task, its console and remote queue, and the micro-ROS callbacks that feed it |
| `MotionGate` | abstract specification: what the chassis promises about motion |
| `ChassisSystem` | the control task under sessions that come and go: extends `ChassisControl` |
| `MCChassisControl`, `MCChassisSystem` | constants for TLC |
| `ChassisCoreProofs`, `ChassisControlProofs` | proofs, of `ChassisSystem` too |
| `EncoderOdometry`, `EncoderOdometryProofs` | pulse counters, count deltas, odometry sums; proofs |
| `RobotDrive`, `RobotDriveProofs` | the dry-run drive backend; proofs |
| `DeadMan` | abstract specification: what the drive backend promises whoever reads its snapshots |
| `MicroRosSession`, `MicroRosSessionProofs` | the micro-ROS task: discovery, entities, session loop, recovery; proofs |
| `AgentLink` | abstract specification: what the micro-ROS task promises the motion backend |
| `EntityLifecycle` | abstract specification: the order in which entities are made and finished |
| `ImuPipeline`, `ImuPipelineProofs` | an IMU sample from the sensor to its message; proofs |
| `OdomPublisher`, `OdomPublisherProofs` | the odometry stamp from the control task to its message; proofs |
| `Telemetry` | abstract specification: what both publishers promise their subscribers |
| `RobotWifi` | the Wi-Fi station: set-up, event handler, retries, the waiting caller |
| `StationKeeper` | abstract specification: what the station promises `app_main` |
| `ImuBackend` | `robot_imu_start` and the ICM42670P backend: stages, registers, release, task, pause |
| `Startup`, `StartupProofs` | `app_main` in its four modes over `RobotWifi` and `ImuBackend`; proofs of all three |

### ChassisCore and ChassisControl

`ChassisCore` has one operator per C function (`Stop`, `Submit`, `Step`, ...)
that takes and returns the core record; a function that returns `bool` has a
companion predicate (`CanArm`, `Accepts`, ...). Integers stand for the float
integral, which only ever sums integers below its limit, and gains are integer
multiples of `1/GainScale`, so rounding (`lroundf`) is modelled exactly. The
conversion of a twist, `TwistCounts`, takes what the two sides would move in one
period and is exact too. A finite twist so large that a side overflows a float
has an infinite peak and the scale 0, and `lroundf` of `inf * 0` is anything:
`OverflowCounts` takes the numbers a build may return and yields every choice.
`abs(INT_MIN)` is undefined in C; `OverLimit` takes the build's choice as a
parameter and every caller quantifies over it.

`ChassisControl` has one action per step of the loop in `control_task`:

| Code | Action |
|---|---|
| `now_ms` read at the top of the loop | `Wake` |
| `poll_uart` / `process_command`, one line | `UartZero`, `UartArm`, `UartClear`, `UartImuPause`, `UartGain`, `UartRun`, `UartInvalid`; then `UartDone` |
| one turn of the drain loop | `Receive` |
| encoder reads, `step`, `apply_outputs` or brake | `Sample`, `SampleFail` |
| `cmd_vel_subscription_callback` | `CmdVel`, or `RequestStop` for a refused twist |
| `command_subscription_callback` | `Command`, or `RequestStop` for another value |
| the stop a callback asks for when its send fails, Agent loss, failed start | `RequestStop`, `SendStop` |
| IMU task takes the pause request | `ImuTakesPause` |

The core and the motors belong to the control task, so a handler is one step;
the remote queue is shared, so each send and receive is a step of its own. A
callback whose send fails and the stop it then asks for are two sends, with
anything in between. STATUS and BAT change nothing and are left out; ODOMZERO is
in `EncoderOdometry`. Motors are what each driver was last told (coast, brake,
forward, reverse); every call may fail for any set of wheels, which then keep
what they had (`stuck`). Duty values are left out.

`MotionGate` has two variables, a permit (locked, ready, granted) and the set of
moving wheels. The refinement maps ARMED to granted, a seen ZERO to ready and
anything else to locked; moving wheels are the powered ones whose last driver
call succeeded.

### ChassisSystem

`ChassisControl` lets the micro-ROS task call whatever it likes at any time.
`ChassisSystem` adds when in a session it does: every action is one of
`ChassisControl`'s with a conjunct on `link`, or leaves its variables alone, so
that `SystemSpec` implies `Spec`.

| Code | Actions |
|---|---|
| `micro_ros_task` gets to `run_ros_session` | `Connected` |
| `rclc_executor_spin_some` and its callbacks | `Callback`, `CallbackStop` |
| the ping in `run_ros_session`: call, answer, last failure | `PingBegins`, `PingAnswered`, `PingLost` |
| `request_motion_stop` after `run_ros_session` has returned | `LossRequestsStop`, `LossSendsStop` |
| the stop of the `fatal` exit, or of `app_main` | `SetupFails` |
| everything else | `ControlStep`, `ConsoleStep`, `Beside` |

The history variable `inherited` says that the Agent has armed or driven the core
and that the core has been ARMED ever since; `word` is the last thing said to
the control task. The entities and clocks of the session are left to
`MicroRosSession`, and `AgentLink` is what the two modules have in common:
`MicroRosSession` shows that the micro-ROS task keeps it, and `AgentSpec` that
the sessions of `ChassisSystem` assume no more and no less than that.

### EncoderOdometry

`Pulse` is the hardware: one count, with the restart from zero at either limit.
The task reads one wheel per step, so wheels move between two reads of one
period. `Remember` and the delta happen per wheel, the odometry only once all
reads have succeeded, as in the loop of `control_task`. Three ghost variables
(`unread`, `travelled`, `failures`) hold the true movement the properties
compare with. The pose itself is abstracted to the sum of the deltas per wheel:
`robot_chassis_odom_update` computes it from these deltas alone. Its stamp and
the critical section for readers are in `OdomPublisher`.

### RobotDrive

A call is `Begin`, `TakeTime` and `TakeNumber` in either order (the order of
initialisers is the compiler's choice), then `Overwrite`. For a command that is
not finite `submit` returns `false` and the callback goes on to ask for a stop:
`Overwrite` starts that second call. The task takes an event in `Receive` and
reads the clock in `Evaluate`, which also publishes the snapshot. Readers peek a
whole snapshot, so the variable `snapshot` is what any reader sees. Commands are
told apart by outcome: finite, overflowing in the kinematics, not finite.

`DeadMan` has four variables: the clock, the event that waits, the command taken
last, and what a reader sees moving. The refinement maps them to the event queue,
the task's command and the snapshot; the calls under way, the task between its
queue and its clock, and the sequence numbers do not exist there.

### MicroRosSession

`phase` is the task's place in `micro_ros_task` and `run_ros_session`:

| Code | Actions |
|---|---|
| local set-up and the `fatal` exit | `SetupStep`, `Fatal` |
| `wait_for_agent` | `Discover` |
| `create_ros_entities`, stage by stage, and its `fail` exit | `CreateStep`, `CreateFail`, `CreateDone` |
| `destroy_ros_entities`, entity by entity | `CleanupStep`, `CleanupDone` |
| `prepare_new_ros_session` and the first lines of `run_ros_session` | `Prepare` |
| one turn of the loop | `CmdVelCallback` and `CommandCallback` any number of times, `SpinDone`, `CheckCommandTimeout`, `RefreshSync`, `Ping` |
| after `run_ros_session` has returned | `Lost` |

An Agent that stops may come back as another instance that does not know the
session (`known`): calls within the session then fail, while a ping, which
`wait_for_agent` sends without one, is answered. The executor's callbacks may
still deliver what had come in before.

`AgentLink` has two variables: no session, its executor at work or at rest in a
session, and the last word to the motion backend. The refinement maps them to
`phase` and `request`. `EntityLifecycle` has the stage of a session, the entities
and the references between them; it allows any order of the two lists that
respects the references, and the refinement shows that the code's order does.

`Creation` and `Teardown` are the two lists as the functions have them;
`ChassisMode` selects the stages the preprocessor leaves in. `alive` is what
exists, `flags` what the task remembers to finish: they differ when
`rclc_support_init` fails half way. Finishing an entity releases it locally,
whatever it returns (`rmw_uros_set_context_entity_destroy_session_timeout` of 0
makes it not wait for the Agent). The Agent comes and goes between any two
steps; a call that needs it fails when it is away, and may fail when it is not.
Deadlines are relative times, since `esp_timer_get_time` does not wrap; each
blocking call lets up to its maximum pass. `request` is what was asked of the
backend last; whether the chassis queue takes it is the subject of
`ChassisControl`. The timer callbacks publish and change none of this state;
they are in the next two modules.

### ImuPipeline

| Code | Actions |
|---|---|
| the sensor converts, its data-ready bit | `Convert` (external) |
| `icm42670p_task`: ready bit, stamp, register read, submission | `DataReady`, `TakeStamp`, `ReadData`, `Submit` |
| `imu_timer_callback`: peek, clock and policy, epoch, `rcl_publish` | `Peek`, `Examine`, `TakeEpoch`, `Publish`, `PublishFails` |
| session begin, session end, time synchronisation | `BeginSession`, `EndSession`, `Synchronise` |

The task stays in "wait" for a sensor that is not ready, a failed status read, a
timeout or a test pause: none of them touches the sample. A sample carries two
history values the code does not have, the time its values were taken and its
serial number, so that the properties can compare stamps with the truth and
wrapped numbers with unwrapped ones. Session events happen only while the
callback does not run, because all of them belong to the one micro-ROS task.
What was published outlives the session, as in the code. Left out: the values
(integers scaled to finite floats), counters and log lines, and the synthetic
backend.

`Telemetry` sees of this the clock, the epoch and the newest message: its place
among the measurements, when it was measured and its stamp. `OdomPublisher` below
refines the same specification, with the delays of its own. Measurement times
need not increase strictly: a sensor that has not converted since is read twice.

### OdomPublisher

`Wake`, `OdomZero`, `ReadCounts` or `ReadFails`, and `Integrate` are the parts of
a period that touch pose or stamp; `Copy`, `ReadClock`, `ReadEpoch`, `Publish`
and `PublishFails` are `publish_odom_snapshot`. Pose and stamp change and are
copied together, under the spin lock. The pose is abstracted to the time its
counts were read; the reads of the four wheels are one instant here
(`EncoderOdometry` takes them apart). The publisher is reliable: a call that
reports failure may have delivered the message, so `PublishFails` leaves open
whether it did, and the history variable `delivered` keeps the last stamp that
left, in the time of this clock.

### RobotWifi, ImuBackend and Startup

Three tasks meet in Wi-Fi: the main task that waits, the event-loop task that
runs the handler, and the driver.

| Code | Actions |
|---|---|
| `robot_wifi_connect`: its calls up to `esp_wifi_start` | `WifiSetup`, `WifiSetupFails` |
| `xEventGroupWaitBits` and what follows | `WifiWait`, `WifiWake`, `WifiTimeout` |
| the three branches of `wifi_event_handler` | `OnStart`, `OnDisconnected`, `OnGotIp` |
| driver and access point | `StationJoins`, `StationFails`, `ApChanges` (external) |

An event group wakes its waiter with the bits of that moment (`woken`), however
late the waiter runs; a timeout looks at the bits again. Every attempt and every
lost link ends in one event.

`StationKeeper` knows neither events nor bits: the station is off, trying, online
or has given up, within a number of attempts, and its caller is told once. The
refinement takes a station that is idle with an event on its way for trying.

| Code | Actions |
|---|---|
| `robot_imu_start`, `robot_imu_icm42670p_backend_start`: calls that may fail | `ImuEnter`, `ImuStageDone`, `ImuStageFails`, `ImuStarted` |
| `cleanup_start_failure`, the end of `robot_imu_start` | `ImuRelease`, `ImuReleased` |
| `request_test_pause`: check, then overwrite | `PauseCheck`, `PauseSend` |
| `icm42670p_task` | `Turn`, `TakePause`, `Resume`, `Poll`, `ReadSample` |

A register holds its reset value, what the backend wants, or something odd that
an earlier run of the program left: a processor reset does not reset the sensor.
A write that is acknowledged may be lost; what is read back is what is there.
The handles are released one per step. `ImuPipeline` follows the samples, here
only the time a turn takes matters.

`Startup` extends both and adds `app_main`: `BuzzerOff`, one step per stage of
the motion backend (`MotionStageDone`, `MotionStageFails`), `ImuCall` and
`WifiCall` for the steps of the calls, `ImuReturns`, `WifiReturned` and
`MicroRosStart` for what `app_main` does with their results. The console runs
from the moment the control task exists, the sampling task and the handler
likewise, between any two steps of the main task. Motors are told apart by
"no driver", "enabled" and "told to coast"; `stuck` are those whose last call
has failed. The stages of the chassis driver are core, remote queue, battery
ADC (the two calls whose failure counts), each encoder, each motor, UART and
task. After that, `ChassisControl` has the backend.

## Runs

| Run | Instance | Shows |
|---|---|---|
| `chassis_safety` | 1 wheel, twists within and beyond the limit and overflowing, queue of 2, 2 sends and 1 line per period, clock of 4, failing driver and encoder, 7.6 M states | `QuietUnlessArmed`, `HardLimits`, `DrivenOnlyWhenArmed`, `FreshWhileArmed`, `StopsGoFirst`; refinement `GateSpec` |
| `chassis_system` | 2 wheels with opposite targets, queue of 2, motion commanded by the Agent of a session, one failing driver, fair, 750 k states | `NothingOutlivesSession`, `LossStopQueued`, `SilenceStops`, `StopServed` |
| `encoder_odometry` | 2 wheels, limit 5, at most 2 counts between reads, 1 failure, 8.7 M states | `OdomExact`, `DriftBounded` |
| `robot_drive` | 1 caller, 4 calls, sequence modulo 4, timeout and period 2, fair, 1.6 M states | `MotionIsFresh`, `NoFutureCommand`, `NewestIsShown`, refinement `DeadManSpec`, `SilenceStops` |
| `session_chassis` | chassis mode, ping period 1, limit 3, spin and sync up to 2, syncs every 5, 3 faults while the Agent is there, Agent may restart or vanish, fair, 685 k states | `CompleteSession`, `NothingLeft`, `CacheIsCurrent`, `EpochIsRecent`, `SilenceBounded`, refinements `LifecycleSpec` and `LinkSpec`, `LossEndsSession`, `Recovers`; deadlock is not checked, because the task may end (`stopped`) |
| `imu_pipeline` | numbers modulo 4, timeout 1, conversion period 2, delays 1, two epochs, 3.8 M states | `StampIsHonest`, `FreshWhenPublished`, `GapsAreSeen`, refinement `TelemetrySpec` |
| `odom_publisher` | period up to 2, delay 1, two epochs, 4.1 M states | `StampIsHonest`, `InOrderOnTheWire`, refinement `TelemetrySpec` |
| `startup` | all modes and backends, 2 wheels, 2 retries, data-ready wait 2, I2C timeout 1, pauses of 1 and 2, fair, 322 k states | `TaskIsProvided`, `NothingDangles`, `PauseServedSoon`, `VerdictIsFirst`, `StartsOrStops`, refinement `KeeperSpec`, `StationSettles` |
| `chassis_fault_latch`, `chassis_int_min`, `chassis_newest_command`, `session_agent_restart` | small; the last one in the dry-run mode | the four [findings](#findings) |

The type invariants are proved and not run: each is part of the inductive
invariant of its module. So is `AgentSpec` of `ChassisSystem`. The dry-run mode of the session, whose entity set
differs, is covered by the proofs, which are about both modes.

Why these bounds are enough to meet the interesting cases:

* *Clock.* `ClockMod = 4` with a timeout of 1 and periods of 1 makes the clock
  wrap in every fourth period, with commands alive across the wrap.
* *Queue.* Two sends per period against a queue of two (one in
  `chassis_newest_command`) fill it; stops race with commands that wait in it.
* *Targets.* -1, 0, 1 and one value beyond the limit reach acceptance, the zero
  vector and rejection; deltas -1, 0, 1 reach stall, tracking and clamping. The
  twists include some that are limited, some that round to or away from rest, and
  overflowing ones that become rest or a number the core refuses.
* *Counters.* With limit 5 and moves up to 2, both restarts and the longest
  ambiguous-looking deltas occur; ODOMZERO lets counters wander far although
  the travelled distance is bounded.
* *Numbers.* Four calls against three numbers wrap the sequence over zero, so that
  the fourth would be answered like none if zero were not skipped. The samples of
  `ImuPipeline` wrap theirs within its six units of time.
* *Sessions.* Synchronisation longer than the ping period and than the command
  timeout, as in the code (1000 ms and overhead, 1000 and 500 ms), so that the
  first ping of a session is overdue before the loop begins, later pings that are
  overdue, a second synchronisation and a cache that outlives its timeout all
  occur; three faults reach the limit of pings with the Agent there, and any
  number of sessions follow each other.
* *Sessions over the chassis.* With a queue of two, ARM and targets can both
  wait in it when a ping begins, and other stops are dropped for want of room.
* *Start-up.* Two retries tell the first from the last; two motors, a failed one
  and one made before it; two pauses, one that overwrites another; waits of two
  polls, one that ends and one that goes on.
* *Epochs.* Two offsets let a synchronisation step the epoch forward and back by
  more than any delay, within a session and between sessions.

Bounds that are assumptions about the environment rather than about size:
`MaxPeriod` (longest time between two iterations), `MaxMove` (a wheel moves less
than half the counter range between two reads: 15 000 counts, some 14
revolutions), `ConversionPeriod`, `MaxRead` and `MaxStall` (how often the sensor
converts, how long a register read and a publishing callback take; they appear in
the statements of the stamp properties) and `MaxSends`, which hides that each drained event also logs a line:
at 115200 baud a publisher well above 100 Hz can stretch a period.

Assumptions about what is outside: the control task ends a period during a ping
that is not answered (100 ms against 10 ms, `PingTimesOut`); the ping of a
session is answered by an Agent that does not know it; a register write may be
lost without an error, a reset that is reported done has happened; each Wi-Fi
attempt ends in one event.

`MaxCalls`, `LastCall` and `MaxTime` end the history of `RobotDrive`, and
`MaxTravel` and `MaxFailures` that of `EncoderOdometry`, `MaxTime` that of the two
publishing modules; the proofs do not depend on any of them being small.

## Fairness

* `ChassisControl!FairSpec`: weak fairness of the control task's steps: it is
  the highest-priority application task (8) and periodic. Strong fairness of
  `DriversAnswer`: motor drivers do not refuse every single call for ever;
  without it nothing can stop a wheel. Nothing is assumed of console, Agent or
  micro-ROS task.
* `RobotDrive!FairSpec`: weak fairness of the periodic drive task and of time,
  and of a call that has begun (it runs to its end in its own task). No call
  has to begin.

* `MicroRosSession!FairSpec`: weak fairness of the task's own progress: it is
  scheduled, its calls return, and one executor call runs each callback at most
  once. Nothing is assumed of the Agent; `Recovers` speaks of one that stays,
  and `MaxFaults` says that failures in its presence come to an end.

* `ChassisSystem!SystemFairSpec`: the fairness of `ChassisControl` for the same
  steps. No session, ping or callback has to happen.
* `Startup!FairSpec`: weak fairness of the event-loop task and of the driver,
  which ends every attempt. Nothing is assumed of `app_main`, the console or
  the access point; `StationSettles` speaks of one that stays.

## Proofs

All proofs hold for every value of the constants that satisfies the named
`ASSUME`s; TLC evaluates those assumptions on each run.

**Core arithmetic** (`ChassisCoreProofs`). `RoundingIsNearest` says that the
model's rounding is that of `lroundf`, by way of a quotient and its remainder
(`DivFacts`), and `RoundMonotone` and `RoundOdd` carry the rest.
`ClampAndRoundCommute` justifies the one place where the model does two things in
another order than `robot_chassis_core_step`. `ControllerIsMonotone` and
`ControllerIsSymmetric` say that a wheel that lags is driven no less and that
forward and reverse are treated alike, stops included. For twists,
`TwistScale` says that both sides are multiplied by one and the same ratio;
`TwistWithinLimit` and `TwistKeepsItsSense` follow from it: no conversion is
refused by an armed core, and none turns the robot the other way. They are about
exact arithmetic, so about twists that do not overflow a float; the others are
`OverflowCounts`, of which nothing is proved because nothing holds.

**Control task** (`ChassisControlProofs`). Lemmas of `ChassisCoreProofs` say what each core operation preserves.
A *handler* is what one console line or one event does to core and motors;
`HandlerOK` collects what all of them share, so each operation is treated once
although it is reachable from two places. The invariants are not inductive on
their own: `FreshWhileArmed` needs to know where in the period a stamp was made,
and `DrivenOnlyWhenArmed` needs that the core is quiet outside ARMED and that
`stuck` covers exactly the wheels a call failed for. `IndInv` adds these parts.
From it follow `TypeCorrect`, `StopsLeaveNothing`, `OnlyArmedDrives`,
`CommandStaysFresh` and the refinement `ImplementsGate`, and two facts on
when wheels may move: `MotionIsRecent` bounds the age of the command they act on,
and `StopsAreFirst` says that none starts while a stop waits. The
latter rests on `NoNewMotion`: no line and no event starts a wheel, only the
sampling at the end of a period does, and that comes after the queue is empty.

`LimitsHold` proves the hard limits under `SafeInputs` (no command carries
INT_MIN, neither a RUN line nor a twist that overflows), the assumption that the
run `chassis_int_min` shows to be needed. `OnlyOverflowsLatch` assumes nothing of
the twists. It names three origins of a fault: a console line, the encoders, and
a `/cmd_vel` whose targets are none that the exact conversion returns (`Exact`),
which leaves the overflows. So the Agent can latch a fault that the console has
to clear, but only with a twist that large; every other one passes the check of
the core by `TwistWithinLimit`.
`FaultsEndStill` says how one ends: in DISARMED with every wheel at rest, after a
ZERO unless a remote STOP ends it. That is how far the first of the findings goes.

**Chassis under a session** (also `ChassisControlProofs`). `SystemIsChassis`
shows that each step of the composition is a step or a stutter of
`ChassisControl`, so all of the above holds there. `LinkInv` says what the queue
holds at each place of the session: it is empty once a ping has waited for a
period, because the control task ends none before the queue is, and no callback
runs meanwhile; without a session it holds stops alone. `StopOfLossIsQueued` and
`SessionsLeaveNothing` follow, for every queue length. `SystemSessionIsALink`
shows that the sessions of the composition are those of `AgentLink`, which
`SessionImplementsLink` shows of the micro-ROS task: what one part assumes of the
other is what the other guarantees.

**Odometry** (`EncoderOdometryProofs`). The link between a counter and what was last read from it
(`Linked`) says that it has restarted at most once since, and then was read close
to the limit it restarted at. `DeltaExact` turns this into the exactness of
`robot_chassis_safe_count_delta`, and `Short` accounts for the deltas of a period
that is not over. From these follow `OdometryExact`, whose second part says that
the wheel read last is exact whatever fails, and `FailuresCostLittle`.

**Drive backend** (`RobotDriveProofs`). The strengthening is `Past`: every time that is passed
from call to queue to task was taken from the clock, so it is never later than
the next reading. It holds for any number of callers, and so does the refinement
`DriveImplementsDeadMan`, which follows from the same invariant.
`SilenceEndsMotion` is the bound behind the liveness property `SilenceStops`: a
timeout and a period after the last call nothing moves, because whatever waits,
is held or is shown has the time of a call (`OfTheCalls`). `NewestCallIsAnswered`
and `SnapshotsAreInOrder` assume one caller, which is the case in this firmware:
`app_main` only calls after a failed start, before any micro-ROS task exists. The
invariant of the first, `NewestIsAt`, says where the newest number is on its way
from the call over the queue and the task to the snapshot, and `ZeroIsNone` that
the counter is at zero only until the first call takes its number; that of the
second, `InOrder`, compares the times along the same way. `MotionHasACommand` says
for any number of callers that motion never carries the number zero.

**Session** (`MicroRosSessionProofs`). `PingOnTime` bounds the next deadline by
the failures so far and says how overdue it can be at each point of a turn;
`SilenceBounded` follows by arithmetic that is linear but for the product with
the failure count (`SpanFacts`). `CacheOnTime` and `EpochOnTime` do the same for
the other two clocks. `Accounted` (what exists is flagged; cleanup has passed
nothing that exists) and `Staged` (creation has performed every stage it has
passed) carry the entity properties, over the tables of `CreationFacts` and
`TeardownFacts`; `UsersComeFirst` compares the order of cleanup with the
references between entities. `SessionImplementsLink` and
`SessionImplementsLifecycle` map every step to a step or a stutter of `AgentLink`
and `EntityLifecycle`; the second one needs `Accounted` and `Staged` to know that
a session opens over everything and that cleanup ends over nothing, and
`MadeSoFar` to know that no stage of the creation makes what is there. The proofs
hold for both build modes. They assume that a ping takes no longer than its period
(100 ms and overhead against 1000 ms), and that an executor call and a
synchronisation together take less than the time to the next synchronisation
(little more than 1 s against 5 s after a failure, and at least 5 s after a success
by its Kconfig range). A synchronisation may be longer than the ping period, as in
the code; then the first ping of a session is already overdue when the loop begins,
and `SilenceBounded` holds because the next synchronisation is not due in the same
turn. That is the second assumption: with a retry after 2 units instead of 5 the
instance of `session_chassis` would go without an answer for 16 units, not 15.

**IMU** (`ImuPipelineProofs`). The invariant bounds the distances between the
clock readings in flight: the values in the registers from the clock, the
stamp from the register read, the sample's stamp from the time its values were
taken, `now_us` from the clock. `StampsAreHonest` and `PublishedIsFresh` add them
up. For `RecordsOnlyGrow` it keeps samples in serial order (published, in the
callback's hands, in the queue); no fact about wrapped numbers is needed, as the
strictly increasing stamp already tells samples apart. `TakenInOrder` says the
same of the times of measurement, and `PipelineImplementsTelemetry` puts these
together: only the publication that succeeds is a `Send`. `GapsAreCounted` does
need a fact about numbers: `Wrapped` says that the serial of each sample in flight
is its number and some full rounds of numbers, and `ExpectedIsNext` compares two
such sums.

**Odometry publication** (`OdomPublisherProofs`). `Past` compares everything a
reader can see with the start of the current period, which is why a reset in
the middle of it, whose stamp is later than that of the pose that follows, cannot
put counts out of order. From it follow `OdomStampsAreHonest`,
`OdomRecordsOnlyGrow` and the refinement `OdomImplementsTelemetry`, and
`WireOrder` for messages that left without being recorded.

**Start-up** (`StartupProofs`). `StartupInv` has three parts, and no step of one
disturbs another but through the few actions of `app_main` that pass from one to
the next. `WifiInv` ties events, station and bits together: at most one attempt
or event is under way (`EventsOK`), the retries are those since the last address
(`TriesOK`), FAILED means that nothing is (`FailedOK`), and a waiter was woken by
the bit that came first (`WokenOK`). With `CallerOK` (a caller that waits has been
told nothing, and sleeps only while no bit is set) these carry
`StartupImplementsKeeper`. `ImuInv` says which handles exist at each
stage (`HeldOK`), which registers are verified (`SensorOK`), and how long a pause
has waited at each place of the task's turn (`PauseOK`). `BootInv` ties motors and
order of starts to the stages passed. The proofs hold for any number of wheels
and retries and any timeouts.

Only model-checked: the liveness properties (`SilenceStops` of both backends,
`StopServed`, `LossEndsSession`, `Recovers`, `StationSettles`), as liveness under
fairness is outside what TLAPS can do here. The four findings are violations and
have nothing to prove; `LimitsHold` and `FaultsEndStill` say what is left of the
properties two of them violate.

## Findings

1. **A remote stop releases a latched fault.** `robot_chassis_core_stop` goes to
   DISARMED for any reason that is not a fault, whatever the state
   (`robot_chassis_diag_core.c:226`), so a remote STOP, which is also what the
   loss of the Agent sends, skips the ZERO and CLEAR the latch asks for
   elsewhere. Run `chassis_fault_latch`. Motion still needs ZERO and ARM.
2. **`abs(INT_MIN)` in the limit check** (`robot_chassis_diag_core.c:194`). Run
   `chassis_int_min`.
3. **The remote queue keeps the oldest commands, not the newest**
   (`robot_chassis_diag.c:724`), and drops the stop that is asked for when a
   command is refused. `README.md:26` describes a latest snapshot. Run
   `chassis_newest_command`. The stop of a lost session is not among those that
   are dropped (`LossStopQueued`).
4. **An Agent that restarts between two pings is not noticed**
   (`robot_microros.c:858`). The ping says that an Agent is there, not that it
   knows the session, and nothing else ends one: synchronisation and publishing
   fail and are logged. `README.md:11` promises recovery. Run
   `session_agent_restart`; it rests on the assumption that the Agent answers
   the ping of a session it does not know.

## Not modelled

* Host tools, build scripts, example and patches: not part of the firmware.
* The encoder probe's task: it prints four counters. Its start is in `Startup`.
* I2C transfers and register parsing: I/O and pure conversion; the outcome of
  each transfer is modelled.
* Floating-point arithmetic (pose integration, limiting in
  `robot_drive_kinematics.c`): TLC cannot evaluate it; only outcomes are
  modelled. Of the twist conversion only the rounding of its floats is left out;
  a twist that overflows them is `OverflowCounts`.
* Heartbeat counter, diagnostic counters, rate-limited log lines, STATUS and BAT
  lines, the task of the synthetic IMU backend: nothing depends on them.
* How long a log line takes: each drained event logs one at 115200 baud within
  the control period (`robot_chassis_diag.c:499`). `MaxSends` bounds the events
  instead.

Two behaviours are left without a property because nothing in the repository
promises otherwise. The stamps of the last publication outlive the session, so
that after a synchronisation with an Agent whose clock is behind, nothing is
published until that clock has caught up. And a sensor that loses power after
the start is never configured again; the repository lists recovery from an
unplugged sensor as still to be verified.

## Plan

Done, in this order: `ChassisCore`, `ChassisControl`, `MotionGate`; `RobotDrive`;
`EncoderOdometry`; `MicroRosSession`; `ImuPipeline` and `OdomPublisher`;
`ImuBackend`, `RobotWifi` and `Startup`; `AgentLink` and `ChassisSystem`; the
proofs of each; `EntityLifecycle`, `DeadMan`, `Telemetry` and `StationKeeper` with
the proofs that the code implements them; the arithmetic of the core.

Left:

1. A run with the duration of log lines in the control period.
2. The composition of `RobotDrive` with a session, as `ChassisSystem` has it for
   the chassis. Its queue is overwritten, so the stop of a lost session cannot
   be dropped there.
