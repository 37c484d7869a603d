-------------------------------- MODULE Startup --------------------------------
(***************************************************************************)
(* app_main and what it starts, one after the other: the board's buzzer is *)
(* silenced, then a motion backend, the IMU, Wi-Fi and the micro-ROS task  *)
(* come up, as far as the application mode has them.  A failure after the  *)
(* motion backend has started asks that backend for a stop and leaves the  *)
(* rest unstarted.                                                         *)
(*                                                                         *)
(* app_main runs in the main task, the lowest in priority, so everything   *)
(* it has started runs between any two of its steps: the console of the    *)
(* control task, the IMU's sampling task, the Wi-Fi event handler.         *)
(***************************************************************************)
EXTENDS RobotWifi, ImuBackend

CONSTANT WheelCount   \* ROBOT_CHASSIS_WHEEL_COUNT

ASSUME StartupAssumption == WheelCount \in Nat \ {0}

VARIABLES
  mode,      \* the application mode of the build
  main,      \* where app_main is
  motion,    \* the stages the motion backend has left behind it
  running,   \* the motion backend's task exists
  output,    \* what each motor was last told, "none" without a driver
  stuck,     \* history: motors whose last call has failed
  stop,      \* a stop has been asked of the motion backend
  microros   \* the micro-ROS task exists

boot == <<mode, main, motion, running, output, stuck, stop, microros>>
vars == <<boot, wifiVars, imuVars>>

AppModes == {"chassis_diag", "microros_chassis", "encoder_probe", "drive_dry_run"}
RosModes == {"microros_chassis", "drive_dry_run"}
ChassisModes == {"chassis_diag", "microros_chassis"}

Wheels == 1 .. WheelCount
Stage(op, wheel) == [op |-> op, wheel |-> wheel]
ForEachWheel(op) == [w \in Wheels |-> Stage(op, w)]

\* The calls of each motion backend's start that may fail, in their order; of
\* the battery's only those whose failure the start does not tolerate.
ChassisStages ==
  << Stage("core", 0), Stage("remote_queue", 0), Stage("battery", 0) >>
    \o ForEachWheel("encoder") \o ForEachWheel("motor")
    \o << Stage("uart", 0), Stage("task", 0) >>

ProbeStages == ForEachWheel("encoder") \o << Stage("task", 0) >>

DriveStages == << Stage("queues", 0), Stage("task", 0) >>

MotionStages(m) ==
  CASE m \in ChassisModes -> ChassisStages
    [] m = "encoder_probe" -> ProbeStages
    [] m = "drive_dry_run" -> DriveStages

StartupTypeOK ==
  /\ WifiTypeOK /\ ImuTypeOK
  /\ mode \in AppModes
  /\ main \in {"buzzer", "motion", "imu", "wifi", "microros", "returned"}
  /\ motion \in 0 .. Len(MotionStages(mode))
  /\ running \in BOOLEAN /\ stop \in BOOLEAN /\ microros \in BOOLEAN
  /\ output \in [Wheels -> {"none", "on", "coast"}]
  /\ stuck \subseteq Wheels

Init ==
  /\ WifiInit /\ ImuInit
  /\ mode \in AppModes
  /\ main = "buzzer"
  /\ motion = 0 /\ running = FALSE
  /\ output = [w \in Wheels |-> "none"] /\ stuck = {}
  /\ stop = FALSE /\ microros = FALSE

-----------------------------------------------------------------------------
(* app_main. *)

BuzzerOff ==
  /\ main = "buzzer" /\ main' \in {"motion", "returned"}
  /\ UNCHANGED <<mode, motion, running, output, stuck, stop, microros,
                 wifiVars, imuVars>>

\* stop_all(false): every motor with a driver is told to coast.
CoastAll(made) ==
  \E F \in SUBSET Wheels :
    /\ output' = [w \in Wheels |-> IF made[w] = "none" \/ w \in F THEN made[w]
                                   ELSE "coast"]
    /\ stuck' = {w \in F : made[w] # "none"}

MotionStage == MotionStages(mode)[motion + 1]
LastMotor == MotionStage = Stage("motor", WheelCount)

\* A motor is enabled and then told to coast; once all are, all are again.
MotionStageDone ==
  /\ main = "motion" /\ motion < Len(MotionStages(mode))
  /\ motion' = motion + 1
  /\ running' = (MotionStage.op = "task")
  /\ LET made == IF MotionStage.op = "motor"
                 THEN [output EXCEPT ![MotionStage.wheel] = "coast"] ELSE output
     IN  IF LastMotor THEN CoastAll(made) ELSE output' = made /\ UNCHANGED stuck
  /\ UNCHANGED <<mode, main, stop, microros, wifiVars, imuVars>>

\* A motor whose start fails may have a driver by then.
MotionStageFails ==
  /\ main = "motion" /\ motion < Len(MotionStages(mode))
  /\ main' = "returned"
  /\ IF MotionStage.op \in {"encoder", "motor"}
     THEN \E left \in {"none", "on"} :
            /\ MotionStage.op = "encoder" => left = "none"
            /\ CoastAll(IF MotionStage.op = "motor"
                        THEN [output EXCEPT ![MotionStage.wheel] = left]
                        ELSE output)
     ELSE UNCHANGED <<output, stuck>>
  /\ UNCHANGED <<mode, motion, running, stop, microros, wifiVars, imuVars>>

MotionStarted ==
  /\ main = "motion" /\ motion = Len(MotionStages(mode))
  /\ IF mode \in RosModes THEN main' = "imu" /\ ImuEnter
     ELSE main' = "returned" /\ UNCHANGED imuVars
  /\ UNCHANGED <<mode, motion, running, output, stuck, stop, microros, wifiVars>>

Call(next) ==
  /\ UNCHANGED boot
  /\ next

ImuCall == main = "imu" /\ Call(ImuCallNext) /\ UNCHANGED wifiVars

WifiCall == main = "wifi" /\ Call(WifiCallNext) /\ UNCHANGED imuVars

\* stop_after_startup_failure.  No other sender exists yet, so the backend's
\* queue has room.
StopAfterFailure == main' = "returned" /\ stop' = TRUE

ImuReturns ==
  /\ main = "imu" /\ imu \in {"started", "failed"}
  /\ IF imu = "started" THEN main' = "wifi" /\ WifiEnter /\ UNCHANGED stop
     ELSE StopAfterFailure /\ UNCHANGED wifiVars
  /\ UNCHANGED <<mode, motion, running, output, stuck, microros, imuVars>>

\* Mutant: only a failure is one, not running out of time.
NetworkReadyUnlessFailed == verdict \notin {"fail", "error"}

NetworkReady == verdict = "ok"

WifiReturned ==
  /\ main = "wifi" /\ wifi = "returned"
  /\ IF NetworkReady THEN main' = "microros" /\ UNCHANGED stop
     ELSE StopAfterFailure
  /\ UNCHANGED <<mode, motion, running, output, stuck, microros, wifiVars, imuVars>>

MicroRosStart ==
  /\ main = "microros"
  /\ \/ main' = "returned" /\ microros' = TRUE /\ UNCHANGED stop
     \/ StopAfterFailure /\ UNCHANGED microros
  /\ UNCHANGED <<mode, motion, running, output, stuck, wifiVars, imuVars>>

-----------------------------------------------------------------------------
(* What runs beside it. *)

\* The control task has the console.
Console ==
  /\ running /\ mode \in ChassisModes /\ PauseNext
  /\ UNCHANGED <<boot, wifiVars>>

Sampler == SamplerNext /\ UNCHANGED <<boot, wifiVars>>

EventLoop == EventLoopNext /\ UNCHANGED <<boot, imuVars>>

Station == StationNext /\ UNCHANGED <<boot, imuVars>>

AccessPoint == ApChanges /\ UNCHANGED <<boot, imuVars>>

MainNext ==
  \/ BuzzerOff \/ MotionStageDone \/ MotionStageFails \/ MotionStarted
  \/ ImuCall \/ ImuReturns \/ WifiCall \/ WifiReturned \/ MicroRosStart

Next == MainNext \/ Console \/ Sampler \/ EventLoop \/ Station \/ AccessPoint

Spec == Init /\ [][Next]_vars

\* The event-loop task is scheduled, and the driver ends every attempt.
FairSpec == Spec /\ WF_vars(EventLoop) /\ WF_vars(Station)

-----------------------------------------------------------------------------
(* Properties. *)

\* Once a motion backend that takes commands runs, the start-up ends in one of
\* two ways: complete, with every part under the micro-ROS task up, or with a
\* stop asked of the backend and no micro-ROS task, whatever failed or ran out
\* of time.  And no failure leaves a motor enabled that would take a call and
\* was not told to coast.
StartsOrStops ==
  /\ main = "returned" /\ running /\ mode \in RosModes => (microros # stop)
  /\ microros => running /\ imu = "started" /\ first = "address"
  /\ \A w \in Wheels : output[w] = "on" => w \in stuck
=============================================================================
