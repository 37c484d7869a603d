--------------------------- MODULE MicroRosSession ---------------------------
(***************************************************************************)
(* The life of the micro-ROS task of robot_microros.c: local set-up,       *)
(* discovery of the Agent, creation of the ROS entities in stages, the     *)
(* session loop (executor, command cache, time synchronisation, pings),    *)
(* the loss of the Agent, and the cleanup that leads back to discovery.    *)
(*                                                                         *)
(* The task owns all of this state.  What goes on beside it is the Agent,  *)
(* which comes and goes between any two steps, and time, which every       *)
(* blocking call lets pass.  Times are relative: how long until a deadline *)
(* (negative when it is overdue), how long since an event.                 *)
(***************************************************************************)
EXTENDS Integers, Sequences

CONSTANTS
  ChassisMode,     \* CONFIG_ROBOT_APP_MODE_MICROROS_CHASSIS
  PingPeriod,      \* ROBOT_AGENT_SESSION_PING_PERIOD_MS
  FailureLimit,    \* ROBOT_AGENT_SESSION_PING_FAILURE_LIMIT
  CommandTimeout,  \* ROBOT_COMMAND_TIMEOUT_MS
  SyncPeriod,      \* CONFIG_ROBOT_MICROROS_TIME_SYNC_PERIOD_MS
  SyncRetry,       \* the 5 s after a failed synchronisation
  MaxSpin,         \* assumption: longest executor call with its callbacks and
                   \* the delay at the end of the loop
  MaxSync,         \* assumption: longest synchronisation, 1000 ms and overhead:
                   \* more than a ping period
  MaxPing,         \* assumption: longest ping, 100 ms and overhead
  MaxFaults,       \* bound: failures while the Agent is there
  MayVanish        \* whether the Agent can be lost for good

\* A ping ends within its period, 100 ms and overhead against 1000 ms.  The next
\* synchronisation, 5 s or more after the last, is not due before one turn of the
\* loop, whose calls take little more than 1 s.
ASSUME SessionAssumption ==
  /\ ChassisMode \in BOOLEAN /\ MayVanish \in BOOLEAN
  /\ PingPeriod \in Nat /\ CommandTimeout \in Nat
  /\ SyncPeriod \in Nat /\ SyncRetry \in Nat
  /\ FailureLimit \in Nat \ {0} /\ MaxSpin \in Nat \ {0}
  /\ MaxSync \in Nat /\ MaxPing \in Nat /\ MaxFaults \in Nat
  /\ MaxPing <= PingPeriod
  /\ MaxSpin + MaxSync < SyncRetry /\ MaxSpin + MaxSync < SyncPeriod

VARIABLES
  phase,     \* where the task is
  position,  \* the stage of set-up, creation or cleanup it has reached
  setup,     \* what local set-up has allocated
  alive,     \* the ROS entities that exist
  flags,     \* the ..._initialized members of robot_microros_entities_t
  tuned,     \* publishers whose session timeout is configured
  attached,  \* the handles the executor refers to
  request,   \* what the task last asked of the motion backend
  cacheAge,  \* age of what s_command_queue holds, Empty if nothing
  synced,    \* s_time_synced
  toSync,    \* time until s_next_time_sync_at_us
  toPing,    \* time until next_agent_ping_at_us
  failures,  \* consecutive_ping_failures
  silence,   \* history: time since the session began or a ping was answered
  epochAge,  \* history: time since the synchronisation that set synced began
  agent,     \* external: "up" or "down"
  gone,      \* the Agent will never come back
  known,     \* external: it knows the session that the support has opened
  faults     \* failures so far while the Agent was there

entities == <<alive, flags, tuned, attached>>
loop == <<cacheAge, synced, toSync, toPing, failures, silence, epochAge>>
environment == <<agent, gone, known, faults>>
vars == <<phase, position, setup, entities, request, loop, environment>>

Live == {"prepare", "first_sync", "spin", "check", "sync", "ping", "lost"}
Looping == {"spin", "check", "sync", "ping"}
Phases == {"setup", "discover", "create", "cleanup", "stopped"} \cup Live

-----------------------------------------------------------------------------
(* The entities, in the order they are made and finished.                  *)

OwnPublisher == IF ChassisMode THEN "odom_publisher" ELSE "heartbeat_publisher"
Timers == IF ChassisMode THEN {"imu_timer"} ELSE {"heartbeat_timer", "imu_timer"}
Subscriptions == {"command_subscription", "cmd_vel_subscription"}
Publishers == {OwnPublisher, "imu_publisher"}
Handles == Timers \cup Subscriptions
Entities == {"support", "node", "executor"} \cup Publishers \cup Handles

Stage(op, entity) == [op |-> op, entity |-> entity]

\* Mutant: nobody adds the /cmd_vel subscription to the executor.
CreationWithoutCmdVel ==
  << Stage("init", "support"), Stage("init", "node"),
     Stage("init", OwnPublisher), Stage("configure", OwnPublisher),
     Stage("init", "imu_publisher"), Stage("init", "command_subscription"),
     Stage("init", "cmd_vel_subscription"), Stage("init", "heartbeat_timer"),
     Stage("init", "imu_timer"), Stage("init", "executor"),
     Stage("add", "heartbeat_timer"), Stage("add", "imu_timer"),
     Stage("add", "command_subscription") >>

\* The stages of the entities that the build has.
Creation ==
  << Stage("init", "support"), Stage("init", "node"),
     Stage("init", OwnPublisher), Stage("configure", OwnPublisher),
     Stage("init", "imu_publisher"), Stage("init", "command_subscription"),
     Stage("init", "cmd_vel_subscription"), Stage("init", "heartbeat_timer"),
     Stage("init", "imu_timer"), Stage("init", "executor"),
     Stage("add", "heartbeat_timer"), Stage("add", "imu_timer"),
     Stage("add", "command_subscription"), Stage("add", "cmd_vel_subscription") >>
Compiled(stage) == stage.entity \in Entities

\* The stages that exchange messages with the Agent.
Remote(stage) ==
  stage.op = "init"
    /\ stage.entity \in {"support", "node"} \cup Publishers \cup Subscriptions

\* Mutant: the executor is finished last but for node and support.
TeardownExecutorLate ==
  << "imu_timer", "heartbeat_timer", "cmd_vel_subscription",
     "command_subscription", "imu_publisher", "odom_publisher",
     "heartbeat_publisher", "executor", "node", "support" >>

Teardown ==
  << "executor", "imu_timer", "heartbeat_timer", "cmd_vel_subscription",
     "command_subscription", "imu_publisher", "odom_publisher",
     "heartbeat_publisher", "node", "support" >>

SetupStages ==
  << "command_queue", "messages", "init_options", "domain_id", "agent_address" >>
Allocating == {"command_queue", "messages", "init_options"}

\* What refers to an entity for as long as it lives, once the executor has
\* been given these handles.
Refers(user, e, added) ==
  \/ e = "support" /\ user \in {"node", "executor"} \cup Timers
  \/ e = "node" /\ user \in Publishers \cup Subscriptions
  \/ e \in added /\ user = "executor"

RefersTo(user, e) == Refers(user, e, attached)

-----------------------------------------------------------------------------
Empty == -1

\* ZERO and ARM, targets, and stops of any reason.
Requests == {"none", "zero", "arm", "targets", "stop"}

TypeOK ==
  /\ phase \in Phases
  /\ position \in 1 .. Len(Creation) + 1
  /\ setup \subseteq Allocating
  /\ alive \subseteq Entities /\ flags \subseteq Entities
  /\ tuned \subseteq Publishers /\ attached \subseteq Handles
  /\ request \in Requests
  /\ cacheAge \in Nat \cup {Empty}
  /\ synced \in BOOLEAN
  /\ toSync \in Int /\ toPing \in Int
  /\ failures \in 0 .. FailureLimit
  /\ silence \in Nat /\ epochAge \in Nat
  /\ agent \in {"up", "down"} /\ gone \in BOOLEAN /\ known \in BOOLEAN
  /\ faults \in 0 .. MaxFaults

Init ==
  /\ phase = "setup" /\ position = 1 /\ setup = {}
  /\ alive = {} /\ flags = {} /\ tuned = {} /\ attached = {}
  /\ request = "none"
  /\ cacheAge = Empty
  /\ synced = FALSE /\ toSync = 0 /\ toPing = 0
  /\ failures = 0 /\ silence = 0 /\ epochAge = 0
  /\ agent \in {"up", "down"} /\ gone = FALSE
  /\ known = FALSE /\ faults = 0

\* A call that needs the Agent succeeds only if the Agent is there.  A call
\* may also fail while it is: a datagram is lost, memory runs out.
Answered == agent = "up" /\ UNCHANGED faults
Fault == faults < MaxFaults /\ faults' = faults + 1
Unanswered == IF agent = "up" THEN Fault ELSE UNCHANGED faults

\* So does a call within a session, which the Agent must know as well.  A ping
\* needs no session, as wait_for_agent shows.
Served == known /\ Answered
Unserved == IF known THEN Unanswered ELSE UNCHANGED faults

-----------------------------------------------------------------------------
(* Local set-up.  Its failure is fatal: it asks for a stop, releases what  *)
(* it has and ends the task.                                               *)

SetupStep ==
  /\ phase = "setup"
  /\ setup' = setup \cup ({SetupStages[position]} \cap Allocating)
  /\ IF position < Len(SetupStages)
     THEN position' = position + 1 /\ UNCHANGED phase
     ELSE position' = 1 /\ phase' = "discover"
  /\ UNCHANGED <<entities, request, loop, environment>>

Fatal ==
  /\ phase = "setup" /\ phase' = "stopped"
  /\ setup' = {} /\ request' = "stop"
  /\ UNCHANGED <<position, entities, loop, environment>>

\* A ping without a participant is answered.  Until then wait_for_agent goes
\* on asking every 500 ms.
Discover ==
  /\ phase = "discover" /\ phase' = "create" /\ position' = 1
  /\ Answered
  /\ flags' = {} /\ tuned' = {} /\ attached' = {}
  /\ UNCHANGED <<setup, alive, request, loop, agent, gone, known>>

-----------------------------------------------------------------------------
(* Creation and cleanup. *)

\* What a stage needs of the Agent, to which the support opens the session.
StageSucceeds(stage) ==
  IF ~Remote(stage) THEN UNCHANGED <<known, faults>>
  ELSE IF stage.entity = "support" THEN Answered /\ known' = TRUE
  ELSE Served /\ UNCHANGED known

StageFails(stage) ==
  IF ~Remote(stage) THEN Fault
  ELSE IF stage.entity = "support" THEN Unanswered ELSE Unserved

Perform(stage) ==
  /\ StageSucceeds(stage)
  /\ alive' = IF stage.op = "init" THEN alive \cup {stage.entity} ELSE alive
  /\ flags' = IF stage.op = "init" THEN flags \cup {stage.entity} ELSE flags
  /\ tuned' = IF stage.op = "configure" THEN tuned \cup {stage.entity} ELSE tuned
  /\ attached' = IF stage.op = "add" THEN attached \cup {stage.entity} ELSE attached

\* The preprocessor leaves a stage out whose entity the build does not have.
CreateStep ==
  /\ phase = "create" /\ position <= Len(Creation)
  /\ IF Compiled(Creation[position]) THEN Perform(Creation[position])
     ELSE UNCHANGED <<entities, known, faults>>
  /\ position' = position + 1
  /\ UNCHANGED <<phase, setup, request, loop, agent, gone>>

\* Mutant: a failed support is taken to have left nothing.
NoSupport(valid) == {}

\* support_initialized after a failure, which may leave a valid context.
LeftSupport(valid) == IF valid THEN {"support"} ELSE {}

CreateFail ==
  /\ phase = "create" /\ position <= Len(Creation)
  /\ Compiled(Creation[position])
  /\ StageFails(Creation[position])
  /\ \E valid \in BOOLEAN :
       /\ valid => Creation[position] = Stage("init", "support")
       /\ alive' = IF valid THEN alive \cup {"support"} ELSE alive
       /\ flags' = flags \cup LeftSupport(valid)
  /\ phase' = "cleanup" /\ position' = 1
  /\ UNCHANGED <<setup, tuned, attached, request, loop, agent, gone, known>>

\* Finishing an entity releases it here, whatever it returns: a failure is
\* the Agent's side not answering.
CleanupStep ==
  /\ phase = "cleanup" /\ position <= Len(Teardown)
  /\ alive' = alive \ (flags \cap {Teardown[position]})
  /\ position' = position + 1
  /\ UNCHANGED <<phase, setup, flags, tuned, attached, request, loop, environment>>

\* Mutant: a creation that failed ends the task.
AfterCleanupStop == "stopped"

\* Mutant: the next creation does not wait for the Agent.
AfterCleanupCreate == "create"

AfterCleanup == "discover"

CleanupDone ==
  /\ phase = "cleanup" /\ position = Len(Teardown) + 1
  /\ flags' = {} /\ tuned' = {} /\ attached' = {}
  /\ phase' = AfterCleanup /\ position' = 1
  /\ UNCHANGED <<setup, alive, request, loop, environment>>

-----------------------------------------------------------------------------
(* The session. *)

Later(age, d) == IF age = Empty THEN Empty ELSE age + d

\* What the clock moves in a call that takes d and sets no deadline.
Elapse(d) ==
  /\ cacheAge' = Later(cacheAge, d)
  /\ toSync' = toSync - d /\ toPing' = toPing - d
  /\ silence' = silence + d
  /\ epochAge' = IF synced THEN epochAge + d ELSE 0

CreateDone ==
  /\ phase = "create" /\ position = Len(Creation) + 1
  /\ phase' = "prepare" /\ position' = 1
  /\ UNCHANGED <<setup, entities, request, loop, environment>>

\* prepare_new_ros_session, and the deadlines run_ros_session starts with.
Prepare ==
  /\ phase = "prepare" /\ phase' = "first_sync"
  /\ synced' = FALSE /\ toSync' = 0 /\ epochAge' = 0
  /\ cacheAge' = Empty
  /\ failures' = 0 /\ toPing' = PingPeriod /\ silence' = 0
  /\ UNCHANGED <<position, setup, entities, request, environment>>

\* Mutant: the result of the synchronisation is not looked at, only whether
\* there is an epoch, which there still is.
EpochKnown(ok) == ok \/ synced

SyncResult(ok) == ok

NextSync(ok) == IF SyncResult(ok) THEN SyncPeriod ELSE SyncRetry

\* The next deadline counts from before the call, which may block.
Synchronise ==
  \E d \in 0 .. MaxSync, ok \in BOOLEAN :
    /\ IF ok THEN Served ELSE Unserved
    /\ synced' = SyncResult(ok)
    /\ toSync' = NextSync(ok) - d
    /\ epochAge' = IF ok THEN d ELSE IF synced' THEN epochAge + d ELSE 0
    /\ cacheAge' = Later(cacheAge, d)
    /\ toPing' = toPing - d /\ silence' = silence + d
    /\ UNCHANGED failures

RefreshSync ==
  /\ phase \in {"first_sync", "sync"}
  /\ phase' = IF phase = "sync" THEN "ping" ELSE "spin"
  /\ IF toSync > 0 THEN UNCHANGED <<loop, faults>> ELSE Synchronise
  /\ UNCHANGED <<position, setup, entities, request, agent, gone, known>>

\* A subscription callback that the executor runs; its message may have come
\* in before the Agent stopped.  An invalid twist, or one that the backend
\* refuses, ends in a request to stop.
CmdVelCallback ==
  /\ phase = "spin"
  /\ request' \in {"targets", "stop"}
  /\ UNCHANGED <<phase, position, setup, entities, loop, environment>>

\* On the chassis only 0 and 1 are commands, and only one that the control
\* task's queue has accepted is cached.
CommandCallback ==
  /\ phase = "spin"
  /\ \/ /\ ChassisMode /\ request' \in {"zero", "arm"} /\ cacheAge' = 0
     \/ /\ ChassisMode /\ request' = "stop" /\ UNCHANGED cacheAge
     \/ /\ ~ChassisMode /\ UNCHANGED request /\ cacheAge' = 0
  /\ UNCHANGED <<phase, position, setup, entities, synced, toSync, toPing,
                 failures, silence, epochAge, environment>>

SpinDone ==
  /\ phase = "spin" /\ phase' = "check"
  /\ \E d \in 1 .. MaxSpin : Elapse(d)
  /\ UNCHANGED <<position, setup, entities, request, synced, failures, environment>>

CheckCommandTimeout ==
  /\ phase = "check" /\ phase' = "sync"
  /\ cacheAge' = IF cacheAge > CommandTimeout THEN Empty ELSE cacheAge
  /\ UNCHANGED <<position, setup, entities, request, synced, toSync, toPing,
                 failures, silence, epochAge, environment>>

\* Mutant: every failure is the first.
ForgetfulCount(answered) == IF answered THEN 0 ELSE 1

CountFailures(answered) == IF answered THEN 0 ELSE failures + 1

GivesUp(count) == count >= FailureLimit

\* The period counts from before the ping, which takes d.
PingAgent ==
  \E d \in 0 .. MaxPing, answered \in BOOLEAN :
    /\ IF answered THEN Answered ELSE Unanswered
    /\ failures' = CountFailures(answered)
    /\ phase' = IF GivesUp(failures') THEN "lost" ELSE "spin"
    /\ toPing' = PingPeriod - d
    /\ silence' = IF answered THEN 0 ELSE silence + d
    /\ cacheAge' = Later(cacheAge, d)
    /\ toSync' = toSync - d
    /\ epochAge' = IF synced THEN epochAge + d ELSE 0
    /\ UNCHANGED synced

Ping ==
  /\ phase = "ping"
  /\ IF toPing > 0 THEN phase' = "spin" /\ UNCHANGED <<loop, faults>>
     ELSE PingAgent
  /\ UNCHANGED <<position, setup, entities, request, agent, gone, known>>

\* Mutant: the queue is left to the next session to clear.
LostKeepsCache ==
  /\ phase = "lost" /\ phase' = "cleanup" /\ position' = 1
  /\ request' = "stop" /\ synced' = FALSE /\ epochAge' = 0
  /\ UNCHANGED <<setup, entities, cacheAge, toSync, toPing, failures, silence,
                 environment>>

\* Mutant: the last command is left to its own timeout.
LostWithoutStop ==
  /\ phase = "lost" /\ phase' = "cleanup" /\ position' = 1
  /\ cacheAge' = Empty /\ synced' = FALSE /\ epochAge' = 0
  /\ UNCHANGED <<setup, entities, request, toSync, toPing, failures, silence,
                 environment>>

Lost ==
  /\ phase = "lost" /\ phase' = "cleanup" /\ position' = 1
  /\ cacheAge' = Empty /\ request' = "stop" /\ synced' = FALSE /\ epochAge' = 0
  /\ UNCHANGED <<setup, entities, toSync, toPing, failures, silence, environment>>

-----------------------------------------------------------------------------
(* The Agent, or the network on the way to it. *)

AgentStops ==
  /\ agent = "up" /\ agent' = "down"
  /\ gone' \in (IF MayVanish THEN BOOLEAN ELSE {FALSE})
  /\ UNCHANGED <<phase, position, setup, entities, request, loop, known, faults>>

\* The network was interrupted, or the Agent has restarted.
AgentReturns ==
  /\ agent = "down" /\ ~gone /\ agent' = "up"
  /\ known' \in {known, FALSE}
  /\ UNCHANGED <<phase, position, setup, entities, request, loop, gone, faults>>

-----------------------------------------------------------------------------
StartNext == SetupStep \/ Fatal \/ Discover

EntityNext ==
  CreateStep \/ CreateFail \/ CreateDone \/ CleanupStep \/ CleanupDone

LoopNext ==
  Prepare \/ RefreshSync \/ SpinDone \/ CheckCommandTimeout \/ Ping \/ Lost

Progress == StartNext \/ EntityNext \/ LoopNext

Next ==
  \/ Progress
  \/ CmdVelCallback \/ CommandCallback
  \/ AgentStops \/ AgentReturns

Spec == Init /\ [][Next]_vars

\* The task is scheduled, its calls end, and one executor call runs each
\* callback at most once.  Nothing is assumed of the Agent.
FairSpec == Spec /\ WF_vars(Progress)

-----------------------------------------------------------------------------
(* Properties. *)

\* Exactly one complete entity set exists in a live session: every entity
\* exists, the reliable publisher has its short timeout, and the executor
\* serves every timer and subscription.
CompleteSession ==
  phase \in Live =>
    /\ alive = Entities
    /\ OwnPublisher \in tuned
    /\ attached = Handles

\* Whatever stage creation failed at, and however a session ended, cleanup has
\* released everything before the Agent is looked for again; a task that has
\* ended holds nothing at all.
NothingLeft ==
  /\ phase \in {"setup", "discover", "stopped"} => alive = {}
  /\ phase = "stopped" => setup = {}

\* No entity is finished while another that refers to it still exists: the
\* executor goes before what it serves, the node and the support last.
UsersFirst ==
  [][\A e \in alive \ alive' : \A user \in alive' : ~RefersTo(user, e)]_vars

\* Whatever fails, entities come and go in the order EntityLifecycle allows:
\* made after what they refer to, complete when a session opens, finished after
\* what refers to them, and all gone before creation starts again.
LifeStage ==
  IF phase \in Live THEN "live"
  ELSE IF phase = "create" THEN "making"
  ELSE IF phase = "cleanup" THEN "finishing" ELSE "none"
Refs == {r \in alive \X alive : RefersTo(r[1], r[2])}
Life ==
  INSTANCE EntityLifecycle WITH
    stage <- LifeStage, refs <- Refs,
    Required <- {r \in Entities \X Entities : Refers(r[1], r[2], Handles)}
LifecycleSpec == Life!Spec

\* Outside a session nothing but a stop is the last word to the motion
\* backend, whatever callbacks ran before the Agent was lost.
StoppedOutsideSession ==
  phase \notin Live => request \in {"none", "stop"}

\* The session keeps the promise of AgentLink to the motion backend: commands
\* from the executor of a live session only, none between the ping that loses
\* the Agent and the end, and a stop as the last word of each session.
LinkState ==
  IF phase \in {"check", "sync", "ping", "lost"} THEN "rest"
  ELSE IF phase \in Live THEN "spin" ELSE "away"
LastWord == IF request \in {"none", "stop"} THEN request ELSE "command"
Link == INSTANCE AgentLink WITH link <- LinkState, word <- LastWord
LinkSpec == Link!Spec

\* A cached command does not survive its session, and in the session it is
\* cleared within its timeout and the time one turn of the loop may block.
CacheIsCurrent ==
  /\ phase \notin Live => cacheAge = Empty
  /\ cacheAge <= CommandTimeout + MaxSpin + MaxSync + MaxPing

\* While samples may be published against it, the Agent's epoch was obtained
\* no longer ago than the period and the calls that may delay its refreshing.
EpochIsRecent ==
  synced => /\ phase \in Live
            /\ epochAge <= SyncPeriod + MaxSpin + MaxSync + MaxPing

\* A session goes on without an answer from its Agent for a bounded time,
\* although synchronisation delays the pings, and the one a session begins with
\* may last longer than their period.
SilenceBounded ==
  phase \in Looping =>
    silence <= FailureLimit * (PingPeriod + MaxSpin + MaxSync)

\* When the Agent has gone for good, so are the session and its entities.
LossEndsSession == gone ~> [](phase \in {"discover", "stopped"})

\* When the Agent stays, the task gets from discovery to a session, whatever
\* stages failed before.
Recovers == <>[](agent = "up") => (phase = "discover" ~> phase \in Looping)

\* An Agent that has restarted is noticed: while it stays, a session that it
\* does not know does not go on for ever, as the README's recovery has it.
RestartNoticed ==
  <>[](agent = "up") =>
    (phase \in Looping /\ ~known ~> phase \notin Looping)
=============================================================================
