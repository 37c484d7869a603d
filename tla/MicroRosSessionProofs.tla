------------------------ MODULE MicroRosSessionProofs ------------------------
(***************************************************************************)
(* Proofs about the life of the micro-ROS task, for both build modes, and  *)
(* any periods, limits and durations of the calls that block which         *)
(* SessionAssumption allows.                                               *)
(***************************************************************************)
EXTENDS MicroRosSession, TLAPS

-----------------------------------------------------------------------------
(* The inductive invariant. *)

\* The longest time from one ping to the next.
Span == PingPeriod + MaxSpin + MaxSync

\* The deadline of the next ping is bounded by the failures so far, and the
\* loop gets to it before it is overdue by more than one turn.  The first one
\* may be overdue when the loop begins, but then no synchronisation delays it.
PingOnTime ==
  /\ phase \in Looping \cup {"first_sync"} =>
       /\ failures < FailureLimit
       /\ silence + toPing <= failures * Span + PingPeriod
  /\ phase = "first_sync" => toPing = PingPeriod
  /\ phase = "spin" =>
       0 <= toPing \/ (0 <= toPing + MaxSync /\ MaxSpin < toSync)
  /\ phase \in {"check", "sync"} =>
       0 <= toPing + MaxSpin \/ (0 <= toPing + MaxSpin + MaxSync /\ 0 < toSync)
  /\ phase = "ping" => 0 <= toPing + MaxSpin + MaxSync

\* How old the cached command can be at each point of a turn.
CacheOnTime ==
  /\ phase \notin Looping \cup {"lost"} => cacheAge = Empty
  /\ phase \in {"spin", "lost"} => cacheAge <= CommandTimeout + MaxSync + MaxPing
  /\ phase = "check" => cacheAge <= CommandTimeout + MaxSpin + MaxSync + MaxPing
  /\ phase = "sync" => cacheAge <= CommandTimeout
  /\ phase = "ping" => cacheAge <= CommandTimeout + MaxSync

\* The age of the epoch and the deadline to refresh it add up to the period.
EpochOnTime ==
  synced =>
    /\ phase \in Looping \cup {"lost"}
    /\ epochAge + toSync = SyncPeriod
    /\ phase = "ping" => epochAge <= SyncPeriod + MaxSync
    /\ phase \in {"spin", "lost"} => epochAge <= SyncPeriod + MaxSync + MaxPing
    /\ phase \in {"check", "sync"} =>
         epochAge <= SyncPeriod + MaxSpin + MaxSync + MaxPing

\* Whatever exists is flagged, and cleanup has passed nothing that exists.
Accounted ==
  /\ alive \subseteq flags
  /\ phase \in {"setup", "discover", "stopped"} => alive = {}
  /\ phase = "stopped" => setup = {}
  /\ phase = "setup" => position <= Len(SetupStages)
  /\ phase = "cleanup" =>
       /\ position <= Len(Teardown) + 1
       /\ \A i \in 1 .. position - 1 : Teardown[i] \notin alive

\* A stage has left what it was for.
Performed(stage) ==
  /\ stage.op = "init" => stage.entity \in alive
  /\ stage.op = "configure" => stage.entity \in tuned
  /\ stage.op = "add" => stage.entity \in attached

\* Creation has performed every stage it has passed.
Staged ==
  phase = "create" =>
    \A i \in 1 .. position - 1 : Compiled(Creation[i]) => Performed(Creation[i])

IndInv ==
  /\ TypeOK /\ PingOnTime /\ CacheOnTime /\ EpochOnTime
  /\ Accounted /\ Staged /\ CompleteSession /\ StoppedOutsideSession

-----------------------------------------------------------------------------
(* The tables. *)

\* The stages of creation, one by one.
LEMMA CreationFacts ==
  /\ Len(Creation) = 14
  /\ \A i \in 1 .. 14 :
       /\ Creation[i].op \in {"init", "configure", "add"}
       /\ Compiled(Creation[i]) =>
            /\ Creation[i].op = "configure" => Creation[i].entity \in Publishers
            /\ Creation[i].op = "add" => Creation[i].entity \in Handles
  /\ Creation[1] = Stage("init", "support")
  /\ Creation[2] = Stage("init", "node")
  /\ Creation[3] = Stage("init", OwnPublisher)
  /\ Creation[4] = Stage("configure", OwnPublisher)
  /\ Creation[5] = Stage("init", "imu_publisher")
  /\ Creation[6] = Stage("init", "command_subscription")
  /\ Creation[7] = Stage("init", "cmd_vel_subscription")
  /\ Creation[8] = Stage("init", "heartbeat_timer")
  /\ Creation[9] = Stage("init", "imu_timer")
  /\ Creation[10] = Stage("init", "executor")
  /\ Creation[11] = Stage("add", "heartbeat_timer")
  /\ Creation[12] = Stage("add", "imu_timer")
  /\ Creation[13] = Stage("add", "command_subscription")
  /\ Creation[14] = Stage("add", "cmd_vel_subscription")
<1>1. /\ Len(Creation) = 14
      /\ Creation[1] = Stage("init", "support")
      /\ Creation[2] = Stage("init", "node")
      /\ Creation[3] = Stage("init", OwnPublisher)
      /\ Creation[4] = Stage("configure", OwnPublisher)
      /\ Creation[5] = Stage("init", "imu_publisher")
      /\ Creation[6] = Stage("init", "command_subscription")
      /\ Creation[7] = Stage("init", "cmd_vel_subscription")
      /\ Creation[8] = Stage("init", "heartbeat_timer")
      /\ Creation[9] = Stage("init", "imu_timer")
      /\ Creation[10] = Stage("init", "executor")
      /\ Creation[11] = Stage("add", "heartbeat_timer")
      /\ Creation[12] = Stage("add", "imu_timer")
      /\ Creation[13] = Stage("add", "command_subscription")
      /\ Creation[14] = Stage("add", "cmd_vel_subscription")
  BY DEF Creation
<1>2. ASSUME NEW i \in 1 .. 14
      PROVE  /\ Creation[i].op \in {"init", "configure", "add"}
             /\ Compiled(Creation[i]) =>
                  /\ Creation[i].op = "configure" => Creation[i].entity \in Publishers
                  /\ Creation[i].op = "add" => Creation[i].entity \in Handles
  <2>1. \/ i = 1 \/ i = 2 \/ i = 3 \/ i = 4 \/ i = 5 \/ i = 6 \/ i = 7
        \/ i = 8 \/ i = 9 \/ i = 10 \/ i = 11 \/ i = 12 \/ i = 13 \/ i = 14
    OBVIOUS
  <2> QED
    BY <1>1, <2>1 DEF Stage, Compiled, Entities, Publishers, Handles, Timers,
                      Subscriptions, OwnPublisher
<1> QED
  BY <1>1, <1>2

\* The stages that finish a set of Entities, in an order in which whatever
\* needs an entity comes before it.
LEMMA TeardownFacts ==
  /\ Len(Teardown) = 10
  /\ \A e \in Entities : \E i \in 1 .. 10 : Teardown[i] = e
<1>1. /\ Len(Teardown) = 10
      /\ Teardown[1] = "executor" /\ Teardown[2] = "imu_timer"
      /\ Teardown[3] = "heartbeat_timer" /\ Teardown[4] = "cmd_vel_subscription"
      /\ Teardown[5] = "command_subscription" /\ Teardown[6] = "imu_publisher"
      /\ Teardown[7] = "odom_publisher" /\ Teardown[8] = "heartbeat_publisher"
      /\ Teardown[9] = "node" /\ Teardown[10] = "support"
  BY DEF Teardown
<1> QED
  BY <1>1 DEF Entities, Publishers, Handles, Timers, Subscriptions, OwnPublisher

LEMMA UsersComeFirst ==
  ASSUME attached \subseteq Handles,
         NEW p \in 1 .. 10, NEW user \in Entities, RefersTo(user, Teardown[p])
  PROVE  \E j \in 1 .. p - 1 : Teardown[j] = user
<1>1. /\ Teardown[1] = "executor" /\ Teardown[2] = "imu_timer"
      /\ Teardown[3] = "heartbeat_timer" /\ Teardown[4] = "cmd_vel_subscription"
      /\ Teardown[5] = "command_subscription" /\ Teardown[6] = "imu_publisher"
      /\ Teardown[7] = "odom_publisher" /\ Teardown[8] = "heartbeat_publisher"
      /\ Teardown[9] = "node" /\ Teardown[10] = "support"
  BY DEF Teardown
<1>2. \/ p = 1 \/ p = 2 \/ p = 3 \/ p = 4 \/ p = 5 \/ p = 6 \/ p = 7 \/ p = 8
      \/ p = 9 \/ p = 10
  OBVIOUS
<1>3. CASE Teardown[p] = "support"
  <2>1. p = 10
    BY <1>1, <1>2, <1>3
  <2>2. user \in {"node", "executor"} \cup Timers
    BY <1>3 DEF RefersTo, Refers, Handles, Timers, Subscriptions
  <2> QED
    BY <1>1, <2>1, <2>2 DEF Timers
<1>4. CASE Teardown[p] = "node"
  <2>1. p = 9
    BY <1>1, <1>2, <1>4
  <2>2. user \in Publishers \cup Subscriptions
    BY <1>4 DEF RefersTo, Refers, Handles, Timers, Subscriptions
  <2> QED
    BY <1>1, <2>1, <2>2 DEF Publishers, Subscriptions, OwnPublisher
<1>5. CASE Teardown[p] \in attached /\ user = "executor"
  <2>1. p # 1
    BY <1>1, <1>5 DEF Handles, Timers, Subscriptions
  <2> QED
    BY <1>1, <1>5, <2>1
<1> QED
  BY <1>3, <1>4, <1>5 DEF RefersTo, Refers

\* What one more failure adds, and what all of them amount to.
LEMMA SpanFacts ==
  /\ Span \in Nat
  /\ 0 * Span = 0
  /\ \A n \in Nat : n * Span \in Nat /\ (n + 1) * Span = n * Span + Span
  /\ \A n \in Nat : n < FailureLimit => n * Span + Span <= FailureLimit * Span
<1>1. Span \in Nat
  BY SessionAssumption DEF Span
<1>2. ASSUME NEW n \in Nat
      PROVE  n * Span \in Nat /\ (n + 1) * Span = n * Span + Span
  BY <1>1
<1>3. ASSUME NEW n \in Nat, n < FailureLimit
      PROVE  n * Span + Span <= FailureLimit * Span
  <2>1. PICK k \in Nat : FailureLimit = n + 1 + k
    <3>1. FailureLimit - n - 1 \in Nat
      BY <1>3, SessionAssumption
    <3> QED
      BY <3>1, SessionAssumption
  <2>2. k * Span \in Nat
    BY <1>1
  <2>3. FailureLimit * Span = (n + 1) * Span + k * Span
    BY <1>1, <2>1
  <2> QED
    BY <1>1, <1>2, <2>2, <2>3
<1> QED
  BY <1>1, <1>2, <1>3

-----------------------------------------------------------------------------
(* The steps. *)

LEMMA InitIndInv == Init => IndInv
<1> SUFFICES ASSUME Init
             PROVE  IndInv
  OBVIOUS
<1> USE DEF Init, Phases, Live, Looping, Empty
<1>1. TypeOK
  <2>1. Len(Creation) = 14
    BY CreationFacts
  <2>2. FailureLimit \in Nat /\ MaxFaults \in Nat
    BY SessionAssumption
  <2>3. /\ phase \in Phases /\ request \in Requests
        /\ cacheAge \in Nat \cup {Empty}
        /\ agent \in {"up", "down"} /\ gone \in BOOLEAN /\ synced \in BOOLEAN
    BY DEF Requests
  <2>4. position \in 1 .. Len(Creation) + 1
    BY <2>1
  <2>5. failures \in 0 .. FailureLimit /\ faults \in 0 .. MaxFaults
        /\ toSync \in Int /\ toPing \in Int /\ silence \in Nat /\ epochAge \in Nat
    BY <2>2
  <2> QED
    BY <2>3, <2>4, <2>5 DEF TypeOK
<1>2. PingOnTime /\ CacheOnTime /\ EpochOnTime
  BY DEF PingOnTime, CacheOnTime, EpochOnTime
<1>3. Len(SetupStages) = 5
  BY DEF SetupStages
<1>4. Accounted /\ Staged
  BY <1>3 DEF Accounted, Staged
<1>5. CompleteSession /\ StoppedOutsideSession
  BY DEF CompleteSession, StoppedOutsideSession
<1> QED
  BY <1>1, <1>2, <1>4, <1>5 DEF IndInv

\* Set-up and discovery touch neither deadlines nor entities.
LEMMA StartStep == IndInv /\ StartNext => IndInv'
<1> SUFFICES ASSUME IndInv, StartNext
             PROVE  IndInv'
  OBVIOUS
<1> USE DEF Phases, Live, Looping, Requests, Empty, entities, loop, environment
<1>1. Len(SetupStages) = 5
  BY DEF SetupStages
<1>2. CASE SetupStep
  <2>1. phase = "setup" /\ phase' \in {"setup", "discover"}
    BY <1>2 DEF SetupStep
  <2>2. TypeOK'
    BY <1>1, <1>2, CreationFacts DEF SetupStep, IndInv, TypeOK, Accounted
  <2>3. PingOnTime' /\ CacheOnTime' /\ EpochOnTime'
    BY <1>2, <2>1 DEF SetupStep, IndInv, PingOnTime, CacheOnTime, EpochOnTime
  <2>4. Accounted'
    BY <1>1, <1>2, <2>1 DEF SetupStep, IndInv, Accounted, TypeOK
  <2>5. Staged' /\ CompleteSession' /\ StoppedOutsideSession'
    BY <1>2, <2>1 DEF SetupStep, IndInv, Staged, CompleteSession, StoppedOutsideSession
  <2> QED
    BY <2>2, <2>3, <2>4, <2>5 DEF IndInv
<1>3. CASE Fatal
  BY <1>3 DEF Fatal, IndInv, TypeOK, PingOnTime, CacheOnTime, EpochOnTime,
              Accounted, Staged, CompleteSession, StoppedOutsideSession
<1>4. CASE Discover
  <2>1. phase = "discover" /\ phase' = "create" /\ position' = 1 /\ alive = {}
    BY <1>4 DEF Discover, IndInv, Accounted
  <2>2. TypeOK'
    BY <1>4, CreationFacts DEF Discover, Answered, IndInv, TypeOK
  <2>3. PingOnTime' /\ CacheOnTime' /\ EpochOnTime'
    BY <1>4, <2>1 DEF Discover, IndInv, PingOnTime, CacheOnTime, EpochOnTime
  <2>4. Accounted'
    BY <1>4, <2>1 DEF Discover, Accounted
  <2>5. Staged'
    BY <2>1 DEF Staged
  <2>6. CompleteSession' /\ StoppedOutsideSession'
    BY <1>4, <2>1 DEF Discover, IndInv, CompleteSession, StoppedOutsideSession
  <2> QED
    BY <2>2, <2>3, <2>4, <2>5, <2>6 DEF IndInv
<1> QED
  BY <1>2, <1>3, <1>4 DEF StartNext

\* Creation keeps what it has made accounted for; cleanup takes it all away.
LEMMA EntityStep == IndInv /\ EntityNext => IndInv'
<1> SUFFICES ASSUME IndInv, EntityNext
             PROVE  IndInv'
  OBVIOUS
<1> USE DEF Phases, Live, Looping, Requests, Empty, entities, loop, environment
<1>1. position \in 1 .. 15 /\ alive \subseteq Entities /\ flags \subseteq Entities
      /\ tuned \subseteq Publishers /\ attached \subseteq Handles
      /\ faults \in 0 .. MaxFaults /\ alive \subseteq flags
  BY CreationFacts DEF IndInv, TypeOK, Accounted
<1>2. ASSUME phase \in {"create", "cleanup"},
             phase' \in {"create", "cleanup", "discover", "prepare"},
             UNCHANGED <<setup, request, loop, agent, gone>>
      PROVE  PingOnTime' /\ CacheOnTime' /\ EpochOnTime' /\ StoppedOutsideSession'
  BY <1>2 DEF IndInv, PingOnTime, CacheOnTime, EpochOnTime, StoppedOutsideSession
<1>3. CASE CreateStep
  <2>1. phase = "create" /\ phase' = "create" /\ position \in 1 .. 14
        /\ position' = position + 1
    BY <1>1, <1>3, CreationFacts DEF CreateStep
  <2>2. /\ alive \subseteq alive' /\ tuned \subseteq tuned'
        /\ attached \subseteq attached'
        /\ alive' \subseteq flags' /\ flags' \subseteq Entities
        /\ tuned' \subseteq Publishers /\ attached' \subseteq Handles
        /\ faults' = faults /\ (known' = known \/ known' = TRUE)
    BY <1>1, <1>3, <2>1, CreationFacts
    DEF CreateStep, Perform, StageSucceeds, Compiled, Answered, Served
  <2>3. ASSUME NEW stage, stage = Creation[position], Compiled(stage)
        PROVE  Performed(stage)'
    BY <1>3, <2>3 DEF CreateStep, Perform, Performed
  <2>4. known' \in BOOLEAN
    BY <2>2 DEF IndInv, TypeOK
  <2>5. TypeOK'
    BY <1>1, <1>3, <2>1, <2>2, <2>4, CreationFacts DEF CreateStep, IndInv, TypeOK
  <2>6. Accounted'
    BY <2>1, <2>2 DEF Accounted
  <2>7. Staged'
    <3> SUFFICES ASSUME NEW i \in 1 .. position, Compiled(Creation[i])
                 PROVE  Performed(Creation[i])'
      BY <2>1 DEF Staged, Compiled, Entities
    <3>1. CASE i = position
      BY <2>3, <3>1
    <3>2. CASE i < position
      <4>1. Performed(Creation[i])
        BY <2>1, <3>2 DEF IndInv, Staged
      <4> QED
        BY <2>2, <4>1 DEF Performed
    <3> QED
      BY <2>1, <3>1, <3>2
  <2>8. CompleteSession'
    BY <2>1 DEF CompleteSession
  <2> QED
    BY <1>2, <1>3, <2>1, <2>5, <2>6, <2>7, <2>8 DEF CreateStep, IndInv
<1>4. CASE CreateFail
  <2>1. phase = "create" /\ phase' = "cleanup" /\ position' = 1
    BY <1>4 DEF CreateFail
  <2>2. /\ alive' \subseteq flags' /\ flags' \subseteq Entities
        /\ faults' \in 0 .. MaxFaults
    BY <1>1, <1>4, SessionAssumption
    DEF CreateFail, LeftSupport, StageFails, Unserved, Unanswered, Fault, Entities
  <2>3. TypeOK'
    BY <1>4, <2>1, <2>2, CreationFacts DEF CreateFail, IndInv, TypeOK
  <2>4. Accounted' /\ Staged' /\ CompleteSession'
    BY <2>1, <2>2, TeardownFacts DEF Accounted, Staged, CompleteSession
  <2> QED
    BY <1>2, <1>4, <2>1, <2>3, <2>4 DEF CreateFail, IndInv
<1>5. CASE CreateDone
  <2>1. phase = "create" /\ phase' = "prepare" /\ position = 15 /\ position' = 1
    BY <1>1, <1>5, CreationFacts DEF CreateDone
  <2>2. alive = Entities /\ OwnPublisher \in tuned /\ attached = Handles
    <3>1. \A i \in 1 .. 14 : Compiled(Creation[i]) => Performed(Creation[i])
      BY <2>1 DEF IndInv, Staged
    <3>2. /\ \A e \in Entities : Stage("init", e) \in {Creation[i] : i \in 1 .. 14}
          /\ \A e \in Handles : Stage("add", e) \in {Creation[i] : i \in 1 .. 14}
      BY CreationFacts
      DEF Entities, Publishers, Handles, Timers, Subscriptions, OwnPublisher
    <3>3. ASSUME NEW e \in Entities
          PROVE  e \in alive
      <4>1. PICK i \in 1 .. 14 : Creation[i] = Stage("init", e)
        BY <3>2
      <4> QED
        BY <3>1, <4>1 DEF Compiled, Performed, Stage
    <3>4. ASSUME NEW e \in Handles
          PROVE  e \in attached
      <4>1. PICK i \in 1 .. 14 : Creation[i] = Stage("add", e)
        BY <3>2
      <4> QED
        BY <3>1, <4>1 DEF Compiled, Performed, Stage, Entities
    <3>5. OwnPublisher \in tuned
      BY <3>1, CreationFacts DEF Compiled, Performed, Stage, Entities, Publishers
    <3> QED
      BY <1>1, <3>3, <3>4, <3>5
  <2>3. TypeOK' /\ CompleteSession' /\ Accounted' /\ Staged'
    BY <1>5, <2>1, <2>2, CreationFacts
    DEF CreateDone, IndInv, TypeOK, CompleteSession, Accounted, Staged
  <2> QED
    BY <1>2, <1>5, <2>1, <2>3 DEF CreateDone, IndInv
<1>6. CASE CleanupStep
  <2>1. phase = "cleanup" /\ phase' = "cleanup" /\ position \in 1 .. 10
        /\ position' = position + 1 /\ alive' = alive \ {Teardown[position]}
    BY <1>1, <1>6, TeardownFacts DEF CleanupStep
  <2>2. TypeOK'
    BY <1>1, <1>6, <2>1, CreationFacts DEF CleanupStep, IndInv, TypeOK
  <2>3. Accounted'
    BY <1>1, <1>6, <2>1, TeardownFacts DEF CleanupStep, IndInv, Accounted
  <2>4. Staged' /\ CompleteSession'
    BY <2>1 DEF Staged, CompleteSession
  <2> QED
    BY <1>2, <1>6, <2>1, <2>2, <2>3, <2>4 DEF CleanupStep, IndInv
<1>7. CASE CleanupDone
  <2>1. phase = "cleanup" /\ phase' = "discover" /\ position = 11 /\ position' = 1
        /\ alive' = alive
    BY <1>7, TeardownFacts DEF CleanupDone, AfterCleanup
  <2>2. alive = {}
    BY <1>1, <2>1, TeardownFacts DEF IndInv, Accounted
  <2>3. TypeOK'
    BY <1>7, <2>1, CreationFacts DEF CleanupDone, IndInv, TypeOK
  <2>4. Accounted' /\ Staged' /\ CompleteSession'
    BY <2>1, <2>2 DEF Accounted, Staged, CompleteSession
  <2> QED
    BY <1>2, <1>7, <2>1, <2>3, <2>4 DEF CleanupDone, IndInv
<1> QED
  BY <1>3, <1>4, <1>5, <1>6, <1>7 DEF EntityNext

\* The loop meets its deadlines.
LEMMA LoopStep == IndInv /\ LoopNext => IndInv'
<1> SUFFICES ASSUME IndInv, LoopNext
             PROVE  IndInv'
  OBVIOUS
<1> USE DEF Phases, Live, Looping, Requests, Empty, entities, loop, environment
<1>1. /\ PingPeriod \in Nat /\ CommandTimeout \in Nat
      /\ SyncPeriod \in Nat /\ SyncRetry \in Nat
      /\ FailureLimit \in Nat \ {0} /\ MaxSpin \in Nat \ {0}
      /\ MaxSync \in Nat /\ MaxPing \in Nat /\ MaxFaults \in Nat
      /\ MaxPing <= PingPeriod
      /\ MaxSpin + MaxSync < SyncRetry /\ MaxSpin + MaxSync < SyncPeriod
      /\ Span = PingPeriod + MaxSpin + MaxSync
  BY SessionAssumption DEF Span
<1>2. /\ TypeOK /\ PingOnTime /\ CacheOnTime /\ EpochOnTime
      /\ Accounted /\ Staged /\ CompleteSession /\ StoppedOutsideSession
  BY DEF IndInv
\* Only the loss of the Agent leaves a session.
<1>3. ASSUME UNCHANGED <<position, setup, entities>>,
             phase \in Live, phase' \in Live
      PROVE  Accounted' /\ Staged' /\ CompleteSession' /\ StoppedOutsideSession'
  BY <1>2, <1>3 DEF Accounted, Staged, CompleteSession, StoppedOutsideSession
<1>4. CASE Prepare
  <2>1. TypeOK'
    <3>1. position' = position /\ UNCHANGED <<setup, entities, request, environment>>
      BY <1>4 DEF Prepare
    <3>2. /\ phase' = "first_sync" /\ synced' = FALSE /\ toSync' = 0
          /\ epochAge' = 0 /\ cacheAge' = Empty
          /\ failures' = 0 /\ toPing' = PingPeriod /\ silence' = 0
      BY <1>4 DEF Prepare
    <3>3. /\ phase' \in Phases /\ synced' \in BOOLEAN
          /\ cacheAge' \in Nat \cup {Empty}
      BY <3>2
    <3>4. /\ toSync' \in Int /\ toPing' \in Int /\ failures' \in 0 .. FailureLimit
          /\ silence' \in Nat /\ epochAge' \in Nat
      BY <1>1, <3>2
    <3> QED
      BY <1>2, <3>1, <3>3, <3>4 DEF TypeOK
  <2>2. PingOnTime' /\ CacheOnTime' /\ EpochOnTime'
    BY <1>1, <1>4, SpanFacts DEF Prepare, PingOnTime, CacheOnTime, EpochOnTime
  <2> QED
    BY <1>3, <1>4, <2>1, <2>2 DEF Prepare, IndInv
<1>5. CASE RefreshSync
  <2>1. phase \in {"first_sync", "sync"} /\ phase' \in {"spin", "ping"}
    BY <1>5 DEF RefreshSync
  <2>2. CASE toSync > 0
    <3>1. UNCHANGED <<loop, faults>>
      BY <1>5, <2>2 DEF RefreshSync
    <3>2. TypeOK'
      BY <1>2, <1>5, <2>1, <3>1 DEF RefreshSync, TypeOK
    <3>3. PingOnTime' /\ CacheOnTime' /\ EpochOnTime'
      BY <1>1, <1>2, <1>5, <2>2, <3>1
      DEF RefreshSync, TypeOK, PingOnTime, CacheOnTime, EpochOnTime
    <3> QED
      BY <1>3, <1>5, <2>1, <3>2, <3>3 DEF RefreshSync, IndInv
  <2>3. CASE ~(toSync > 0)
    <3>1. Synchronise
      BY <1>5, <2>3 DEF RefreshSync
    <3>2. PICK d \in 0 .. MaxSync, ok \in BOOLEAN :
            /\ IF ok THEN Served ELSE Unserved
            /\ synced' = ok
            /\ toSync' = (IF ok THEN SyncPeriod ELSE SyncRetry) - d
            /\ epochAge' = IF ok THEN d ELSE 0
            /\ cacheAge' = Later(cacheAge, d)
            /\ toPing' = toPing - d /\ silence' = silence + d
            /\ UNCHANGED failures
      BY <3>1 DEF Synchronise, SyncResult, NextSync
    <3>3. faults' \in 0 .. MaxFaults
      BY <1>1, <1>2, <3>2 DEF TypeOK, Served, Unserved, Answered, Unanswered, Fault
    <3>4. TypeOK'
      BY <1>1, <1>2, <1>5, <2>1, <3>2, <3>3 DEF RefreshSync, TypeOK, Later
    <3>5. PingOnTime'
      BY <1>1, <1>2, <1>5, <3>2, SpanFacts DEF RefreshSync, TypeOK, PingOnTime
    <3>6. CacheOnTime'
      BY <1>1, <1>2, <1>5, <3>2 DEF RefreshSync, TypeOK, CacheOnTime, Later
    <3>7. EpochOnTime'
      BY <1>1, <1>2, <1>5, <3>2 DEF RefreshSync, TypeOK, EpochOnTime
    <3> QED
      BY <1>3, <1>5, <2>1, <3>4, <3>5, <3>6, <3>7 DEF RefreshSync, IndInv
  <2> QED
    BY <2>2, <2>3
<1>6. CASE SpinDone
  <2>1. PICK d \in 1 .. MaxSpin : Elapse(d)
    BY <1>6 DEF SpinDone
  <2>2. TypeOK'
    BY <1>1, <1>2, <1>6, <2>1 DEF SpinDone, Elapse, Later, TypeOK
  <2>3. PingOnTime'
    BY <1>1, <1>2, <1>6, <2>1, SpanFacts DEF SpinDone, Elapse, TypeOK, PingOnTime
  <2>4. CacheOnTime' /\ EpochOnTime'
    BY <1>1, <1>2, <1>6, <2>1
    DEF SpinDone, Elapse, Later, TypeOK, CacheOnTime, EpochOnTime
  <2> QED
    BY <1>3, <1>6, <2>2, <2>3, <2>4 DEF SpinDone, IndInv
<1>7. CASE CheckCommandTimeout
  <2>1. TypeOK'
    BY <1>2, <1>7 DEF CheckCommandTimeout, TypeOK
  <2>2. PingOnTime' /\ CacheOnTime' /\ EpochOnTime'
    BY <1>1, <1>2, <1>7
    DEF CheckCommandTimeout, TypeOK, PingOnTime, CacheOnTime, EpochOnTime
  <2> QED
    BY <1>3, <1>7, <2>1, <2>2 DEF CheckCommandTimeout, IndInv
<1>8. CASE Ping
  <2>1. CASE toPing > 0
    <3>1. TypeOK'
      BY <1>2, <1>8, <2>1 DEF Ping, TypeOK
    <3>2. PingOnTime' /\ CacheOnTime' /\ EpochOnTime'
      BY <1>1, <1>2, <1>8, <2>1
      DEF Ping, TypeOK, PingOnTime, CacheOnTime, EpochOnTime
    <3> QED
      BY <1>3, <1>8, <2>1, <3>1, <3>2 DEF Ping, IndInv
  <2>2. CASE ~(toPing > 0)
    <3>1. PICK d \in 0 .. MaxPing, answered \in BOOLEAN :
            /\ IF answered THEN Answered ELSE Unanswered
            /\ failures' = IF answered THEN 0 ELSE failures + 1
            /\ phase' = IF failures' >= FailureLimit THEN "lost" ELSE "spin"
            /\ toPing' = PingPeriod - d
            /\ silence' = IF answered THEN 0 ELSE silence + d
            /\ cacheAge' = Later(cacheAge, d)
            /\ toSync' = toSync - d
            /\ epochAge' = IF synced THEN epochAge + d ELSE 0
            /\ UNCHANGED synced
      BY <1>8, <2>2 DEF Ping, PingAgent, CountFailures, GivesUp
    <3>2. phase = "ping" /\ phase' \in {"lost", "spin"}
          /\ UNCHANGED <<position, setup, entities, request, agent, gone, known>>
      BY <1>8, <3>1 DEF Ping
    <3>3. faults' \in 0 .. MaxFaults
      BY <1>1, <1>2, <3>1 DEF TypeOK, Answered, Unanswered, Fault
    <3>4. failures < FailureLimit
      BY <1>2, <3>2 DEF PingOnTime
    <3>5. TypeOK'
      BY <1>1, <1>2, <3>1, <3>2, <3>3, <3>4 DEF TypeOK, Later
    <3>6. PingOnTime'
      <4>1. CASE answered
        BY <1>1, <1>2, <3>1, <3>2, <4>1, SpanFacts DEF TypeOK, PingOnTime
      <4>2. CASE ~answered
        <5>1. silence <= failures * Span + Span
          BY <1>1, <1>2, <3>2, SpanFacts DEF TypeOK, PingOnTime
        <5>2. (failures + 1) * Span = failures * Span + Span
              /\ failures * Span \in Nat
          BY <1>2, SpanFacts DEF TypeOK
        <5>3. silence' + toPing' <= failures' * Span + PingPeriod
          BY <1>1, <1>2, <3>1, <4>2, <5>1, <5>2, SpanFacts DEF TypeOK
        <5> QED
          BY <1>1, <3>1, <3>2, <3>5, <5>3 DEF TypeOK, PingOnTime
      <4> QED
        BY <4>1, <4>2
    <3>7. CacheOnTime' /\ EpochOnTime'
      BY <1>1, <1>2, <3>1, <3>2 DEF TypeOK, CacheOnTime, EpochOnTime, Later
    <3> QED
      BY <1>3, <3>2, <3>5, <3>6, <3>7 DEF IndInv
  <2> QED
    BY <2>1, <2>2
<1>9. CASE Lost
  <2>1. phase = "lost" /\ phase' = "cleanup" /\ position' = 1
    BY <1>9 DEF Lost
  <2>2. TypeOK'
    <3>1. 1 \in 1 .. Len(Creation) + 1
      BY CreationFacts
    <3> QED
      BY <1>2, <1>9, <3>1 DEF Lost, TypeOK
  <2>3. PingOnTime' /\ CacheOnTime' /\ EpochOnTime' /\ StoppedOutsideSession'
    BY <1>9, <2>1
    DEF Lost, PingOnTime, CacheOnTime, EpochOnTime, StoppedOutsideSession
  <2>4. Accounted' /\ Staged' /\ CompleteSession'
    BY <1>2, <1>9, <2>1, TeardownFacts
    DEF Lost, Accounted, Staged, CompleteSession
  <2> QED
    BY <2>2, <2>3, <2>4 DEF IndInv
<1> QED
  BY <1>4, <1>5, <1>6, <1>7, <1>8, <1>9 DEF LoopNext

\* Callbacks run in the loop only, and the Agent changes nothing of the task.
LEMMA OtherStep ==
  IndInv /\ (CmdVelCallback \/ CommandCallback \/ AgentStops \/ AgentReturns)
    => IndInv'
<1> SUFFICES ASSUME IndInv,
                    CmdVelCallback \/ CommandCallback \/ AgentStops \/ AgentReturns
             PROVE  IndInv'
  OBVIOUS
<1> USE DEF Live, Looping, Requests, Empty, entities, loop, environment
<1>1. /\ UNCHANGED <<synced, toSync, toPing, failures, silence, epochAge, faults>>
      /\ cacheAge' \in {cacheAge, 0}
      /\ request' \in Requests \cup {request}
      /\ agent' \in {"up", "down", agent} /\ gone' \in BOOLEAN \cup {gone}
      /\ known' = known \/ known' = FALSE
      /\ phase = "spin" \/ UNCHANGED <<cacheAge, request>>
  BY DEF CmdVelCallback, CommandCallback, AgentStops, AgentReturns
<1>2. known' \in BOOLEAN
  BY <1>1 DEF IndInv, TypeOK
<1>3. UNCHANGED <<phase, position, setup, entities>>
  BY DEF CmdVelCallback, CommandCallback, AgentStops, AgentReturns
<1>4. TypeOK'
  BY <1>1, <1>3, <1>2 DEF IndInv, TypeOK
<1>5. PingOnTime' /\ EpochOnTime' /\ CompleteSession' /\ StoppedOutsideSession'
  BY <1>1, <1>3
  DEF IndInv, PingOnTime, EpochOnTime, CompleteSession, StoppedOutsideSession
<1>6. CacheOnTime'
  BY <1>1, <1>3, SessionAssumption DEF IndInv, CacheOnTime
<1>7. Accounted' /\ Staged'
  BY <1>3 DEF IndInv, Accounted, Staged, Performed
<1> QED
  BY <1>4, <1>5, <1>6, <1>7 DEF IndInv

LEMMA NextIndInv == IndInv /\ [Next]_vars => IndInv'
<1> SUFFICES ASSUME IndInv, [Next]_vars
             PROVE  IndInv'
  OBVIOUS
<1>1. CASE Progress
  BY <1>1, StartStep, EntityStep, LoopStep DEF Progress
<1>2. CASE CmdVelCallback \/ CommandCallback \/ AgentStops \/ AgentReturns
  BY <1>2, OtherStep
<1>3. CASE UNCHANGED vars
  BY <1>3
  DEF vars, entities, loop, environment, IndInv, TypeOK, PingOnTime, CacheOnTime,
      EpochOnTime, Accounted, Staged, Performed, CompleteSession,
      StoppedOutsideSession
<1> QED
  BY <1>1, <1>2, <1>3 DEF Next

-----------------------------------------------------------------------------
(* The theorems. *)

\* The inductive invariant holds: it ties the phase of micro_ros_task to its
\* deadlines, its entities and its last request.
THEOREM SessionInvariance == Spec => []IndInv
<1> QED
  BY InitIndInv, NextIndInv, PTL DEF Spec

\* Every variable of the task keeps its type; pings never fail more often in a
\* row than ROBOT_AGENT_SESSION_PING_FAILURE_LIMIT.
THEOREM SessionTypeCorrect == Spec => []TypeOK
<1>1. IndInv => TypeOK
  BY DEF IndInv
<1> QED
  BY <1>1, SessionInvariance, PTL

\* A session that run_ros_session runs has the complete entity set of
\* create_ros_entities, in both build modes.
THEOREM SessionsAreComplete == Spec => []CompleteSession
<1>1. IndInv => CompleteSession
  BY DEF IndInv
<1> QED
  BY <1>1, SessionInvariance, PTL

\* destroy_ros_entities releases whatever creation had reached.
THEOREM CleanupIsComplete == Spec => []NothingLeft
<1>1. IndInv => NothingLeft
  BY DEF IndInv, Accounted, NothingLeft
<1> QED
  BY <1>1, SessionInvariance, PTL

\* The task does not look for an Agent with anything but a stop as its last
\* word to the motion backend.
THEOREM SessionsEndInAStop == Spec => []StoppedOutsideSession
<1>1. IndInv => StoppedOutsideSession
  BY DEF IndInv
<1> QED
  BY <1>1, SessionInvariance, PTL

\* run_ros_session and the recovery after it implement AgentLink: whatever the
\* task does, the motion backend sees sessions whose commands come from the
\* executor and which end, while that rests, in a stop.
THEOREM SessionImplementsLink == Spec => LinkSpec
<1>1. Init => Link!Init
  BY DEF Init, Link!Init, LinkState, LastWord, Live
<1>2. IndInv /\ [Next]_vars => [Link!Next]_Link!linkVars
  <2> SUFFICES ASSUME IndInv, [Next]_vars
               PROVE  [Link!Next]_Link!linkVars
    OBVIOUS
  <2> USE DEF Live, LinkState, Link!Next, Link!linkVars
  <2>1. CASE Fatal
    BY <2>1 DEF Fatal, LastWord, Link!StopOnly
  <2>2. CASE CreateDone
    BY <2>2 DEF CreateDone, LastWord, Link!Open
  <2>3. CASE CmdVelCallback \/ CommandCallback
    <3>1. /\ phase = "spin" /\ phase' = "spin"
          /\ request' = request \/ request' \in {"targets", "stop", "zero", "arm"}
      BY <2>3 DEF CmdVelCallback, CommandCallback
    <3>2. LastWord' = LastWord \/ LastWord' \in {"command", "stop"}
      BY <3>1 DEF LastWord
    <3> QED
      BY <3>1, <3>2 DEF Link!Say
  <2>4. CASE Lost
    BY <2>4 DEF Lost, LastWord, Link!Close
  <2>5. CASE UNCHANGED vars
    BY <2>5 DEF vars, LastWord
  <2>6. CASE \/ SetupStep \/ Discover
             \/ CreateStep \/ CreateFail \/ CleanupStep \/ CleanupDone
             \/ AgentStops \/ AgentReturns
    <3>1. /\ request' = request
          /\ (phase \notin Live /\ phase' \notin Live) \/ phase' = phase
      BY <2>6
      DEF SetupStep, Discover, CreateStep, CreateFail, CleanupStep, CleanupDone,
          AfterCleanup, AgentStops, AgentReturns
    <3> QED
      BY <3>1 DEF LastWord
  <2>7. CASE Prepare \/ RefreshSync \/ CheckCommandTimeout
    BY <2>7 DEF Prepare, RefreshSync, CheckCommandTimeout, LastWord
  <2>8. CASE SpinDone
    BY <2>8 DEF SpinDone, LastWord, Link!Rest
  <2>9. CASE Ping
    <3>1. /\ phase = "ping" /\ phase' \in {"spin", "lost"}
          /\ request' = request
      BY <2>9 DEF Ping, PingAgent
    <3> QED
      BY <3>1 DEF LastWord, Link!Resume
  <2> QED
    BY <2>1, <2>2, <2>3, <2>4, <2>5, <2>6, <2>7, <2>8, <2>9
    DEF Next, Progress, StartNext, EntityNext, LoopNext
<1> QED
  BY <1>1, <1>2, SessionInvariance, PTL DEF Spec, LinkSpec, Link!Spec

\* check_command_timeout and the resets bound the age of the cached command.
THEOREM CacheStaysCurrent == Spec => []CacheIsCurrent
<1>1. IndInv => CacheIsCurrent
  BY SessionAssumption
  DEF IndInv, TypeOK, Phases, Live, Looping, Empty, CacheOnTime, CacheIsCurrent
<1> QED
  BY <1>1, SessionInvariance, PTL

\* refresh_time_sync_if_due bounds the age of the epoch that samples are
\* stamped with.
THEOREM EpochStaysRecent == Spec => []EpochIsRecent
<1>1. IndInv => EpochIsRecent
  BY SessionAssumption
  DEF IndInv, TypeOK, Phases, Live, Looping, EpochOnTime, EpochIsRecent
<1> QED
  BY <1>1, SessionInvariance, PTL

\* run_ros_session does not go on without an answer for longer than its limit
\* of pings, each delayed by one turn at most: however long a synchronisation
\* lasts, as long as the next one is not due within the turn that follows it.
THEOREM SilenceIsBounded == Spec => []SilenceBounded
<1>1. ASSUME IndInv, phase \in Looping
      PROVE  silence <= FailureLimit * (PingPeriod + MaxSpin + MaxSync)
  <2>1. /\ silence + toPing <= failures * Span + PingPeriod
        /\ failures \in Nat /\ failures < FailureLimit
        /\ 0 <= toPing + MaxSpin + MaxSync
        /\ silence \in Nat /\ toPing \in Int
    BY <1>1, SessionAssumption DEF IndInv, TypeOK, PingOnTime, Looping
  <2>2. silence <= failures * Span + Span
    BY <2>1, SpanFacts, SessionAssumption DEF Span
  <2>3. failures * Span + Span <= FailureLimit * Span
        /\ failures * Span \in Nat /\ Span \in Nat /\ FailureLimit * Span \in Int
    BY <2>1, SpanFacts, SessionAssumption
  <2>4. silence <= FailureLimit * Span
    BY <2>1, <2>2, <2>3
  <2> QED
    BY <2>4 DEF Span
<1> QED
  BY <1>1, SessionInvariance, PTL DEF SilenceBounded

\* destroy_ros_entities finishes the executor before what it serves, and node
\* and support after what they own.
THEOREM UsersAreFinishedFirst == Spec => UsersFirst
<1>1. ASSUME IndInv, [Next]_vars,
             NEW e \in alive \ alive', NEW user \in alive', RefersTo(user, e)
      PROVE  FALSE
  <2>1. CleanupStep
    BY <1>1
    DEF Next, Progress, StartNext, EntityNext, LoopNext, SetupStep, Fatal, Discover,
        CreateStep, Perform, CreateFail, CreateDone, CleanupDone, Prepare,
        RefreshSync, SpinDone, CheckCommandTimeout, Ping, Lost, CmdVelCallback,
        CommandCallback, AgentStops, AgentReturns, vars, entities
  <2>2. /\ position \in 1 .. 10 /\ e = Teardown[position]
        /\ user \in alive /\ alive \subseteq Entities /\ attached \subseteq Handles
        /\ \A i \in 1 .. position - 1 : Teardown[i] \notin alive
    BY <1>1, <2>1, TeardownFacts DEF CleanupStep, IndInv, TypeOK, Accounted
  <2>3. PICK j \in 1 .. position - 1 : Teardown[j] = user
    BY <1>1, <2>2, UsersComeFirst
  <2> QED
    BY <2>2, <2>3
<1>2. IndInv /\ [Next]_vars =>
        [\A e \in alive \ alive' : \A user \in alive' : ~RefersTo(user, e)]_vars
  BY <1>1
<1> QED
  BY <1>2, SessionInvariance, PTL DEF Spec, UsersFirst

-----------------------------------------------------------------------------
(* The life cycle of the entities. *)

\* Creation has made nothing but what the stages it has passed were for.
MadeSoFar ==
  phase = "create" =>
    /\ \A e \in alive :
         \E i \in 1 .. position - 1 : Creation[i] = Stage("init", e)
    /\ \A e \in attached :
         \E i \in 1 .. position - 1 : Creation[i] = Stage("add", e)

\* The executor is given nothing before everything has been made.
LEMMA AddsComeLast ==
  ASSUME NEW i \in 1 .. 14
  PROVE  /\ Creation[i].op = "add" => i >= 11
         /\ Creation[i].op = "init" => i <= 10
<1>1. \/ i = 1 \/ i = 2 \/ i = 3 \/ i = 4 \/ i = 5 \/ i = 6 \/ i = 7
      \/ i = 8 \/ i = 9 \/ i = 10 \/ i = 11 \/ i = 12 \/ i = 13 \/ i = 14
  OBVIOUS
<1> QED
  BY <1>1, CreationFacts DEF Stage

\* An entity has one stage that makes it, behind those of node and support.
LEMMA MadeOnce ==
  ASSUME NEW i \in 1 .. 14, NEW j \in 1 .. 14, NEW e \in Entities,
         Creation[i] = Stage("init", e)
  PROVE  /\ Creation[j] = Stage("init", e) => j = i
         /\ e = "support" => i = 1
         /\ e = "node" => i = 2
<1>1. ASSUME NEW k \in 1 .. 14, Creation[k] = Stage("init", e)
      PROVE  /\ k \in 1 .. 10
             /\ k = 1 => e = "support"
             /\ k = 2 => e = "node"
             /\ k = 3 => e = OwnPublisher
             /\ k = 4 => FALSE
             /\ k = 5 => e = "imu_publisher"
             /\ k = 6 => e = "command_subscription"
             /\ k = 7 => e = "cmd_vel_subscription"
             /\ k = 8 => e = "heartbeat_timer"
             /\ k = 9 => e = "imu_timer"
             /\ k = 10 => e = "executor"
  <2>1. k <= 10
    BY <1>1, AddsComeLast DEF Stage
  <2> QED
    BY <1>1, <2>1, CreationFacts DEF Stage
<1>2. OwnPublisher \in {"odom_publisher", "heartbeat_publisher"}
  BY DEF OwnPublisher
<1> QED
  BY <1>1, <1>2

\* MadeSoFar is kept by every step.
LEMMA MadeStep == IndInv /\ MadeSoFar /\ [Next]_vars => MadeSoFar'
<1> SUFFICES ASSUME IndInv, MadeSoFar, [Next]_vars, phase' = "create"
             PROVE  /\ \A e \in alive' :
                         \E i \in 1 .. position' - 1 : Creation[i] = Stage("init", e)
                    /\ \A e \in attached' :
                         \E i \in 1 .. position' - 1 : Creation[i] = Stage("add", e)
  BY DEF MadeSoFar, Creation, Stage, OwnPublisher
<1>1. CASE Discover
  <2>1. alive' = {} /\ attached' = {}
    BY <1>1 DEF Discover, IndInv, Accounted
  <2> QED
    BY <2>1
<1>2. CASE CreateStep
  <2>1. phase = "create" /\ position \in 1 .. 14 /\ position' = position + 1
    BY <1>2, CreationFacts DEF CreateStep, IndInv, TypeOK
  <2>2. /\ \A e \in alive' : e \in alive \/ Creation[position] = Stage("init", e)
        /\ \A e \in attached' : e \in attached \/ Creation[position] = Stage("add", e)
    <3>1. CASE Compiled(Creation[position])
      <4>1. Perform(Creation[position])
        BY <1>2, <3>1 DEF CreateStep
      <4>2. Creation[position] = Stage(Creation[position].op, Creation[position].entity)
        <5>1. \/ position = 1 \/ position = 2 \/ position = 3 \/ position = 4
              \/ position = 5 \/ position = 6 \/ position = 7 \/ position = 8
              \/ position = 9 \/ position = 10 \/ position = 11 \/ position = 12
              \/ position = 13 \/ position = 14
          BY <2>1
        <5> QED
          BY <5>1, CreationFacts DEF Stage
      <4> QED
        BY <4>1, <4>2 DEF Perform
    <3>2. CASE ~Compiled(Creation[position])
      BY <1>2, <3>2 DEF CreateStep, entities
    <3> QED
      BY <3>1, <3>2
  <2>3. /\ \A e \in alive : \E i \in 1 .. position - 1 : Creation[i] = Stage("init", e)
        /\ \A e \in attached : \E i \in 1 .. position - 1 : Creation[i] = Stage("add", e)
    BY <2>1 DEF MadeSoFar
  <2> QED
    BY <2>1, <2>2, <2>3
<1>3. CASE phase = "create" /\ UNCHANGED <<phase, position, alive, attached>>
  BY <1>3 DEF MadeSoFar
<1> QED
  BY <1>1, <1>2, <1>3
  DEF Next, Progress, StartNext, EntityNext, LoopNext, SetupStep, Fatal, CreateFail,
      CreateDone, CleanupStep, CleanupDone, AfterCleanup, Prepare, RefreshSync,
      SpinDone, CheckCommandTimeout, Ping, PingAgent, Lost, CmdVelCallback,
      CommandCallback, AgentStops, AgentReturns, vars, entities

\* At the stage that makes an entity it does not exist, and nothing refers to
\* it, itself included.
LEMMA NewIsFree ==
  ASSUME IndInv, MadeSoFar, phase = "create",
         NEW e \in Entities, position \in 1 .. 14, Creation[position] = Stage("init", e)
  PROVE  /\ e \notin alive
         /\ \A user \in alive \cup {e} : ~RefersTo(user, e)
<1>1. e \notin alive
  BY MadeOnce DEF MadeSoFar
<1>2. attached = {}
  <2>1. position <= 10
    BY AddsComeLast DEF Stage
  <2>2. ASSUME NEW a \in attached
        PROVE  FALSE
    <3>1. PICK i \in 1 .. position - 1 : Creation[i] = Stage("add", a)
      BY DEF MadeSoFar
    <3>2. i \in 1 .. 14 /\ i <= 10
      BY <2>1
    <3>3. Creation[i].op = "add"
      BY <3>1 DEF Stage
    <3> QED
      BY <3>2, <3>3, AddsComeLast
  <2> QED
    BY <2>2
<1>3. ASSUME NEW user \in alive \cup {e}, e = "support"
      PROVE  ~RefersTo(user, e)
  <2>1. position = 1
    BY <1>3, MadeOnce
  <2>2. user = e
    BY <2>1 DEF MadeSoFar
  <2> QED
    BY <1>2, <1>3, <2>2 DEF RefersTo, Refers, Timers
<1>4. ASSUME NEW user \in alive \cup {e}, e = "node"
      PROVE  ~RefersTo(user, e)
  <2>1. position = 2
    BY <1>4, MadeOnce
  <2>2. user \in {"support", "node"}
    <3>1. Creation[1] = Stage("init", "support")
      BY CreationFacts
    <3>2. user \in alive => Creation[1] = Stage("init", user)
      BY <2>1 DEF MadeSoFar
    <3> QED
      BY <1>4, <3>1, <3>2 DEF Stage
  <2> QED
    BY <1>2, <1>4, <2>2
    DEF RefersTo, Refers, Publishers, Subscriptions, OwnPublisher
<1> QED
  BY <1>1, <1>2, <1>3, <1>4 DEF RefersTo, Refers

\* What is made comes with its references to what there is.
LEMMA AddIsAdd ==
  ASSUME NEW e, UNCHANGED attached, alive' = alive \cup {e},
         \A user \in alive \cup {e} : ~RefersTo(user, e)
  PROVE  Life!Add(e)
<1> DEFINE used == {x \in alive : RefersTo(e, x)}
<1>1. ASSUME NEW r
      PROVE  r \in Refs' <=> r \in Refs \cup ({e} \X used)
  <2>1. \A u, x : RefersTo(u, x)' <=> RefersTo(u, x)
    BY DEF RefersTo, Refers
  <2>2. r \in Refs' <=>
          \E u, x \in alive \cup {e} : r = <<u, x>> /\ RefersTo(u, x)
    BY <2>1 DEF Refs
  <2>3. r \in Refs <=> \E u, x \in alive : r = <<u, x>> /\ RefersTo(u, x)
    BY DEF Refs
  <2>4. r \in {e} \X used <=> \E x \in alive : r = <<e, x>> /\ RefersTo(e, x)
    OBVIOUS
  <2> QED
    BY <2>2, <2>3, <2>4
<1>2. Refs' = Refs \cup ({e} \X used)
  BY <1>1
<1>3. used \in SUBSET alive
  OBVIOUS
<1> HIDE DEF used
<1> QED
  BY <1>2, <1>3 DEF Life!Add

\* A step of creation makes an entity, gives one to the executor or neither.
LEMMA CreateIsLife ==
  ASSUME IndInv, MadeSoFar, CreateStep
  PROVE  [Life!Next]_Life!lifeVars
<1>1. /\ phase = "create" /\ phase' = "create" /\ position \in 1 .. 14
      /\ alive \subseteq Entities
  BY CreationFacts DEF CreateStep, IndInv, TypeOK
<1>2. LifeStage = "making" /\ LifeStage' = "making"
  BY <1>1 DEF LifeStage, Live
<1> DEFINE stage == Creation[position]
<1>3. CASE UNCHANGED <<alive, attached>>
  BY <1>2, <1>3 DEF Life!lifeVars, Refs, RefersTo
<1>4. CASE Compiled(stage) /\ stage.op = "init"
  <2>1. /\ stage.entity \in Entities /\ UNCHANGED attached
        /\ alive' = alive \cup {stage.entity}
    BY <1>4 DEF CreateStep, Perform, Compiled
  <2>2. stage = Stage("init", stage.entity)
    <3>1. \/ position = 1 \/ position = 2 \/ position = 3 \/ position = 4
          \/ position = 5 \/ position = 6 \/ position = 7 \/ position = 8
          \/ position = 9 \/ position = 10 \/ position = 11 \/ position = 12
          \/ position = 13 \/ position = 14
      BY <1>1
    <3> QED
      BY <1>4, <3>1, CreationFacts DEF Stage
  <2>3. /\ stage.entity \notin alive
        /\ \A user \in alive \cup {stage.entity} : ~RefersTo(user, stage.entity)
    BY <1>1, <2>1, <2>2, NewIsFree
  <2>4. Life!Add(stage.entity)
    BY <2>1, <2>3, AddIsAdd
  <2>5. Life!Make
    BY <1>2, <2>1, <2>3, <2>4 DEF Life!Make
  <2> QED
    BY <2>5 DEF Life!Next
<1>5. CASE Compiled(stage) /\ stage.op = "add"
  <2> DEFINE h == stage.entity
  <2>1. h \in Handles /\ attached' = attached \cup {h} /\ UNCHANGED alive
    BY <1>1, <1>5, CreationFacts DEF CreateStep, Perform
  <2>2. position >= 11 /\ h \in Entities
    BY <1>1, <1>5, <2>1, AddsComeLast DEF Entities
  <2>3. "executor" \in alive /\ h \in alive
    <3>1. \A i \in 1 .. 10 : Compiled(Creation[i]) => Performed(Creation[i])
      BY <1>1, <2>2 DEF IndInv, Staged
    <3>2. \A e \in Entities : \E i \in 1 .. 14 : Creation[i] = Stage("init", e)
      BY CreationFacts
      DEF Entities, Publishers, Handles, Timers, Subscriptions, OwnPublisher
    <3>3. ASSUME NEW e \in Entities
          PROVE  e \in alive
      <4>1. PICK i \in 1 .. 14 : Creation[i] = Stage("init", e)
        BY <3>2
      <4>2. Creation[i].op = "init" /\ Creation[i].entity = e
        BY <4>1 DEF Stage
      <4>3. i \in 1 .. 10
        BY <4>2, AddsComeLast
      <4>4. Performed(Creation[i])
        BY <3>1, <4>2, <4>3 DEF Compiled
      <4> QED
        BY <4>2, <4>4 DEF Performed
    <3>4. \A e \in Entities : e \in alive
      BY <3>3
    <3> QED
      BY <2>2, <3>4 DEF Entities
  <2>4. Refs' = Refs \cup {<<"executor", h>>}
    <3> HIDE DEF h
    <3>1. \A u, x : RefersTo(u, x)' <=> RefersTo(u, x) \/ (u = "executor" /\ x = h)
      BY <2>1 DEF RefersTo, Refers
    <3>2. ASSUME NEW r
          PROVE  r \in Refs' <=> r \in Refs \cup {<<"executor", h>>}
      <4>1. r \in Refs' <=> \E u, x \in alive :
                              /\ r = <<u, x>>
                              /\ RefersTo(u, x) \/ (u = "executor" /\ x = h)
        BY <2>1, <3>1 DEF Refs
      <4>2. r \in Refs <=> \E u, x \in alive : r = <<u, x>> /\ RefersTo(u, x)
        BY DEF Refs
      <4> QED
        BY <2>3, <4>1, <4>2
    <3> QED
      BY <3>2
  <2> HIDE DEF h
  <2>5. Life!Refer
    BY <1>2, <2>1, <2>3, <2>4 DEF Life!Refer
  <2> QED
    BY <2>5 DEF Life!Next
<1>6. UNCHANGED <<alive, attached>> \/ (Compiled(stage) /\ stage.op \in {"init", "add"})
  BY DEF CreateStep, Perform, entities
<1> HIDE DEF stage
<1> QED
  BY <1>3, <1>4, <1>5, <1>6

\* A failed creation is given up, with the context rclc_support_init may leave.
LEMMA FailIsGiveUp ==
  ASSUME IndInv, MadeSoFar, CreateFail
  PROVE  Life!GiveUp
<1>1. /\ phase = "create" /\ phase' = "cleanup" /\ position \in 1 .. 14
      /\ UNCHANGED attached
  BY CreationFacts DEF CreateFail, IndInv, TypeOK
<1>2. LifeStage = "making" /\ LifeStage' = "finishing"
  BY <1>1 DEF LifeStage, Live
<1>3. \/ UNCHANGED alive
      \/ /\ Creation[position] = Stage("init", "support")
         /\ alive' = alive \cup {"support"}
  BY DEF CreateFail
<1>4. CASE UNCHANGED alive
  BY <1>1, <1>2, <1>4 DEF Life!GiveUp, Refs, RefersTo
<1>5. CASE /\ Creation[position] = Stage("init", "support")
           /\ alive' = alive \cup {"support"}
  <2>1. "support" \in Entities
    BY DEF Entities
  <2>2. /\ "support" \notin alive
        /\ \A user \in alive \cup {"support"} : ~RefersTo(user, "support")
    BY <1>1, <1>5, <2>1, NewIsFree
  <2>3. Life!Add("support")
    BY <1>1, <1>5, <2>2, AddIsAdd
  <2> QED
    BY <1>2, <2>1, <2>2, <2>3 DEF Life!GiveUp
<1> QED
  BY <1>3, <1>4, <1>5

\* A session opens over everything, with all the references.
LEMMA DoneIsOpen ==
  ASSUME IndInv, CreateDone
  PROVE  Life!Open
<1>1. phase = "create" /\ phase' = "prepare" /\ UNCHANGED <<alive, attached>>
  BY DEF CreateDone, entities
<1>2. LifeStage = "making" /\ LifeStage' = "live" /\ UNCHANGED Refs
  BY <1>1 DEF LifeStage, Live, Refs, RefersTo
<1>3. alive = Entities /\ attached = Handles
  <2>1. CompleteSession'
    BY EntityStep DEF EntityNext, IndInv
  <2> QED
    BY <1>1, <2>1 DEF CompleteSession, Live
<1>4. Refs = {r \in Entities \X Entities : Refers(r[1], r[2], Handles)}
  BY <1>3 DEF Refs, RefersTo
<1> QED
  BY <1>1, <1>2, <1>3, <1>4 DEF Life!Open

\* Cleanup finishes what nothing refers to any more.
LEMMA CleanupIsLife ==
  ASSUME IndInv, CleanupStep
  PROVE  [Life!Next]_Life!lifeVars
<1>1. /\ phase = "cleanup" /\ phase' = "cleanup" /\ position \in 1 .. 10
      /\ UNCHANGED attached /\ alive' = alive \ {Teardown[position]}
      /\ alive \subseteq Entities /\ attached \subseteq Handles
      /\ \A i \in 1 .. position - 1 : Teardown[i] \notin alive
  BY TeardownFacts DEF CleanupStep, IndInv, TypeOK, Accounted
<1>2. LifeStage = "finishing" /\ LifeStage' = "finishing"
  BY <1>1 DEF LifeStage, Live
<1> DEFINE e == Teardown[position]
<1>3. CASE e \notin alive
  <2>1. alive' = alive
    BY <1>1, <1>3
  <2> QED
    BY <1>1, <1>2, <2>1 DEF Life!lifeVars, Refs, RefersTo
<1>4. CASE e \in alive
  <2>1. \A user \in alive : ~RefersTo(user, e)
    BY <1>1, UsersComeFirst
  <2> HIDE DEF e
  <2>2. \A user \in alive : <<user, e>> \notin Refs
    BY <2>1 DEF Refs
  <2>3. Refs' = {r \in Refs : r[1] # e}
    <3>1. \A u, x : RefersTo(u, x)' <=> RefersTo(u, x)
      BY <1>1 DEF RefersTo, Refers
    <3>2. alive' = alive \ {e}
      BY <1>1 DEF e
    <3>3. ASSUME NEW r
          PROVE  r \in Refs' <=> r \in {q \in Refs : q[1] # e}
      <4>1. r \in Refs' <=> \E u, x \in alive \ {e} : r = <<u, x>> /\ RefersTo(u, x)
        BY <3>1, <3>2 DEF Refs
      <4>2. r \in {q \in Refs : q[1] # e} <=>
              \E u, x \in alive : r = <<u, x>> /\ RefersTo(u, x) /\ u # e
        BY DEF Refs
      <4> QED
        BY <2>1, <4>1, <4>2
    <3> QED
      BY <3>3
  <2>4. alive' = alive \ {e}
    BY <1>1 DEF e
  <2>5. Life!Finish
    BY <1>2, <1>4, <2>2, <2>3, <2>4 DEF Life!Finish
  <2> QED
    BY <2>5 DEF Life!Next
<1> HIDE DEF e
<1> QED
  BY <1>3, <1>4

\* create_ros_entities, destroy_ros_entities and the recovery around them
\* implement EntityLifecycle, in both builds and for any failures: no entity
\* outlives what it refers to, none is made before it, and none is made twice.
THEOREM SessionImplementsLifecycle == Spec => LifecycleSpec
<1>1. Init => MadeSoFar /\ Life!Init
  BY DEF Init, MadeSoFar, Life!Init, LifeStage, Live, Refs
<1>2. IndInv /\ MadeSoFar /\ [Next]_vars => [Life!Next]_Life!lifeVars
  <2> SUFFICES ASSUME IndInv, MadeSoFar, [Next]_vars
               PROVE  [Life!Next]_Life!lifeVars
    OBVIOUS
  <2>1. CASE Discover
    <3>1. /\ phase = "discover" /\ phase' = "create" /\ alive = {} /\ alive' = {}
      BY <2>1 DEF Discover, IndInv, Accounted
    <3> QED
      BY <3>1 DEF LifeStage, Live, Refs, Life!Begin, Life!Next
  <2>2. CASE CreateStep
    BY <2>2, CreateIsLife
  <2>3. CASE CreateFail
    BY <2>3, FailIsGiveUp DEF Life!Next
  <2>4. CASE CreateDone
    BY <2>4, DoneIsOpen DEF Life!Next
  <2>5. CASE CleanupStep
    BY <2>5, CleanupIsLife
  <2>6. CASE CleanupDone
    <3>1. phase = "cleanup" /\ phase' = "discover" /\ UNCHANGED alive
      BY <2>6 DEF CleanupDone, AfterCleanup
    <3>2. alive' = {}
      BY <2>6, <3>1, EntityStep DEF EntityNext, IndInv, Accounted
    <3> QED
      BY <3>1, <3>2 DEF LifeStage, Live, Refs, Life!End, Life!Next
  <2>7. CASE Lost
    <3>1. phase = "lost" /\ phase' = "cleanup" /\ UNCHANGED <<alive, attached>>
      BY <2>7 DEF Lost, entities
    <3> QED
      BY <3>1 DEF LifeStage, Live, Refs, RefersTo, Life!Close, Life!Next
  <2>8. CASE \/ SetupStep \/ Fatal \/ Prepare \/ RefreshSync \/ SpinDone
             \/ CheckCommandTimeout \/ Ping \/ CmdVelCallback \/ CommandCallback
             \/ AgentStops \/ AgentReturns \/ UNCHANGED vars
    <3>1. UNCHANGED <<alive, attached>> /\ UNCHANGED LifeStage
      BY <2>8
      DEF SetupStep, Fatal, Prepare, RefreshSync, SpinDone, CheckCommandTimeout, Ping,
          PingAgent, CmdVelCallback, CommandCallback, AgentStops, AgentReturns, vars,
          entities, LifeStage, Live
    <3> QED
      BY <3>1 DEF Life!lifeVars, Refs, RefersTo
  <2> QED
    BY <2>1, <2>2, <2>3, <2>4, <2>5, <2>6, <2>7, <2>8
    DEF Next, Progress, StartNext, EntityNext, LoopNext
<1>3. IndInv /\ MadeSoFar /\ [Next]_vars => MadeSoFar'
  BY MadeStep
<1> QED
  BY <1>1, <1>2, <1>3, SessionInvariance, PTL DEF Spec, LifecycleSpec, Life!Spec
=============================================================================
