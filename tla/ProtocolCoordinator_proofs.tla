---------------------- MODULE ProtocolCoordinator_proofs ----------------------
(***************************************************************************)
(* Theorems of ProtocolCoordinator, for every set of configurations, every *)
(* number of task slots and every bound.  Without slow stops the order of  *)
(* the last events decides everything: an event that tells of a task's end *)
(* is the last one in the queue and no task is alive, so whoever consumes  *)
(* it, the event loop or a stop, may start the next task.                  *)
(***************************************************************************)
EXTENDS ProtocolCoordinator, FiniteSetTheorems, SequenceTheorems, TLAPS

\* The events that tell of a task's end.
Ends == {"FAILED", "V1_EXITED", "V2_EXITED"}
InQueue == 1 .. Len(events)

AtMostOne == \A t, u \in Alive : t = u
EndsComeLast == \A i \in InQueue : events[i] \in Ends => i = Len(events) /\ Alive = {}
PausedIsQuiet == state = "PAUSED" => events = <<>> /\ Alive = {}
BusyFits == /\ busy = "recover" => state = "PAUSED"
            /\ busy \in {"heartbeat", "stop"} => state # "PAUSED"
Unavailable == poolsUnavailable <=> state = "PAUSED"
TasksFit == \A t \in Alive : tasks[t].protocol = protocol /\ tasks[t].pool = PoolInUse
FailuresAreReal == \A i \in InQueue : events[i] = "FAILED" => PoolInUse \in failedSince

InStep == /\ AtMostOne /\ EndsComeLast /\ PausedIsQuiet /\ BusyFits /\ Unavailable
          /\ TasksFit /\ FailuresAreReal

\* Whoever is behind the shared handle has published it and not given it up.
Published == transport # NULL => \/ tasks[transport].pc \in {"handshake", "check", "recv"}
                                 \/ tasks[transport].pc = "connect" /\ tasks[transport].protocol = "V1"

IInv == TypeOK /\ Published /\ (~config.slowStops => InStep)
-----------------------------------------------------------------------------
(* What the helpers do. *)

\* A new task is at the top, with the protocol and the pool it is given.
LEMMA NewTaskFacts ==
  ASSUME NEW p \in Protocols, NEW pool \in Pools
  PROVE  /\ Dead \in Task /\ NewTask(p, pool) \in Task
         /\ NewTask(p, pool).pc = "top"
         /\ NewTask(p, pool).protocol = p /\ NewTask(p, pool).pool = pool
<1>1. 0 \in 0 .. SETUP_REPLIES
  BY CoordinatorAssumption
<1>2. Dead \in Task
  BY <1>1 DEF Dead, Task, Protocols, Pools
<1>3. NewTask(p, pool) = [Dead EXCEPT !.pc = "top", !.protocol = p, !.pool = pool]
  BY DEF NewTask
<1> QED BY <1>2, <1>3 DEF Task

\* A send keeps the queue one, and adds nothing but the event.
LEMMA SendFacts ==
  ASSUME events \in Seq(EventNames), Len(events) <= EVENT_QUEUE, NEW e \in EventNames, Send(e)
  PROVE  /\ events' \in Seq(EventNames) /\ Len(events') <= EVENT_QUEUE
         /\ \A i \in InQueue' : \/ i \in InQueue /\ events'[i] = events[i]
                                \/ i = Len(events') /\ events'[i] = e
         /\ Len(events') \in {Len(events), Len(events) + 1}
<1>1. CASE Len(events) < EVENT_QUEUE
  <2>1. events' = Append(events, e)
    BY <1>1 DEF Send
  <2>2. /\ events' \in Seq(EventNames) /\ Len(events') = Len(events) + 1
        /\ events'[Len(events) + 1] = e
        /\ \A i \in 1 .. Len(events) : events'[i] = events[i]
        /\ Len(events) \in Nat
    BY <2>1
  <2>3. Len(events') <= EVENT_QUEUE
    BY <1>1, <2>2, CoordinatorAssumption
  <2>4. \A i \in 1 .. Len(events) + 1 : i \in 1 .. Len(events) \/ i = Len(events) + 1
    BY <2>2
  <2> QED BY <2>2, <2>3, <2>4 DEF InQueue
<1>2. CASE ~(Len(events) < EVENT_QUEUE)
  BY <1>2 DEF Send, InQueue
<1> QED BY <1>1, <1>2

\* A receive keeps the queue one and moves every other event forward.
LEMMA TailFacts ==
  ASSUME events \in Seq(EventNames), Len(events) <= EVENT_QUEUE, events # <<>>,
         events' = Tail(events)
  PROVE  /\ events' \in Seq(EventNames) /\ Len(events') <= EVENT_QUEUE
         /\ Head(events) = events[1] /\ 1 \in InQueue
         /\ Len(events') = Len(events) - 1
         /\ \A i \in InQueue' : i + 1 \in InQueue /\ events'[i] = events[i + 1]
<1>1. /\ events' \in Seq(EventNames) /\ Len(events') = Len(events) - 1 /\ Len(events) \in Nat
      /\ Len(events) > 0 /\ Head(events) = events[1]
      /\ \A i \in 1 .. Len(events) - 1 : events'[i] = events[i + 1]
  OBVIOUS
<1> QED BY <1>1, CoordinatorAssumption DEF InQueue

\* A start puts a new task into a free slot.
LEMMA StartFacts ==
  ASSUME TypeOK, NEW p \in Protocols, NEW pool \in Pools, Start(p, pool)
  PROVE  /\ shutdown' \in [Protocols -> BOOLEAN] /\ tasks' \in [TaskSlots -> Task]
         /\ \E t \in TaskSlots \ Alive :
              /\ tasks'[t] = NewTask(p, pool) /\ Alive' = Alive \cup {t}
              /\ \A u \in TaskSlots \ {t} : tasks'[u] = tasks[u]
<1>1. PICK t \in TaskSlots \ Alive : tasks' = [tasks EXCEPT ![t] = NewTask(p, pool)]
  BY DEF Start
<1>2. tasks \in [TaskSlots -> Task]
  BY DEF TypeOK
<1>3. NewTask(p, pool) \in Task /\ NewTask(p, pool).pc # "dead"
  BY NewTaskFacts
<1>4. /\ tasks' \in [TaskSlots -> Task] /\ tasks'[t] = NewTask(p, pool)
      /\ \A u \in TaskSlots \ {t} : tasks'[u] = tasks[u]
  BY <1>1, <1>2, <1>3
<1>5. Alive' = Alive \cup {t}
  BY <1>3, <1>4 DEF Alive
<1>6. shutdown' \in [Protocols -> BOOLEAN]
  BY DEF Start, TypeOK
<1> QED BY <1>4, <1>5, <1>6

\* A move of mining leaves everything of its type and starts one task that fits.
LEMMA MoveFacts ==
  ASSUME TypeOK, NEW pool \in Pools, MoveTo(pool), UNCHANGED config
  PROVE  /\ shutdown' \in [Protocols -> BOOLEAN] /\ tasks' \in [TaskSlots -> Task]
         /\ usingFallback' \in BOOLEAN /\ heartbeat' \in BOOLEAN
         /\ protocol' \in Protocols /\ running' \in Protocols
         /\ state' \in {"RUNNING_PRIMARY", "RUNNING_FALLBACK"}
         /\ PoolInUse' = pool
         /\ \E t \in TaskSlots \ Alive :
              /\ tasks'[t] \in Task /\ tasks'[t].pc = "top"
              /\ tasks'[t].protocol = protocol' /\ tasks'[t].pool = pool
              /\ Alive' = Alive \cup {t}
              /\ \A u \in TaskSlots \ {t} : tasks'[u] = tasks[u]
<1>1. config.protocol[pool] \in Protocols /\ config.hasFallback \in BOOLEAN
      /\ config.userFallback \in BOOLEAN
  BY CoordinatorAssumption DEF TypeOK, ConfigRecord
<1>2. Start(config.protocol[pool], pool)
  BY DEF MoveTo
<1>3. /\ NewTask(config.protocol[pool], pool) \in Task
      /\ NewTask(config.protocol[pool], pool).pc = "top"
      /\ NewTask(config.protocol[pool], pool).protocol = config.protocol[pool]
      /\ NewTask(config.protocol[pool], pool).pool = pool
  BY <1>1, NewTaskFacts
<1>4. /\ usingFallback' \in BOOLEAN /\ heartbeat' \in BOOLEAN
      /\ protocol' = config.protocol[pool] /\ running' \in Protocols
      /\ state' \in {"RUNNING_PRIMARY", "RUNNING_FALLBACK"}
      /\ PoolInUse' = pool
  BY <1>1 DEF MoveTo, PoolInUse, Pools
<1> QED BY <1>1, <1>2, <1>3, <1>4, StartFacts

\* A task that goes on stays alive, and is alone in its change.
LEMMA SetFacts ==
  ASSUME TypeOK, NEW t \in TaskSlots, NEW r \in Task, Set(t, r)
  PROVE  /\ tasks' \in [TaskSlots -> Task] /\ tasks'[t] = r
         /\ \A u \in TaskSlots \ {t} : tasks'[u] = tasks[u]
         /\ Alive' = IF r.pc = "dead" THEN Alive \ {t} ELSE Alive \cup {t}
<1>1. tasks \in [TaskSlots -> Task]
  BY DEF TypeOK
<1>2. /\ tasks' \in [TaskSlots -> Task] /\ tasks'[t] = r
      /\ \A u \in TaskSlots \ {t} : tasks'[u] = tasks[u]
  BY <1>1 DEF Set
<1> QED BY <1>2 DEF Alive

-----------------------------------------------------------------------------
(* Types. *)

\* Initially the invariant holds.
LEMMA InitInv == Init => IInv
<1> SUFFICES ASSUME Init PROVE IInv
  OBVIOUS
<1>1. config \in ConfigRecord
  BY CoordinatorAssumption DEF Init
<1>2. PoolInUse \in Pools /\ protocol \in Protocols /\ usingFallback \in BOOLEAN
  BY <1>1 DEF Init, PoolInUse, Pools, ConfigRecord
<1>3. PICK t \in TaskSlots :
        tasks = [u \in TaskSlots |-> IF u = t THEN NewTask(protocol, PoolInUse) ELSE Dead]
  BY DEF Init
<1>4. /\ NewTask(protocol, PoolInUse) \in Task /\ Dead \in Task /\ Dead.pc = "dead"
      /\ NewTask(protocol, PoolInUse).pc = "top"
      /\ NewTask(protocol, PoolInUse).protocol = protocol
      /\ NewTask(protocol, PoolInUse).pool = PoolInUse
  BY <1>2, NewTaskFacts DEF Dead
<1>5. /\ tasks \in [TaskSlots -> Task] /\ Alive = {t}
      /\ tasks[t].protocol = protocol /\ tasks[t].pool = PoolInUse
  BY <1>3, <1>4 DEF Alive
<1>6. events \in Seq(EventNames) /\ Len(events) = 0 /\ Len(events) <= EVENT_QUEUE
  BY CoordinatorAssumption DEF Init
<1>7. changes \in 0 .. MaxChanges
  BY CoordinatorAssumption DEF Init
<1>8. TypeOK
  <2>1. toProbe \in Seq(Pools) /\ busy = "wait" /\ failures = 0 /\ heartbeat = FALSE
    BY DEF Init
  <2>2. /\ shutdown \in [Protocols -> BOOLEAN] /\ up \in [Pools -> BOOLEAN]
        /\ state \in {"RUNNING_PRIMARY", "RUNNING_FALLBACK", "PAUSED"}
        /\ running \in Protocols /\ poolsUnavailable = FALSE /\ config \in Configs
    BY <1>2 DEF Init
  <2>3. /\ transport = NULL /\ wifi = TRUE /\ paused = FALSE /\ asic = TRUE
        /\ failedSince \in SUBSET Pools
    BY DEF Init
  <2> QED BY <1>2, <1>5, <1>6, <1>7, <2>1, <2>2, <2>3 DEF TypeOK
<1>9. Published
  BY DEF Init, Published
<1>10. InStep
  BY <1>5, <1>6 DEF Init, InStep, AtMostOne, EndsComeLast, PausedIsQuiet, BusyFits,
                     Unavailable, TasksFit, FailuresAreReal, InQueue
<1> QED BY <1>8, <1>9, <1>10 DEF IInv

\* The coordinator's steps keep the types.
LEMMA CoordinatorTypes ==
  ASSUME TypeOK, CoordinatorSteps
  PROVE  TypeOK'
<1>1. CASE HandleFailure
  <2>1. events' \in Seq(EventNames) /\ Len(events') <= EVENT_QUEUE
    BY <1>1, TailFacts DEF HandleFailure, Waiting, TypeOK
  <2>2. failures \in Nat /\ failures + 1 \in Nat
    BY DEF TypeOK
  <2>3. CASE state = "PAUSED"
    BY <1>1, <2>1, <2>3 DEF HandleFailure, coordVars, sharedVars, envVars, TypeOK
  <2>4. CASE state # "PAUSED" /\ failures + 1 >= Threshold
    <3>1. /\ failures' \in Nat /\ state' = "PAUSED" /\ poolsUnavailable' = TRUE
          /\ heartbeat' = FALSE
          /\ UNCHANGED <<config, busy, toProbe, running, usingFallback, protocol, shutdown, tasks,
                         transport, envVars, failedSince>>
      BY <1>1, <2>2, <2>4 DEF HandleFailure, Threshold
    <3> QED BY <2>1, <3>1 DEF envVars, TypeOK
  <2>5. CASE state # "PAUSED" /\ failures + 1 < Threshold
    <3>1. PICK pool \in Pools : MoveTo(pool)
      BY <1>1, <2>2, <2>4, <2>5 DEF HandleFailure, Pools, Threshold
    <3>2. UNCHANGED <<config, busy, toProbe, poolsUnavailable, transport, envVars, failedSince>>
          /\ failures' = failures + 1
      BY <1>1, <2>2, <2>5 DEF HandleFailure, Threshold
    <3> QED BY <2>1, <2>2, <3>1, <3>2, MoveFacts DEF TypeOK, envVars
  <2> QED BY <1>1, <2>3, <2>4, <2>5 DEF HandleFailure
<1>2. CASE HandleSuccess
  <2>1. events' \in Seq(EventNames) /\ Len(events') <= EVENT_QUEUE
    BY <1>2, TailFacts DEF HandleSuccess, Waiting, TypeOK
  <2>2. failures' = 0 /\ poolsUnavailable' = FALSE
        /\ UNCHANGED <<config, state, busy, toProbe, heartbeat, running, shutdown, usingFallback,
                       protocol, tasks, transport, envVars, failedSince>>
    BY <1>2 DEF HandleSuccess
  <2> QED BY <2>1, <2>2, SMTT(20), ZenonT(20) DEF envVars, TypeOK
<1>3. CASE HandleExited
  <2>1. events' \in Seq(EventNames) /\ Len(events') <= EVENT_QUEUE
    BY <1>3, TailFacts DEF HandleExited, Waiting, TypeOK
  <2> QED BY <1>3, <2>1 DEF HandleExited, coordVars, sharedVars, envVars, TypeOK
<1>4. CASE HeartbeatTimer
  BY <1>4 DEF HeartbeatTimer, sharedVars, envVars, TypeOK
<1>5. CASE HeartbeatProbed
  <2>1. shutdown' \in [Protocols -> BOOLEAN] /\ busy' \in {"stop", "wait"}
    BY <1>5 DEF HeartbeatProbed, TypeOK
  <2>2. tasks' \in [TaskSlots -> Task]
    <3>1. \A t \in TaskSlots : tasks[t] \in Task /\ [tasks[t] EXCEPT !.open = FALSE] \in Task
      BY DEF TypeOK, Task
    <3>2. CASE up["primary"] /\ wifi
      BY <1>5, <3>1, <3>2 DEF HeartbeatProbed
    <3>3. CASE ~(up["primary"] /\ wifi)
      BY <1>5, <3>3 DEF HeartbeatProbed, TypeOK
    <3> QED BY <3>2, <3>3
  <2> QED BY <1>5, <2>1, <2>2 DEF HeartbeatProbed, sharedVars, envVars, TypeOK
<1>6. CASE StopReceives
  <2>1. events' \in Seq(EventNames) /\ Len(events') <= EVENT_QUEUE
    BY <1>6, TailFacts DEF StopReceives, TypeOK
  <2>2. CASE Head(events) \in LastEvents
    <3>1. MoveTo("primary") /\ "primary" \in Pools
      BY <1>6, <2>2 DEF StopReceives, Pools
    <3> QED BY <1>6, <2>1, <2>2, <3>1, MoveFacts DEF StopReceives, envVars, TypeOK
  <2>3. CASE Head(events) \notin LastEvents
    BY <1>6, <2>1, <2>3 DEF StopReceives, coordVars, sharedVars, envVars, TypeOK
  <2> QED BY <2>2, <2>3
<1>7. CASE StopTimesOut
  <2>1. MoveTo("primary") /\ "primary" \in Pools
    BY <1>7 DEF StopTimesOut, Pools
  <2> QED BY <1>7, <2>1, MoveFacts DEF StopTimesOut, envVars, TypeOK
<1>8. CASE RecoveryTimer
  <2>1. RecoveryOrder \in Seq(Pools) /\ RecoveryOrder # <<>>
    <3>1. /\ <<"fallback", "primary">> \in Seq(Pools) /\ <<"fallback", "primary">> # <<>>
          /\ <<"primary", "fallback">> \in Seq(Pools) /\ <<"primary", "fallback">> # <<>>
          /\ <<"primary">> \in Seq(Pools) /\ <<"primary">> # <<>>
      BY DEF Pools
    <3> QED BY <3>1 DEF RecoveryOrder
  <2> QED BY <1>8, <2>1 DEF RecoveryTimer, sharedVars, envVars, TypeOK
<1>9. CASE RecoveryProbed
  <2>1. toProbe \in Seq(Pools) /\ toProbe # <<>>
    BY <1>9 DEF RecoveryProbed, TypeOK
  <2>2. Head(toProbe) \in Pools /\ Tail(toProbe) \in Seq(Pools)
    BY <2>1
  <2>3. CASE up[Head(toProbe)] /\ wifi
    <3>1. MoveTo(Head(toProbe))
      BY <1>9, <2>3 DEF RecoveryProbed
    <3>2. <<>> \in Seq(Pools)
      OBVIOUS
    <3>3. /\ failures' = 0 /\ poolsUnavailable' = FALSE /\ busy' = "wait" /\ toProbe' = <<>>
          /\ UNCHANGED <<config, events, transport, envVars, failedSince>>
      BY <1>9, <2>3 DEF RecoveryProbed
    <3> QED BY <2>2, <3>1, <3>2, <3>3, MoveFacts DEF envVars, TypeOK
  <2>4. CASE ~(up[Head(toProbe)] /\ wifi)
    BY <1>9, <2>2, <2>4 DEF RecoveryProbed, sharedVars, envVars, TypeOK
  <2> QED BY <2>3, <2>4
<1> QED BY <1>1, <1>2, <1>3, <1>4, <1>5, <1>6, <1>7, <1>8, <1>9 DEF CoordinatorSteps

\* A task step leaves the coordinator's variables alone.
Others == <<config, coordVars, shutdown, sharedVars, up, wifi, paused, asic>>

\* What every step of a task changes is of its type.
LEMMA TaskTypes ==
  ASSUME TypeOK, NEW t \in TaskSlots,
         TaskSteps(t) \/ SetupReply(t) \/ OtherMessage(t) \/ PoolDrops(t)
  PROVE  TypeOK'
<1>1. /\ tasks[t] \in Task /\ Dead \in Task /\ PoolInUse \in Pools /\ SETUP_REPLIES \in Nat
      /\ ExitEvent(t) \in EventNames
  BY CoordinatorAssumption, NewTaskFacts DEF TypeOK, PoolInUse, Pools, Protocols, ExitEvent, EventNames
<1>2. PICK r \in Task : Set(t, r)
  <2>1. CASE ExitOnRequest(t) \/ GiveUp(t)
    BY <1>1, <2>1 DEF ExitOnRequest, GiveUp
  <2>2. CASE BeginConnect(t)
    BY <1>1, <2>2 DEF BeginConnect, Task
  <2>3. CASE ConnectFails(t) \/ ReceiveFails(t) \/ DisconnectWhilePaused(t)
    <3>1. tasks[t].retries \in Nat /\ tasks[t].retries + 1 \in Nat
      BY <1>1 DEF Task
    <3> QED BY <1>1, <2>3, <3>1 DEF ConnectFails, ReceiveFails, DisconnectWhilePaused, Task
  <2>4. CASE Connected(t)
    <3>1. SETUP_REPLIES \in 0 .. SETUP_REPLIES
      BY <1>1
    <3> QED BY <1>1, <2>4, <3>1 DEF Connected, Task
  <2>5. CASE HandshakeDone(t) \/ EnterReceive(t)
    BY <1>1, <2>5 DEF HandshakeDone, EnterReceive, Task
  <2>6. CASE SetupReply(t)
    <3>1. tasks[t].setups - 1 \in 0 .. SETUP_REPLIES
      <4>1. tasks[t].setups \in 0 .. SETUP_REPLIES /\ tasks[t].setups > 0
        BY <1>1, <2>6 DEF SetupReply, Task
      <4> QED BY <1>1, <4>1
    <3> QED BY <1>1, <2>6, <3>1 DEF SetupReply, Task
  <2>7. CASE OtherMessage(t) \/ PoolDrops(t)
    BY <1>1, <2>7 DEF OtherMessage, PoolDrops, Task
  <2> QED BY <2>1, <2>2, <2>3, <2>4, <2>5, <2>6, <2>7 DEF TaskSteps
<1>3. tasks' \in [TaskSlots -> Task]
  BY <1>2, SetFacts
<1>4. events' \in Seq(EventNames) /\ Len(events') <= EVENT_QUEUE
  <2>1. \/ UNCHANGED events
        \/ \E e \in EventNames : Send(e)
    BY <1>1 DEF TaskSteps, ExitOnRequest, GiveUp, BeginConnect, ConnectFails, Connected,
         HandshakeDone, EnterReceive, ReceiveFails, DisconnectWhilePaused, SetupReply,
         OtherMessage, PoolDrops, EventNames
  <2> QED BY <2>1, SendFacts DEF TypeOK
<1>5. transport' \in TaskSlots \cup {NULL}
  BY DEF TaskSteps, ExitOnRequest, GiveUp, BeginConnect, ConnectFails, Connected,
         HandshakeDone, EnterReceive, ReceiveFails, DisconnectWhilePaused, SetupReply,
         OtherMessage, PoolDrops, CloseConnection, TypeOK
<1>6. failedSince' \in SUBSET Pools
  <2>1. tasks[t].pool \in Pools
    BY <1>1 DEF Task
  <2> QED BY <2>1 DEF TaskSteps, ExitOnRequest, GiveUp, BeginConnect, ConnectFails, Connected,
         HandshakeDone, EnterReceive, ReceiveFails, DisconnectWhilePaused, SetupReply,
         OtherMessage, PoolDrops, TypeOK
<1>7. changes' \in 0 .. MaxChanges
  <2>1. \/ changes' = changes
        \/ changes < MaxChanges /\ changes' = changes + 1
    <3>1. CASE PoolDrops(t)
      BY <3>1 DEF PoolDrops
    <3>2. CASE TaskSteps(t)
      BY <3>2 DEF TaskSteps, ExitOnRequest, GiveUp, BeginConnect, ConnectFails, Connected,
         HandshakeDone, EnterReceive, ReceiveFails, DisconnectWhilePaused, envVars
    <3>3. CASE SetupReply(t) \/ OtherMessage(t)
      BY <3>3 DEF SetupReply, OtherMessage, envVars
    <3> QED BY <3>1, <3>2, <3>3
  <2>2. changes \in 0 .. MaxChanges /\ MaxChanges \in Nat
    BY CoordinatorAssumption DEF TypeOK
  <2> QED BY <2>1, <2>2
<1>8. UNCHANGED Others
  BY DEF TaskSteps, ExitOnRequest, GiveUp, BeginConnect, ConnectFails, Connected,
         HandshakeDone, EnterReceive, ReceiveFails, DisconnectWhilePaused, SetupReply,
         OtherMessage, PoolDrops, envVars, Others
<1> QED BY <1>3, <1>4, <1>5, <1>6, <1>7, <1>8 DEF Others, coordVars, sharedVars, TypeOK

\* Every step keeps the types.
LEMMA TypeStep == TypeOK /\ [Next]_vars => TypeOK'
<1> SUFFICES ASSUME TypeOK, [Next]_vars PROVE TypeOK'
  OBVIOUS
<1>1. CASE CoordinatorSteps
  BY <1>1, CoordinatorTypes
<1>2. ASSUME NEW t \in TaskSlots, TaskSteps(t) \/ SetupReply(t) \/ OtherMessage(t) \/ PoolDrops(t)
      PROVE  TypeOK'
  BY <1>2, TaskTypes
<1>3. CASE EnvironmentChanges
  <2>1. changes' \in 0 .. MaxChanges
    BY <1>3, CoordinatorAssumption DEF EnvironmentChanges, TypeOK
  <2>2. \A p \in Pools : [up EXCEPT ![p] = ~@] \in [Pools -> BOOLEAN]
    BY DEF TypeOK
  <2>3. up' \in [Pools -> BOOLEAN] /\ wifi' \in BOOLEAN /\ paused' \in BOOLEAN
    BY <1>3, <2>2 DEF EnvironmentChanges, TypeOK
  <2>4. UNCHANGED <<config, coordVars, shutdown, events, sharedVars, tasks, transport, asic,
                    failedSince>>
    BY <1>3 DEF EnvironmentChanges
  <2> QED BY <2>1, <2>3, <2>4 DEF coordVars, sharedVars, TypeOK
<1>4. CASE PowerFollows
  BY <1>4 DEF PowerFollows, coordVars, sharedVars, TypeOK
<1>5. CASE UNCHANGED vars
  BY <1>5 DEF vars, coordVars, sharedVars, envVars, TypeOK
<1> QED BY <1>1, <1>2, <1>3, <1>4, <1>5 DEF Next

\* Every variable keeps its type: the event queue its bound, the handle a task.
THEOREM TypeCorrect == Spec => []TypeOK
<1>1. Init => TypeOK
  BY InitInv DEF IInv
<1> QED BY <1>1, TypeStep, PTL DEF Spec

-----------------------------------------------------------------------------
(* The tasks and the shared handle. *)

\* A task's next state r: dead after an exit, else of the same protocol.
GoesTo(t, r) == /\ Set(t, r)
                /\ \/ r.pc = "dead" /\ (ExitOnRequest(t) \/ GiveUp(t))
                   \/ /\ r.pc # "dead" /\ r.protocol = tasks[t].protocol
                      /\ r.pool \in {tasks[t].pool, PoolInUse}
\* It is behind the shared handle afterwards only if it has published itself.
HandleFits(t, r) == \/ transport' = NULL
                    \/ /\ transport' = t
                       /\ \/ r.pc \in {"handshake", "check", "recv"}
                          \/ r.pc = "connect" /\ r.protocol = "V1"
                    \/ /\ transport' = transport
                       /\ \/ transport # t
                          \/ r.pc \in {"handshake", "check", "recv"}

\* Every step of a task puts it, and no other, into a state that fits.
LEMMA TaskStep ==
  ASSUME TypeOK, Published, NEW t \in TaskSlots,
         TaskSteps(t) \/ SetupReply(t) \/ OtherMessage(t) \/ PoolDrops(t)
  PROVE  \E r \in Task : GoesTo(t, r) /\ HandleFits(t, r)
<1>1. Dead \in Task /\ Dead.pc = "dead" /\ PoolInUse \in Pools /\ tasks[t] \in Task
  BY NewTaskFacts DEF TypeOK, PoolInUse, Pools, Dead
<1>2. /\ tasks[t].pc \in {"dead", "top"} => transport # t
      /\ tasks[t].pc = "connect" /\ tasks[t].protocol # "V1" => transport # t
  <2>1. t # NULL
    BY CoordinatorAssumption
  <2> QED BY <2>1 DEF Published
<1>3. CASE ExitOnRequest(t)
  <2>1. Set(t, Dead)
    BY <1>3 DEF ExitOnRequest
  <2>2. transport' = NULL \/ (transport' = transport /\ transport # t)
    BY <1>2, <1>3 DEF ExitOnRequest, CloseConnection
  <2> QED BY <1>1, <1>3, <2>1, <2>2 DEF GoesTo, HandleFits
<1>4. CASE GiveUp(t)
  <2>1. Set(t, Dead) /\ transport' = NULL
    BY <1>4 DEF GiveUp, CloseConnection
  <2> QED BY <1>1, <1>4, <2>1 DEF GoesTo, HandleFits
<1>5. CASE BeginConnect(t) /\ tasks[t].protocol = "V1"
  <2> DEFINE r == [tasks[t] EXCEPT !.pc = "connect", !.pool = PoolInUse, !.open = TRUE]
  <2>1. r \in Task /\ r.pc = "connect" /\ r.protocol = tasks[t].protocol /\ r.pool = PoolInUse
    BY <1>1 DEF Task
  <2>2. Set(t, r) /\ transport' = t
    BY <1>5 DEF BeginConnect
  <2> QED BY <1>5, <2>1, <2>2 DEF GoesTo, HandleFits
<1>6. CASE BeginConnect(t) /\ tasks[t].protocol # "V1"
  <2> DEFINE r == [tasks[t] EXCEPT !.pc = "connect"]
  <2>1. /\ r \in Task /\ r.pc = "connect" /\ r.protocol = tasks[t].protocol
        /\ r.pool = tasks[t].pool
    BY <1>1 DEF Task
  <2>2. Set(t, r) /\ transport' = transport /\ transport # t
    BY <1>2, <1>6 DEF BeginConnect, MayConnect
  <2> QED BY <2>1, <2>2 DEF GoesTo, HandleFits
<1>7. CASE ConnectFails(t)
  <2> DEFINE r == [tasks[t] EXCEPT !.pc = "top", !.retries = @ + 1, !.open = FALSE]
  <2>1. tasks[t].retries \in Nat /\ tasks[t].retries + 1 \in Nat
    BY <1>1 DEF Task
  <2>2. r \in Task /\ r.pc = "top" /\ r.protocol = tasks[t].protocol /\ r.pool = tasks[t].pool
    BY <1>1, <2>1 DEF Task
  <2>3. Set(t, r) /\ (transport' = NULL \/ (transport' = transport /\ transport # t))
    BY <1>2, <1>7 DEF ConnectFails, CloseConnection
  <2> QED BY <2>2, <2>3 DEF GoesTo, HandleFits
<1>8. CASE ReceiveFails(t)
  <2> DEFINE r == [tasks[t] EXCEPT !.pc = "top", !.retries = @ + 1, !.open = FALSE]
  <2>1. tasks[t].retries \in Nat /\ tasks[t].retries + 1 \in Nat
    BY <1>1 DEF Task
  <2>2. r \in Task /\ r.pc = "top" /\ r.protocol = tasks[t].protocol /\ r.pool = tasks[t].pool
    BY <1>1, <2>1 DEF Task
  <2>3. Set(t, r) /\ transport' = NULL
    BY <1>8 DEF ReceiveFails, CloseConnection
  <2> QED BY <2>2, <2>3 DEF GoesTo, HandleFits
<1>9. CASE DisconnectWhilePaused(t)
  <2> DEFINE r == [tasks[t] EXCEPT !.pc = "top", !.retries = 0, !.open = FALSE]
  <2>1. r \in Task /\ r.pc = "top" /\ r.protocol = tasks[t].protocol /\ r.pool = tasks[t].pool
    BY <1>1 DEF Task
  <2>2. Set(t, r) /\ transport' = NULL
    BY <1>9 DEF DisconnectWhilePaused, CloseConnection
  <2> QED BY <2>1, <2>2 DEF GoesTo, HandleFits
<1>10. CASE Connected(t) /\ tasks[t].protocol = "V1"
  <2> DEFINE r == [tasks[t] EXCEPT !.pc = "check", !.setups = SETUP_REPLIES]
  <2>1. SETUP_REPLIES \in 0 .. SETUP_REPLIES
    BY CoordinatorAssumption
  <2>2. r \in Task /\ r.pc = "check" /\ r.protocol = tasks[t].protocol /\ r.pool = tasks[t].pool
    BY <1>1, <2>1 DEF Task
  <2>3. Set(t, r) /\ transport' = transport
    BY <1>10 DEF Connected
  <2> QED BY <2>2, <2>3 DEF GoesTo, HandleFits
<1>11. CASE Connected(t) /\ tasks[t].protocol # "V1"
  <2> DEFINE r == [tasks[t] EXCEPT !.pc = "handshake", !.open = TRUE]
  <2>1. /\ r \in Task /\ r.pc = "handshake" /\ r.protocol = tasks[t].protocol
        /\ r.pool = tasks[t].pool
    BY <1>1 DEF Task
  <2>2. Set(t, r) /\ transport' = t
    BY <1>11 DEF Connected
  <2> QED BY <2>1, <2>2 DEF GoesTo, HandleFits
<1>12. CASE HandshakeDone(t)
  <2> DEFINE r == [tasks[t] EXCEPT !.pc = "recv", !.retries = 0]
  <2>1. r \in Task /\ r.pc = "recv" /\ r.protocol = tasks[t].protocol /\ r.pool = tasks[t].pool
    BY <1>1 DEF Task
  <2>2. Set(t, r) /\ transport' = transport
    BY <1>12 DEF HandshakeDone
  <2> QED BY <2>1, <2>2 DEF GoesTo, HandleFits
<1>13. CASE EnterReceive(t)
  <2> DEFINE r == [tasks[t] EXCEPT !.pc = "recv"]
  <2>1. r \in Task /\ r.pc = "recv" /\ r.protocol = tasks[t].protocol /\ r.pool = tasks[t].pool
    BY <1>1 DEF Task
  <2>2. Set(t, r) /\ transport' = transport
    BY <1>13 DEF EnterReceive
  <2> QED BY <2>1, <2>2 DEF GoesTo, HandleFits
<1>14. CASE SetupReply(t)
  <2>1. tasks[t].setups \in 0 .. SETUP_REPLIES /\ tasks[t].setups > 0 /\ tasks[t].retries \in Nat
    BY <1>1, <1>14 DEF SetupReply, Task
  <2>2. tasks[t].setups - 1 \in 0 .. SETUP_REPLIES
    BY <2>1, CoordinatorAssumption
  <2>3. PICK n \in Nat :
          Set(t, [tasks[t] EXCEPT !.pc = "check", !.setups = @ - 1, !.retries = n])
    BY <1>14, <2>1 DEF SetupReply
  <2> DEFINE r == [tasks[t] EXCEPT !.pc = "check", !.setups = @ - 1, !.retries = n]
  <2>4. r \in Task /\ r.pc = "check" /\ r.protocol = tasks[t].protocol /\ r.pool = tasks[t].pool
    BY <1>1, <2>2 DEF Task
  <2>5. Set(t, r) /\ transport' = transport
    BY <1>14, <2>3 DEF SetupReply
  <2> QED BY <2>4, <2>5 DEF GoesTo, HandleFits
<1>15. CASE OtherMessage(t)
  <2> DEFINE r == [tasks[t] EXCEPT !.pc = "check"]
  <2>1. r \in Task /\ r.pc = "check" /\ r.protocol = tasks[t].protocol /\ r.pool = tasks[t].pool
    BY <1>1 DEF Task
  <2>2. Set(t, r) /\ transport' = transport
    BY <1>15 DEF OtherMessage
  <2> QED BY <2>1, <2>2 DEF GoesTo, HandleFits
<1>16. CASE PoolDrops(t)
  <2> DEFINE r == [tasks[t] EXCEPT !.open = FALSE]
  <2>1. /\ r \in Task /\ r.pc \in {"handshake", "recv"} /\ r.protocol = tasks[t].protocol
        /\ r.pool = tasks[t].pool
    BY <1>1, <1>16 DEF Task, PoolDrops
  <2>2. Set(t, r) /\ transport' = transport
    BY <1>16 DEF PoolDrops
  <2> QED BY <2>1, <2>2 DEF GoesTo, HandleFits
<1> QED BY <1>3, <1>4, <1>5, <1>6, <1>7, <1>8, <1>9, <1>10, <1>11, <1>12, <1>13, <1>14, <1>15,
           <1>16 DEF TaskSteps

\* What a coordinator step does to the tasks: a move starts one, a probe closes a socket.
LEMMA CoordinatorStep ==
  ASSUME TypeOK, CoordinatorSteps
  PROVE  \/ UNCHANGED tasks
         \/ \E pool \in Pools : MoveTo(pool)
         \/ /\ HeartbeatProbed
            /\ tasks' = [u \in TaskSlots |->
                           IF u = transport THEN [tasks[u] EXCEPT !.open = FALSE] ELSE tasks[u]]
<1>1. CASE HandleFailure
  BY <1>1 DEF HandleFailure, Pools
<1>2. CASE RecoveryProbed
  <2>1. toProbe \in Seq(Pools) /\ toProbe # <<>>
    BY <1>2 DEF RecoveryProbed, TypeOK
  <2>2. Head(toProbe) \in Pools
    BY <2>1
  <2> QED BY <1>2, <2>2 DEF RecoveryProbed
<1>3. CASE StopReceives \/ StopTimesOut
  BY <1>3 DEF StopReceives, StopTimesOut, Pools
<1>4. CASE HandleSuccess \/ HandleExited \/ HeartbeatTimer \/ RecoveryTimer
  BY <1>4 DEF HandleSuccess, HandleExited, HeartbeatTimer, RecoveryTimer
<1>5. CASE HeartbeatProbed
  BY <1>5 DEF HeartbeatProbed
<1> QED BY <1>1, <1>2, <1>3, <1>4, <1>5 DEF CoordinatorSteps

\* A socket closed by a probe changes nothing else of its task.
LEMMA ProbeFacts ==
  ASSUME TypeOK,
         tasks' = [u \in TaskSlots |->
                     IF u = transport THEN [tasks[u] EXCEPT !.open = FALSE] ELSE tasks[u]]
  PROVE  /\ \A u \in TaskSlots : /\ tasks'[u].pc = tasks[u].pc
                                 /\ tasks'[u].protocol = tasks[u].protocol
                                 /\ tasks'[u].pool = tasks[u].pool
         /\ Alive' = Alive
<1>1. ASSUME NEW u \in TaskSlots
      PROVE  /\ tasks'[u].pc = tasks[u].pc /\ tasks'[u].protocol = tasks[u].protocol
             /\ tasks'[u].pool = tasks[u].pool
  <2>1. tasks[u] \in Task
    BY DEF TypeOK
  <2>2. CASE u = transport
    <3>1. tasks'[u] = [tasks[u] EXCEPT !.open = FALSE]
      BY <2>2
    <3> QED BY <2>1, <3>1 DEF Task
  <2>3. CASE u # transport
    BY <2>3
  <2> QED BY <2>2, <2>3
<1> QED BY <1>1 DEF Alive

\* Every step keeps the handle with a task that has published it.
LEMMA PublishedStep == TypeOK /\ Published /\ [Next]_vars => Published'
<1> SUFFICES ASSUME TypeOK, Published, [Next]_vars, transport' # NULL
             PROVE  \/ tasks'[transport'].pc \in {"handshake", "check", "recv"}
                    \/ /\ tasks'[transport'].pc = "connect"
                       /\ tasks'[transport'].protocol = "V1"
  BY DEF Published
<1>1. transport \in TaskSlots \cup {NULL}
  BY DEF TypeOK
<1>2. CASE CoordinatorSteps
  <2>1. transport' = transport /\ transport \in TaskSlots /\ UNCHANGED config
    BY <1>1, <1>2 DEF CoordinatorSteps, HandleFailure, HandleSuccess, HandleExited,
         HeartbeatTimer, HeartbeatProbed, StopReceives, StopTimesOut, RecoveryTimer,
         RecoveryProbed
  <2>2. transport \in Alive
    BY <2>1 DEF Published, Alive
  <2>3. CASE \E pool \in Pools : MoveTo(pool)
    BY <2>1, <2>2, <2>3, MoveFacts DEF Published
  <2>4. CASE UNCHANGED tasks
    BY <2>1, <2>4 DEF Published
  <2>5. CASE tasks' = [u \in TaskSlots |->
                         IF u = transport THEN [tasks[u] EXCEPT !.open = FALSE] ELSE tasks[u]]
    BY <2>1, <2>5, ProbeFacts DEF Published
  <2> QED BY <1>2, <2>3, <2>4, <2>5, CoordinatorStep
<1>3. ASSUME NEW t \in TaskSlots, TaskSteps(t) \/ SetupReply(t) \/ OtherMessage(t) \/ PoolDrops(t)
      PROVE  \/ tasks'[transport'].pc \in {"handshake", "check", "recv"}
             \/ /\ tasks'[transport'].pc = "connect"
                /\ tasks'[transport'].protocol = "V1"
  <2>1. PICK r \in Task : GoesTo(t, r) /\ HandleFits(t, r)
    BY <1>3, TaskStep
  <2>2. tasks'[t] = r /\ \A u \in TaskSlots \ {t} : tasks'[u] = tasks[u]
    BY <2>1, SetFacts DEF GoesTo
  <2>3. CASE transport' = t
    <3>1. \/ r.pc \in {"handshake", "check", "recv"}
          \/ r.pc = "connect" /\ r.protocol = "V1"
      BY <2>1, <2>3 DEF HandleFits
    <3> QED BY <2>2, <2>3, <3>1
  <2>4. CASE transport' # t
    <3>1. transport' = transport
      BY <2>1, <2>4 DEF HandleFits
    <3> QED BY <1>1, <2>2, <2>4, <3>1 DEF Published
  <2> QED BY <2>3, <2>4
<1>4. CASE EnvironmentChanges \/ PowerFollows \/ UNCHANGED vars
  BY <1>4 DEF EnvironmentChanges, PowerFollows, vars, Published
<1> QED BY <1>2, <1>3, <1>4 DEF Next
-----------------------------------------------------------------------------
(* In step, without slow stops. *)

\* A move that finds no task alive and no event queued leaves everything in step.
LEMMA MoveInStep ==
  ASSUME TypeOK, NEW pool \in Pools, MoveTo(pool), UNCHANGED config, Alive = {},
         events' = <<>>, busy' = "wait", poolsUnavailable' = FALSE
  PROVE  InStep'
<1>1. /\ state' \in {"RUNNING_PRIMARY", "RUNNING_FALLBACK"} /\ PoolInUse' = pool
      /\ \E t \in TaskSlots : /\ Alive' = {t} /\ tasks'[t].protocol = protocol'
                              /\ tasks'[t].pool = pool
  BY MoveFacts
<1>2. InQueue' = {}
  <2>1. Len(events') = 0
    OBVIOUS
  <2> QED BY <2>1 DEF InQueue
<1>3. AtMostOne' /\ TasksFit'
  BY <1>1 DEF AtMostOne, TasksFit
<1>4. EndsComeLast' /\ FailuresAreReal'
  BY <1>2 DEF EndsComeLast, FailuresAreReal
<1>5. PausedIsQuiet' /\ BusyFits' /\ Unavailable'
  BY <1>1 DEF PausedIsQuiet, BusyFits, Unavailable
<1> QED BY <1>3, <1>4, <1>5 DEF InStep

\* The event of an end is the only one in the queue, and nobody is alive.
LEMMA LastEvent ==
  ASSUME TypeOK, InStep, events # <<>>, Head(events) \in Ends
  PROVE  Tail(events) = <<>> /\ Alive = {} /\ state # "PAUSED"
         /\ (Head(events) = "FAILED" => PoolInUse \in failedSince)
<1>1. events \in Seq(EventNames)
  BY DEF TypeOK
<1>2. Head(events) = events[1] /\ 1 \in InQueue
  BY <1>1 DEF InQueue
<1>3. 1 = Len(events) /\ Alive = {}
  BY <1>2 DEF InStep, EndsComeLast
<1>4. Tail(events) = <<>>
  <2>1. Tail(events) \in Seq(EventNames) /\ Len(Tail(events)) = 0
    BY <1>1, <1>3
  <2> QED BY <2>1, EmptySeq
<1>5. state # "PAUSED" /\ (Head(events) = "FAILED" => PoolInUse \in failedSince)
  BY <1>2 DEF InStep, PausedIsQuiet, FailuresAreReal
<1> QED BY <1>3, <1>4, <1>5

\* To receive an event changes nothing about the others.
LEMMA ReceiveInStep ==
  ASSUME TypeOK, InStep, events # <<>>, events' = Tail(events),
         UNCHANGED <<tasks, protocol, usingFallback, failedSince>>
  PROVE  AtMostOne' /\ EndsComeLast' /\ TasksFit' /\ FailuresAreReal'
<1>1. /\ Len(events') = Len(events) - 1 /\ Len(events) \in Nat /\ Len(events') \in Nat
      /\ \A i \in InQueue' : i \in Int /\ i + 1 \in InQueue /\ events'[i] = events[i + 1]
  <2>1. events \in Seq(EventNames) /\ Len(events) <= EVENT_QUEUE
    BY DEF TypeOK
  <2>2. /\ Len(events') = Len(events) - 1
        /\ \A i \in InQueue' : i + 1 \in InQueue /\ events'[i] = events[i + 1]
    BY <2>1, TailFacts
  <2> QED BY <2>1, <2>2 DEF InQueue
<1>2. Alive' = Alive /\ PoolInUse' = PoolInUse
  BY DEF Alive, PoolInUse
<1>3. AtMostOne' /\ TasksFit'
  BY <1>2 DEF InStep, AtMostOne, TasksFit
<1>4. EndsComeLast'
  <2> SUFFICES ASSUME NEW i \in InQueue', events'[i] \in Ends
               PROVE  i = Len(events') /\ Alive' = {}
    BY DEF EndsComeLast
  <2>1. i + 1 = Len(events) /\ Alive = {}
    BY <1>1 DEF InStep, EndsComeLast
  <2> QED BY <1>1, <1>2, <2>1
<1>5. FailuresAreReal'
  BY <1>1, <1>2 DEF InStep, FailuresAreReal
<1> QED BY <1>3, <1>4, <1>5

\* The coordinator's steps.
LEMMA CoordinatorInStep ==
  ASSUME TypeOK, InStep, CoordinatorSteps, ~config.slowStops
  PROVE  InStep'
<1>1. CASE HandleFailure
  <2>1. /\ events # <<>> /\ events' = Tail(events) /\ Head(events) \in Ends /\ busy = "wait"
        /\ UNCHANGED <<config, failedSince>>
    BY <1>1 DEF HandleFailure, Waiting, Ends
  <2>2. events' = <<>> /\ Alive = {} /\ state # "PAUSED"
    BY <2>1, LastEvent
  <2>3. CASE \E pool \in Pools : MoveTo(pool) /\ UNCHANGED <<busy, poolsUnavailable>>
    <3>1. poolsUnavailable' = FALSE
      BY <2>2, <2>3 DEF InStep, Unavailable, TypeOK
    <3> QED BY <2>1, <2>2, <2>3, <3>1, MoveInStep
  <2>4. CASE /\ state' = "PAUSED" /\ poolsUnavailable' = TRUE
             /\ UNCHANGED <<busy, tasks, protocol, usingFallback>>
    <3>1. AtMostOne' /\ EndsComeLast' /\ TasksFit' /\ FailuresAreReal'
      BY <2>1, <2>4, ReceiveInStep
    <3>2. Alive' = {}
      BY <2>2, <2>4 DEF Alive
    <3> QED BY <2>1, <2>2, <2>4, <3>1, <3>2 DEF InStep, PausedIsQuiet, BusyFits, Unavailable
  <2> QED BY <1>1, <2>2, <2>3, <2>4 DEF HandleFailure, Pools
<1>2. CASE HandleSuccess
  <2>1. /\ events # <<>> /\ events' = Tail(events) /\ busy = "wait" /\ poolsUnavailable' = FALSE
        /\ UNCHANGED <<state, busy, tasks, protocol, usingFallback, failedSince>>
    BY <1>2 DEF HandleSuccess, Waiting
  <2>2. state # "PAUSED"
    BY <2>1 DEF InStep, PausedIsQuiet
  <2> QED BY <2>1, <2>2, ReceiveInStep DEF InStep, PausedIsQuiet, BusyFits, Unavailable
<1>3. CASE HandleExited
  <2>1. /\ events # <<>> /\ events' = Tail(events)
        /\ UNCHANGED <<state, busy, poolsUnavailable, tasks, protocol, usingFallback, failedSince>>
    BY <1>3 DEF HandleExited, Waiting, coordVars, sharedVars
  <2>2. state # "PAUSED"
    BY <2>1 DEF InStep, PausedIsQuiet
  <2> QED BY <2>1, <2>2, ReceiveInStep DEF InStep, PausedIsQuiet, BusyFits, Unavailable
<1>4. CASE HeartbeatTimer \/ RecoveryTimer
  <2>1. /\ UNCHANGED <<state, events, poolsUnavailable, tasks, protocol, usingFallback, failedSince>>
        /\ \/ busy' = "heartbeat" /\ state # "PAUSED"
           \/ busy' = "recover" /\ state = "PAUSED"
    BY <1>4 DEF HeartbeatTimer, RecoveryTimer, sharedVars
  <2> QED BY <2>1 DEF InStep, AtMostOne, EndsComeLast, PausedIsQuiet, BusyFits, Unavailable,
                      TasksFit, FailuresAreReal, Alive, InQueue, PoolInUse
<1>5. CASE HeartbeatProbed
  <2>1. /\ UNCHANGED <<state, events, poolsUnavailable, protocol, usingFallback, failedSince>>
        /\ busy' \in {"stop", "wait"} /\ state # "PAUSED"
    BY <1>5 DEF HeartbeatProbed, sharedVars, InStep, BusyFits
  <2>2. /\ \A u \in TaskSlots : /\ tasks'[u].protocol = tasks[u].protocol
                                /\ tasks'[u].pool = tasks[u].pool
        /\ Alive' = Alive
    <3>1. CASE UNCHANGED tasks
      BY <3>1 DEF Alive
    <3>2. CASE ~UNCHANGED tasks
      BY <1>5, <3>2, ProbeFacts DEF HeartbeatProbed
    <3> QED BY <3>1, <3>2
  <2>3. AtMostOne' /\ TasksFit'
    BY <2>1, <2>2 DEF InStep, AtMostOne, TasksFit, PoolInUse, Alive
  <2>4. EndsComeLast' /\ FailuresAreReal'
    BY <2>1, <2>2 DEF InStep, EndsComeLast, FailuresAreReal, InQueue, PoolInUse
  <2>5. PausedIsQuiet' /\ BusyFits' /\ Unavailable'
    BY <2>1 DEF InStep, PausedIsQuiet, BusyFits, Unavailable
  <2> QED BY <2>3, <2>4, <2>5 DEF InStep
<1>6. CASE StopReceives
  <2>1. /\ busy = "stop" /\ events # <<>> /\ events' = Tail(events)
        /\ UNCHANGED <<config, failedSince>> /\ state # "PAUSED" /\ poolsUnavailable = FALSE
    BY <1>6 DEF StopReceives, InStep, BusyFits, Unavailable, TypeOK
  <2>2. CASE Head(events) \in LastEvents
    <3>1. Head(events) \in Ends
      BY <2>2 DEF LastEvents, Ends
    <3>2. events' = <<>> /\ Alive = {}
      BY <2>1, <3>1, LastEvent
    <3>3. MoveTo("primary") /\ busy' = "wait" /\ poolsUnavailable' = FALSE /\ "primary" \in Pools
      BY <1>6, <2>1, <2>2 DEF StopReceives, Pools
    <3> QED BY <2>1, <3>2, <3>3, MoveInStep
  <2>3. CASE Head(events) \notin LastEvents
    <3>1. UNCHANGED <<state, busy, poolsUnavailable, tasks, protocol, usingFallback>>
      BY <1>6, <2>3 DEF StopReceives, coordVars, sharedVars
    <3> QED BY <2>1, <3>1, ReceiveInStep DEF InStep, PausedIsQuiet, BusyFits, Unavailable
  <2> QED BY <2>2, <2>3
<1>7. CASE StopTimesOut
  <2>1. /\ events' = <<>> /\ Alive = {} /\ MoveTo("primary") /\ busy' = "wait"
        /\ UNCHANGED config /\ "primary" \in Pools
    BY <1>7 DEF StopTimesOut, Pools
  <2>2. poolsUnavailable' = FALSE
    BY <1>7 DEF StopTimesOut, InStep, BusyFits, Unavailable, TypeOK
  <2> QED BY <2>1, <2>2, MoveInStep
<1>8. CASE RecoveryProbed
  <2>1. /\ state = "PAUSED" /\ events = <<>> /\ Alive = {} /\ events' = events
        /\ UNCHANGED <<config, failedSince>>
    BY <1>8 DEF RecoveryProbed, InStep, BusyFits, PausedIsQuiet
  <2>2. CASE up[Head(toProbe)] /\ wifi
    <3>1. Head(toProbe) \in Pools
      <4>1. toProbe \in Seq(Pools) /\ toProbe # <<>>
        BY <1>8 DEF RecoveryProbed, TypeOK
      <4> QED BY <4>1
    <3>2. MoveTo(Head(toProbe)) /\ busy' = "wait" /\ poolsUnavailable' = FALSE
      BY <1>8, <2>2 DEF RecoveryProbed
    <3> QED BY <2>1, <3>1, <3>2, MoveInStep
  <2>3. CASE ~(up[Head(toProbe)] /\ wifi)
    <3>1. /\ UNCHANGED <<state, poolsUnavailable, tasks, protocol, usingFallback>>
          /\ busy' \in {"wait", "recover"}
      BY <1>8, <2>3 DEF RecoveryProbed, sharedVars
    <3> QED BY <2>1, <3>1 DEF InStep, AtMostOne, EndsComeLast, PausedIsQuiet, BusyFits, Unavailable,
                              TasksFit, FailuresAreReal, Alive, InQueue, PoolInUse
  <2> QED BY <2>2, <2>3
<1> QED BY <1>1, <1>2, <1>3, <1>4, <1>5, <1>6, <1>7, <1>8 DEF CoordinatorSteps

\* The steps of the one task that is alive.
LEMMA TaskInStep ==
  ASSUME TypeOK, Published, InStep, NEW t \in TaskSlots,
         TaskSteps(t) \/ SetupReply(t) \/ OtherMessage(t) \/ PoolDrops(t)
  PROVE  InStep'
<1>1. PICK r \in Task : GoesTo(t, r)
  BY TaskStep
<1>2. /\ tasks' \in [TaskSlots -> Task] /\ tasks'[t] = r
      /\ \A u \in TaskSlots \ {t} : tasks'[u] = tasks[u]
      /\ Alive' = IF r.pc = "dead" THEN Alive \ {t} ELSE Alive \cup {t}
  BY <1>1, SetFacts DEF GoesTo
<1>3. t \in Alive
  BY DEF TaskSteps, ExitOnRequest, GiveUp, BeginConnect, MayConnect, ConnectFails, Connected,
         HandshakeDone, EnterReceive, ReceiveFails, DisconnectWhilePaused, SetupReply, V1Receiving,
         OtherMessage, PoolDrops, Alive
<1>4. Alive = {t}
  BY <1>3 DEF InStep, AtMostOne
<1>5. /\ state # "PAUSED" /\ tasks[t].protocol = protocol /\ tasks[t].pool = PoolInUse
      /\ \A i \in InQueue : events[i] \notin Ends
  BY <1>3 DEF InStep, PausedIsQuiet, TasksFit, EndsComeLast
<1>6. UNCHANGED <<state, busy, poolsUnavailable, protocol, usingFallback>>
  BY DEF TaskSteps, ExitOnRequest, GiveUp, BeginConnect, ConnectFails, Connected,
         HandshakeDone, EnterReceive, ReceiveFails, DisconnectWhilePaused, SetupReply,
         OtherMessage, PoolDrops, coordVars, sharedVars
<1>7. PausedIsQuiet' /\ BusyFits' /\ Unavailable' /\ PoolInUse' = PoolInUse
  BY <1>5, <1>6 DEF InStep, PausedIsQuiet, BusyFits, Unavailable, PoolInUse
<1>8. CASE r.pc = "dead"
  <2>1. Alive' = {}
    BY <1>2, <1>4, <1>8
  <2>2. PICK e \in Ends : Send(e) /\ (e = "FAILED" => PoolInUse \in failedSince')
    <3>1. CASE ExitOnRequest(t)
      BY <3>1 DEF ExitOnRequest, ExitEvent, Ends
    <3>2. CASE GiveUp(t)
      BY <1>5, <3>2 DEF GiveUp, Ends
    <3> QED BY <1>1, <1>8, <3>1, <3>2 DEF GoesTo
  <2>3. \A i \in InQueue' : events'[i] \in Ends => i = Len(events') /\ events'[i] = e
    <3>1. e \in EventNames
      BY <2>2 DEF Ends, EventNames
    <3> QED BY <1>5, <2>2, <3>1, SendFacts DEF TypeOK
  <2>4. AtMostOne' /\ TasksFit' /\ EndsComeLast'
    BY <2>1, <2>3 DEF AtMostOne, TasksFit, EndsComeLast
  <2>5. FailuresAreReal'
    BY <1>7, <2>2, <2>3 DEF FailuresAreReal, Ends
  <2> QED BY <1>7, <2>4, <2>5 DEF InStep
<1>9. CASE r.pc # "dead"
  <2>1. Alive' = {t} /\ r.protocol = protocol' /\ r.pool = PoolInUse'
    BY <1>1, <1>2, <1>4, <1>5, <1>6, <1>7, <1>9 DEF GoesTo
  <2>2. UNCHANGED events \/ Send("SUCCESS")
    <3>1. ~ExitOnRequest(t) /\ ~GiveUp(t)
      <4>1. ASSUME ExitOnRequest(t) \/ GiveUp(t) PROVE FALSE
        <5>1. tasks'[t] = Dead
          BY <4>1 DEF ExitOnRequest, GiveUp, Set, TypeOK
        <5> QED BY <1>2, <1>9, <5>1 DEF Dead
      <4> QED BY <4>1
    <3> QED BY <3>1 DEF TaskSteps, BeginConnect, ConnectFails, Connected, HandshakeDone,
                 EnterReceive, ReceiveFails, DisconnectWhilePaused, SetupReply, OtherMessage,
                 PoolDrops
  <2>3. \A i \in InQueue' : events'[i] \notin Ends
    <3>1. CASE UNCHANGED events
      BY <1>5, <3>1 DEF InQueue
    <3>2. CASE Send("SUCCESS")
      <4>1. "SUCCESS" \in EventNames /\ "SUCCESS" \notin Ends
        BY DEF EventNames, Ends
      <4> QED BY <1>5, <3>2, <4>1, SendFacts DEF TypeOK
    <3> QED BY <2>2, <3>1, <3>2
  <2>4. AtMostOne' /\ TasksFit'
    BY <1>2, <2>1 DEF AtMostOne, TasksFit
  <2>5. EndsComeLast' /\ FailuresAreReal'
    BY <2>3 DEF EndsComeLast, FailuresAreReal, Ends
  <2> QED BY <1>7, <2>4, <2>5 DEF InStep
<1> QED BY <1>8, <1>9

\* Every step keeps the whole invariant.
LEMMA InvStep == IInv /\ [Next]_vars => IInv'
<1> SUFFICES ASSUME IInv, [Next]_vars PROVE IInv'
  OBVIOUS
<1>1. TypeOK /\ Published /\ (~config.slowStops => InStep)
  BY DEF IInv
<1>2. TypeOK' /\ Published'
  BY <1>1, TypeStep, PublishedStep
<1>3. UNCHANGED config
  BY DEF Next, CoordinatorSteps, HandleFailure, HandleSuccess, HandleExited, HeartbeatTimer,
         HeartbeatProbed, StopReceives, StopTimesOut, RecoveryTimer, RecoveryProbed,
         TaskSteps, ExitOnRequest, GiveUp, BeginConnect, ConnectFails, Connected, HandshakeDone,
         EnterReceive, ReceiveFails, DisconnectWhilePaused, SetupReply, OtherMessage, PoolDrops,
         EnvironmentChanges, PowerFollows, vars
<1>4. ASSUME ~config.slowStops PROVE InStep'
  <2>1. InStep
    BY <1>1, <1>4
  <2>2. CASE CoordinatorSteps
    BY <1>1, <1>4, <2>1, <2>2, CoordinatorInStep
  <2>3. ASSUME NEW t \in TaskSlots,
               TaskSteps(t) \/ SetupReply(t) \/ OtherMessage(t) \/ PoolDrops(t)
        PROVE  InStep'
    BY <1>1, <2>1, <2>3, TaskInStep
  <2>4. CASE EnvironmentChanges \/ PowerFollows \/ UNCHANGED vars
    <3>1. UNCHANGED <<state, busy, events, poolsUnavailable, tasks, protocol, usingFallback,
                      failedSince>>
      BY <2>4 DEF EnvironmentChanges, PowerFollows, vars, coordVars, sharedVars
    <3> QED BY <2>1, <3>1 DEF InStep, AtMostOne, EndsComeLast, PausedIsQuiet, BusyFits,
                     Unavailable, TasksFit, FailuresAreReal, Alive, InQueue, PoolInUse
  <2> QED BY <2>2, <2>3, <2>4 DEF Next
<1> QED BY <1>2, <1>3, <1>4 DEF IInv

\* One task at a time, of the protocol and the pool the others believe in and behind
\* the transport they use, with the ASIC paused exactly while no pool is available.
THEOREM SessionStaysInStep == Spec => []SessionInStep
<1>1. IInv => SessionInStep
  <2> SUFFICES ASSUME IInv PROVE SessionInStep
    OBVIOUS
  <2>1. ASSUME ~config.slowStops PROVE Cardinality(Alive) <= 1
    <3>1. CASE Alive = {}
      BY <3>1, FS_EmptySet
    <3>2. CASE Alive # {}
      <4>1. PICK t \in Alive : TRUE
        BY <3>2
      <4>2. AtMostOne
        BY <2>1 DEF IInv, InStep
      <4>3. Alive = {t}
        BY <4>1, <4>2 DEF AtMostOne
      <4>4. Cardinality({t}) = 1
        BY FS_Singleton
      <4> QED BY <4>3, <4>4
    <3> QED BY <3>1, <3>2
  <2>2. OneProtocolTask
    BY <2>1 DEF OneProtocolTask
  <2>3. TaskMatchesSharedState
    BY DEF IInv, InStep, TasksFit, TaskMatchesSharedState
  <2>4. TransportHasOwner
    BY DEF IInv, Published, TransportHasOwner
  <2>5. PausedIffUnavailable
    BY DEF IInv, InStep, Unavailable, PausedIffUnavailable
  <2> QED BY <2>2, <2>3, <2>4, <2>5 DEF SessionInStep
<1> QED BY <1>1, InitInv, InvStep, PTL DEF Spec

\* Mining is paused only for a pool in use whose task has given up since a pool worked.
THEOREM PausesForPoolInUse == Spec => PausesOnlyForPoolInUse
<1> DEFINE Right == ~config.slowStops /\ state # "PAUSED" /\ state' = "PAUSED"
                      => PoolInUse \in failedSince
<1>1. IInv /\ [Next]_vars => [Right]_vars
  <2> SUFFICES ASSUME IInv, [Next]_vars, ~config.slowStops, state # "PAUSED", state' = "PAUSED"
               PROVE  PoolInUse \in failedSince
    OBVIOUS
  <2>1. TypeOK /\ InStep
    BY DEF IInv
  <2>2. CASE HandleFailure
    <3>1. events # <<>> /\ Head(events) = "FAILED" /\ Head(events) \in Ends
      BY <2>2 DEF HandleFailure, Waiting, Ends
    <3> QED BY <2>1, <3>1, LastEvent
  <2>3. CASE CoordinatorSteps /\ ~HandleFailure
    <3>1. state' = state \/ (UNCHANGED config /\ \E pool \in Pools : MoveTo(pool))
      <4>1. CASE RecoveryProbed
        <5>1. toProbe \in Seq(Pools) /\ toProbe # <<>>
          BY <2>1, <4>1 DEF RecoveryProbed, TypeOK
        <5>2. Head(toProbe) \in Pools
          BY <5>1
        <5> QED BY <4>1, <5>2 DEF RecoveryProbed
      <4>2. CASE ~RecoveryProbed
        BY <2>3, <4>2 DEF CoordinatorSteps, HandleSuccess, HandleExited, HeartbeatTimer,
             HeartbeatProbed, StopReceives, StopTimesOut, RecoveryTimer, coordVars, Pools
      <4> QED BY <4>1, <4>2
    <3> QED BY <2>1, <3>1, MoveFacts
  <2>4. CASE ~CoordinatorSteps
    BY <2>4 DEF Next, TaskSteps, ExitOnRequest, GiveUp, BeginConnect, ConnectFails, Connected,
         HandshakeDone, EnterReceive, ReceiveFails, DisconnectWhilePaused, SetupReply,
         OtherMessage, PoolDrops, EnvironmentChanges, PowerFollows, vars, coordVars
  <2> QED BY <2>2, <2>3, <2>4 DEF CoordinatorSteps
<1> QED BY <1>1, InitInv, InvStep, PTL DEF Spec, PausesOnlyForPoolInUse
=============================================================================
