------------------------ MODULE ProtocolCoordinator ------------------------
(***************************************************************************)
(* The protocol coordinator (main/tasks/protocol_coordinator.c) and the    *)
(* connection life of the tasks it starts and stops: stratum_v1_task and   *)
(* stratum_v2_task.                                                        *)
(*                                                                         *)
(* The tasks report to the coordinator through a FreeRTOS queue of         *)
(* EVENT_QUEUE events; a send never waits and is dropped when the queue is *)
(* full.  The coordinator asks a task to stop with a flag per protocol,    *)
(* closes the socket to unblock it, and waits 10 s for its last event.     *)
(* While it stops a task or probes a pool it handles no event.             *)
(*                                                                         *)
(* The environment is which pools are up, the station's Wi-Fi, the user's  *)
(* pause switch, and power management, which keeps the ASIC off while      *)
(* mining is paused or pools_unavailable is set.                           *)
(***************************************************************************)
EXTENDS Naturals, Sequences, FiniteSets

CONSTANTS EVENT_QUEUE,         \* length of s_event_queue, 8
          MAX_RETRY_ATTEMPTS,  \* 3 in both protocol tasks
          SETUP_REPLIES,       \* setup answers a V1 pool gives on one connection
          TaskSlots,           \* bound: protocol tasks that can be alive at once
          Configs,             \* the pool configurations an instance covers
          MaxChanges,          \* bound: changes of the environment
          NULL

Protocols == {"V1", "V2"}
Pools == {"primary", "fallback"}

\* protocol: that of each pool; hasFallback: a second pool is configured;
\* userFallback: use_fallback_stratum, the user chose the second pool.
\* slowStops: a task may take longer than 10 s to stop, as it does when the flag
\* is raised while it sleeps or connects.
ConfigRecord == [protocol : [Pools -> Protocols], hasFallback : BOOLEAN, userFallback : BOOLEAN,
                 slowStops : BOOLEAN]

ASSUME CoordinatorAssumption == /\ EVENT_QUEUE \in Nat \ {0}
                                /\ MAX_RETRY_ATTEMPTS \in Nat \ {0}
                                /\ SETUP_REPLIES \in Nat /\ MaxChanges \in Nat
                                /\ Configs \subseteq ConfigRecord
                                /\ NULL \notin TaskSlots

VARIABLES config,            \* the pools of this miner
          state,             \* s_state
          busy,              \* what the coordinator is doing: "wait"ing for an event,
                             \* "heartbeat", "recover" or "stop"
          toProbe,           \* pools a recovery still has to probe
          failures,          \* s_consecutive_pool_failures
          heartbeat,         \* s_heartbeat_enabled
          shutdown,          \* s_v1_should_shutdown, s_v2_should_shutdown
          events,            \* s_event_queue
          usingFallback,     \* is_using_fallback
          protocol,          \* GLOBAL_STATE->stratum_protocol
          running,           \* s_running_protocol
          poolsUnavailable,  \* pools_unavailable
          tasks,             \* the protocol tasks
          transport,         \* GLOBAL_STATE->transport: the task whose socket it is
          up, wifi, paused, asic, changes,  \* the environment
          failedSince        \* pools whose task gave up since the last success (history)

coordVars == <<state, busy, toProbe, failures, heartbeat, running>>
sharedVars == <<usingFallback, protocol, poolsUnavailable>>
envVars == <<up, wifi, paused, asic, changes>>
vars == <<config, coordVars, shutdown, events, sharedVars, tasks, transport, envVars, failedSince>>

PoolInUse == IF usingFallback THEN "fallback" ELSE "primary"
Dead == [pc |-> "dead", protocol |-> "V1", pool |-> "primary", retries |-> 0,
         open |-> FALSE, setups |-> 0]
Alive == {t \in TaskSlots : tasks[t].pc # "dead"}
Threshold == IF config.hasFallback THEN 2 ELSE 1

\* xQueueSend(s_event_queue, &evt, 0)
Send(e) == events' = IF Len(events) < EVENT_QUEUE THEN Append(events, e) ELSE events

\* start_protocol_task: clear the flag and create the task.
NewTask(p, pool) == [Dead EXCEPT !.pc = "top", !.protocol = p, !.pool = pool]
Start(p, pool) ==
  /\ shutdown' = [shutdown EXCEPT ![p] = FALSE]
  /\ \E t \in TaskSlots \ Alive : tasks' = [tasks EXCEPT ![t] = NewTask(p, pool)]

\* What if: the protocol that shares and jobs go by is not switched.
MoveTo_SameProtocol(pool) ==
  /\ usingFallback' = (pool = "fallback")
  /\ UNCHANGED protocol
  /\ running' = config.protocol[pool]
  /\ state' = IF pool = "fallback" THEN "RUNNING_FALLBACK" ELSE "RUNNING_PRIMARY"
  /\ heartbeat' = (pool = "fallback" /\ ~config.userFallback)
  /\ Start(config.protocol[pool], pool)

\* The state the coordinator puts itself and the shared flags in when it
\* moves mining to a pool.
MoveTo(pool) ==
  /\ usingFallback' = (pool = "fallback")
  /\ protocol' = config.protocol[pool]
  /\ running' = config.protocol[pool]
  /\ state' = IF pool = "fallback" THEN "RUNNING_FALLBACK" ELSE "RUNNING_PRIMARY"
  /\ heartbeat' = (pool = "fallback" /\ ~config.userFallback)
  /\ Start(config.protocol[pool], pool)

Init ==
  /\ config \in Configs
  /\ usingFallback = config.userFallback
  /\ protocol = config.protocol[PoolInUse] /\ running = protocol
  /\ state = IF usingFallback THEN "RUNNING_FALLBACK" ELSE "RUNNING_PRIMARY"
  /\ busy = "wait" /\ toProbe = <<>> /\ failures = 0 /\ heartbeat = FALSE
  /\ shutdown = [p \in Protocols |-> FALSE] /\ events = <<>>
  /\ poolsUnavailable = FALSE
  /\ \E t \in TaskSlots :
       tasks = [u \in TaskSlots |-> IF u = t THEN NewTask(protocol, PoolInUse) ELSE Dead]
  /\ transport = NULL
  /\ up = [p \in Pools |-> TRUE] /\ wifi = TRUE /\ paused = FALSE /\ asic = TRUE
  /\ changes = 0 /\ failedSince = {}
-----------------------------------------------------------------------------
(* The coordinator's loop: handle_event. *)

Waiting == busy = "wait" /\ events # <<>>

HandleFailure ==
  /\ Waiting /\ Head(events) = "FAILED"
  /\ events' = Tail(events)
  /\ \/ /\ state = "PAUSED"
        /\ UNCHANGED <<coordVars, sharedVars, shutdown, tasks>>
     \/ /\ state # "PAUSED" /\ failures + 1 >= Threshold
        /\ failures' = failures + 1
        /\ state' = "PAUSED" /\ poolsUnavailable' = TRUE /\ heartbeat' = FALSE
        /\ UNCHANGED <<busy, toProbe, running, usingFallback, protocol, shutdown, tasks>>
     \/ /\ state # "PAUSED" /\ failures + 1 < Threshold
        /\ failures' = failures + 1
        /\ MoveTo(IF state = "RUNNING_PRIMARY" THEN "fallback" ELSE "primary")
        /\ UNCHANGED <<busy, toProbe, poolsUnavailable>>
  /\ UNCHANGED <<config, transport, envVars, failedSince>>

HandleSuccess ==
  /\ Waiting /\ Head(events) = "SUCCESS"
  /\ events' = Tail(events)
  /\ failures' = 0 /\ poolsUnavailable' = FALSE
  /\ UNCHANGED <<config, state, busy, toProbe, heartbeat, running, shutdown, usingFallback,
                 protocol, tasks, transport, envVars, failedSince>>

HandleExited ==
  /\ Waiting /\ Head(events) \in {"V1_EXITED", "V2_EXITED"}
  /\ events' = Tail(events)
  /\ UNCHANGED <<config, coordVars, shutdown, sharedVars, tasks, transport, envVars, failedSince>>

\* The queue stays empty for a heartbeat interval: the probe begins.
HeartbeatTimer ==
  /\ busy = "wait" /\ events = <<>>
  /\ state # "PAUSED" /\ heartbeat
  /\ wifi
  /\ busy' = "heartbeat"
  /\ UNCHANGED <<config, state, toProbe, failures, heartbeat, running, shutdown, events,
                 sharedVars, tasks, transport, envVars, failedSince>>

\* probe_pool(primary) returns; on success stop_running_task begins: raise the
\* flag and close whatever socket GLOBAL_STATE->transport holds.
HeartbeatProbed ==
  /\ busy = "heartbeat"
  /\ IF up["primary"] /\ wifi
     THEN /\ busy' = "stop"
          /\ shutdown' = [shutdown EXCEPT ![running] = TRUE]
          /\ tasks' = [t \in TaskSlots |->
                         IF t = transport THEN [tasks[t] EXCEPT !.open = FALSE] ELSE tasks[t]]
     ELSE busy' = "wait" /\ UNCHANGED <<shutdown, tasks>>
  /\ UNCHANGED <<config, state, toProbe, failures, heartbeat, running, events, sharedVars,
                 transport, envVars, failedSince>>

\* What if: any event ends the wait for the task's exit.
LastEvents_Any == {"FAILED", "SUCCESS", "V1_EXITED", "V2_EXITED"}

\* One xQueueReceive of stop_v1_task / stop_v2_task.
LastEvents == {"FAILED", IF running = "V2" THEN "V2_EXITED" ELSE "V1_EXITED"}
StopReceives ==
  /\ busy = "stop" /\ events # <<>>
  /\ events' = Tail(events)
  /\ IF Head(events) \in LastEvents
     THEN /\ busy' = "wait" /\ MoveTo("primary")
          /\ UNCHANGED <<toProbe, failures, poolsUnavailable>>
     ELSE UNCHANGED <<coordVars, sharedVars, shutdown, tasks>>
  /\ UNCHANGED <<config, transport, envVars, failedSince>>

\* 100 waits of 100 ms: only a warning, and the switch goes on.  With nobody
\* left to answer (the last event was dropped) this is the only way out.
StopTimesOut ==
  /\ busy = "stop" /\ events = <<>>
  /\ config.slowStops \/ Alive = {}
  /\ busy' = "wait" /\ MoveTo("primary")
  /\ UNCHANGED <<config, events, toProbe, failures, poolsUnavailable, transport, envVars, failedSince>>

\* What if: only the primary pool is probed.
RecoveryOrder_PrimaryOnly == <<"primary">>

\* try_resume_from_paused: the preferred pool first, then the other one.
RecoveryOrder == IF config.userFallback /\ config.hasFallback THEN <<"fallback", "primary">>
                 ELSE IF config.hasFallback THEN <<"primary", "fallback">> ELSE <<"primary">>
RecoveryTimer ==
  /\ busy = "wait" /\ events = <<>>
  /\ state = "PAUSED"
  /\ wifi
  /\ busy' = "recover" /\ toProbe' = RecoveryOrder
  /\ UNCHANGED <<config, state, failures, heartbeat, running, shutdown, events, sharedVars,
                 tasks, transport, envVars, failedSince>>

\* What if: a recovery that found no pool does not go back to waiting.
RecoveryProbed_Stuck ==
  /\ busy = "recover"
  /\ IF up[Head(toProbe)] /\ wifi
     THEN /\ failures' = 0 /\ poolsUnavailable' = FALSE
          /\ MoveTo(Head(toProbe))
          /\ busy' = "wait" /\ toProbe' = <<>>
     ELSE /\ toProbe' = Tail(toProbe) /\ busy' = "recover"
          /\ UNCHANGED <<state, failures, heartbeat, running, sharedVars, shutdown, tasks>>
  /\ UNCHANGED <<config, events, transport, envVars, failedSince>>

RecoveryProbed ==
  /\ busy = "recover"
  /\ IF up[Head(toProbe)] /\ wifi
     THEN \* resume_on_pool
          /\ failures' = 0 /\ poolsUnavailable' = FALSE
          /\ MoveTo(Head(toProbe))
          /\ busy' = "wait" /\ toProbe' = <<>>
     ELSE /\ toProbe' = Tail(toProbe)
          /\ busy' = IF Tail(toProbe) = <<>> THEN "wait" ELSE "recover"
          /\ UNCHANGED <<state, failures, heartbeat, running, sharedVars, shutdown, tasks>>
  /\ UNCHANGED <<config, events, transport, envVars, failedSince>>
-----------------------------------------------------------------------------
(* The protocol tasks. *)

Set(t, r) == tasks' = [tasks EXCEPT ![t] = r]
MustStop(t) == shutdown[tasks[t].protocol]
ExitEvent(t) == IF tasks[t].protocol = "V2" THEN "V2_EXITED" ELSE "V1_EXITED"

\* What if: the shared handle is left behind.
CloseConnection_Dangling == UNCHANGED transport

\* close_connection gives up the shared handle, whoever set it last.
CloseConnection == transport' = NULL

\* The check at the top of the outer loop, and the one at the top of the V1
\* receive loop (which closes the connection; so does V2 at the top).
ExitOnRequest(t) ==
  /\ tasks[t].pc \in {"top", "check"} /\ MustStop(t)
  /\ Set(t, Dead) /\ Send(ExitEvent(t))
  /\ IF tasks[t].pc = "check" \/ tasks[t].protocol = "V2" THEN CloseConnection
     ELSE UNCHANGED transport
  /\ UNCHANGED <<config, coordVars, shutdown, sharedVars, envVars, failedSince>>

\* V1 waits for the ASIC, both wait for Wi-Fi.
MayConnect(t) == /\ tasks[t].pc = "top" /\ ~MustStop(t)
                 /\ tasks[t].protocol = "V1" => asic
                 /\ wifi

\* What if: the task reports its failure and tries again instead of exiting.
GiveUp_Retries(t) ==
  /\ MayConnect(t) /\ tasks[t].retries >= MAX_RETRY_ATTEMPTS
  /\ Set(t, [tasks[t] EXCEPT !.retries = 0]) /\ Send("FAILED") /\ CloseConnection
  /\ failedSince' = failedSince \cup {tasks[t].pool}
  /\ UNCHANGED <<config, coordVars, shutdown, sharedVars, envVars>>

GiveUp(t) ==
  /\ MayConnect(t) /\ tasks[t].retries >= MAX_RETRY_ATTEMPTS
  /\ Set(t, Dead) /\ Send("FAILED") /\ CloseConnection
  /\ failedSince' = failedSince \cup {tasks[t].pool}
  /\ UNCHANGED <<config, coordVars, shutdown, sharedVars, envVars>>

\* V1 reads the pool again for every attempt and publishes its transport before
\* it connects; V2 keeps the pool it started with.
BeginConnect(t) ==
  /\ MayConnect(t) /\ tasks[t].retries < MAX_RETRY_ATTEMPTS
  /\ IF tasks[t].protocol = "V1"
     THEN /\ Set(t, [tasks[t] EXCEPT !.pc = "connect", !.pool = PoolInUse, !.open = TRUE])
          /\ transport' = t
     ELSE Set(t, [tasks[t] EXCEPT !.pc = "connect"]) /\ UNCHANGED transport
  /\ UNCHANGED <<config, coordVars, shutdown, events, sharedVars, envVars, failedSince>>

Reachable(t) == up[tasks[t].pool] /\ wifi

ConnectFails(t) ==
  /\ tasks[t].pc = "connect" /\ ~Reachable(t)
  /\ Set(t, [tasks[t] EXCEPT !.pc = "top", !.retries = @ + 1, !.open = FALSE])
  /\ IF tasks[t].protocol = "V1" THEN CloseConnection ELSE UNCHANGED transport
  /\ UNCHANGED <<config, coordVars, shutdown, events, sharedVars, envVars, failedSince>>

\* TCP is up.  V1 sends its setup requests and goes to its receive loop, V2
\* publishes the transport and goes through its handshakes.
Connected(t) ==
  /\ tasks[t].pc = "connect" /\ Reachable(t)
  /\ IF tasks[t].protocol = "V1"
     THEN /\ Set(t, [tasks[t] EXCEPT !.pc = "check", !.setups = SETUP_REPLIES])
          /\ UNCHANGED transport
     ELSE /\ Set(t, [tasks[t] EXCEPT !.pc = "handshake", !.open = TRUE])
          /\ transport' = t
  /\ UNCHANGED <<config, coordVars, shutdown, events, sharedVars, envVars, failedSince>>

\* The V2 channel is open; from here the task only receives.
HandshakeDone(t) ==
  /\ tasks[t].pc = "handshake" /\ tasks[t].open /\ Reachable(t)
  /\ Set(t, [tasks[t] EXCEPT !.pc = "recv", !.retries = 0])
  /\ Send("SUCCESS")
  /\ failedSince' = {}
  /\ UNCHANGED <<config, coordVars, shutdown, sharedVars, transport, envVars>>

EnterReceive(t) ==
  /\ tasks[t].pc = "check" /\ ~MustStop(t)
  /\ Set(t, [tasks[t] EXCEPT !.pc = "recv"])
  /\ UNCHANGED <<config, coordVars, shutdown, events, sharedVars, transport, envVars, failedSince>>

\* A read fails: the socket was closed here or the connection is lost.
ReceiveFails(t) ==
  /\ tasks[t].pc \in {"handshake", "recv"} /\ (~tasks[t].open \/ ~Reachable(t))
  /\ Set(t, [tasks[t] EXCEPT !.pc = "top", !.retries = @ + 1, !.open = FALSE])
  /\ CloseConnection
  /\ UNCHANGED <<config, coordVars, shutdown, events, sharedVars, envVars, failedSince>>

\* A line arrives from a V1 pool.
V1Receiving(t) == /\ tasks[t].pc = "recv" /\ tasks[t].protocol = "V1"
                  /\ tasks[t].open /\ Reachable(t)

DisconnectWhilePaused(t) ==
  /\ V1Receiving(t) /\ ~asic
  /\ Set(t, [tasks[t] EXCEPT !.pc = "top", !.retries = 0, !.open = FALSE])
  /\ CloseConnection
  /\ UNCHANGED <<config, coordVars, shutdown, events, sharedVars, envVars, failedSince>>

\* An answer to a setup request; the one to configure leaves the retries alone.
SetupReply(t) ==
  /\ V1Receiving(t) /\ asic /\ tasks[t].setups > 0
  /\ \E configure \in BOOLEAN :
       Set(t, [tasks[t] EXCEPT !.pc = "check", !.setups = @ - 1,
                               !.retries = IF configure THEN @ ELSE 0])
  /\ Send("SUCCESS")
  /\ failedSince' = {}
  /\ UNCHANGED <<config, coordVars, shutdown, sharedVars, transport, envVars>>

OtherMessage(t) ==
  /\ V1Receiving(t) /\ asic
  /\ Set(t, [tasks[t] EXCEPT !.pc = "check"])
  /\ UNCHANGED <<config, coordVars, shutdown, events, sharedVars, transport, envVars, failedSince>>

TaskSteps(t) == \/ ExitOnRequest(t) \/ GiveUp(t) \/ BeginConnect(t) \/ ConnectFails(t)
                \/ Connected(t) \/ HandshakeDone(t) \/ EnterReceive(t) \/ ReceiveFails(t)
                \/ DisconnectWhilePaused(t)
-----------------------------------------------------------------------------
(* The environment. *)

\* A pool goes or comes back, Wi-Fi too, the user pauses or resumes.
EnvironmentChanges ==
  /\ changes < MaxChanges /\ changes' = changes + 1
  /\ \/ \E p \in Pools : up' = [up EXCEPT ![p] = ~@] /\ UNCHANGED <<wifi, paused>>
     \/ wifi' = ~wifi /\ UNCHANGED <<up, paused>>
     \/ paused' = ~paused /\ UNCHANGED <<up, wifi>>
  /\ UNCHANGED <<config, coordVars, shutdown, events, sharedVars, tasks, transport, asic, failedSince>>

\* A pool drops a connection (or asks for a reconnect) and stays up.
PoolDrops(t) ==
  /\ changes < MaxChanges /\ changes' = changes + 1
  /\ tasks[t].pc \in {"handshake", "recv"} /\ tasks[t].open
  /\ Set(t, [tasks[t] EXCEPT !.open = FALSE])
  /\ UNCHANGED <<config, coordVars, shutdown, events, sharedVars, transport, up, wifi, paused,
                 asic, failedSince>>

\* The power management loop: wants_stop against is_paused.
PowerFollows ==
  /\ asic = (paused \/ poolsUnavailable)
  /\ asic' = ~asic
  /\ UNCHANGED <<config, coordVars, shutdown, events, sharedVars, tasks, transport, up, wifi,
                 paused, changes, failedSince>>
-----------------------------------------------------------------------------
CoordinatorSteps == \/ HandleFailure \/ HandleSuccess \/ HandleExited
                    \/ HeartbeatTimer \/ HeartbeatProbed \/ StopReceives \/ StopTimesOut
                    \/ RecoveryTimer \/ RecoveryProbed

Next == \/ CoordinatorSteps
        \/ \E t \in TaskSlots : \/ TaskSteps(t) \/ SetupReply(t) \/ OtherMessage(t)
                                \/ PoolDrops(t)
        \/ EnvironmentChanges
        \/ PowerFollows

Spec == Init /\ [][Next]_vars

(* Every FreeRTOS task is scheduled, every timed wait ends, and the power   *)
(* management loop comes round.  Neither pools nor users owe us anything.   *)
FairSpec == /\ Spec
            /\ WF_vars(CoordinatorSteps) /\ WF_vars(PowerFollows)
            /\ \A t \in TaskSlots : WF_vars(TaskSteps(t))
-----------------------------------------------------------------------------
EventNames == {"FAILED", "SUCCESS", "V1_EXITED", "V2_EXITED"}
Task == [pc : {"dead", "top", "connect", "handshake", "check", "recv"}, protocol : Protocols,
         pool : Pools, retries : Nat, open : BOOLEAN, setups : 0 .. SETUP_REPLIES]
TypeOK ==
  /\ config \in Configs
  /\ state \in {"RUNNING_PRIMARY", "RUNNING_FALLBACK", "PAUSED"}
  /\ busy \in {"wait", "heartbeat", "recover", "stop"}
  /\ toProbe \in Seq(Pools) /\ (busy = "recover" => toProbe # <<>>)
  /\ failures \in Nat /\ heartbeat \in BOOLEAN
  /\ shutdown \in [Protocols -> BOOLEAN]
  /\ events \in Seq(EventNames) /\ Len(events) <= EVENT_QUEUE
  /\ usingFallback \in BOOLEAN /\ protocol \in Protocols /\ running \in Protocols
  /\ poolsUnavailable \in BOOLEAN
  /\ tasks \in [TaskSlots -> Task]
  /\ transport \in TaskSlots \cup {NULL}
  /\ up \in [Pools -> BOOLEAN] /\ wifi \in BOOLEAN /\ paused \in BOOLEAN /\ asic \in BOOLEAN
  /\ changes \in 0 .. MaxChanges /\ failedSince \in SUBSET Pools

\* Without slow stops no two protocol tasks are ever alive: whenever the
\* coordinator starts one, the one before has exited, although its last event may
\* have been queued long before and be consumed by handle_event or by a stop.
OneProtocolTask == ~config.slowStops => Cardinality(Alive) <= 1

\* A live task speaks the protocol and is connected to the pool that the rest
\* of the firmware (share submission, job creation) believes is in use.
TaskMatchesSharedState ==
  ~config.slowStops =>
    \A t \in Alive : /\ tasks[t].protocol = protocol
                     /\ tasks[t].pc \in {"check", "recv"} => tasks[t].pool = PoolInUse

\* The handle that shares are written to and that a stop closes belongs to a
\* task that is still using it, never to one that exited or gave it up.
TransportHasOwner ==
  transport # NULL => tasks[transport].pc \in {"connect", "handshake", "check", "recv"}

\* The ASIC's power follows the coordinator's belief: pools_unavailable is set
\* exactly in the paused state, however late a task's SUCCESS is handled (a task
\* that outlives its stop may report one while the new task has given up).
PausedIffUnavailable == ~config.slowStops => (poolsUnavailable <=> state = "PAUSED")

\* Whatever the order of a stop, the old task's last events and the new task's
\* start: one task, of the protocol and pool the others believe in, owning the
\* transport they use, with the ASIC paused exactly while no pool is available.
SessionInStep == /\ OneProtocolTask
                 /\ TaskMatchesSharedState
                 /\ TransportHasOwner
                 /\ PausedIffUnavailable

\* Mining is paused only for a pool that is in use: its task has given up since
\* a pool last worked.  A failure of the pool just left, queued before the switch
\* or handled after it, never stops mining on the new one.
PausesOnlyForPoolInUse ==
  [][~config.slowStops /\ state # "PAUSED" /\ state' = "PAUSED" => PoolInUse \in failedSince]_vars

\* protocol_coordinator.c:352: "With both primary and fallback configured we
\* tolerate one failure per pool": mining is paused only when every configured
\* pool has given up since some pool last worked.  The code does not keep this:
\* the count survives the switch back to the primary pool (README).
ConfiguredPools == IF config.hasFallback THEN Pools ELSE {PoolInUse}
PausesOnlyWhenAllFailed ==
  [][state # "PAUSED" /\ state' = "PAUSED" => ConfiguredPools \subseteq failedSince]_vars

\* protocol_coordinator.c:25: "the coordinator probes pools periodically and
\* resumes mining as soon as one is reachable": without slow stops, if from some time on Wi-Fi is
\* there, mining is not paused by the user and a configured pool is up, then
\* from some time on a task is in session with a pool.
CanMine == /\ wifi /\ ~paused
           /\ up["primary"] \/ (config.hasFallback /\ up["fallback"])
InSession == \E t \in TaskSlots : tasks[t].pc \in {"check", "recv"}
MiningResumes == ~config.slowStops /\ <>[]CanMine => <>[]InSession

\* protocol_coordinator.c:194: "Tell the V2 task to shut down and wait for it
\* to exit": a task of the protocol that is told to stop does exit.
StopIsHonoured ==
  \A t \in TaskSlots : (busy = "stop" /\ t \in Alive) ~> (t \notin Alive)
=============================================================================
