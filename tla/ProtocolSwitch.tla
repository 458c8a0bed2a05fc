--------------------------- MODULE ProtocolSwitch ---------------------------
(***************************************************************************)
(* What create_jobs_task (main/tasks/create_jobs_task.c) makes of a work   *)
(* item while the coordinator moves mining between pools whose items have  *)
(* different C types.                                                      *)
(*                                                                         *)
(* The queue holds void pointers: a mining_notify ("V1"), an sv2_job_t     *)
(* ("STD") or an sv2_ext_job_t ("EXT").  Nothing in an item says which it  *)
(* is; create_jobs_task infers it from stratum_protocol and from           *)
(* sv2_conn->channel_type, both of which other tasks write.  casts is the  *)
(* set of interpretations the last step made of an item.                   *)
(*                                                                         *)
(* The model has one protocol task at a time (see ProtocolCoordinator for  *)
(* when that holds) and the coordinator's switch step by step.  PromptLoop *)
(* says that an iteration of create_jobs_task (one job interval at most)   *)
(* is shorter than the life of a protocol task (three connection attempts, *)
(* seconds apart), so that two switches never fall into one iteration;     *)
(* without it V1 -> V2 -> V1 looks to create_jobs_task like no switch.     *)
(***************************************************************************)
EXTENDS Naturals, Sequences, FiniteSets

CONSTANTS QUEUE_SIZE,  \* capacity of stratum_queue
          Configs,     \* pairs of pool kinds an instance covers
          Conns,       \* sv2_conn_t allocations there can be (a bound)
          MaxSwitches, \* bound: switches between pools
          PromptLoop,  \* create_jobs_task finishes an iteration between two switches
          NULL

Kinds == {"V1", "STD", "EXT"}
Pools == {"primary", "fallback"}

\* What an instance must satisfy; the theorems assume it by name.
SwitchAssumption == /\ QUEUE_SIZE \in Nat \ {0} /\ MaxSwitches \in Nat
                    /\ Configs \subseteq [Pools -> Kinds]
                    /\ NULL \notin Kinds \cup Conns

ProtocolOf(kind) == IF kind = "V1" THEN "V1" ELSE "V2"

VARIABLES config,    \* the kind of each pool
          inUse,     \* is_using_fallback
          protocol,  \* GLOBAL_STATE->stratum_protocol
          queue,     \* stratum_queue, as the kinds of its items
          freeFn,    \* stratum_queue.free_fn: the kind it frees
          conn,      \* GLOBAL_STATE->sv2_conn
          connType,  \* sv2_conn->channel_type
          connHeap,  \* the allocator's view of every sv2_conn_t
          task,      \* the protocol task: [pc, kind, conn]
          coord,     \* where the coordinator is in a switch
          switches,
          jobs,      \* create_jobs_task: [pc, proto, current, item, ptr]
          casts      \* interpretations made by the last step

connVars == <<conn, connType, connHeap>>
vars == <<config, inUse, protocol, queue, freeFn, connVars, task, coord, switches, jobs, casts>>

\* how: "free" or "read".
Cast(item, as, how) == [item |-> item, as |-> as, how |-> how]

Init == /\ config \in Configs
        /\ inUse = "primary" /\ protocol = ProtocolOf(config["primary"])
        /\ queue = <<>> /\ freeFn = "V1"
        /\ conn = NULL /\ connType = NULL /\ connHeap = [c \in Conns |-> "unborn"]
        /\ task = [pc |-> "start", kind |-> config["primary"], conn |-> NULL]
        /\ coord = "idle" /\ switches = 0
        /\ jobs = [pc |-> "top", proto |-> protocol, current |-> NULL, item |-> NULL, ptr |-> NULL]
        /\ casts = {}
-----------------------------------------------------------------------------
(* create_jobs_task. *)

IsExtended == conn # NULL /\ connType = "EXT"
TypeUnder(p) == IF p = "V1" THEN "V1" ELSE IF IsExtended THEN "EXT" ELSE "STD"

\* What if: the function is the one of the current protocol.
free_work_item_Current(item, p) ==
  IF item = NULL THEN {} ELSE {Cast(item, TypeUnder(protocol), "free")}

\* free_work_item: the function for the protocol the item was created under.
free_work_item(item, p) == IF item = NULL THEN {} ELSE {Cast(item, TypeUnder(p), "free")}

JobsBecome(r) == jobs' = r
JobsUnchanged == UNCHANGED <<config, inUse, protocol, freeFn, connVars, task, coord, switches>>

\* What if: a protocol switch only updates the protocol.
LoopTop_KeepsWork ==
  /\ jobs.pc = "top"
  /\ JobsBecome([jobs EXCEPT !.pc = "dequeue", !.proto = protocol])
  /\ casts' = {}
  /\ UNCHANGED queue /\ JobsUnchanged

\* The protocol is read once per iteration; work of another one is dropped.
LoopTop ==
  /\ jobs.pc = "top"
  /\ IF protocol # jobs.proto
     THEN /\ JobsBecome([jobs EXCEPT !.pc = "dequeue", !.proto = protocol, !.current = NULL])
          /\ casts' = free_work_item(jobs.current, jobs.proto)
     ELSE JobsBecome([jobs EXCEPT !.pc = "dequeue"]) /\ casts' = {}
  /\ UNCHANGED queue /\ JobsUnchanged

DequeueGets ==
  /\ jobs.pc = "dequeue" /\ queue # <<>>
  /\ JobsBecome([jobs EXCEPT !.pc = "check", !.item = Head(queue)])
  /\ queue' = Tail(queue) /\ casts' = {}
  /\ JobsUnchanged

DequeueTimesOut ==
  /\ jobs.pc = "dequeue" /\ queue = <<>>
  /\ JobsBecome([jobs EXCEPT !.pc = IF \/ jobs.current = NULL
                                       \/ jobs.proto = "V2" /\ ~IsExtended
                                    THEN "top" ELSE "final"])
  /\ casts' = {} /\ UNCHANGED queue /\ JobsUnchanged

\* The protocol is read again: a new item of unknown type is discarded.
DiscardItem ==
  /\ jobs.pc = "check" /\ protocol # jobs.proto
  /\ JobsBecome([jobs EXCEPT !.pc = "top", !.proto = protocol, !.current = NULL, !.item = NULL])
  /\ casts' = free_work_item(jobs.current, jobs.proto) \cup {Cast(jobs.item, "STD", "discard")}
  /\ UNCHANGED queue /\ JobsUnchanged

\* Otherwise it becomes the current work; a non-clean one waits for a timeout.
TakeItem ==
  /\ jobs.pc = "check" /\ protocol = jobs.proto
  /\ \E clean \in BOOLEAN :
       JobsBecome([jobs EXCEPT !.pc = IF clean THEN "final" ELSE "top",
                               !.current = jobs.item, !.item = NULL])
  /\ casts' = free_work_item(jobs.current, jobs.proto)
              \cup {Cast(jobs.item, TypeUnder(jobs.proto), "read")}
  /\ UNCHANGED queue /\ JobsUnchanged

FinalCheck ==
  /\ jobs.pc = "final"
  /\ IF protocol # jobs.proto
     THEN /\ JobsBecome([jobs EXCEPT !.pc = "top", !.proto = protocol, !.current = NULL])
          /\ casts' = free_work_item(jobs.current, jobs.proto)
     ELSE JobsBecome([jobs EXCEPT !.pc = "generate"]) /\ casts' = {}
  /\ UNCHANGED queue /\ JobsUnchanged

\* generate_work, generate_work_sv2 or generate_work_sv2_ext; only the last
\* takes the connection and keeps using it.
Generate ==
  /\ jobs.pc = "generate"
  /\ casts' = {Cast(jobs.current, TypeUnder(jobs.proto), "read")}
  /\ IF TypeUnder(jobs.proto) = "EXT"
     THEN JobsBecome([jobs EXCEPT !.pc = "building", !.ptr = conn])
     ELSE JobsBecome([jobs EXCEPT !.pc = "top"])
  /\ UNCHANGED queue /\ JobsUnchanged

FinishBuilding ==
  /\ jobs.pc = "building"
  /\ JobsBecome([jobs EXCEPT !.pc = "top", !.ptr = NULL])
  /\ casts' = {} /\ UNCHANGED queue /\ JobsUnchanged
-----------------------------------------------------------------------------
(* The protocol task. *)

\* queue_clear through free_fn.
ClearQueue == /\ queue' = <<>>
              /\ casts' = {Cast(queue[i], freeFn, "free") : i \in DOMAIN queue}
KeepQueue == UNCHANGED queue /\ casts' = {}
TaskUnchanged == UNCHANGED <<config, inUse, protocol, coord, switches, jobs>>

TaskStarts ==
  /\ task.pc = "start"
  /\ freeFn' = task.kind
  /\ IF task.kind = "V1"
     THEN task' = [task EXCEPT !.pc = "top"] /\ UNCHANGED connVars
     ELSE \E c \in Conns : /\ connHeap[c] = "unborn"
                           /\ connHeap' = [connHeap EXCEPT ![c] = "live"]
                           /\ conn' = c /\ connType' = NULL
                           /\ task' = [task EXCEPT !.pc = "top", !.conn = c]
  /\ KeepQueue /\ TaskUnchanged

\* V2: memset of the connection; V1: SYSTEM_clean_jobs_queue.
TaskConnects ==
  /\ task.pc = "top"
  /\ IF task.kind = "V1"
     THEN ClearQueue /\ task' = [task EXCEPT !.pc = "session"] /\ UNCHANGED connVars
     ELSE /\ KeepQueue /\ task' = [task EXCEPT !.pc = "handshake"]
          /\ conn' = task.conn /\ connType' = NULL /\ UNCHANGED connHeap
  /\ UNCHANGED freeFn /\ TaskUnchanged

OpenChannel ==
  /\ task.pc = "handshake"
  /\ task' = [task EXCEPT !.pc = "session"]
  /\ connType' = task.kind /\ UNCHANGED <<conn, connHeap, freeFn>>
  /\ KeepQueue /\ TaskUnchanged

\* What if: a full queue grows.
EnqueueJob_NoDrop ==
  /\ task.pc = "session"
  /\ queue' = Append(queue, task.kind) /\ casts' = {}
  /\ UNCHANGED <<freeFn, connVars, task>> /\ TaskUnchanged

\* A job arrives; a full queue drops its oldest item, freed as one of the task's.
EnqueueJob ==
  /\ task.pc = "session"
  /\ IF Len(queue) = QUEUE_SIZE
     THEN queue' = Append(Tail(queue), task.kind) /\ casts' = {Cast(Head(queue), task.kind, "free")}
     ELSE queue' = Append(queue, task.kind) /\ casts' = {}
  /\ UNCHANGED <<freeFn, connVars, task>> /\ TaskUnchanged

\* close_connection, and the next attempt.
LoseConnection ==
  /\ task.pc \in {"handshake", "session"}
  /\ task' = [task EXCEPT !.pc = "top"]
  /\ ClearQueue
  /\ UNCHANGED <<freeFn, connVars>> /\ TaskUnchanged

\* Given up or told to stop: the connection is freed and then forgotten.
TaskCloses ==
  /\ task.pc = "top"
  /\ task' = [task EXCEPT !.pc = IF task.kind = "V1" THEN "dead" ELSE "forget"]
  /\ connHeap' = [c \in Conns |-> IF c = task.conn THEN "freed" ELSE connHeap[c]]
  /\ ClearQueue
  /\ UNCHANGED <<freeFn, conn, connType>> /\ TaskUnchanged

TaskForgets ==
  /\ task.pc = "forget"
  /\ task' = [task EXCEPT !.pc = "dead"]
  /\ conn' = NULL
  /\ UNCHANGED <<freeFn, connType, connHeap>> /\ KeepQueue /\ TaskUnchanged
-----------------------------------------------------------------------------
(* The coordinator, once the task has exited. *)

CoordUnchanged == UNCHANGED <<config, freeFn, connVars, jobs>>

SwitchClears ==
  /\ coord = "idle" /\ task.pc = "dead" /\ switches < MaxSwitches
  /\ PromptLoop => jobs.proto = protocol
  /\ coord' = "cleared" /\ switches' = switches + 1
  /\ ClearQueue
  /\ UNCHANGED <<inUse, protocol, task>> /\ CoordUnchanged

SwitchSets ==
  /\ coord = "cleared"
  /\ \E p \in Pools : inUse' = p /\ protocol' = ProtocolOf(config[p])
  /\ coord' = "set"
  /\ KeepQueue /\ UNCHANGED <<task, switches>> /\ CoordUnchanged

SwitchStarts ==
  /\ coord = "set"
  /\ task' = [pc |-> "start", kind |-> config[inUse], conn |-> NULL]
  /\ coord' = "idle"
  /\ KeepQueue /\ UNCHANGED <<inUse, protocol, switches>> /\ CoordUnchanged
-----------------------------------------------------------------------------
Next == \/ LoopTop \/ DequeueGets \/ DequeueTimesOut \/ DiscardItem \/ TakeItem
        \/ FinalCheck \/ Generate \/ FinishBuilding
        \/ TaskStarts \/ TaskConnects \/ OpenChannel \/ EnqueueJob \/ LoseConnection
        \/ TaskCloses \/ TaskForgets
        \/ SwitchClears \/ SwitchSets \/ SwitchStarts

Spec == Init /\ [][Next]_vars
-----------------------------------------------------------------------------
\* Every variable has its type.
TypeOK ==
  /\ config \in Configs /\ inUse \in Pools /\ protocol \in {"V1", "V2"}
  /\ queue \in Seq(Kinds) /\ Len(queue) <= QUEUE_SIZE /\ freeFn \in Kinds
  /\ conn \in Conns \cup {NULL} /\ connType \in {NULL, "STD", "EXT"}
  /\ connHeap \in [Conns -> {"unborn", "live", "freed"}]
  /\ task \in [pc : {"start", "top", "handshake", "session", "forget", "dead"},
               kind : Kinds, conn : Conns \cup {NULL}]
  /\ coord \in {"idle", "cleared", "set"} /\ switches \in 0 .. MaxSwitches
  /\ jobs \in [pc : {"top", "dequeue", "check", "final", "generate", "building"},
               proto : {"V1", "V2"}, current : Kinds \cup {NULL}, item : Kinds \cup {NULL},
               ptr : Conns \cup {NULL}]
  /\ casts \subseteq [item : Kinds, as : Kinds, how : {"free", "read", "discard"}]

\* create_jobs_task.c:154: "Protocol unchanged - item matches current_work_protocol.
\* Safe to cast": no item is read or freed as a type with pointers in it (a
\* mining_notify or an sv2_ext_job_t) unless it is one.
NoWildPointer == \A c \in casts : c.as \in {"V1", "EXT"} => c.item = c.as

\* create_jobs_task.c:29: "Free a work item using the correct free function for
\* the protocol it was created under".  The code keeps this while no pool opens
\* an extended channel (README).
FreedAsCreated == \A c \in casts : c.how = "free" => c.item = c.as
FreedAsCreatedIfStandard ==
  (\A p \in Pools : config[p] # "EXT") => FreedAsCreated

\* An item keeps the type it was enqueued with: through every switch it is read
\* only as that type, and freed as it, no pool opening an extended channel.
ItemsKeepType == NoWildPointer /\ FreedAsCreatedIfStandard

\* stratum_v2_task.c:626: "Heap-allocate sv2_conn to avoid dangling pointer after
\* task exit": while a job is being built the connection it is built from exists.
\* The code does not keep this across a failover (README).
ConnOutlivesUse == jobs.pc = "building" => connHeap[jobs.ptr] = "live"
=============================================================================
