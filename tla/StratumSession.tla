---------------------------- MODULE StratumSession ----------------------------
(***************************************************************************)
(* A Stratum V1 session: the receive task (main/tasks/stratum_v1_task.c),  *)
(* the line buffer, the parser and the request timings of                  *)
(* components/stratum/stratum_api.c, and the sender of shares in           *)
(* ASIC_result_task, which shares the transport and the message ids.       *)
(*                                                                         *)
(* What the line buffer holds outlives the connection unless the read      *)
(* itself failed.  Of the lines that do not change the session, only the   *)
(* malformed notification is here: difficulties, version masks and         *)
(* extranonces are JobPipeline's, and ping, pool messages and the version  *)
(* request keep nothing.  The coordinator's stop is ProtocolCoordinator's. *)
(***************************************************************************)
EXTENDS Integers, FiniteSets, SequencesExt

CONSTANTS Jobs, MAX_RETRY_ATTEMPTS, MAX_REQUEST_IDS, MAX_ACTIVE_JOB_IDS, QUEUE_SIZE,
          Budgets, Backlog \* bounds

Idle == [pc |-> "idle", uid |-> 0, old |-> FALSE]
AUTHORIZE == 3 \* after mining.configure and mining.subscribe

\* What an instance must satisfy; the theorems assume it by name.  The duplicate
\* check remembers at least as many jobs as the queue holds (16 and 12).
SessionAssumption == /\ QUEUE_SIZE \in Nat \ {0} /\ MAX_ACTIVE_JOB_IDS \in Nat
                     /\ QUEUE_SIZE <= MAX_ACTIVE_JOB_IDS
                     /\ MAX_REQUEST_IDS \in Nat \ {0} /\ MAX_RETRY_ATTEMPTS \in Nat

VARIABLES task,     \* the receive task: where it is
          retry,    \* retry_attempts
          transport,\* GLOBAL_STATE->transport is not NULL
          uid,      \* send_uid
          buffer,   \* json_rpc_buffer: [made, lines]
          tracking, \* the request timings that wait for an answer, by index
          active,   \* active_job_ids
          queue,    \* stratum_queue: ids of jobs
          sharer,   \* ASIC_result_task: [pc, uid, old], old when its transport was closed since
          asic,     \* ASIC_initalized
          pool,     \* the peer: [serves, open, pending, wire]
          count,    \* [shares stamped, answers counted as shares]
          left      \* what remains of the budget: [shares, notifies, pauses,
                    \* reconnects]
vars == <<task, retry, transport, uid, buffer, tracking, active, queue, sharer, asic,
          pool, count, left>>
session == <<task, retry, transport, uid, buffer, tracking, active, queue, count>>

Init == /\ task = "dial" /\ retry = 0 /\ transport = FALSE /\ uid = 1
        /\ buffer = [made |-> TRUE, lines |-> <<>>] /\ tracking = {}
        /\ active = <<>> /\ queue = <<>>
        /\ sharer = Idle
        /\ asic = TRUE
        /\ pool = [serves |-> TRUE, open |-> FALSE, pending |-> {}, wire |-> <<>>]
        /\ count = [stamped |-> 0, counted |-> 0]
        /\ left \in Budgets
-----------------------------------------------------------------------------
(* The pool. *)

Sends(p, m) == [p EXCEPT !.wire = Append(@, m)]
Speaks == pool.serves /\ pool.open /\ Len(pool.wire) < Backlog

\* A request is answered at most once, in any order.  An answer of no known form
\* is ignored, as if there were none; a refused share counts like an accepted one.
PoolAnswers ==
  /\ Speaks
  /\ \E id \in pool.pending, success \in BOOLEAN :
       /\ id # AUTHORIZE => success
       /\ pool' = [Sends(pool, [kind |-> "answer", id |-> id, success |-> success])
                   EXCEPT !.pending = @ \ {id}]
  /\ UNCHANGED <<session, sharer, asic, left>>

\* A malformed notification is cut short, has a field of another type or digits
\* that are none, or a target nothing can meet; what else it says is not looked at.
Notifications == [kind : {"notify"}, job : Jobs, clean : BOOLEAN] \cup [kind : {"malformed"}]
PoolNotifies ==
  /\ Speaks /\ left.notifies > 0
  /\ \E line \in Notifications : pool' = Sends(pool, line)
  /\ left' = [left EXCEPT !.notifies = @ - 1]
  /\ UNCHANGED <<session, sharer, asic>>

PoolReconnects ==
  /\ Speaks /\ left.reconnects > 0
  /\ pool' = Sends(pool, [kind |-> "reconnect"])
  /\ left' = [left EXCEPT !.reconnects = @ - 1]
  /\ UNCHANGED <<session, sharer, asic>>

PoolCloses == /\ pool.open
              /\ pool' = [pool EXCEPT !.open = FALSE]
              /\ UNCHANGED <<session, sharer, asic, left>>

\* From now on the pool at most accepts connections and closes them.
PoolDies == /\ pool.serves
            /\ pool' = [pool EXCEPT !.serves = FALSE]
            /\ UNCHANGED <<session, sharer, asic, left>>
-----------------------------------------------------------------------------
(* Connecting. *)

\* The transport leaves the shared state, the socket closes, the queue empties.
Retired(s) == IF s.pc = "idle" THEN s ELSE [s EXCEPT !.old = TRUE]
Close == /\ transport' = FALSE /\ sharer' = Retired(sharer)
         /\ pool' = [pool EXCEPT !.open = FALSE, !.pending = {}, !.wire = <<>>]
         /\ queue' = <<>>

\* The coordinator hears of the failure and the task ends.
GiveUp == /\ task = "dial" /\ asic /\ retry >= MAX_RETRY_ATTEMPTS
          /\ task' = "failed" /\ active' = <<>> /\ Close
          /\ UNCHANGED <<retry, uid, buffer, tracking, asic, count, left>>

Dials == task = "dial" /\ asic /\ retry < MAX_RETRY_ATTEMPTS

\* The name does not resolve, or no transport can be made for its certificate.
DialFails == /\ Dials /\ retry' = retry + 1 /\ active' = <<>>
             /\ UNCHANGED <<task, transport, uid, buffer, tracking, queue, sharer, asic,
                            pool, count, left>>

\* The transport is in the shared state before it is connected.
MakeTransport == /\ Dials
                 /\ transport' = TRUE
                 /\ task' = "connect" /\ active' = <<>>
                 /\ UNCHANGED <<retry, uid, buffer, tracking, queue, sharer, asic, pool, count,
                                left>>

ConnectFails == /\ task = "connect"
                /\ retry' = retry + 1 /\ transport' = FALSE /\ task' = "dial"
                /\ sharer' = Retired(sharer)
                /\ UNCHANGED <<uid, buffer, tracking, active, queue, asic, pool,
                               count, left>>

\* The three setup requests go out; a write that fails shows at the next read.
\* The answers to the first two change nothing here and are left out.
Connects == /\ task = "connect"
            /\ pool' = [pool EXCEPT !.open = TRUE, !.wire = <<>>,
                                    !.pending = {AUTHORIZE}]
            /\ uid' = AUTHORIZE + 1 /\ queue' = <<>> /\ task' = "loop"
            /\ UNCHANGED <<retry, transport, buffer, tracking, active, sharer, asic,
                           count, left>>
-----------------------------------------------------------------------------
(* Receiving. *)

\* A buffer that a failed read gave up is made again, and the timings with it.
Receive == /\ task = "loop"
           /\ task' = "read"
           /\ IF buffer.made THEN UNCHANGED <<buffer, tracking>>
                             ELSE buffer' = [made |-> TRUE, lines |-> <<>>] /\ tracking' = {}
           /\ UNCHANGED <<retry, transport, uid, active, queue, sharer, asic, pool,
                          count, left>>

\* A read that times out returns nothing and is repeated.
Read == /\ task = "read" /\ buffer.lines = <<>>
        /\ pool.wire # <<>>
        /\ buffer' = [buffer EXCEPT !.lines = pool.wire]
        /\ pool' = [pool EXCEPT !.wire = <<>>]
        /\ UNCHANGED <<task, retry, transport, uid, tracking, active, queue, sharer, asic,
                       count, left>>

\* A mutant: a lost connection is not an attempt.
Attempt_Free(n) == n
Attempt(n) == n + 1

ReadFails == /\ task = "read" /\ buffer.lines = <<>> /\ pool.wire = <<>> /\ ~pool.open
             /\ buffer' = [made |-> FALSE, lines |-> <<>>]
             /\ retry' = Attempt(retry) /\ task' = "dial" /\ Close
             /\ UNCHANGED <<uid, tracking, active, asic, count, left>>

Line == Head(buffer.lines)
HasLine == task = "read" /\ buffer.lines # <<>>
Took(next) == buffer' = [buffer EXCEPT !.lines = Tail(@)] /\ task' = next

\* Mining is paused: the line is dropped and the connection closed.
Paused == /\ HasLine /\ ~asic
          /\ Took("dial") /\ retry' = 0 /\ Close
          /\ UNCHANGED <<uid, tracking, active, asic, count, left>>

Reconnect == /\ HasLine /\ asic /\ Line.kind = "reconnect"
             /\ Took("dial") /\ Close
             /\ UNCHANGED <<retry, uid, tracking, active, asic, count, left>>

\* The oldest id makes room for a new one.
WithActive(ids, job) ==
  IF Len(ids) < MAX_ACTIVE_JOB_IDS THEN Append(ids, job) ELSE Append(Tail(ids), job)
Announced(clean) == IF clean THEN <<>> ELSE active

\* A mutant: a clean job does not empty the queue.
QueueFor_Kept(clean) == IF Len(queue) = QUEUE_SIZE THEN Tail(queue) ELSE queue
\* The queue that takes a new job: empty after a clean one, else without its
\* oldest job when it is full.
QueueFor(clean) == CASE clean -> <<>>
                     [] ~clean /\ Len(queue) = QUEUE_SIZE -> Tail(queue)
                     [] OTHER -> queue

\* Every field is there, of its type, and stratum_v1_notify_validate takes it.
Parses(line) == line.kind # "malformed"

\* What does not parse is counted and dropped, though it were a clean one.
Malformed == /\ HasLine /\ asic /\ ~Parses(Line)
             /\ Took("loop")
             /\ UNCHANGED <<retry, transport, uid, tracking, active, queue, sharer, asic,
                            pool, count, left>>

Notify ==
  /\ HasLine /\ asic /\ Line.kind = "notify" /\ Took("loop")
  /\ IF \E i \in DOMAIN Announced(Line.clean) : active[i] = Line.job
       THEN UNCHANGED <<active, queue>>
       ELSE /\ active' = WithActive(Announced(Line.clean), Line.job)
            /\ queue' = Append(QueueFor(Line.clean), Line.job)
  /\ UNCHANGED <<retry, transport, uid, tracking, sharer, asic, pool, count, left>>

\* An answer to a share is one whose id has a timing that waits.
Index(id) == id % MAX_REQUEST_IDS
\* A mutant: the timing goes on waiting.
Answered_Kept(id) == tracking
Answered(id) == tracking \ {Index(id)}

ShareAnswer ==
  /\ HasLine /\ asic /\ Line.kind = "answer" /\ Index(Line.id) \in tracking
  /\ Took("loop")
  /\ tracking' = Answered(Line.id) /\ count' = [count EXCEPT !.counted = @ + 1]
  /\ UNCHANGED <<retry, transport, uid, active, queue, sharer, asic, pool, left>>

\* Any other answer is one to the setup, refused or not: the pool is there.  An
\* authorization that succeeds asks for a difficulty (or for extranonces).
SetupAnswer ==
  /\ HasLine /\ asic /\ Line.kind = "answer" /\ Index(Line.id) \notin tracking
  /\ Took("loop") /\ retry' = 0
  /\ IF Line.success /\ Line.id = AUTHORIZE
       THEN /\ uid' = uid + 1
            /\ pool' = IF pool.open THEN [pool EXCEPT !.pending = @ \cup {uid}] ELSE pool
       ELSE UNCHANGED <<uid, pool>>
  /\ UNCHANGED <<transport, tracking, active, queue, sharer, asic, count, left>>

Task == \/ GiveUp \/ DialFails \/ MakeTransport \/ ConnectFails \/ Connects
        \/ Receive \/ Read \/ ReadFails
        \/ Paused \/ Reconnect \/ Malformed \/ Notify \/ ShareAnswer \/ SetupAnswer
-----------------------------------------------------------------------------
(* The other tasks. *)

\* Transport and id are taken in one critical section; the id is used up even if
\* there is no transport.
ShareFound ==
  /\ sharer.pc = "idle" /\ asic /\ left.shares > 0
  /\ uid' = uid + 1 /\ left' = [left EXCEPT !.shares = @ - 1]
  /\ sharer' = IF transport THEN [pc |-> "write", uid |-> uid, old |-> FALSE] ELSE sharer
  /\ UNCHANGED <<task, retry, transport, buffer, tracking, active, queue, asic, pool, count>>

ShareWritten ==
  /\ sharer.pc = "write" /\ sharer' = [sharer EXCEPT !.pc = "stamp"]
  /\ pool' = IF pool.open /\ ~sharer.old
               THEN [pool EXCEPT !.pending = @ \cup {sharer.uid}] ELSE pool
  /\ UNCHANGED <<session, asic, left>>

\* The time is kept after the write, and also when the write failed.
ShareStamped ==
  /\ sharer.pc = "stamp" /\ sharer' = Idle
  /\ tracking' = tracking \cup {Index(sharer.uid)}
  /\ count' = [count EXCEPT !.stamped = @ + 1]
  /\ UNCHANGED <<task, retry, transport, uid, buffer, active, queue, asic, pool, left>>

\* create_jobs_task takes a job.
JobTaken == /\ queue # <<>> /\ queue' = Tail(queue)
            /\ UNCHANGED <<task, retry, transport, uid, buffer, tracking, active, sharer, asic,
                           pool, count, left>>

Pause == /\ asic /\ left.pauses > 0
         /\ asic' = FALSE /\ left' = [left EXCEPT !.pauses = @ - 1]
         /\ UNCHANGED <<session, sharer, pool>>
Resume == /\ ~asic /\ asic' = TRUE
          /\ UNCHANGED <<session, sharer, pool, left>>

Next == \/ Task \/ ShareFound \/ ShareWritten \/ ShareStamped \/ JobTaken
        \/ PoolAnswers \/ PoolNotifies \/ PoolReconnects \/ PoolCloses \/ PoolDies
        \/ Pause \/ Resume
\* The task is scheduled, mining resumes, and a dead pool's socket closes.
Fairness == WF_vars(Task) /\ WF_vars(Resume) /\ WF_vars(~pool.serves /\ PoolCloses)
Spec == Init /\ [][Next]_vars /\ Fairness
-----------------------------------------------------------------------------
Lines == [kind : {"answer"}, id : Nat, success : BOOLEAN]
         \cup Notifications \cup [kind : {"reconnect"}]

\* Every variable has its type.
TypeOK ==
  /\ task \in {"dial", "connect", "loop", "read", "failed"}
  /\ retry \in 0 .. MAX_RETRY_ATTEMPTS /\ transport \in BOOLEAN /\ uid \in Nat
  /\ buffer.made \in BOOLEAN /\ buffer.lines \in Seq(Lines) /\ pool.wire \in Seq(Lines)
  /\ tracking \subseteq 0 .. MAX_REQUEST_IDS - 1
  /\ active \in Seq(Jobs) /\ Len(active) <= MAX_ACTIVE_JOB_IDS
  /\ queue \in Seq(Jobs) /\ Len(queue) <= QUEUE_SIZE
  /\ sharer.pc \in {"idle", "write", "stamp"} /\ asic \in BOOLEAN
  /\ pool.serves \in BOOLEAN /\ pool.open \in BOOLEAN
  /\ count.stamped \in Nat /\ count.counted \in Nat

\* stratum_api.c:41: however ids start again with a connection, and timings
\* outlive one, no share is counted twice: answers counted and answers waited
\* for are never more than the shares that were stamped.
CountedOnce == count.counted + Cardinality(tracking) <= count.stamped

\* stratum_v1_task.c:505: a job that waits in the queue is one the duplicate
\* check knows, and waits there once: a job the pool repeats never takes a
\* second place, through clean jobs, a full queue and reconnects.
QueueIsKnown == /\ IsInjective(queue)
                /\ \A i \in DOMAIN queue : Contains(active, queue[i])

SessionsHold == CountedOnce /\ QueueIsKnown

\* stratum_v1_task.c:295: when a pool no longer answers, whether it refuses
\* connections or accepts and closes them, the task ends and the coordinator
\* hears of it: attempts add up, however a session ended.
Dead == ~pool.serves
Gone == task = "failed"
HandsOver == Dead ~> Gone
=============================================================================
