------------------------------ MODULE Sv2Session ------------------------------
(***************************************************************************)
(* A Stratum V2 session: the task of main/tasks/stratum_v2_task.c, the     *)
(* encrypted frames of components/stratum_v2/sv2_noise.c, the messages of  *)
(* sv2_protocol.c, and the sender of shares in ASIC_result_task.           *)
(*                                                                         *)
(* Standard and extended channels take the same steps: they differ in the  *)
(* layout of their messages and jobs.  Every job is enqueued as a clean    *)
(* one, which empties the list of known ids, so the check for duplicates   *)
(* never refuses a job and is left out.  Malformed messages change nothing *)
(* after the channel is open, and count as a refusal before.  Targets are  *)
(* JobPipeline's difficulties; the coordinator's stop is                   *)
(* ProtocolCoordinator's.                                                  *)
(***************************************************************************)
EXTENDS Integers, Sequences

CONSTANTS MAX_RETRY_ATTEMPTS, SV2_PENDING_JOBS_SIZE, SV2_SUBMIT_TIMING_SLOTS,
          Budgets, Backlog \* bounds

VARIABLES task,      \* stratum_v2_task: where it is
          retry,     \* retry_attempts
          transport, \* GLOBAL_STATE->transport is not NULL
          noise,     \* sv2_noise_ctx: "none", "made", or "keyed" after the handshake
          conn,      \* sv2_conn: [seq, prev, pending], pending the job of each slot
          stamps,    \* stratum_v2_submit_time_us: the share each slot was stamped for
          queue,     \* stratum_queue: jobs [id, prev]
          handed,    \* prev of the last job put into the queue in this session
          sender,    \* ASIC_result_task: [pc, seq, share, old]
          pool,      \* the peer: [serves, open, asked, opened, wire, got, jobs,
                     \* offers, prev]
          shares,    \* shares found
          left       \* what remains of the budget: [shares, jobs, prevs]
vars == <<task, retry, transport, noise, conn, stamps, queue, handed, sender, pool,
          shares, left>>
session == <<task, retry, transport, noise, conn, queue, handed>>

\* What an instance must satisfy; the theorems assume it by name.
V2Assumption == /\ SV2_PENDING_JOBS_SIZE \in Nat \ {0} /\ SV2_SUBMIT_TIMING_SLOTS \in Nat \ {0}
                /\ MAX_RETRY_ATTEMPTS \in Nat
                /\ Budgets \subseteq [shares : Nat, jobs : Nat, prevs : Nat]

NoJob == 0
NoShare == 0
\* A mutant: there is room for one job that waits.
Slot_One(id) == 0
Slot(id) == id % SV2_PENDING_JOBS_SIZE
Time(seq) == seq % SV2_SUBMIT_TIMING_SLOTS
Fresh == [seq |-> 0, prev |-> 0, pending |-> [s \in 0 .. SV2_PENDING_JOBS_SIZE - 1 |-> NoJob]]
Closed(p) == [p EXCEPT !.open = FALSE, !.asked = "none", !.opened = FALSE, !.wire = <<>>,
                       !.got = {}, !.offers = {}, !.prev = 0]
Idle == [pc |-> "idle", seq |-> 0, share |-> NoShare, old |-> FALSE]

Init == /\ task = "dial" /\ retry = 0 /\ transport = FALSE /\ noise = "none"
        /\ conn = Fresh /\ queue = <<>> /\ handed = 0 /\ sender = Idle
        /\ stamps = [s \in 0 .. SV2_SUBMIT_TIMING_SLOTS - 1 |-> NoShare]
        /\ pool = [serves |-> TRUE, open |-> FALSE, asked |-> "none", opened |-> FALSE,
                   wire |-> <<>>, got |-> {}, jobs |-> 0, offers |-> {}, prev |-> 0]
        /\ shares = 0 /\ left \in Budgets
-----------------------------------------------------------------------------
(* The pool. *)

Sends(p, m) == [p EXCEPT !.wire = Append(@, m)]
Speaks == pool.serves /\ pool.open /\ Len(pool.wire) < Backlog

\* It accepts what it is asked for, or refuses it.
PoolAnswers ==
  /\ Speaks /\ pool.asked # "none"
  /\ \E yes \in BOOLEAN :
       pool' = [Sends(pool, [kind |-> IF yes THEN pool.asked ELSE "refusal"])
                EXCEPT !.asked = "none", !.opened = yes /\ pool.asked = "channel"]
  /\ UNCHANGED <<session, stamps, sender, shares, left>>

\* A job for the next block, or one for the block of now: then, before the first
\* prev_hash, it waits for that as well.
PoolSendsJob ==
  /\ Speaks /\ pool.opened /\ left.jobs > 0
  /\ \E future \in BOOLEAN : LET id == pool.jobs + 1 IN
       pool' = [Sends(pool, [kind |-> "job", id |-> id, future |-> future])
                EXCEPT !.jobs = id,
                       !.offers = {o \in @ : o > id - SV2_PENDING_JOBS_SIZE}
                                  \cup (IF future \/ pool.prev = 0 THEN {id} ELSE {})]
  /\ left' = [left EXCEPT !.jobs = @ - 1]
  /\ UNCHANGED <<session, stamps, sender, shares>>

\* A new block: the pool names the offered job to work on and drops the others.
PoolSetsPrevHash ==
  /\ Speaks /\ pool.opened /\ left.prevs > 0
  /\ \E id \in pool.offers :
       pool' = [Sends(pool, [kind |-> "prev", id |-> id, prev |-> left.prevs])
                EXCEPT !.prev = left.prevs, !.offers = {}]
  /\ left' = [left EXCEPT !.prevs = @ - 1]
  /\ UNCHANGED <<session, stamps, sender, shares>>

\* One message may answer for all the shares up to one.
PoolAcks ==
  /\ Speaks
  /\ \E last \in pool.got :
       pool' = [Sends(pool, [kind |-> "ack", seq |-> last.seq, share |-> last.share])
                EXCEPT !.got = {g \in @ : g.share > last.share}]
  /\ UNCHANGED <<session, stamps, sender, shares, left>>

PoolRejects ==
  /\ Speaks
  /\ \E g \in pool.got : pool' = [Sends(pool, [kind |-> "error"]) EXCEPT !.got = @ \ {g}]
  /\ UNCHANGED <<session, stamps, sender, shares, left>>

\* From now on the pool at most accepts connections.
PoolDies == /\ pool.serves
            /\ pool' = [pool EXCEPT !.serves = FALSE]
            /\ UNCHANGED <<session, stamps, sender, shares, left>>
-----------------------------------------------------------------------------
(* Connecting. *)

\* Keys and socket are freed under a sender that has read them; the queue empties.
Close == /\ noise' = "none" /\ transport' = FALSE /\ queue' = <<>> /\ pool' = Closed(pool)
         /\ sender' = IF sender.pc = "sealed" THEN [sender EXCEPT !.old = TRUE] ELSE sender

\* A mutant: what fails before the channel is open is not an attempt.
Attempt_Free(n) == IF task = "loop" THEN n + 1 ELSE n
Attempt(n) == n + 1
Fails == /\ task' = "dial" /\ retry' = Attempt(retry) /\ Close
         /\ UNCHANGED <<conn, stamps, handed, shares, left>>

GiveUp == /\ task = "dial" /\ retry >= MAX_RETRY_ATTEMPTS
          /\ task' = "failed" /\ Close
          /\ UNCHANGED <<retry, conn, stamps, handed, shares, left>>

Dials == task = "dial" /\ retry < MAX_RETRY_ATTEMPTS

DialFails == /\ Dials /\ retry' = Attempt(retry)
             /\ UNCHANGED <<task, transport, noise, conn, stamps, queue, handed, sender, pool,
                            shares, left>>

\* The connection starts again at sequence number 0; the stamps stay.  The Noise
\* context is in the shared state before the handshake.
Connects == /\ Dials
            /\ transport' = TRUE /\ noise' = "made" /\ conn' = Fresh /\ handed' = 0
            /\ pool' = [pool EXCEPT !.open = TRUE]
            /\ task' = "handshake"
            /\ UNCHANGED <<retry, stamps, queue, sender, shares, left>>

\* The handshake, or the key the user asked for, fails.
HandshakeFails == task = "handshake" /\ Fails
Handshake == /\ task = "handshake" /\ pool.serves
             /\ noise' = "keyed" /\ task' = "setup"
             /\ UNCHANGED <<retry, transport, conn, stamps, queue, handed, sender, pool, shares,
                            left>>

\* Two frames sealed at the same time reach the pool in the wrong order, or with
\* the same nonce: it cannot read on.
Asks(what, next) ==
  /\ pool' = CASE sender.pc = "sealed" /\ ~sender.old -> [pool EXCEPT !.open = FALSE]
               [] OTHER -> IF pool.open THEN [pool EXCEPT !.asked = what] ELSE pool
  /\ task' = next
  /\ UNCHANGED <<retry, transport, noise, conn, stamps, queue, handed, sender, shares, left>>
SendSetup == task = "setup" /\ Asks("setup", "setup_reply")
SendOpen == task = "open" /\ Asks("channel", "open_reply")

\* What a frame parses to.  A payload too short for its kind changes nothing.
Message == Head(pool.wire)
HasMessage == pool.wire # <<>>
Took == pool' = [pool EXCEPT !.wire = Tail(@)]
Receives == task \in {"setup_reply", "open_reply", "loop"}

\* The pool has closed the connection, or says nothing until the read times out.
ReceiveFails == Receives /\ ~HasMessage /\ Fails

\* Whatever else arrives is taken for a refusal.
Refused == /\ HasMessage
           /\ \/ task = "setup_reply" /\ Message.kind # "setup"
              \/ task = "open_reply" /\ Message.kind # "channel"
           /\ Fails

Accepted == /\ task = "setup_reply" /\ HasMessage /\ Message.kind = "setup"
            /\ Took /\ task' = "open"
            /\ UNCHANGED <<retry, transport, noise, conn, stamps, queue, handed, sender, shares,
                           left>>

Opened == /\ task = "open_reply" /\ HasMessage /\ Message.kind = "channel"
          /\ Took /\ task' = "loop" /\ retry' = 0
          /\ UNCHANGED <<transport, noise, conn, stamps, queue, handed, sender, shares, left>>
-----------------------------------------------------------------------------
(* The open channel. *)

\* A mutant: a job is not a clean one.
Enqueued_Kept(job) == Append(queue, job)
\* Every job is a clean one: what waits in the queue goes.
Enqueued(job) == <<job>>
Handles(kind) == task = "loop" /\ HasMessage /\ Message.kind = kind /\ Took

NewJob ==
  /\ Handles("job")
  /\ IF ~Message.future /\ conn.prev # 0
       THEN /\ queue' = Enqueued([id |-> Message.id, prev |-> conn.prev])
            /\ handed' = conn.prev
            /\ UNCHANGED conn
       ELSE conn' = [conn EXCEPT !.pending[Slot(Message.id)] = Message.id]
            /\ UNCHANGED <<queue, handed>>
  /\ UNCHANGED <<task, retry, transport, noise, stamps, sender, shares, left>>

\* The named job if its slot still has it; with the first prev_hash the others
\* follow, each as a clean one, and the last of them stays.
Released(id) ==
  LET all == conn.pending
  IN  IF conn.prev = 0 THEN {s \in DOMAIN all : all[s] # NoJob}
                       ELSE {s \in {Slot(id)} : all[s] = id}
PendingAfter(slots) == [s \in DOMAIN conn.pending |-> IF s \in slots THEN NoJob ELSE conn.pending[s]]
LastOf(slots, id) ==
  LET others == {s \in slots : conn.pending[s] # id}
  IN  IF others = {} THEN id ELSE conn.pending[CHOOSE s \in others : \A t \in others : t <= s]

SetNewPrevHash ==
  /\ Handles("prev")
  /\ LET slots == Released(Message.id)
     IN /\ conn' = [conn EXCEPT !.prev = Message.prev, !.pending = PendingAfter(slots)]
        /\ IF slots = {}
             THEN UNCHANGED <<queue, handed>>
             ELSE /\ queue' = Enqueued([id |-> LastOf(slots, Message.id), prev |-> Message.prev])
                  /\ handed' = Message.prev
  /\ UNCHANGED <<task, retry, transport, noise, stamps, sender, shares, left>>

\* The time of the answer is the one since the stamp of its slot, which is used up.
SubmitSharesSuccess ==
  /\ Handles("ack")
  /\ stamps' = [stamps EXCEPT ![Time(Message.seq)] = NoShare]
  /\ UNCHANGED <<task, retry, transport, noise, conn, queue, handed, sender, shares, left>>

SubmitSharesError ==
  /\ Handles("error")
  /\ UNCHANGED <<task, retry, transport, noise, conn, stamps, queue, handed, sender, shares, left>>

Task == \/ GiveUp \/ DialFails \/ Connects \/ HandshakeFails \/ Handshake \/ SendSetup \/ SendOpen
        \/ ReceiveFails \/ Refused \/ Accepted \/ Opened
        \/ NewJob \/ SetNewPrevHash \/ SubmitSharesSuccess \/ SubmitSharesError
-----------------------------------------------------------------------------
(* The other tasks. *)

\* A mutant: the slot is the one of the number the next share gets.
Stamped_Next(seq, share) == [stamps EXCEPT ![Time(seq + 1)] = share]
Stamped(seq, share) == [stamps EXCEPT ![Time(seq)] = share]

\* The pointers are not NULL; whether the channel is open is not asked.
ShareFound ==
  /\ sender.pc = "idle" /\ left.shares > 0 /\ transport /\ noise # "none"
  /\ shares' = shares + 1 /\ left' = [left EXCEPT !.shares = @ - 1]
  /\ conn' = [conn EXCEPT !.seq = @ + 1]
  /\ stamps' = Stamped(conn.seq, shares + 1)
  /\ sender' = [pc |-> "numbered", seq |-> conn.seq, share |-> shares + 1, old |-> FALSE]
  /\ UNCHANGED <<task, retry, transport, noise, queue, handed, pool>>

\* The keys are read again: those of the next connection if there is one.
ShareSealed ==
  /\ sender.pc = "numbered"
  /\ sender' = IF noise = "keyed" THEN [sender EXCEPT !.pc = "sealed"] ELSE Idle
  /\ UNCHANGED <<session, stamps, pool, shares, left>>

\* Before the channel is open the pool can only answer with an error.
ShareSent ==
  /\ sender.pc = "sealed" /\ sender' = Idle
  /\ pool' = CASE ~pool.open \/ sender.old -> pool
               [] pool.open /\ ~sender.old /\ pool.opened ->
                    [pool EXCEPT !.got = @ \cup {[seq |-> sender.seq, share |-> sender.share]}]
               [] OTHER -> Sends(pool, [kind |-> "error"])
  /\ UNCHANGED <<session, stamps, shares, left>>

\* create_jobs_task takes a job.
JobTaken == /\ queue # <<>> /\ queue' = Tail(queue)
            /\ UNCHANGED <<task, retry, transport, noise, conn, stamps, handed, sender, pool,
                           shares, left>>

Next == \/ Task \/ ShareFound \/ ShareSealed \/ ShareSent \/ JobTaken
        \/ PoolAnswers \/ PoolSendsJob \/ PoolSetsPrevHash \/ PoolAcks \/ PoolRejects \/ PoolDies
\* The task is scheduled: its reads time out.
Fairness == WF_vars(Task)
Spec == Init /\ [][Next]_vars /\ Fairness
-----------------------------------------------------------------------------
\* Every variable has its type.
TypeOK ==
  /\ task \in {"dial", "handshake", "setup", "setup_reply", "open", "open_reply", "loop", "failed"}
  /\ retry \in 0 .. MAX_RETRY_ATTEMPTS /\ transport \in BOOLEAN
  /\ noise \in {"none", "made", "keyed"} /\ conn.seq \in Nat /\ conn.prev \in Nat
  /\ \A s \in DOMAIN conn.pending : conn.pending[s] \in Nat
  /\ \A s \in DOMAIN stamps : stamps[s] \in 0 .. shares
  /\ sender.pc \in {"idle", "numbered", "sealed"} /\ handed \in Nat /\ shares \in Nat
  /\ \A i \in DOMAIN queue : queue[i].id \in Nat /\ queue[i].prev \in Nat

\* stratum_v2_task.c:542: a job in the queue is alone there and on the block the
\* session knows; before the first prev_hash there is none.
QueueIsCurrent == /\ Len(queue) <= 1
                  /\ \A i \in DOMAIN queue : queue[i].prev = conn.prev /\ conn.prev # 0

\* stratum_v2_task.c:548: a block the pool has announced is the one of the last
\* job handed on, as soon as its messages are handled: the job it names has not
\* been lost, however many offers came before and in whatever order.
WorkFollowsPool ==
  task = "loop" /\ pool.open /\ pool.wire = <<>> /\ pool.prev # 0 => handed = pool.prev

\* stratum_v2_task.c:158: however sequence numbers start again with a connection,
\* and one answer stands for several shares, no response time is taken from a
\* share sent before the one the pool answers.
AnswersTimed ==
  LET answered == pool.got \cup {m \in {pool.wire[i] : i \in DOMAIN pool.wire} : m.kind = "ack"}
  IN  \A a \in answered : stamps[Time(a.seq)] = NoShare \/ stamps[Time(a.seq)] >= a.share

SessionsHold == QueueIsCurrent /\ WorkFollowsPool /\ AnswersTimed

\* stratum_v2_task.c:681: when a pool no longer opens channels, however far it
\* gets, the task ends and the coordinator hears of it.
Dead == ~pool.serves
Gone == task = "failed"
HandsOver == Dead ~> Gone
=============================================================================
