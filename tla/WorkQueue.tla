----------------------------- MODULE WorkQueue -----------------------------
(***************************************************************************)
(* main/work_queue.c and the way its callers drive it.                     *)
(*                                                                         *)
(* The queue is a ring of QUEUE_SIZE pointers guarded by one mutex and two *)
(* condition variables.  Everything a function does between taking and     *)
(* releasing (or waiting on) the mutex is one action.  A thread that waits *)
(* on a condition variable is a member of its wait set; a signal takes one *)
(* thread out of the set, and that thread tests its loop condition again   *)
(* in a later step, as pthread_cond_wait does.                             *)
(*                                                                         *)
(* Three kinds of threads call it:                                         *)
(*   Enqueuers  stratum_v1_task / stratum_v2_task, which handle a job      *)
(*              notification by (perhaps) clearing the queue, dropping the *)
(*              oldest item of a full queue, and enqueueing the new one.   *)
(*              They read queue->count WITHOUT the lock to decide.         *)
(*   Consumers  create_jobs_task, a timed dequeue in a loop.               *)
(*   Cleaners   the protocol coordinator, which calls queue_clear.         *)
(*                                                                         *)
(* heap is the allocator's view of every work item, so that leaks and      *)
(* double frees are states: the code hands each item's ownership from the  *)
(* enqueuer to the ring to the consumer without any reference count.       *)
(***************************************************************************)
EXTENDS Naturals, Sequences, FiniteSets

CONSTANTS QUEUE_SIZE,  \* capacity of the ring, 12 in the firmware
          Items,       \* work items that can ever be allocated (a bound for TLC)
          Enqueuers,   \* protocol tasks
          Consumers,   \* create_jobs_task
          Cleaners,    \* the protocol coordinator
          NULL         \* the null pointer

ASSUME QueueSizeAssumption == QUEUE_SIZE \in Nat \ {0}
ASSUME ThreadsAssumption == /\ Enqueuers \cap Consumers = {}
                            /\ NULL \notin Items
ASSUME FiniteThreadsAssumption == IsFiniteSet(Enqueuers \cup Consumers)

VARIABLES buffer,    \* queue->buffer
          head, tail, count,
          notEmpty,  \* threads waiting on queue->not_empty
          notFull,   \* threads waiting on queue->not_full
          pc,        \* where each enqueuer and consumer is
          held,      \* the item a thread owns: the notification being enqueued,
                     \* or create_jobs_task's current_work
          heap       \* "unborn", "live" or "freed" for every item

ring == <<buffer, head, tail, count>>
vars == <<buffer, head, tail, count, notEmpty, notFull, pc, held, heap>>

Threads == Enqueuers \cup Consumers
Slots == 0 .. QUEUE_SIZE - 1

\* The ring positions that hold a queued item, and those items.
Window == {(head + k) % QUEUE_SIZE : k \in 0 .. count - 1}
Queued == {buffer[s] : s \in Window}
Contents == [k \in 1 .. count |-> buffer[(head + k - 1) % QUEUE_SIZE]]

Init == /\ buffer = [s \in Slots |-> NULL]
        /\ head = 0 /\ tail = 0 /\ count = 0
        /\ notEmpty = {} /\ notFull = {}
        /\ pc = [t \in Threads |-> IF t \in Enqueuers THEN "recv" ELSE "dequeue"]
        /\ held = [t \in Threads |-> NULL]
        /\ heap = [i \in Items |-> "unborn"]
-----------------------------------------------------------------------------
(* Helpers: the bodies of the queue functions. *)

\* What if: enqueue signals only when it finds the ring empty.
SignalNotEmpty_OnlyFirst ==
  IF count > 0 \/ notEmpty = {} THEN UNCHANGED notEmpty
  ELSE \E w \in notEmpty : notEmpty' = notEmpty \ {w}

\* pthread_cond_signal: wake one waiter, if there is one.
SignalNotEmpty == IF notEmpty = {} THEN UNCHANGED notEmpty
                  ELSE \E w \in notEmpty : notEmpty' = notEmpty \ {w}
SignalNotFull == IF notFull = {} THEN UNCHANGED notFull
                 ELSE \E w \in notFull : notFull' = notFull \ {w}

\* What if: the tail does not wrap.
PutAtTail_NoWrap(i) == /\ buffer' = [buffer EXCEPT ![tail] = i]
                       /\ tail' = tail + 1
                       /\ count' = count + 1
                       /\ UNCHANGED head

\* Store an item at the tail.
PutAtTail(i) == /\ buffer' = [buffer EXCEPT ![tail] = i]
                /\ tail' = (tail + 1) % QUEUE_SIZE
                /\ count' = count + 1
                /\ UNCHANGED head

\* Remove the item at the head; the slot keeps its stale pointer.
TakeFromHead == /\ head' = (head + 1) % QUEUE_SIZE
                /\ count' = count - 1
                /\ UNCHANGED <<buffer, tail>>

\* What if: queue_clear forgets to move the head.
queue_clear_HeadStays ==
  /\ heap' = [i \in Items |-> IF i \in Queued THEN "freed" ELSE heap[i]]
  /\ count' = 0
  /\ UNCHANGED <<buffer, head, tail>>
  /\ SignalNotFull
  /\ UNCHANGED notEmpty

\* queue_clear: free_fn on every queued item, under one critical section.
queue_clear == /\ heap' = [i \in Items |-> IF i \in Queued THEN "freed" ELSE heap[i]]
               /\ head' = (head + count) % QUEUE_SIZE
               /\ count' = 0
               /\ UNCHANGED <<buffer, tail>>
               /\ SignalNotFull
               /\ UNCHANGED notEmpty

Goto(t, l) == pc' = [pc EXCEPT ![t] = l]
-----------------------------------------------------------------------------
(* The protocol task handling one job notification. *)

\* A notification is parsed into a freshly allocated item.
ReceiveNotify(t) ==
  /\ pc[t] = "recv"
  /\ \E i \in Items, clean \in BOOLEAN :
       /\ heap[i] = "unborn"
       /\ heap' = [heap EXCEPT ![i] = "live"]
       /\ held' = [held EXCEPT ![t] = i]
       /\ Goto(t, IF clean THEN "checkAny" ELSE "checkFull")
  /\ UNCHANGED <<ring, notEmpty, notFull>>

\* if (clean_jobs && queue.count > 0): an unlocked read.
CheckAny(t) ==
  /\ pc[t] = "checkAny"
  /\ Goto(t, IF count > 0 THEN "clear" ELSE "checkFull")
  /\ UNCHANGED <<ring, notEmpty, notFull, held, heap>>

ClearByTask(t) ==
  /\ pc[t] = "clear"
  /\ queue_clear
  /\ Goto(t, "checkFull")
  /\ UNCHANGED held

\* What if: the test for a full ring is off by one.
CheckFull_OffByOne(t) ==
  /\ pc[t] = "checkFull"
  /\ Goto(t, IF count > QUEUE_SIZE THEN "drop" ELSE "enqueue")
  /\ UNCHANGED <<ring, notEmpty, notFull, held, heap>>

\* if (queue.count == QUEUE_SIZE): another unlocked read.
CheckFull(t) ==
  /\ pc[t] = "checkFull"
  /\ Goto(t, IF count = QUEUE_SIZE THEN "drop" ELSE "enqueue")
  /\ UNCHANGED <<ring, notEmpty, notFull, held, heap>>

\* queue_dequeue with an empty queue: wait, without a timeout.
DropWaits(t) ==
  /\ pc[t] = "drop" /\ t \notin notEmpty
  /\ count = 0
  /\ notEmpty' = notEmpty \cup {t}
  /\ UNCHANGED <<ring, notFull, pc, held, heap>>

\* What if: a full ring drops its newest item instead of its oldest.
DropOldest_Newest(t) ==
  /\ pc[t] = "drop" /\ t \notin notEmpty
  /\ count > 0
  /\ LET last == (tail + QUEUE_SIZE - 1) % QUEUE_SIZE
     IN heap' = [heap EXCEPT ![buffer[last]] = "freed"] /\ tail' = last
  /\ count' = count - 1 /\ UNCHANGED <<buffer, head>>
  /\ SignalNotFull
  /\ Goto(t, "enqueue")
  /\ UNCHANGED <<notEmpty, held>>

\* queue_dequeue and the free of the item it returns.
DropOldest(t) ==
  /\ pc[t] = "drop" /\ t \notin notEmpty
  /\ count > 0
  /\ heap' = [heap EXCEPT ![buffer[head]] = "freed"]
  /\ TakeFromHead
  /\ SignalNotFull
  /\ Goto(t, "enqueue")
  /\ UNCHANGED <<notEmpty, held>>

EnqueueWaits(t) ==
  /\ pc[t] = "enqueue" /\ t \notin notFull
  /\ count = QUEUE_SIZE
  /\ notFull' = notFull \cup {t}
  /\ UNCHANGED <<ring, notEmpty, pc, held, heap>>

Enqueue(t) ==
  /\ pc[t] = "enqueue" /\ t \notin notFull
  /\ count # QUEUE_SIZE
  /\ PutAtTail(held[t])
  /\ SignalNotEmpty
  /\ held' = [held EXCEPT ![t] = NULL]
  /\ Goto(t, "recv")
  /\ UNCHANGED <<notFull, heap>>
-----------------------------------------------------------------------------
(* create_jobs_task: queue_dequeue_timeout in a loop. *)

\* What if: the timed dequeue waits although one item is there.
DequeueWaits_LastItem(c) ==
  /\ pc[c] = "dequeue" /\ c \notin notEmpty
  /\ count <= 1
  /\ notEmpty' = notEmpty \cup {c}
  /\ UNCHANGED <<ring, notFull, pc, held, heap>>

DequeueWaits(c) ==
  /\ pc[c] = "dequeue" /\ c \notin notEmpty
  /\ count = 0
  /\ notEmpty' = notEmpty \cup {c}
  /\ UNCHANGED <<ring, notFull, pc, held, heap>>

\* ETIMEDOUT: return NULL; the loop keeps current_work and comes back.
DequeueTimesOut(c) ==
  /\ pc[c] = "dequeue" /\ c \in notEmpty
  /\ notEmpty' = notEmpty \ {c}
  /\ UNCHANGED <<ring, notFull, pc, held, heap>>

\* The caller frees its previous current_work and keeps the new item.
DequeueGets(c) ==
  /\ pc[c] = "dequeue" /\ c \notin notEmpty
  /\ count > 0
  /\ heap' = [i \in Items |-> IF i = held[c] THEN "freed" ELSE heap[i]]
  /\ held' = [held EXCEPT ![c] = buffer[head]]
  /\ TakeFromHead
  /\ SignalNotFull
  /\ UNCHANGED <<notEmpty, pc>>

\* The protocol changed during the dequeue: both items are freed.
DequeueDiscards(c) ==
  /\ pc[c] = "dequeue" /\ c \notin notEmpty
  /\ count > 0
  /\ heap' = [i \in Items |-> IF i \in {held[c], buffer[head]} THEN "freed" ELSE heap[i]]
  /\ held' = [held EXCEPT ![c] = NULL]
  /\ TakeFromHead
  /\ SignalNotFull
  /\ UNCHANGED <<notEmpty, pc>>

\* The coordinator clears the queue between stopping and starting a task.
ClearByCoordinator(k) ==
  /\ k \in Cleaners
  /\ queue_clear
  /\ UNCHANGED <<pc, held>>
-----------------------------------------------------------------------------
EnqueuerSteps(t) == \/ CheckAny(t) \/ ClearByTask(t) \/ CheckFull(t)
                    \/ DropWaits(t) \/ DropOldest(t)
                    \/ EnqueueWaits(t) \/ Enqueue(t)
ConsumerSteps(c) == \/ DequeueWaits(c) \/ DequeueTimesOut(c)
                    \/ DequeueGets(c) \/ DequeueDiscards(c)

Next == \/ \E t \in Enqueuers : ReceiveNotify(t) \/ EnqueuerSteps(t)
        \/ \E c \in Consumers : ConsumerSteps(c)
        \/ \E k \in Cleaners : ClearByCoordinator(k)

Spec == Init /\ [][Next]_vars

(* FreeRTOS keeps running every ready task, and the timed wait always ends. *)
(* The pool need not send anything, so ReceiveNotify is not fair.           *)
FairSpec == /\ Spec
            /\ \A t \in Enqueuers : WF_vars(EnqueuerSteps(t))
            /\ \A c \in Consumers : WF_vars(ConsumerSteps(c))
-----------------------------------------------------------------------------
TypeOK == /\ buffer \in [Slots -> Items \cup {NULL}]
          /\ head \in Slots /\ tail \in Slots /\ count \in 0 .. QUEUE_SIZE
          /\ notEmpty \in SUBSET Threads /\ notFull \in SUBSET Threads
          /\ pc \in [Threads -> {"recv", "checkAny", "clear", "checkFull",
                                 "drop", "enqueue", "dequeue"}]
          /\ held \in [Threads -> Items \cup {NULL}]
          /\ heap \in [Items -> {"unborn", "live", "freed"}]

\* Ownership: every live item has exactly one owner (one ring slot or one
\* thread), and no slot of the window and no thread refers to an item that was
\* freed.  So nothing is freed twice, used after its free, or leaked, although
\* three kinds of threads free items and the ring keeps stale pointers.
RingLive == \A s \in Window : buffer[s] \in Items /\ heap[buffer[s]] = "live"
RingDistinct == \A s, u \in Window : buffer[s] = buffer[u] => s = u
HeldLive == \A t \in Threads : held[t] # NULL =>
                heap[held[t]] = "live" /\ held[t] \notin Queued
HeldDistinct == \A t, u \in Threads : held[t] = held[u] /\ held[t] # NULL => t = u
NoLeak == \A i \in Items : heap[i] = "live" =>
              i \in Queued \/ \E t \in Threads : held[t] = i
Ownership == RingLive /\ RingDistinct /\ HeldLive /\ HeldDistinct /\ NoLeak

\* The protocol tasks never all wait for room, so one of them always goes on to
\* drop an old item or to put its new one: whoever filled the ring tests count
\* again before its next put, although that read and the others' are unlocked.
\* A protocol task that is the only enqueuer therefore never waits in
\* queue_enqueue.
NotAllWaitForRoom == Enqueuers # {} => notFull # Enqueuers

\* A consumer that waits while the ring is not empty has been overtaken only by
\* threads that were signalled instead of it and have still to take an item:
\* enqueue's single pthread_cond_signal never leaves an item with nobody awake
\* for it, whatever mix of dropping and timed waiters sleeps on not_empty.
NoLostWakeup ==
  (count > 0 /\ notEmpty # {}) =>
     \E t \in Threads : pc[t] \in {"drop", "dequeue"} /\ t \notin notEmpty

\* The ring and its condition variables implement the bounded FIFO.
Fifo == INSTANCE BoundedFifo WITH Size <- QUEUE_SIZE, contents <- Contents
FifoSpec == Fifo!Spec

\* Every queued item eventually leaves the ring: it is mined, dropped or cleared.
QueuedWorkLeaves == \A i \in Items : (i \in Queued) ~> (i \notin Queued)

\* docs/ARCHITECTURE.md:22 says the queue "Pushes allocated jobs into bounded
\* ring buffer": a notification that was accepted does reach the ring.
NotificationIsPushed ==
  \A t \in Enqueuers, i \in Items : (held[t] = i) ~> (held[t] # i)
=============================================================================
