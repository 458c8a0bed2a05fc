-------------------------- MODULE WorkQueue_proofs --------------------------
(***************************************************************************)
(* Proofs about WorkQueue for every capacity, every set of items and every *)
(* set of threads: type correctness, the ownership discipline of the ring, *)
(* that the enqueuers never all wait for room, that no wakeup is lost, and *)
(* that the ring implements the bounded FIFO.                              *)
(***************************************************************************)
EXTENDS WorkQueue, Integers, FiniteSetTheorems, SequenceTheorems, TLAPS

\* The slots of a window of c items that starts at h.
WindowAt(h, c) == {(h + k) % QUEUE_SIZE : k \in 0 .. c - 1}

\* Where the tail is.
RingShape == tail = (head + count) % QUEUE_SIZE

\* Which threads hold an item at which program point.
Program ==
  /\ \A t \in Enqueuers : /\ pc[t] # "dequeue"
                          /\ pc[t] = "recv" <=> held[t] = NULL
  /\ \A c \in Consumers : pc[c] = "dequeue"

\* Only a task about to put waits for room, and while the ring is full somebody
\* has still to find out that it is.
Room ==
  /\ \A t \in notFull : t \in Enqueuers /\ pc[t] = "enqueue"
  /\ count = QUEUE_SIZE /\ Enqueuers # {} => \E t \in Enqueuers : pc[t] # "enqueue"
  /\ Enqueuers # {} => notFull # Enqueuers

\* Who is about to take an item and does not sleep.  Beside somebody who sleeps there
\* is one of them for every item: each item came with a signal.
Awake == {t \in Threads : pc[t] \in {"drop", "dequeue"} /\ t \notin notEmpty}
Enough == /\ \A t \in notEmpty : pc[t] \in {"drop", "dequeue"}
          /\ notEmpty # {} => count <= Cardinality(Awake)

IInv == TypeOK /\ RingShape /\ Program /\ Ownership
-----------------------------------------------------------------------------
(* Arithmetic of the ring. *)

\* An index below the capacity is its own remainder.
LEMMA ModSmall == ASSUME NEW a \in 0 .. QUEUE_SIZE - 1
                  PROVE  a % QUEUE_SIZE = a
  BY QueueSizeAssumption

\* An index that ran past the end wraps once.
LEMMA ModWrap == ASSUME NEW a \in QUEUE_SIZE .. 2 * QUEUE_SIZE - 1
                 PROVE  a % QUEUE_SIZE = a - QUEUE_SIZE
  BY QueueSizeAssumption

\* A remainder is a slot.
LEMMA ModSlot == ASSUME NEW a \in Nat
                 PROVE  a % QUEUE_SIZE \in Slots
  BY QueueSizeAssumption DEF Slots

\* Two different offsets below the capacity lead to two different slots.
LEMMA ModInjective ==
  ASSUME NEW h \in Slots, NEW j \in Slots, NEW k \in Slots,
         (h + j) % QUEUE_SIZE = (h + k) % QUEUE_SIZE
  PROVE  j = k
<1> DEFINE N == QUEUE_SIZE
<1>1. ASSUME NEW m \in Slots
      PROVE  (h + m) % N = IF h + m < N THEN h + m ELSE h + m - N
  BY ModSmall, ModWrap, QueueSizeAssumption DEF Slots
<1>2. QED
  BY <1>1, QueueSizeAssumption DEF Slots

\* The k-th slot after the next one is the one after the k-th.
LEMMA ModShift ==
  ASSUME NEW h \in Slots, NEW k \in 0 .. QUEUE_SIZE - 2
  PROVE  (((h + 1) % QUEUE_SIZE) + k) % QUEUE_SIZE = (h + (k + 1)) % QUEUE_SIZE
<1>1. CASE h + 1 < QUEUE_SIZE
  BY <1>1, ModSmall, QueueSizeAssumption DEF Slots
<1>2. CASE h + 1 = QUEUE_SIZE
  <2>1. (h + 1) % QUEUE_SIZE = 0
    BY <1>2, ModWrap, QueueSizeAssumption DEF Slots
  <2>2. k % QUEUE_SIZE = k
    BY ModSmall, QueueSizeAssumption
  <2>3. (h + (k + 1)) % QUEUE_SIZE = k
    BY <1>2, ModWrap, QueueSizeAssumption DEF Slots
  <2>4. QED
    BY <2>1, <2>2, <2>3
<1>3. QED
  BY <1>1, <1>2, QueueSizeAssumption DEF Slots

\* A put extends the window by the tail slot, which was outside it.
LEMMA WindowPut ==
  ASSUME NEW h \in Slots, NEW c \in 0 .. QUEUE_SIZE - 1
  PROVE  /\ WindowAt(h, c + 1) = WindowAt(h, c) \cup {(h + c) % QUEUE_SIZE}
         /\ (h + c) % QUEUE_SIZE \notin WindowAt(h, c)
<1>1. 0 .. (c + 1) - 1 = (0 .. c - 1) \cup {c}
  BY QueueSizeAssumption
<1>2. WindowAt(h, c + 1) = WindowAt(h, c) \cup {(h + c) % QUEUE_SIZE}
  BY <1>1 DEF WindowAt
<1>3. \A k \in 0 .. c - 1 : k \in Slots /\ c \in Slots /\ k # c
  BY QueueSizeAssumption DEF Slots
<1>4. QED
  BY <1>2, <1>3, ModInjective DEF WindowAt

\* A take shrinks the window by the head slot.
LEMMA WindowTake ==
  ASSUME NEW h \in Slots, NEW c \in 1 .. QUEUE_SIZE
  PROVE  /\ WindowAt((h + 1) % QUEUE_SIZE, c - 1) = WindowAt(h, c) \ {h}
         /\ h \in WindowAt(h, c)
<1> DEFINE N == QUEUE_SIZE
<1>1. \A k \in 0 .. c - 2 : (((h + 1) % N) + k) % N = (h + (k + 1)) % N
  <2>1. \A k \in 0 .. c - 2 : k \in 0 .. QUEUE_SIZE - 2
    BY QueueSizeAssumption
  <2>2. QED
    BY <2>1, ModShift
<1>2. WindowAt((h + 1) % N, c - 1) = {(h + k) % N : k \in 1 .. c - 1}
  <2>1. WindowAt((h + 1) % N, c - 1) = {(h + (k + 1)) % N : k \in 0 .. c - 2}
    BY <1>1, QueueSizeAssumption DEF WindowAt
  <2>2. {(h + (k + 1)) % N : k \in 0 .. c - 2} = {(h + k) % N : k \in 1 .. c - 1}
    <3>1. \A k \in 0 .. c - 2 : k + 1 \in 1 .. c - 1
      BY QueueSizeAssumption
    <3>2. \A k \in 1 .. c - 1 : k - 1 \in 0 .. c - 2 /\ (k - 1) + 1 = k
      BY QueueSizeAssumption
    <3>3. QED
      BY <3>1, <3>2
  <2>3. QED
    BY <2>1, <2>2
<1>3. (h + 0) % N = h
  BY ModSmall DEF Slots
<1>4. \A k \in 1 .. c - 1 : (h + k) % N # h
  <2>1. \A k \in 1 .. c - 1 : k \in Slots /\ 0 \in Slots /\ k # 0
    BY QueueSizeAssumption DEF Slots
  <2>2. QED
    BY <2>1, <1>3, ModInjective
<1>5. 0 .. c - 1 = (1 .. c - 1) \cup {0}
  BY QueueSizeAssumption
<1>6. QED
  BY <1>2, <1>3, <1>4, <1>5 DEF WindowAt
-----------------------------------------------------------------------------
(* Type correctness. *)

\* Signals only ever shrink a wait set.
LEMMA SignalType ==
  /\ SignalNotEmpty => notEmpty' \subseteq notEmpty
  /\ SignalNotFull => notFull' \subseteq notFull
  BY DEF SignalNotEmpty, SignalNotFull

\* The ring operations keep the ring's types.
LEMMA RingType ==
  ASSUME TypeOK
  PROVE  /\ \A i \in Items \cup {NULL} : count # QUEUE_SIZE /\ PutAtTail(i) =>
               /\ buffer' \in [Slots -> Items \cup {NULL}]
               /\ head' \in Slots /\ tail' \in Slots /\ count' \in 0 .. QUEUE_SIZE
         /\ count > 0 /\ TakeFromHead =>
               /\ buffer' \in [Slots -> Items \cup {NULL}]
               /\ head' \in Slots /\ tail' \in Slots /\ count' \in 0 .. QUEUE_SIZE
<1>1. head + 1 \in Nat /\ tail + 1 \in Nat
  BY QueueSizeAssumption DEF TypeOK, Slots
<1>2. (head + 1) % QUEUE_SIZE \in Slots /\ (tail + 1) % QUEUE_SIZE \in Slots
  BY <1>1, ModSlot
<1>3. QED
  BY <1>2, QueueSizeAssumption DEF TypeOK, PutAtTail, TakeFromHead

\* queue_clear keeps the types of what it changes.
LEMMA ClearType ==
  ASSUME TypeOK, queue_clear
  PROVE  /\ buffer' \in [Slots -> Items \cup {NULL}]
         /\ head' \in Slots /\ tail' \in Slots /\ count' \in 0 .. QUEUE_SIZE
         /\ notFull' \subseteq notFull /\ notEmpty' = notEmpty
         /\ heap' \in [Items -> {"unborn", "live", "freed"}]
<1>1. head' \in Slots
  <2>1. head + count \in Nat
    BY QueueSizeAssumption DEF TypeOK, Slots
  <2>2. QED
    BY <2>1, ModSlot DEF queue_clear
<1>2. QED
  BY <1>1, SignalType, QueueSizeAssumption DEF TypeOK, queue_clear, Slots

LEMMA TypeStep == ASSUME TypeOK, [Next]_vars PROVE TypeOK'
<1> USE DEF TypeOK
<1>1. ASSUME NEW t \in Enqueuers, ReceiveNotify(t) PROVE TypeOK'
  BY <1>1 DEF ReceiveNotify, Goto, ring, Threads
<1>2. ASSUME NEW t \in Enqueuers, EnqueuerSteps(t) PROVE TypeOK'
  <2> t \in Threads BY DEF Threads
  <2>1. CASE CheckAny(t)
    BY <2>1 DEF CheckAny, Goto, ring
  <2>2. CASE ClearByTask(t)
    BY <2>2, ClearType DEF ClearByTask, Goto
  <2>3. CASE CheckFull(t)
    BY <2>3 DEF CheckFull, Goto, ring
  <2>4. CASE DropWaits(t)
    BY <2>4 DEF DropWaits, ring
  <2>5. CASE DropOldest(t)
    BY <2>5, RingType, SignalType DEF DropOldest, Goto
  <2>6. CASE EnqueueWaits(t)
    BY <2>6 DEF EnqueueWaits, ring
  <2>7. CASE Enqueue(t)
    BY <2>7, RingType, SignalType DEF Enqueue, Goto
  <2>8. QED
    BY <1>2, <2>1, <2>2, <2>3, <2>4, <2>5, <2>6, <2>7 DEF EnqueuerSteps
<1>3. ASSUME NEW c \in Consumers, ConsumerSteps(c) PROVE TypeOK'
  <2> c \in Threads BY DEF Threads
  <2>1. CASE DequeueWaits(c)
    BY <2>1 DEF DequeueWaits, ring
  <2>2. CASE DequeueTimesOut(c)
    BY <2>2 DEF DequeueTimesOut, ring
  <2>3. CASE DequeueGets(c)
    BY <2>3, RingType, SignalType DEF DequeueGets
  <2>4. CASE DequeueDiscards(c)
    BY <2>4, RingType, SignalType DEF DequeueDiscards
  <2>5. QED
    BY <1>3, <2>1, <2>2, <2>3, <2>4 DEF ConsumerSteps
<1>4. ASSUME NEW k \in Cleaners, ClearByCoordinator(k) PROVE TypeOK'
  BY <1>4, ClearType DEF ClearByCoordinator
<1>5. CASE UNCHANGED vars
  BY <1>5 DEF vars
<1>6. QED
  BY <1>1, <1>2, <1>3, <1>4, <1>5 DEF Next

LEMMA TypeInit == Init => TypeOK
  BY QueueSizeAssumption DEF Init, TypeOK, Slots, Threads

\* Every variable keeps its type; head, tail and count stay inside the ring.
THEOREM TypeCorrect == Spec => []TypeOK
  BY TypeInit, TypeStep, PTL DEF Spec
-----------------------------------------------------------------------------
(* The inductive invariant. *)

LEMMA WindowIsWindowAt == Window = WindowAt(head, count) /\ Window' = WindowAt(head', count')
  BY DEF Window, WindowAt

LEMMA InvInit == Init => IInv
<1> SUFFICES ASSUME Init PROVE IInv
  OBVIOUS
<1>1. Window = {}
  BY DEF Init, Window
<1>2. RingShape
  BY ModSmall, QueueSizeAssumption DEF Init, RingShape
<1>3. Program
  BY ThreadsAssumption DEF Init, Program, Threads
<1>4. Ownership
  BY <1>1 DEF Init, Ownership, RingLive, RingDistinct, HeldLive, HeldDistinct, NoLeak
<1>5. QED
  BY TypeInit, <1>2, <1>3, <1>4 DEF IInv

\* What each ring operation does to the window.
LEMMA PutWindow ==
  ASSUME TypeOK, RingShape, NEW i, count # QUEUE_SIZE, PutAtTail(i)
  PROVE  /\ RingShape'
         /\ Window' = Window \cup {tail} /\ tail \notin Window
         /\ \A s \in Window : buffer'[s] = buffer[s]
         /\ buffer'[tail] = i
<1>1. count \in 0 .. QUEUE_SIZE - 1 /\ head \in Slots /\ head' = head /\ count' = count + 1
  BY QueueSizeAssumption DEF TypeOK, PutAtTail
<1>2. Window' = Window \cup {tail} /\ tail \notin Window
  BY <1>1, WindowPut, WindowIsWindowAt DEF RingShape
<1>3. RingShape'
  <2>1. (tail + 1) % QUEUE_SIZE = (head + (count + 1)) % QUEUE_SIZE
    <3>1. CASE head + count < QUEUE_SIZE
      BY <1>1, <3>1, ModSmall, QueueSizeAssumption DEF RingShape, Slots
    <3>2. CASE head + count >= QUEUE_SIZE
      <4>1. tail = head + count - QUEUE_SIZE
        BY <1>1, <3>2, ModWrap, QueueSizeAssumption DEF RingShape, Slots
      <4>2. (tail + 1) % QUEUE_SIZE = tail + 1
        <5>1. tail + 1 \in 0 .. QUEUE_SIZE - 1
          BY <1>1, <3>2, <4>1, QueueSizeAssumption DEF Slots
        <5>2. QED
          BY <5>1, ModSmall
      <4>3. (head + (count + 1)) % QUEUE_SIZE = head + count + 1 - QUEUE_SIZE
        BY <1>1, <3>2, ModWrap, QueueSizeAssumption DEF Slots
      <4>4. QED
        BY <1>1, <4>1, <4>2, <4>3, QueueSizeAssumption DEF Slots
    <3>3. QED
      BY <1>1, <3>1, <3>2, QueueSizeAssumption DEF Slots
  <2>2. QED
    BY <1>1, <2>1 DEF RingShape, PutAtTail
<1>4. \A s \in Window : s # tail
  BY <1>2
<1>5. tail \in Slots /\ Window \subseteq Slots
  <2>1. \A k \in 0 .. count - 1 : head + k \in Nat
    BY <1>1, QueueSizeAssumption DEF Slots
  <2>2. \A k \in 0 .. count - 1 : (head + k) % QUEUE_SIZE \in Slots
    BY <2>1, ModSlot
  <2>3. QED
    BY <2>2 DEF TypeOK, Window
<1>6. QED
  BY <1>2, <1>3, <1>4, <1>5 DEF PutAtTail, TypeOK

LEMMA TakeWindow ==
  ASSUME TypeOK, RingShape, count > 0, TakeFromHead
  PROVE  /\ RingShape'
         /\ Window' = Window \ {head} /\ head \in Window
         /\ buffer' = buffer
<1>1. count \in 1 .. QUEUE_SIZE /\ head \in Slots
  BY QueueSizeAssumption DEF TypeOK
<1>2. head' = (head + 1) % QUEUE_SIZE /\ count' = count - 1 /\ tail' = tail /\ buffer' = buffer
  BY DEF TakeFromHead
<1>3. Window' = Window \ {head} /\ head \in Window
  BY <1>1, <1>2, WindowTake, WindowIsWindowAt
<1>4. (((head + 1) % QUEUE_SIZE) + (count - 1)) % QUEUE_SIZE = (head + count) % QUEUE_SIZE
  <2>1. CASE head + 1 < QUEUE_SIZE
    BY <1>1, <2>1, ModSmall, QueueSizeAssumption DEF Slots
  <2>2. CASE head + 1 = QUEUE_SIZE
    <3>1. (head + 1) % QUEUE_SIZE = 0
      BY <1>1, <2>2, ModWrap, QueueSizeAssumption DEF Slots
    <3>2. (count - 1) % QUEUE_SIZE = count - 1
      BY <1>1, ModSmall, QueueSizeAssumption
    <3>3. (head + count) % QUEUE_SIZE = head + count - QUEUE_SIZE
      BY <1>1, <2>2, ModWrap, QueueSizeAssumption DEF Slots
    <3>4. QED
      BY <1>1, <2>2, <3>1, <3>2, <3>3, QueueSizeAssumption DEF Slots
  <2>3. QED
    BY <1>1, <2>1, <2>2, QueueSizeAssumption DEF Slots
<1>5. RingShape'
  BY <1>2, <1>4 DEF RingShape
<1>6. QED
  BY <1>2, <1>3, <1>5

LEMMA ClearWindow ==
  ASSUME TypeOK, RingShape, queue_clear
  PROVE  RingShape' /\ Window' = {} /\ buffer' = buffer
<1>1. head' = tail /\ count' = 0 /\ tail' = tail
  BY DEF queue_clear, RingShape
<1>2. RingShape'
  BY <1>1, ModSmall, QueueSizeAssumption DEF RingShape, TypeOK, Slots
<1>3. QED
  BY <1>1, <1>2 DEF queue_clear, Window
-----------------------------------------------------------------------------
(* One lemma per way a step moves items between owners. *)

\* Nothing moves.
LEMMA SameOwners ==
  ASSUME IInv, UNCHANGED <<ring, held, heap>>
  PROVE  RingShape' /\ Ownership'
  BY DEF IInv, ring, RingShape, Ownership, RingLive, RingDistinct, HeldLive,
         HeldDistinct, NoLeak, Queued, Window

\* A fresh item goes to a thread that held nothing.
LEMMA OwnReceive ==
  ASSUME IInv, NEW t \in Enqueuers, ReceiveNotify(t)
  PROVE  RingShape' /\ Ownership'
<1> USE DEF IInv, TypeOK
<1>1. PICK i \in Items : /\ heap[i] = "unborn"
                         /\ heap' = [heap EXCEPT ![i] = "live"]
                         /\ held' = [held EXCEPT ![t] = i]
  BY DEF ReceiveNotify
<1>2. Window' = Window /\ buffer' = buffer /\ Queued' = Queued /\ RingShape'
  BY DEF ReceiveNotify, ring, Window, Queued, RingShape
<1>3. t \in Threads /\ held[t] = NULL
  BY DEF ReceiveNotify, Program, Threads
<1>4. i \notin Queued /\ i # NULL /\ \A u \in Threads : held[u] # i
  BY <1>1, ThreadsAssumption DEF Ownership, RingLive, HeldLive, Queued
<1>5. RingLive' /\ RingDistinct'
  BY <1>1, <1>2, <1>4 DEF Ownership, RingLive, RingDistinct
<1>6. HeldLive'
  BY <1>1, <1>2, <1>3, <1>4 DEF Ownership, HeldLive
<1>7. HeldDistinct'
  BY <1>1, <1>3, <1>4 DEF Ownership, HeldDistinct
<1>8. NoLeak'
  <2> SUFFICES ASSUME NEW j \in Items, heap'[j] = "live"
               PROVE  j \in Queued' \/ \E u \in Threads : held'[u] = j
    BY DEF NoLeak
  <2>1. CASE j = i
    BY <1>1, <1>3, <2>1
  <2>2. CASE j # i
    <3>1. heap[j] = "live"
      BY <1>1, <2>2
    <3>2. CASE j \in Queued
      BY <1>2, <3>2
    <3>3. CASE \E u \in Threads : held[u] = j
      BY <1>1, <1>3, <3>3, ThreadsAssumption
    <3>4. QED
      BY <3>1, <3>2, <3>3 DEF Ownership, NoLeak
  <2>3. QED
    BY <2>1, <2>2
<1>9. QED
  BY <1>2, <1>5, <1>6, <1>7, <1>8 DEF Ownership

\* The ring's items go to the allocator.
LEMMA OwnClear ==
  ASSUME IInv, queue_clear, held' = held
  PROVE  RingShape' /\ Ownership'
<1> USE DEF IInv, TypeOK
<1>1. RingShape' /\ Window' = {} /\ buffer' = buffer /\ Queued' = {}
  BY ClearWindow DEF Queued
<1>2. heap' = [i \in Items |-> IF i \in Queued THEN "freed" ELSE heap[i]]
  BY DEF queue_clear
<1>3. QED
  BY <1>1, <1>2 DEF Ownership, RingLive, RingDistinct, HeldLive, HeldDistinct, NoLeak

\* The item of the head slot goes to the allocator (out = TRUE) or to thread
\* t; the item that t held before goes to the allocator.
LEMMA OwnTake ==
  ASSUME IInv, count > 0, TakeFromHead, NEW t \in Threads, NEW freed \in SUBSET Items,
         heap' = [i \in Items |-> IF i \in freed THEN "freed" ELSE heap[i]],
         \/ freed = {buffer[head]} /\ held' = held
         \/ freed = {held[t]} \cap Items /\ held' = [held EXCEPT ![t] = buffer[head]]
         \/ freed = {held[t], buffer[head]} \cap Items /\ held' = [held EXCEPT ![t] = NULL]
  PROVE  RingShape' /\ Ownership'
<1> USE DEF IInv, TypeOK
<1> DEFINE x == buffer[head]
<1>1. RingShape' /\ Window' = Window \ {head} /\ head \in Window /\ buffer' = buffer
  BY TakeWindow
<1>2. x \in Items /\ x # NULL /\ heap[x] = "live" /\ x \in Queued
  BY <1>1, ThreadsAssumption DEF Ownership, RingLive, Queued
<1>3. Queued' = Queued \ {x}
  BY <1>1 DEF Queued, Ownership, RingDistinct
<1>4. \A u \in Threads : held[u] # x
  BY <1>2 DEF Ownership, HeldLive
<1>5. \A s \in Window' : buffer[s] # x /\ buffer[s] # held[t]
  BY <1>1, <1>2, ThreadsAssumption DEF Ownership, RingLive, RingDistinct, HeldLive, Queued
<1>6. RingLive'
  BY <1>1, <1>5 DEF Ownership, RingLive
<1>7. RingDistinct'
  BY <1>1 DEF Ownership, RingDistinct
<1>8. \A u \in Threads : u # t /\ held[u] # NULL => held[u] # held[t]
  BY DEF Ownership, HeldDistinct
<1>9. HeldLive'
  BY <1>2, <1>3, <1>4, <1>8 DEF Ownership, HeldLive
<1>10. HeldDistinct'
  BY <1>4, <1>2 DEF Ownership, HeldDistinct
<1>11. NoLeak'
  BY <1>2, <1>3 DEF Ownership, NoLeak
<1>12. QED
  BY <1>1, <1>6, <1>7, <1>9, <1>10, <1>11 DEF Ownership

\* A thread's item goes to the tail slot.
LEMMA OwnPut ==
  ASSUME IInv, NEW t \in Enqueuers, Enqueue(t)
  PROVE  RingShape' /\ Ownership'
<1> USE DEF IInv, TypeOK
<1> DEFINE x == held[t]
<1>1. t \in Threads /\ x \in Items /\ x # NULL
  BY ThreadsAssumption DEF Enqueue, Program, Threads
<1>2. /\ RingShape' /\ Window' = Window \cup {tail} /\ tail \notin Window
      /\ \A s \in Window : buffer'[s] = buffer[s]
      /\ buffer'[tail] = x
  BY PutWindow DEF Enqueue
<1>3. held' = [held EXCEPT ![t] = NULL] /\ heap' = heap
  BY DEF Enqueue
<1>4. heap[x] = "live" /\ x \notin Queued
  BY <1>1 DEF Ownership, HeldLive
<1>5. Queued' = Queued \cup {x}
  BY <1>2 DEF Queued
<1>6. RingLive'
  BY <1>1, <1>2, <1>3, <1>4 DEF Ownership, RingLive
<1>7. RingDistinct'
  BY <1>2, <1>4 DEF Ownership, RingDistinct, Queued
<1>8. HeldLive'
  BY <1>1, <1>3, <1>5 DEF Ownership, HeldLive, HeldDistinct
<1>9. HeldDistinct'
  BY <1>3 DEF Ownership, HeldDistinct
<1>10. NoLeak'
  BY <1>3, <1>5, <1>1 DEF Ownership, NoLeak
<1>11. QED
  BY <1>2, <1>6, <1>7, <1>8, <1>9, <1>10 DEF Ownership
-----------------------------------------------------------------------------
(* The steps. *)

\* Threads keep an item exactly between receiving and enqueueing it.
LEMMA ProgramStep == ASSUME IInv, [Next]_vars PROVE Program'
<1> USE DEF IInv, TypeOK, Program
<1>1. ASSUME NEW t \in Enqueuers, ReceiveNotify(t) PROVE Program'
  BY <1>1, ThreadsAssumption DEF ReceiveNotify, Goto, Threads
<1>2. ASSUME NEW t \in Enqueuers, EnqueuerSteps(t) PROVE Program'
  BY <1>2, ThreadsAssumption DEF EnqueuerSteps, CheckAny, ClearByTask, CheckFull,
     DropWaits, DropOldest, EnqueueWaits, Enqueue, Goto, Threads
<1>3. ASSUME NEW c \in Consumers, ConsumerSteps(c) PROVE Program'
  BY <1>3, ThreadsAssumption DEF ConsumerSteps, DequeueWaits, DequeueTimesOut,
     DequeueGets, DequeueDiscards, Threads
<1>4. ASSUME NEW k \in Cleaners, ClearByCoordinator(k) PROVE Program'
  BY <1>4 DEF ClearByCoordinator
<1>5. CASE UNCHANGED vars
  BY <1>5 DEF vars
<1>6. QED
  BY <1>1, <1>2, <1>3, <1>4, <1>5 DEF Next

LEMMA OwnershipStep == ASSUME IInv, [Next]_vars PROVE RingShape' /\ Ownership'
<1>1. ASSUME NEW t \in Enqueuers, ReceiveNotify(t) PROVE RingShape' /\ Ownership'
  BY <1>1, OwnReceive
<1>2. ASSUME NEW t \in Enqueuers, EnqueuerSteps(t) PROVE RingShape' /\ Ownership'
  <2>1. CASE CheckAny(t) \/ CheckFull(t) \/ DropWaits(t) \/ EnqueueWaits(t)
    BY <2>1, SameOwners DEF CheckAny, CheckFull, DropWaits, EnqueueWaits
  <2>2. CASE ClearByTask(t)
    BY <2>2, OwnClear DEF ClearByTask
  <2>3. CASE DropOldest(t)
    <3>1. t \in Threads /\ buffer[head] \in Items
      BY <2>3, TakeWindow DEF DropOldest, Threads, IInv, Ownership, RingLive
    <3>2. heap' = [i \in Items |-> IF i \in {buffer[head]} THEN "freed" ELSE heap[i]]
      BY <2>3, <3>1 DEF DropOldest, IInv, TypeOK
    <3>3. QED
      BY <2>3, <3>1, <3>2, OwnTake DEF DropOldest
  <2>4. CASE Enqueue(t)
    BY <2>4, OwnPut
  <2>5. QED
    BY <1>2, <2>1, <2>2, <2>3, <2>4 DEF EnqueuerSteps
<1>3. ASSUME NEW c \in Consumers, ConsumerSteps(c) PROVE RingShape' /\ Ownership'
  <2> c \in Threads BY DEF Threads
  <2>1. CASE DequeueWaits(c) \/ DequeueTimesOut(c)
    BY <2>1, SameOwners DEF DequeueWaits, DequeueTimesOut
  <2>2. CASE DequeueGets(c)
    <3> DEFINE freed == {held[c]} \cap Items
    <3>1. heap' = [i \in Items |-> IF i \in freed THEN "freed" ELSE heap[i]]
      BY <2>2 DEF DequeueGets
    <3>2. freed \in SUBSET Items
      OBVIOUS
    <3>3. QED
      BY <2>2, <3>1, <3>2, OwnTake DEF DequeueGets
  <2>3. CASE DequeueDiscards(c)
    <3> DEFINE freed == {held[c], buffer[head]} \cap Items
    <3>1. heap' = [i \in Items |-> IF i \in freed THEN "freed" ELSE heap[i]]
      BY <2>3 DEF DequeueDiscards
    <3>2. freed \in SUBSET Items
      OBVIOUS
    <3>3. QED
      BY <2>3, <3>1, <3>2, OwnTake DEF DequeueDiscards
  <2>4. QED
    BY <1>3, <2>1, <2>2, <2>3 DEF ConsumerSteps
<1>4. ASSUME NEW k \in Cleaners, ClearByCoordinator(k) PROVE RingShape' /\ Ownership'
  BY <1>4, OwnClear DEF ClearByCoordinator
<1>5. CASE UNCHANGED vars
  BY <1>5, SameOwners DEF vars, ring
<1>6. QED
  BY <1>1, <1>2, <1>3, <1>4, <1>5 DEF Next

LEMMA InvStep == ASSUME IInv, [Next]_vars PROVE IInv'
  BY TypeStep, ProgramStep, OwnershipStep DEF IInv

\* Memory safety of the hand-over: in every reachable state of every instance
\* each live item has exactly one owner and nobody refers to a freed one.
THEOREM OwnershipHolds == Spec => []Ownership
<1>1. Init => IInv
  BY InvInit
<1>2. IInv /\ [Next]_vars => IInv'
  BY InvStep
<1>3. IInv => Ownership
  BY DEF IInv
<1>4. QED
  BY <1>1, <1>2, <1>3, PTL DEF Spec

\* Each step keeps some task away from the wait for room.
LEMMA RoomStep == ASSUME TypeOK, Room, [Next]_vars PROVE Room'
<1> USE DEF TypeOK
<1>1. /\ count \in 0 .. QUEUE_SIZE /\ QUEUE_SIZE \in Nat \ {0}
      /\ \A t \in Enqueuers : t \in Threads /\ t \notin Consumers
      /\ \A c \in Consumers : c \in Threads /\ c \notin Enqueuers
  BY QueueSizeAssumption, ThreadsAssumption DEF Threads
<1>2. SignalNotFull => notFull' \subseteq notFull
  BY DEF SignalNotFull
\* A step that signals, or leaves the waiters alone, and moves no task to the put
\* but one that has just made room.
<1>3. ASSUME notFull' \subseteq notFull, count' # QUEUE_SIZE,
             \A t \in notFull' : pc'[t] = pc[t]
      PROVE  Room'
  BY <1>3 DEF Room
<1>4. ASSUME NEW t \in Enqueuers, ReceiveNotify(t) PROVE Room'
  BY <1>1, <1>4 DEF ReceiveNotify, Goto, Room, ring
<1>5. ASSUME NEW t \in Enqueuers, EnqueuerSteps(t) PROVE Room'
  <2>1. CASE CheckAny(t)
    BY <1>1, <2>1 DEF CheckAny, Goto, Room, ring
  <2>2. CASE ClearByTask(t)
    BY <1>1, <1>2, <1>3, <2>2 DEF ClearByTask, queue_clear, Goto, Room
  <2>3. CASE CheckFull(t)
    BY <1>1, <2>3 DEF CheckFull, Goto, Room, ring
  <2>4. CASE DropWaits(t)
    BY <1>1, <2>4 DEF DropWaits, Room, ring
  <2>5. CASE DropOldest(t)
    BY <1>1, <1>2, <1>3, <2>5 DEF DropOldest, TakeFromHead, Goto, Room
  <2>6. CASE EnqueueWaits(t)
    BY <1>1, <2>6 DEF EnqueueWaits, Room, ring
  <2>7. CASE Enqueue(t)
    BY <1>1, <2>7 DEF Enqueue, Goto, Room
  <2>8. QED
    BY <1>5, <2>1, <2>2, <2>3, <2>4, <2>5, <2>6, <2>7 DEF EnqueuerSteps
<1>6. ASSUME NEW c \in Consumers, ConsumerSteps(c) PROVE Room'
  <2>1. CASE DequeueWaits(c) \/ DequeueTimesOut(c)
    BY <2>1 DEF DequeueWaits, DequeueTimesOut, Room, ring
  <2>2. CASE DequeueGets(c) \/ DequeueDiscards(c)
    BY <1>1, <1>2, <1>3, <2>2 DEF DequeueGets, DequeueDiscards, TakeFromHead
  <2>3. QED
    BY <1>6, <2>1, <2>2 DEF ConsumerSteps
<1>7. ASSUME NEW k \in Cleaners, ClearByCoordinator(k) PROVE Room'
  BY <1>1, <1>2, <1>3, <1>7 DEF ClearByCoordinator, queue_clear
<1>8. CASE UNCHANGED vars
  BY <1>8 DEF vars, Room
<1>9. QED
  BY <1>4, <1>5, <1>6, <1>7, <1>8 DEF Next

\* The unlocked reads of count cannot block the protocol tasks against each
\* other: at every moment one of them does not wait for room.
THEOREM RoomForSome == Spec => []NotAllWaitForRoom
<1>1. Init => TypeOK /\ Room
  BY TypeInit, QueueSizeAssumption DEF Init, Room
<1>2. TypeOK /\ Room /\ [Next]_vars => (TypeOK /\ Room)'
  BY TypeStep, RoomStep
<1>3. Room => NotAllWaitForRoom
  BY DEF Room, NotAllWaitForRoom
<1>4. QED
  BY <1>1, <1>2, <1>3, PTL DEF Spec
-----------------------------------------------------------------------------
(* No wakeup is lost. *)

\* How the number of those awake follows their set.
LEMMA AwakeNumber ==
  ASSUME TypeOK, TypeOK'
  PROVE  /\ Cardinality(Awake) \in Nat /\ Cardinality(Awake') \in Nat
         /\ Awake \subseteq Awake' => Cardinality(Awake) <= Cardinality(Awake')
         /\ \A t \in Threads : t \notin Awake /\ Awake' = Awake \cup {t}
              => Cardinality(Awake') = Cardinality(Awake) + 1
         /\ \A t \in Threads : t \in Awake /\ Awake' = Awake \ {t}
              => Cardinality(Awake') = Cardinality(Awake) - 1
<1>1. Awake \subseteq Threads /\ Awake' \subseteq Threads
  BY DEF Awake
<1>2. IsFiniteSet(Awake) /\ IsFiniteSet(Awake')
  BY <1>1, FiniteThreadsAssumption, FS_Subset DEF Threads
<1>3. Cardinality(Awake) \in Nat /\ Cardinality(Awake') \in Nat
  BY <1>2, FS_CardinalityType
<1>4. Awake \subseteq Awake' => Cardinality(Awake) <= Cardinality(Awake')
  BY <1>2, FS_Subset
<1>5. ASSUME NEW t \in Threads, t \notin Awake, Awake' = Awake \cup {t}
      PROVE  Cardinality(Awake') = Cardinality(Awake) + 1
  BY <1>2, <1>5, FS_AddElement
<1>6. ASSUME NEW t \in Threads, t \in Awake, Awake' = Awake \ {t}
      PROVE  Cardinality(Awake') = Cardinality(Awake) - 1
  BY <1>2, <1>6, FS_RemoveElement
<1> QED BY <1>3, <1>4, <1>5, <1>6

\* An item comes with a signal, and whoever takes one stays awake or had no other to take.
LEMMA EnoughStep == ASSUME TypeOK, Program, Enough, [Next]_vars PROVE Enough'
<1> USE DEF TypeOK
<1>1. /\ count \in Nat /\ TypeOK' /\ QUEUE_SIZE \in Nat
      /\ \A t \in Enqueuers : t \in Threads /\ t \notin Consumers
      /\ \A c \in Consumers : c \in Threads /\ c \notin Enqueuers
  BY QueueSizeAssumption, ThreadsAssumption, TypeStep DEF Threads
<1>2. /\ Cardinality(Awake) \in Nat /\ Cardinality(Awake') \in Nat
      /\ Awake \subseteq Awake' => Cardinality(Awake) <= Cardinality(Awake')
      /\ \A t \in Threads : t \notin Awake /\ Awake' = Awake \cup {t}
              => Cardinality(Awake') = Cardinality(Awake) + 1
      /\ \A t \in Threads : t \in Awake /\ Awake' = Awake \ {t}
              => Cardinality(Awake') = Cardinality(Awake) - 1
  BY <1>1, AwakeNumber
\* A step that takes nobody away and adds no item.
<1>3. ASSUME Awake \subseteq Awake', notEmpty' \subseteq notEmpty, count' <= count, count' \in Nat,
             \A t \in notEmpty' : pc'[t] = pc[t]
      PROVE  Enough'
  BY <1>1, <1>2, <1>3 DEF Enough
<1>4. ASSUME NEW t \in Enqueuers, ReceiveNotify(t) PROVE Enough'
  <2>1. /\ pc[t] = "recv" /\ t \in Threads /\ notEmpty' = notEmpty /\ count' = count
        /\ \A u \in Threads : u # t => pc'[u] = pc[u]
    BY <1>1, <1>4 DEF ReceiveNotify, Goto, ring
  <2>2. t \notin notEmpty
    BY <2>1 DEF Enough
  <2>3. Awake \subseteq Awake'
    BY <2>1 DEF Awake
  <2> QED BY <1>1, <1>3, <2>1, <2>2, <2>3
<1>5. ASSUME NEW t \in Enqueuers, EnqueuerSteps(t) PROVE Enough'
  <2> t \in Threads
    BY <1>1
  <2>1. CASE CheckAny(t) \/ CheckFull(t)
    <3>1. /\ pc[t] \notin {"drop", "dequeue"} /\ notEmpty' = notEmpty /\ count' = count
          /\ \A u \in Threads : u # t => pc'[u] = pc[u]
      BY <2>1 DEF CheckAny, CheckFull, Goto, ring
    <3>2. t \notin notEmpty
      BY <3>1 DEF Enough
    <3>3. Awake \subseteq Awake'
      BY <3>1 DEF Awake
    <3> QED BY <1>1, <1>3, <3>1, <3>2, <3>3
  <2>2. CASE ClearByTask(t)
    <3>1. /\ pc[t] = "clear" /\ notEmpty' = notEmpty /\ count' = 0
          /\ \A u \in Threads : u # t => pc'[u] = pc[u]
      BY <2>2 DEF ClearByTask, queue_clear, Goto
    <3>2. t \notin notEmpty
      BY <3>1 DEF Enough
    <3>3. Awake \subseteq Awake'
      BY <3>1 DEF Awake
    <3> QED BY <1>1, <1>3, <3>1, <3>2, <3>3
  <2>3. CASE DropWaits(t)
    BY <1>1, <1>2, <2>3 DEF DropWaits, ring, Enough
  <2>4. CASE DropOldest(t)
    <3>1. /\ pc[t] = "drop" /\ t \notin notEmpty /\ notEmpty' = notEmpty /\ count' = count - 1
          /\ pc' = [pc EXCEPT ![t] = "enqueue"]
      BY <2>4 DEF DropOldest, TakeFromHead, Goto
    <3>2. t \in Awake /\ Awake' = Awake \ {t}
      BY <3>1 DEF Awake
    <3>3. Cardinality(Awake') = Cardinality(Awake) - 1
      BY <1>2, <3>2
    <3> QED BY <1>1, <1>2, <3>1, <3>3 DEF Enough
  <2>5. CASE EnqueueWaits(t)
    <3>1. pc' = pc /\ notEmpty' = notEmpty /\ count' = count
      BY <2>5 DEF EnqueueWaits, ring
    <3> QED BY <1>1, <1>3, <3>1 DEF Awake
  <2>6. CASE Enqueue(t)
    <3>1. /\ pc[t] = "enqueue" /\ count' = count + 1 /\ SignalNotEmpty
          /\ pc' = [pc EXCEPT ![t] = "recv"]
      BY <2>6 DEF Enqueue, PutAtTail, Goto
    <3>2. CASE notEmpty = {}
      BY <3>1, <3>2 DEF SignalNotEmpty, Enough
    <3>3. CASE notEmpty # {}
      <4>1. PICK w \in notEmpty : notEmpty' = notEmpty \ {w}
        BY <3>1, <3>3 DEF SignalNotEmpty
      <4>2. w \in Threads /\ pc[w] \in {"drop", "dequeue"} /\ w # t /\ w \notin Awake
        BY <3>1, <4>1 DEF Enough, Awake
      <4>3. Awake' = Awake \cup {w}
        BY <3>1, <4>1, <4>2 DEF Awake
      <4>4. Cardinality(Awake') = Cardinality(Awake) + 1
        BY <1>2, <4>2, <4>3
      <4> QED BY <1>1, <1>2, <3>1, <3>3, <4>1, <4>4 DEF Enough
    <3> QED BY <3>2, <3>3
  <2> QED BY <1>5, <2>1, <2>2, <2>3, <2>4, <2>5, <2>6 DEF EnqueuerSteps
<1>6. ASSUME NEW c \in Consumers, ConsumerSteps(c) PROVE Enough'
  <2> c \in Threads
    BY <1>1
  <2>1. CASE DequeueWaits(c)
    BY <1>1, <1>2, <2>1 DEF DequeueWaits, ring, Enough
  <2>2. CASE DequeueTimesOut(c)
    <3>1. pc' = pc /\ notEmpty' \subseteq notEmpty /\ count' = count
      BY <2>2 DEF DequeueTimesOut, ring
    <3> QED BY <1>1, <1>3, <3>1 DEF Awake
  <2>3. CASE DequeueGets(c) \/ DequeueDiscards(c)
    <3>1. pc' = pc /\ notEmpty' = notEmpty /\ count > 0 /\ count' = count - 1
      BY <2>3 DEF DequeueGets, DequeueDiscards, TakeFromHead
    <3> QED BY <1>1, <1>3, <3>1 DEF Awake
  <2> QED BY <1>6, <2>1, <2>2, <2>3 DEF ConsumerSteps
<1>7. ASSUME NEW k \in Cleaners, ClearByCoordinator(k) PROVE Enough'
  <2>1. pc' = pc /\ notEmpty' = notEmpty /\ count' = 0
    BY <1>7 DEF ClearByCoordinator, queue_clear
  <2> QED BY <1>1, <1>3, <2>1 DEF Awake
<1>8. CASE UNCHANGED vars
  <2>1. pc' = pc /\ notEmpty' = notEmpty /\ count' = count
    BY <1>8 DEF vars
  <2> QED BY <1>1, <1>3, <2>1 DEF Awake
<1> QED BY <1>4, <1>5, <1>6, <1>7, <1>8 DEF Next

\* queue_enqueue's one signal suffices: whoever sleeps on not_empty beside a queued item
\* leaves it to somebody awake.
THEOREM NoWakeupIsLost == Spec => []NoLostWakeup
<1>1. Init => TypeOK /\ Enough
  BY TypeInit DEF Init, Enough
<1>2. IInv /\ Enough /\ [Next]_vars => Enough'
  BY EnoughStep DEF IInv
<1>3. TypeOK /\ Enough => NoLostWakeup
  <2> SUFFICES ASSUME TypeOK, Enough, count > 0, notEmpty # {}
               PROVE  \E t \in Threads : pc[t] \in {"drop", "dequeue"} /\ t \notin notEmpty
    BY DEF NoLostWakeup
  <2>1. count \in Nat /\ count <= Cardinality(Awake)
    BY QueueSizeAssumption DEF TypeOK, Enough
  <2>2. Awake # {}
    BY <2>1, FS_EmptySet
  <2> QED BY <2>2 DEF Awake
<1>4. IInv => TypeOK
  BY DEF IInv
<1> QED BY <1>1, <1>2, <1>3, <1>4, InvInit, InvStep, PTL DEF Spec
-----------------------------------------------------------------------------
(* The ring implements the FIFO. *)

Pointers == Items \cup {NULL}

\* The contents are a sequence of pointers, as long as count says.
LEMMA ContentsType ==
  ASSUME TypeOK
  PROVE  /\ Contents \in Seq(Pointers) /\ Len(Contents) = count
         /\ \A k \in 1 .. count : Contents[k] = buffer[(head + k - 1) % QUEUE_SIZE]
<1>1. head \in Slots /\ count \in Nat /\ buffer \in [Slots -> Pointers]
  BY QueueSizeAssumption DEF TypeOK, Pointers
<1>2. \A k \in 1 .. count : (head + k - 1) % QUEUE_SIZE \in Slots
  <2>1. \A k \in 1 .. count : head + k - 1 \in Nat
    BY <1>1, QueueSizeAssumption DEF Slots
  <2>2. QED
    BY <2>1, ModSlot
<1>3. Contents \in [1 .. count -> Pointers]
  BY <1>1, <1>2 DEF Contents
<1>4. QED
  BY <1>1, <1>3 DEF Contents

\* A put appends to the contents.
LEMMA PutAppends ==
  ASSUME TypeOK, TypeOK', RingShape, NEW i \in Items, count # QUEUE_SIZE, PutAtTail(i)
  PROVE  Contents' = Append(Contents, i) /\ Len(Contents) < QUEUE_SIZE
<1>1. count \in 0 .. QUEUE_SIZE - 1 /\ head \in Slots /\ tail \in Slots
      /\ head' = head /\ count' = count + 1 /\ i \in Pointers
  BY QueueSizeAssumption DEF TypeOK, PutAtTail, Pointers
<1>2. /\ Contents \in Seq(Pointers) /\ Len(Contents) = count
      /\ \A k \in 1 .. count : Contents[k] = buffer[(head + k - 1) % QUEUE_SIZE]
  BY ContentsType
<1>3. /\ Contents' \in Seq(Pointers) /\ Len(Contents') = count + 1
      /\ \A k \in 1 .. count + 1 : Contents'[k] = buffer'[(head + k - 1) % QUEUE_SIZE]
  <2>1. Contents' = [k \in 1 .. count' |-> buffer'[(head' + k - 1) % QUEUE_SIZE]]
    BY DEF Contents
  <2>2. \A k \in 1 .. count + 1 : (head + k - 1) % QUEUE_SIZE \in Slots
    <3>1. \A k \in 1 .. count + 1 : head + k - 1 \in Nat
      BY <1>1, QueueSizeAssumption DEF Slots
    <3>2. QED
      BY <3>1, ModSlot
  <2>3. buffer' \in [Slots -> Pointers]
    BY DEF TypeOK, Pointers
  <2>4. Contents' \in [1 .. count + 1 -> Pointers]
    BY <1>1, <2>1, <2>2, <2>3
  <2>5. QED
    BY <1>1, <2>1, <2>4, QueueSizeAssumption
<1>4. buffer'[tail] = i /\ \A s \in Slots \ {tail} : buffer'[s] = buffer[s]
  BY <1>1 DEF PutAtTail, TypeOK
<1>5. \A k \in 1 .. count : Contents'[k] = Contents[k]
  <2>1. TAKE k \in 1 .. count
  <2>2. /\ k - 1 \in Slots /\ count \in Slots /\ k - 1 # count /\ head + k - 1 = head + (k - 1)
        /\ k \in 1 .. count + 1 /\ head + k - 1 \in Nat
    BY <1>1, QueueSizeAssumption DEF Slots
  <2>3. (head + k - 1) % QUEUE_SIZE # tail
    BY <1>1, <2>2, ModInjective DEF RingShape
  <2>4. (head + k - 1) % QUEUE_SIZE \in Slots
    BY <2>2, ModSlot
  <2>5. QED
    BY <1>2, <1>3, <1>4, <2>2, <2>3, <2>4
<1>6. Contents'[count + 1] = i
  <2>1. count + 1 \in 1 .. count + 1 /\ head + (count + 1) - 1 = head + count
    BY <1>1, QueueSizeAssumption DEF Slots
  <2>2. QED
    BY <1>3, <1>4, <2>1 DEF RingShape
<1>7. /\ Append(Contents, i) \in Seq(Pointers) /\ Len(Append(Contents, i)) = count + 1
      /\ \A k \in 1 .. count : Append(Contents, i)[k] = Contents[k]
      /\ Append(Contents, i)[count + 1] = i
  BY <1>1, <1>2, AppendProperties
<1>8. \A k \in 1 .. count + 1 : Contents'[k] = Append(Contents, i)[k]
  <2>1. \A k \in 1 .. count + 1 : k \in 1 .. count \/ k = count + 1
    BY <1>1, QueueSizeAssumption
  <2>2. QED
    BY <1>5, <1>6, <1>7, <2>1
<1>9. Contents' = Append(Contents, i)
  BY <1>3, <1>7, <1>8, SeqEqual
<1>10. QED
  BY <1>1, <1>2, <1>9, QueueSizeAssumption

\* A take removes the first of the contents.
LEMMA TakeIsTail ==
  ASSUME TypeOK, TypeOK', count > 0, TakeFromHead
  PROVE  Contents # <<>> /\ Contents' = Tail(Contents)
<1>1. count \in 1 .. QUEUE_SIZE /\ head \in Slots /\ buffer' = buffer
      /\ head' = (head + 1) % QUEUE_SIZE /\ count' = count - 1
  BY QueueSizeAssumption DEF TypeOK, TakeFromHead
<1>2. /\ Contents \in Seq(Pointers) /\ Len(Contents) = count
      /\ \A k \in 1 .. count : Contents[k] = buffer[(head + k - 1) % QUEUE_SIZE]
  BY ContentsType
<1>3. Contents # <<>>
  BY <1>1, <1>2
<1>4. /\ Tail(Contents) \in Seq(Pointers) /\ Len(Tail(Contents)) = count - 1
      /\ \A k \in 1 .. count - 1 : Tail(Contents)[k] = Contents[k + 1]
  BY <1>2, <1>3, HeadTailProperties
<1>5. Contents' = [k \in 1 .. count - 1 |-> buffer[(((head + 1) % QUEUE_SIZE) + k - 1) % QUEUE_SIZE]]
  BY <1>1 DEF Contents
<1>6. \A k \in 1 .. count - 1 :
        buffer[(((head + 1) % QUEUE_SIZE) + k - 1) % QUEUE_SIZE] = Contents[k + 1]
  <2>1. TAKE k \in 1 .. count - 1
  <2>2. /\ k - 1 \in 0 .. QUEUE_SIZE - 2 /\ k + 1 \in 1 .. count
        /\ head + (k + 1) - 1 = head + ((k - 1) + 1)
    BY <1>1, QueueSizeAssumption DEF Slots
  <2>3. (head + 1) % QUEUE_SIZE \in Slots
    BY <1>1, ModSlot, QueueSizeAssumption DEF Slots
  <2>4. ((head + 1) % QUEUE_SIZE) + k - 1 = ((head + 1) % QUEUE_SIZE) + (k - 1)
    BY <2>3, QueueSizeAssumption DEF Slots
  <2>5. (((head + 1) % QUEUE_SIZE) + (k - 1)) % QUEUE_SIZE = (head + ((k - 1) + 1)) % QUEUE_SIZE
    BY <1>1, <2>2, ModShift
  <2>6. QED
    BY <1>2, <2>2, <2>4, <2>5
<1>7. Contents' = [k \in 1 .. count - 1 |-> Contents[k + 1]]
  BY <1>5, <1>6
<1>8. Contents' \in Seq(Pointers) /\ Len(Contents') = count - 1
  <2>1. \A k \in 1 .. count - 1 : k + 1 \in 1 .. count /\ Contents[k + 1] \in Pointers
    BY <1>1, <1>2, QueueSizeAssumption
  <2>2. count - 1 \in Nat
    BY <1>1, QueueSizeAssumption
  <2>3. QED
    BY <1>7, <2>1, <2>2
<1>9. \A k \in 1 .. count - 1 : Contents'[k] = Tail(Contents)[k]
  BY <1>4, <1>7
<1>10. Contents' = Tail(Contents)
  BY <1>4, <1>8, <1>9, SeqEqual
<1>11. QED
  BY <1>3, <1>10

\* A clear leaves nothing.
LEMMA ClearFlushes == ASSUME queue_clear PROVE Contents' = <<>>
<1>1. count' = 0
  BY DEF queue_clear
<1>2. Contents' = [k \in 1 .. 0 |-> buffer'[(head' + k - 1) % QUEUE_SIZE]]
  BY <1>1 DEF Contents
<1>3. 1 .. 0 = {}
  OBVIOUS
<1>4. QED
  BY <1>2, <1>3

\* Every step of the ring is one of the FIFO, or none.
LEMMA FifoStep == ASSUME IInv, [Next]_vars PROVE [Fifo!Next]_Contents
<1>1. TypeOK /\ TypeOK' /\ RingShape /\ Program
  BY TypeStep DEF IInv
<1>2. CASE UNCHANGED ring
  BY <1>2 DEF ring, Contents
<1>3. CASE queue_clear
  BY <1>3, ClearFlushes DEF Fifo!Next, Fifo!Flush
<1>4. CASE count > 0 /\ TakeFromHead
  BY <1>1, <1>4, TakeIsTail DEF Fifo!Next, Fifo!Get
<1>5. CASE \E t \in Enqueuers : Enqueue(t)
  <2>1. PICK t \in Enqueuers : Enqueue(t)
    BY <1>5
  <2>2. held[t] \in Items
    BY <1>1, <2>1 DEF Enqueue, Program, TypeOK, Threads
  <2>3. Contents' = Append(Contents, held[t]) /\ Len(Contents) < QUEUE_SIZE
    BY <1>1, <2>1, <2>2, PutAppends DEF Enqueue
  <2>4. QED
    BY <2>2, <2>3 DEF Fifo!Next, Fifo!Put
<1>6. ASSUME NEW t \in Enqueuers, ReceiveNotify(t) \/ EnqueuerSteps(t)
      PROVE  UNCHANGED ring \/ queue_clear \/ (count > 0 /\ TakeFromHead) \/ Enqueue(t)
  BY <1>6 DEF ReceiveNotify, EnqueuerSteps, CheckAny, ClearByTask, CheckFull, DropWaits,
              DropOldest, EnqueueWaits
<1>7. ASSUME NEW c \in Consumers, ConsumerSteps(c)
      PROVE  UNCHANGED ring \/ (count > 0 /\ TakeFromHead)
  BY <1>7 DEF ConsumerSteps, DequeueWaits, DequeueTimesOut, DequeueGets, DequeueDiscards
<1>8. CASE \E k \in Cleaners : ClearByCoordinator(k)
  BY <1>3, <1>8 DEF ClearByCoordinator
<1>9. CASE UNCHANGED vars
  BY <1>2, <1>9 DEF vars, ring
<1>10. QED
  BY <1>2, <1>3, <1>4, <1>5, <1>6, <1>7, <1>8, <1>9 DEF Next

\* The ring and its condition variables implement the bounded FIFO, for every capacity
\* and any number of enqueuers, consumers and cleaners.
THEOREM RingIsFifo == Spec => FifoSpec
<1>1. Init => IInv /\ Fifo!Init
  <2>1. ASSUME Init PROVE Contents = <<>>
    <3>1. Contents = [k \in 1 .. 0 |-> buffer[(head + k - 1) % QUEUE_SIZE]]
      BY <2>1 DEF Init, Contents
    <3>2. 1 .. 0 = {}
      OBVIOUS
    <3>3. QED
      BY <3>1, <3>2
  <2>2. QED
    BY <2>1, InvInit DEF Fifo!Init
<1>2. IInv /\ [Next]_vars => IInv'
  BY InvStep
<1>3. IInv /\ [Next]_vars => [Fifo!Next]_Contents
  BY FifoStep
<1>4. QED
  BY <1>1, <1>2, <1>3, PTL DEF Spec, FifoSpec, Fifo!Spec
=============================================================================
