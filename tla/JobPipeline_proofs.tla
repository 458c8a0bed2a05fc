-------------------------- MODULE JobPipeline_proofs --------------------------
(***************************************************************************)
(* Theorems of JobPipeline.  The inductive invariant says where every job  *)
(* is on its way to the chip: the queue holds increasing job numbers, all  *)
(* above the current work's, and everything the chip has seen is at most   *)
(* the current work; within the current work it is at most the             *)
(* extranonce_2 that comes next.                                           *)
(***************************************************************************)
EXTENDS JobPipeline, TLAPS

\* A work is only built from a job, and jobs are numbered from 1.
HasWork == jobs.pc = "generate" => jobs.cur # 0

QueueAhead ==
  /\ jobs.cur <= announced
  /\ \A i \in 1 .. Len(queue) : queue[i].job <= announced /\ jobs.cur < queue[i].job
  /\ \A i, j \in 1 .. Len(queue) : i < j => queue[i].job < queue[j].job

SentBehind == /\ \A w \in sent : w.job <= jobs.cur
              /\ chip.work # NoWork => \A w \in sent : w.job <= chip.work.job

IInv == TypeOK /\ HasWork /\ QueueAhead /\ SentBehind

\* Of the current work, the chip has seen smaller values of extranonce_2 only, or,
\* on a standard channel, nothing that is about to be built.
EveryWorkIsNew ==
  \A w \in sent : w.job = jobs.cur =>
    IF Kind = "STD" THEN jobs.pc # "generate" ELSE w.en2 < jobs.en2

\* Without an extranonce change extranonce_2 is never reset for the same job.
NeverReset == pool.en1 = 0 /\ handler # "en2" /\ "en2" \notin flags

UInv == IInv /\ EveryWorkIsNew /\ NeverReset
-----------------------------------------------------------------------------
\* Enqueue keeps a bounded sequence of items one.
LEMMA EnqueueType ==
  ASSUME NEW q \in Seq(Item), Len(q) <= QUEUE_SIZE, NEW it \in Item
  PROVE  Enqueue(q, it) \in Seq(Item) /\ Len(Enqueue(q, it)) <= QUEUE_SIZE
BY PipelineAssumption DEF Enqueue

\* The same for the slots.
LEMMA PushType ==
  ASSUME NEW s \in Seq(Work), Len(s) <= SLOTS, NEW w \in Work
  PROVE  Push(s, w) \in Seq(Work) /\ Len(Push(s, w)) <= SLOTS
BY PipelineAssumption DEF Push

\* Appending a newest job keeps the queue ordered, above cur and below the job.
LEMMA AppendOrder ==
  ASSUME NEW q \in Seq(Item), NEW it \in Item, NEW c \in Nat,
         c < it.job,
         \A i \in 1 .. Len(q) : q[i].job < it.job /\ c < q[i].job,
         \A i, j \in 1 .. Len(q) : i < j => q[i].job < q[j].job
  PROVE  LET e == Append(q, it)
         IN /\ \A i \in 1 .. Len(e) : e[i].job <= it.job /\ c < e[i].job
            /\ \A i, j \in 1 .. Len(e) : i < j => e[i].job < e[j].job
<1> DEFINE e == Append(q, it)
<1>1. Len(e) = Len(q) + 1 /\ Len(q) \in Nat /\ e[Len(q) + 1] = it
      /\ \A i \in 1 .. Len(q) : e[i] = q[i]
  OBVIOUS
<1>a. \A i \in 1 .. Len(q) : q[i] \in Item
  OBVIOUS
<1>2. \A i \in 1 .. Len(q) : q[i].job \in Nat
  BY <1>a DEF Item
<1>3. it.job \in Nat
  BY DEF Item
<1> HIDE DEF e
<1>4. \A i \in 1 .. Len(e) : i \in 1 .. Len(q) \/ i = Len(q) + 1
  BY <1>1
<1>5. \A i \in 1 .. Len(e) : e[i].job <= it.job /\ c < e[i].job
  BY <1>1, <1>2, <1>3, <1>4
<1>6. ASSUME NEW i \in 1 .. Len(e), NEW j \in 1 .. Len(e), i < j PROVE e[i].job < e[j].job
  <2>1. i \in 1 .. Len(q)
    BY <1>1, <1>6
  <2>2. CASE j \in 1 .. Len(q)
    BY <1>1, <2>1, <2>2, <1>6
  <2>3. CASE j = Len(q) + 1
    BY <1>1, <2>1, <2>3
  <2> QED BY <1>4, <2>2, <2>3
<1> QED BY <1>5, <1>6 DEF e

\* Enqueueing a newest job keeps the queue ordered, above cur and below n.
LEMMA EnqueueOrder ==
  ASSUME NEW q \in Seq(Item), NEW it \in Item, NEW c \in Nat,
         c < it.job,
         \A i \in 1 .. Len(q) : q[i].job < it.job /\ c < q[i].job,
         \A i, j \in 1 .. Len(q) : i < j => q[i].job < q[j].job
  PROVE  LET e == Enqueue(q, it)
         IN /\ \A i \in 1 .. Len(e) : e[i].job <= it.job /\ c < e[i].job
            /\ \A i, j \in 1 .. Len(e) : i < j => e[i].job < e[j].job
<1>1. \A i \in 1 .. Len(q) : q[i] \in Item
  OBVIOUS
<1>2. CASE Len(q) = QUEUE_SIZE
  <2> DEFINE t == Tail(q)
  <2>1. Len(q) > 0
    BY <1>2, PipelineAssumption
  <2>2. t \in Seq(Item) /\ Len(t) = Len(q) - 1 /\ \A i \in 1 .. Len(t) : t[i] = q[i + 1]
    BY <2>1
  <2> HIDE DEF t
  <2>3. Enqueue(q, it) = Append(t, it)
    BY <1>2 DEF Enqueue, t
  <2>4. \A i \in 1 .. Len(t) : t[i].job < it.job /\ c < t[i].job
    BY <2>2
  <2>5. ASSUME NEW i \in 1 .. Len(t), NEW j \in 1 .. Len(t), i < j PROVE t[i].job < t[j].job
    <3>1. /\ t[i] = q[i + 1] /\ t[j] = q[j + 1] /\ i + 1 < j + 1
          /\ i + 1 \in 1 .. Len(q) /\ j + 1 \in 1 .. Len(q)
      BY <2>2, <2>5
    <3> QED BY <3>1
  <2> QED BY <2>2, <2>3, <2>4, <2>5, AppendOrder
<1>3. CASE Len(q) # QUEUE_SIZE
  <2>1. Enqueue(q, it) = Append(q, it)
    BY <1>3 DEF Enqueue
  <2> QED BY <2>1, AppendOrder
<1> QED BY <1>2, <1>3

\* Initially the invariant holds.
LEMMA InitInv == Init => IInv /\ EveryWorkIsNew /\ NeverReset
<1> SUFFICES ASSUME Init PROVE IInv /\ EveryWorkIsNew /\ NeverReset
  OBVIOUS
<1>1. TypeOK
  BY PipelineAssumption DEF Init, TypeOK, Item, Work, NoWork, Settings, DEFAULT
<1>2. HasWork /\ QueueAhead /\ SentBehind
  BY DEF Init, HasWork, QueueAhead, SentBehind, NoWork
<1>3. EveryWorkIsNew /\ NeverReset
  BY DEF Init, EveryWorkIsNew, NeverReset
<1> QED BY <1>1, <1>2, <1>3 DEF IInv
-----------------------------------------------------------------------------
USE DEF Settings, DEFAULT

\* The type invariant in parts, each with what its preservation needs.
CounterTypes == /\ announced \in 0 .. MaxJobs /\ cleanAt \in 0 .. MaxJobs
                /\ cycles \in 0 .. MaxCycles
PoolTypes ==
  /\ pool \in [diff : 0 .. MaxSettings, mask : 0 .. MaxSettings, en1 : 0 .. MaxExtranonces]
  /\ handler \in Settings \cup {"en2", "idle"} /\ flags \subseteq Settings \cup {"en2"}
QueueTypes == queue \in Seq(Item) /\ Len(queue) <= QUEUE_SIZE
SlotTypes == slots \in Seq(Work) /\ Len(slots) <= SLOTS
ChipTypes ==
  chip \in [state : {"on", "off", "init"}, diff : 0 .. MaxSettings, mask : 0 .. MaxSettings,
            work : Work \cup {NoWork}]
JobsTypes ==
  jobs \in [pc : {"top", "diff", "clear diff", "mask", "clear mask", "dequeue", "generate"},
            cur : 0 .. MaxJobs, en2 : 0 .. EN2_SPACE - 1]
SentTypes == sent \subseteq Work
ApplyTypes == read \in 0 .. MaxSettings /\ missed \subseteq Settings

\* The empty queue and the empty slots have their types.
LEMMA EmptyTypes == /\ <<>> \in Seq(Item) /\ Len(<<>>) <= QUEUE_SIZE
                     /\ <<>> \in Seq(Work) /\ Len(<<>>) <= SLOTS
<1>1. QUEUE_SIZE \in Nat /\ SLOTS \in Nat
  BY PipelineAssumption
<1> QED BY <1>1

\* TypeOK is the conjunction of its parts.
LEMMA TypeParts == TypeOK <=> /\ CounterTypes /\ PoolTypes /\ QueueTypes /\ SlotTypes
                              /\ ChipTypes /\ JobsTypes /\ SentTypes /\ ApplyTypes
BY DEF TypeOK, CounterTypes, PoolTypes, QueueTypes, SlotTypes, ChipTypes, JobsTypes, SentTypes,
       ApplyTypes

\* The counters keep their types.
LEMMA CountersStep == CounterTypes /\ [Next]_vars => CounterTypes'
<1> SUFFICES ASSUME CounterTypes, [Next]_vars PROVE CounterTypes'
  OBVIOUS
<1> USE DEF CounterTypes
<1>1. CASE Loop
  BY <1>1 DEF Loop, LoopTop, ApplySetting, ClearFlag, TakeItem, DequeueTimesOut, Generate,
              JobsUnchanged, poolVars
<1>2. CASE Power
  BY <1>2, PipelineAssumption DEF Power, PowerOff, ChipInit, ChipReady, poolVars
<1>a. ASSUME NEW clean \in BOOLEAN, Notify(clean) PROVE CounterTypes'
  <2>1. announced' = announced + 1 /\ announced < MaxJobs /\ cycles' = cycles
        /\ cleanAt' \in {announced', cleanAt}
    BY <1>a DEF Notify
  <2> QED BY <2>1, PipelineAssumption
<1>b. CASE ChangeExtranonce
  BY <1>b, PipelineAssumption DEF ChangeExtranonce
<1>3. CASE Protocol
  BY <1>3, <1>a, <1>b DEF Protocol, Change, RaiseFlag, poolVars
<1>4. CASE UNCHANGED vars
  BY <1>4 DEF vars
<1> QED BY <1>1, <1>2, <1>3, <1>4 DEF Next

\* The settings and their flags keep their types.
LEMMA PoolStep == PoolTypes /\ [Next]_vars => PoolTypes'
<1> SUFFICES ASSUME PoolTypes, [Next]_vars PROVE PoolTypes'
  OBVIOUS
<1> USE DEF PoolTypes
<1>1. CASE Loop
  BY <1>1 DEF Loop, LoopTop, ApplySetting, ClearFlag, TakeItem, DequeueTimesOut, Generate,
              JobsUnchanged, poolVars
<1>2. CASE Power
  BY <1>2 DEF Power, PowerOff, ChipInit, ChipReady, poolVars
<1>3. ASSUME NEW s \in Settings, Change(s) PROVE PoolTypes'
  <2>1. pool.diff \in 0 .. MaxSettings /\ pool.mask \in 0 .. MaxSettings
    OBVIOUS
  <2>2. pool.diff + pool.mask < MaxSettings /\ pool' = [pool EXCEPT ![s] = @ + 1]
    BY <1>3 DEF Change
  <2>3. pool[s] + 1 \in 0 .. MaxSettings
    BY <2>1, <2>2, PipelineAssumption
  <2> QED BY <1>3, <2>2, <2>3 DEF Change
<1>4. CASE ChangeExtranonce
  BY <1>4, PipelineAssumption DEF ChangeExtranonce
<1>5. ASSUME NEW clean \in BOOLEAN, Notify(clean) PROVE PoolTypes'
  BY <1>5 DEF Notify
<1>6. CASE RaiseFlag
  BY <1>6 DEF RaiseFlag, poolVars
<1>7. CASE UNCHANGED vars
  BY <1>7 DEF vars
<1> QED BY <1>1, <1>2, <1>3, <1>4, <1>5, <1>6, <1>7 DEF Next, Protocol

\* The queue keeps its type and its bound.
LEMMA QueueStep ==
  QueueTypes /\ CounterTypes /\ CounterTypes' /\ [Next]_vars => QueueTypes'
<1> SUFFICES ASSUME QueueTypes, CounterTypes, CounterTypes', [Next]_vars PROVE QueueTypes'
  OBVIOUS
<1> USE DEF QueueTypes
<1>1. ASSUME NEW clean \in BOOLEAN, Notify(clean) PROVE QueueTypes'
  <2> DEFINE q == IF clean /\ queue # <<>> THEN <<>> ELSE queue
             it == [job |-> announced', clean |-> clean]
  <2>1. announced' = announced + 1 /\ announced' \in 0 .. MaxJobs /\ announced \in Nat
    BY <1>1 DEF Notify, CounterTypes
  <2>2. it \in Item
    BY <2>1 DEF Item
  <2>3. q \in Seq(Item) /\ Len(q) <= QUEUE_SIZE
    BY PipelineAssumption
  <2>4. queue' = Enqueue(q, it)
    BY <1>1 DEF Notify
  <2> HIDE DEF q, it
  <2> QED BY <2>2, <2>3, <2>4, EnqueueType
<1>2. CASE TakeItem
  <2>1. queue # <<>> /\ queue' = Tail(queue)
    BY <1>2 DEF TakeItem
  <2>2. Tail(queue) \in Seq(Item) /\ Len(Tail(queue)) = Len(queue) - 1
    BY <2>1
  <2> QED BY <2>1, <2>2, PipelineAssumption
<1>3. CASE ChangeExtranonce
  <2>1. queue' = queue \/ queue' = <<>>
    BY <1>3 DEF ChangeExtranonce
  <2> QED BY <2>1, EmptyTypes
<1>4. ASSUME NEW s \in Settings, Change(s) PROVE QueueTypes'
  BY <1>4 DEF Change
<1>5. CASE RaiseFlag \/ Power
  BY <1>5 DEF RaiseFlag, Power, PowerOff, ChipInit, ChipReady
<1>6. CASE LoopTop \/ DequeueTimesOut \/ Generate \/ \E s \in Settings : ApplySetting(s) \/ ClearFlag(s)
  BY <1>6 DEF LoopTop, DequeueTimesOut, Generate, ApplySetting, ClearFlag
<1>7. CASE UNCHANGED vars
  BY <1>7 DEF vars
<1> QED BY <1>1, <1>2, <1>3, <1>4, <1>5, <1>6, <1>7 DEF Next, Protocol, Loop

\* What is built from a job is a work.
LEMMA NextWorkType ==
  ASSUME JobsTypes, PoolTypes, jobs.cur # 0 PROVE NextWork \in Work
<1>0. jobs.cur \in 0 .. MaxJobs
  BY DEF JobsTypes
<1>1. jobs.cur \in 1 .. MaxJobs
  BY <1>0, PipelineAssumption
<1>2. pool.en1 \in 0 .. MaxExtranonces /\ jobs.en2 \in 0 .. EN2_SPACE - 1
  BY DEF JobsTypes, PoolTypes
<1> QED BY <1>1, <1>2 DEF NextWork, Work

\* What Generate adds is a work; nothing else adds anything.
LEMMA WorksStep ==
  /\ SlotTypes /\ SentTypes /\ ChipTypes /\ PoolTypes /\ JobsTypes /\ HasWork /\ [Next]_vars
  => SlotTypes' /\ SentTypes' /\ ChipTypes'
<1> SUFFICES ASSUME SlotTypes, SentTypes, ChipTypes, PoolTypes, JobsTypes, HasWork, [Next]_vars
             PROVE  SlotTypes' /\ SentTypes' /\ ChipTypes'
  OBVIOUS
<1>1. CASE Generate
  <2>1. NextWork \in Work
    BY <1>1, NextWorkType DEF Generate, HasWork
  <2>2. CASE chip.state = "on"
    <3>1. slots' = Push(slots, NextWork) /\ sent' = sent \cup {NextWork}
          /\ chip' = [chip EXCEPT !.work = NextWork]
      BY <1>1, <2>2 DEF Generate
    <3>2. SlotTypes'
      BY <2>1, <3>1, PushType DEF SlotTypes
    <3>3. SentTypes'
      BY <2>1, <3>1 DEF SentTypes
    <3>4. ChipTypes'
      BY <2>1, <3>1 DEF ChipTypes
    <3> QED BY <3>2, <3>3, <3>4
  <2>3. CASE chip.state # "on"
    BY <1>1, <2>3 DEF Generate, SlotTypes, SentTypes, ChipTypes
  <2> QED BY <2>2, <2>3
<1>2. ASSUME NEW s \in Settings, ApplySetting(s) PROVE SlotTypes' /\ SentTypes' /\ ChipTypes'
  <2>1. pool[s] \in 0 .. MaxSettings
    BY DEF PoolTypes
  <2>2. ChipTypes'
    BY <1>2, <2>1 DEF ApplySetting, ChipTypes
  <2> QED BY <1>2, <2>2 DEF ApplySetting, SlotTypes, SentTypes
<1>3. CASE LoopTop \/ TakeItem \/ DequeueTimesOut \/ \E s \in Settings : ClearFlag(s)
  BY <1>3 DEF LoopTop, TakeItem, DequeueTimesOut, ClearFlag, SlotTypes, SentTypes, ChipTypes
<1>4. CASE Power
  <2>1. ChipTypes'
    <3>1. pool.diff \in 0 .. MaxSettings /\ 0 \in 0 .. MaxSettings
      BY PipelineAssumption DEF PoolTypes
    <3> QED BY <1>4, <3>1 DEF Power, PowerOff, ChipInit, ChipReady, ChipTypes
  <2> QED BY <1>4, <2>1 DEF Power, PowerOff, ChipInit, ChipReady, SlotTypes, SentTypes
<1>5. ASSUME NEW clean \in BOOLEAN, Notify(clean) PROVE SlotTypes' /\ SentTypes' /\ ChipTypes'
  <2>1. slots' = slots \/ slots' = <<>>
    BY <1>5 DEF Notify
  <2>2. SlotTypes'
    BY <2>1, EmptyTypes DEF SlotTypes
  <2> QED BY <1>5, <2>2 DEF Notify, SentTypes, ChipTypes
<1>6. CASE ChangeExtranonce
  <2>1. SlotTypes'
    BY <1>6, EmptyTypes DEF ChangeExtranonce, SlotTypes
  <2> QED BY <1>6, <2>1 DEF ChangeExtranonce, SentTypes, ChipTypes
<1>7. ASSUME NEW s \in Settings, Change(s) PROVE SlotTypes' /\ SentTypes' /\ ChipTypes'
  BY <1>7 DEF Change, SlotTypes, SentTypes, ChipTypes
<1>8. CASE RaiseFlag
  BY <1>8 DEF RaiseFlag, SlotTypes, SentTypes, ChipTypes
<1>9. CASE UNCHANGED vars
  BY <1>9 DEF vars, SlotTypes, SentTypes, ChipTypes
<1> QED BY <1>1, <1>2, <1>3, <1>4, <1>5, <1>6, <1>7, <1>8, <1>9 DEF Next, Protocol, Loop

\* create_jobs_task's variables keep their types.
LEMMA JobsStep == JobsTypes /\ QueueTypes /\ [Next]_vars => JobsTypes'
<1> SUFFICES ASSUME JobsTypes, QueueTypes, [Next]_vars PROVE JobsTypes'
  OBVIOUS
<1>a. 0 \in 0 .. EN2_SPACE - 1
  BY PipelineAssumption
<1>1. CASE LoopTop
  <2>1. (IF "en2" \in flags THEN 0 ELSE jobs.en2) \in 0 .. EN2_SPACE - 1
    BY <1>a DEF JobsTypes
  <2> QED BY <1>1, <2>1 DEF LoopTop, JobsTypes
<1>2. CASE TakeItem
  <2>1. Head(queue) \in Item
    BY <1>2 DEF TakeItem, QueueTypes
  <2>2. Head(queue).job \in 0 .. MaxJobs
    BY <2>1 DEF Item
  <2> QED BY <1>2, <1>a, <2>2 DEF TakeItem, JobsTypes
<1>3. CASE DequeueTimesOut \/ \E s \in Settings : ApplySetting(s) \/ ClearFlag(s)
  BY <1>3 DEF DequeueTimesOut, ApplySetting, ClearFlag, Goto, After, Clearing, JobsTypes
<1>4. CASE Generate
  <2>0. jobs.en2 \in 0 .. EN2_SPACE - 1
    BY DEF JobsTypes
  <2>1. jobs.en2 + 1 \in Nat
    BY <2>0, PipelineAssumption
  <2>2. (jobs.en2 + 1) % EN2_SPACE \in 0 .. EN2_SPACE - 1
    BY <2>1, PipelineAssumption
  <2> QED BY <1>4, <2>1, <2>2 DEF Generate, JobsTypes
<1>5. CASE Power \/ Protocol
  BY <1>5 DEF Power, PowerOff, ChipInit, ChipReady, Protocol, Notify, Change, ChangeExtranonce,
              RaiseFlag, JobsTypes
<1>6. CASE UNCHANGED vars
  BY <1>6 DEF vars, JobsTypes
<1> QED BY <1>1, <1>2, <1>3, <1>4, <1>5, <1>6 DEF Next, Loop

\* What create_jobs_task reads is a setting of the pool's.
LEMMA ApplyStep == ApplyTypes /\ PoolTypes /\ [Next]_vars => ApplyTypes'
<1> SUFFICES ASSUME ApplyTypes, PoolTypes, [Next]_vars PROVE ApplyTypes'
  OBVIOUS
<1> USE DEF ApplyTypes, applyVars
<1>1. ASSUME NEW s \in Settings, ApplySetting(s) PROVE ApplyTypes'
  <2>1. pool[s] \in 0 .. MaxSettings
    BY DEF PoolTypes
  <2> QED BY <1>1, <2>1 DEF ApplySetting
<1>2. ASSUME NEW s \in Settings, ClearFlag(s) PROVE ApplyTypes'
  BY <1>2, PipelineAssumption DEF ClearFlag
<1>3. CASE LoopTop \/ TakeItem \/ DequeueTimesOut \/ Generate
  BY <1>3 DEF LoopTop, TakeItem, DequeueTimesOut, Generate
<1>4. CASE Power
  BY <1>4 DEF Power, PowerOff, ChipInit, ChipReady
<1>5. CASE Protocol
  BY <1>5 DEF Protocol, Notify, Change, ChangeExtranonce, RaiseFlag
<1>6. CASE UNCHANGED vars
  BY <1>6 DEF vars
<1> QED BY <1>1, <1>2, <1>3, <1>4, <1>5, <1>6 DEF Next, Loop

\* Every step preserves the type invariant.
LEMMA TypeStep == TypeOK /\ HasWork /\ [Next]_vars => TypeOK'
<1> SUFFICES ASSUME TypeOK, HasWork, [Next]_vars PROVE TypeOK'
  OBVIOUS
<1>1. /\ CounterTypes /\ PoolTypes /\ QueueTypes /\ SlotTypes /\ ChipTypes /\ JobsTypes
      /\ SentTypes /\ ApplyTypes
  BY TypeParts
<1>2. CounterTypes' /\ PoolTypes' /\ JobsTypes' /\ ApplyTypes'
  BY <1>1, CountersStep, PoolStep, JobsStep, ApplyStep
<1>3. QueueTypes' /\ SlotTypes' /\ SentTypes' /\ ChipTypes'
  BY <1>1, <1>2, QueueStep, WorksStep
<1> QED BY <1>2, <1>3, TypeParts, PTL
-----------------------------------------------------------------------------
\* What the order of the jobs needs to know of the types.
LEMMA Numbers ==
  TypeOK => /\ announced \in Nat /\ jobs.cur \in Nat /\ queue \in Seq(Item)
            /\ \A i \in 1 .. Len(queue) : queue[i] \in Item /\ queue[i].job \in Nat
            /\ \A w \in sent : w.job \in Nat /\ w.job # 0
<1> SUFFICES ASSUME TypeOK
             PROVE  /\ announced \in Nat /\ jobs.cur \in Nat /\ queue \in Seq(Item)
                    /\ \A i \in 1 .. Len(queue) : queue[i] \in Item /\ queue[i].job \in Nat
                    /\ \A w \in sent : w.job \in Nat /\ w.job # 0
  OBVIOUS
<1>1. CounterTypes /\ QueueTypes /\ JobsTypes /\ SentTypes
  BY TypeParts
<1>a. announced \in 0 .. MaxJobs /\ jobs.cur \in 0 .. MaxJobs
  BY <1>1 DEF CounterTypes, JobsTypes
<1>2. announced \in Nat /\ jobs.cur \in Nat
  BY <1>a, PipelineAssumption
<1>3. queue \in Seq(Item) /\ \A i \in 1 .. Len(queue) : queue[i] \in Item
  BY <1>1 DEF QueueTypes
<1>4. \A i \in 1 .. Len(queue) : queue[i].job \in Nat
  BY <1>3 DEF Item
<1>5. \A w \in sent : w \in Work
  BY <1>1 DEF SentTypes
<1>6. \A w \in sent : w.job \in Nat /\ w.job # 0
  BY <1>5 DEF Work
<1> QED BY <1>2, <1>3, <1>4, <1>6

\* Only these steps touch the queue, the numbering or the current work.
LEMMA OtherSteps ==
  ASSUME JobsTypes, [Next]_vars,
         \A clean \in BOOLEAN : ~Notify(clean), ~TakeItem, ~ChangeExtranonce
  PROVE  queue' = queue /\ announced' = announced /\ jobs'.cur = jobs.cur
<1>1. CASE LoopTop \/ DequeueTimesOut \/ Generate \/ \E s \in Settings : ApplySetting(s) \/ ClearFlag(s)
  BY <1>1 DEF LoopTop, DequeueTimesOut, Generate, ApplySetting, ClearFlag, Goto, JobsUnchanged,
              poolVars, JobsTypes
<1>2. CASE Power \/ RaiseFlag \/ \E s \in Settings : Change(s)
  BY <1>2 DEF Power, PowerOff, ChipInit, ChipReady, RaiseFlag, Change, poolVars
<1>3. CASE UNCHANGED vars
  BY <1>3 DEF vars
<1> QED BY <1>1, <1>2, <1>3 DEF Next, Loop, Protocol

\* The queue stays ordered above the current work.
LEMMA AheadStep == TypeOK /\ QueueAhead /\ [Next]_vars => QueueAhead'
<1> SUFFICES ASSUME TypeOK, QueueAhead, [Next]_vars PROVE QueueAhead'
  OBVIOUS
<1>0. /\ announced \in Nat /\ jobs.cur \in Nat /\ queue \in Seq(Item)
      /\ \A i \in 1 .. Len(queue) : queue[i] \in Item /\ queue[i].job \in Nat
  BY Numbers
<1>1. ASSUME NEW clean \in BOOLEAN, Notify(clean) PROVE QueueAhead'
  <2> DEFINE q == IF clean /\ queue # <<>> THEN <<>> ELSE queue
             it == [job |-> announced', clean |-> clean]
  <2>1. announced' = announced + 1 /\ announced < MaxJobs /\ jobs' = jobs
        /\ queue' = Enqueue(q, it)
    BY <1>1 DEF Notify
  <2>2. it \in Item /\ it.job = announced + 1
    BY <2>1, <1>0, PipelineAssumption DEF Item
  <2>3. q \in Seq(Item)
    BY <1>0
  <2>4. /\ \A i \in 1 .. Len(q) : q[i].job < it.job /\ jobs.cur < q[i].job
        /\ \A i, j \in 1 .. Len(q) : i < j => q[i].job < q[j].job
        /\ jobs.cur < it.job
    BY <2>2, <1>0 DEF QueueAhead
  <2> HIDE DEF q, it
  <2>5. /\ \A i \in 1 .. Len(queue') : queue'[i].job <= it.job /\ jobs.cur < queue'[i].job
        /\ \A i, j \in 1 .. Len(queue') : i < j => queue'[i].job < queue'[j].job
    BY <2>1, <2>2, <2>3, <2>4, <1>0, EnqueueOrder
  <2>6. jobs.cur <= announced + 1
    BY <1>0 DEF QueueAhead
  <2> QED BY <2>1, <2>2, <2>5, <2>6 DEF QueueAhead
<1>2. CASE TakeItem
  <2>1. queue # <<>> /\ queue' = Tail(queue) /\ jobs'.cur = queue[1].job /\ announced' = announced
    BY <1>2 DEF TakeItem, JobsUnchanged, poolVars
  <2>2. /\ 1 \in 1 .. Len(queue) /\ Len(queue') = Len(queue) - 1
        /\ \A i \in 1 .. Len(queue') : queue'[i] = queue[i + 1] /\ i + 1 \in 1 .. Len(queue)
    BY <2>1, <1>0
  <2>3. \A i \in 1 .. Len(queue') : queue'[i].job <= announced' /\ jobs'.cur < queue'[i].job
    BY <2>1, <2>2 DEF QueueAhead
  <2>4. \A i, j \in 1 .. Len(queue') : i < j => queue'[i].job < queue'[j].job
    <3>1. SUFFICES ASSUME NEW i \in 1 .. Len(queue'), NEW j \in 1 .. Len(queue'), i < j
                   PROVE  queue'[i].job < queue'[j].job
      OBVIOUS
    <3>2. i \in Nat /\ j \in Nat
      BY <2>2
    <3>3. i + 1 < j + 1
      BY <3>1, <3>2
    <3>4. /\ i + 1 \in 1 .. Len(queue) /\ j + 1 \in 1 .. Len(queue)
          /\ queue'[i] = queue[i + 1] /\ queue'[j] = queue[j + 1]
      BY <2>2
    <3> QED BY <3>3, <3>4 DEF QueueAhead
  <2>5. jobs'.cur <= announced'
    BY <2>1, <2>2 DEF QueueAhead
  <2> QED BY <2>3, <2>4, <2>5 DEF QueueAhead
<1>3. CASE ChangeExtranonce
  <2>1. announced' = announced /\ jobs' = jobs /\ (queue' = queue \/ queue' = <<>>)
    BY <1>3 DEF ChangeExtranonce
  <2> QED BY <2>1 DEF QueueAhead
<1>4. CASE queue' = queue /\ announced' = announced /\ jobs'.cur = jobs.cur
  BY <1>4 DEF QueueAhead
<1> QED BY <1>1, <1>2, <1>3, <1>4, OtherSteps, TypeParts

\* create_jobs_task only builds a work when it has a job.
LEMMA HasWorkStep == TypeOK /\ HasWork /\ [Next]_vars => HasWork'
<1> SUFFICES ASSUME TypeOK, HasWork, [Next]_vars PROVE HasWork'
  OBVIOUS
<1> USE DEF HasWork
<1>0. QueueTypes /\ JobsTypes
  BY TypeParts
<1>1. CASE TakeItem
  <2>1. Head(queue) \in Item
    BY <1>0, <1>1 DEF TakeItem, QueueTypes
  <2>2. Head(queue).job # 0
    BY <2>1 DEF Item
  <2> QED BY <1>1, <2>2 DEF TakeItem
<1>2. CASE DequeueTimesOut
  BY <1>0, <1>2 DEF DequeueTimesOut, Goto, JobsTypes
<1>3. CASE LoopTop \/ Generate \/ \E s \in Settings : ApplySetting(s) \/ ClearFlag(s)
  BY <1>0, <1>3 DEF LoopTop, Generate, ApplySetting, ClearFlag, Goto, After, Clearing, JobsTypes
<1>4. CASE Power \/ Protocol
  BY <1>4 DEF Power, PowerOff, ChipInit, ChipReady, Protocol, Notify, Change, ChangeExtranonce,
              RaiseFlag
<1>5. CASE UNCHANGED vars
  BY <1>5 DEF vars
<1> QED BY <1>1, <1>2, <1>3, <1>4, <1>5 DEF Next, Loop

\* Only Generate gives the chip a work.
LEMMA OnlyGenerateSends ==
  ASSUME ChipTypes, [Next]_vars, ~Generate
  PROVE  sent' = sent /\ (chip'.work = chip.work \/ chip'.work = NoWork)
<1>1. CASE LoopTop \/ DequeueTimesOut \/ TakeItem \/ \E s \in Settings : ClearFlag(s)
  BY <1>1 DEF LoopTop, DequeueTimesOut, TakeItem, ClearFlag
<1>2. CASE \E s \in Settings : ApplySetting(s)
  BY <1>2 DEF ApplySetting, ChipTypes
<1>3. CASE Power
  BY <1>3 DEF Power, PowerOff, ChipInit, ChipReady, ChipTypes
<1>4. CASE Protocol
  BY <1>4 DEF Protocol, Notify, Change, ChangeExtranonce, RaiseFlag
<1>5. CASE UNCHANGED vars
  BY <1>5 DEF vars
<1> QED BY <1>1, <1>2, <1>3, <1>4, <1>5 DEF Next, Loop

\* What Generate does to the works, in one of two ways.
LEMMA GenerateSends ==
  ASSUME ChipTypes, JobsTypes, Generate
  PROVE  /\ jobs'.cur = jobs.cur /\ jobs'.pc = "top"
         /\ \/ chip' = chip /\ sent' = sent
            \/ chip'.work = NextWork /\ sent' = sent \cup {NextWork}
<1>1. jobs'.cur = jobs.cur /\ jobs'.pc = "top"
  BY DEF Generate, JobsTypes
<1>2. CASE chip.state = "on"
  BY <1>2 DEF Generate, ChipTypes
<1>3. CASE chip.state # "on"
  BY <1>3 DEF Generate
<1> QED BY <1>1, <1>2, <1>3

\* The current work never goes back.
LEMMA CurGrows == TypeOK /\ QueueAhead /\ [Next]_vars => jobs.cur <= jobs'.cur
<1> SUFFICES ASSUME TypeOK, QueueAhead, [Next]_vars PROVE jobs.cur <= jobs'.cur
  OBVIOUS
<1>0. jobs.cur \in Nat /\ queue \in Seq(Item)
      /\ \A i \in 1 .. Len(queue) : queue[i].job \in Nat
  BY Numbers
<1>1. CASE TakeItem
  <2>1. queue # <<>> /\ jobs'.cur = queue[1].job
    BY <1>1 DEF TakeItem
  <2>2. 1 \in 1 .. Len(queue)
    BY <2>1, <1>0
  <2> QED BY <2>1, <2>2, <1>0 DEF QueueAhead
<1>2. CASE (\E clean \in BOOLEAN : Notify(clean)) \/ ChangeExtranonce
  <2>1. jobs' = jobs
    BY <1>2 DEF Notify, ChangeExtranonce
  <2> QED BY <2>1, <1>0
<1>3. CASE jobs'.cur = jobs.cur
  BY <1>3, <1>0
<1> QED BY <1>1, <1>2, <1>3, OtherSteps, TypeParts

\* What the chip has seen stays behind the current work.
LEMMA BehindStep == IInv /\ [Next]_vars => SentBehind'
<1> SUFFICES ASSUME IInv, [Next]_vars PROVE SentBehind'
  OBVIOUS
<1> USE DEF IInv
<1>a. jobs'.cur \in 0 .. MaxJobs
  BY JobsStep, TypeParts DEF JobsTypes
<1>1. /\ jobs.cur \in Nat /\ jobs'.cur \in Nat /\ jobs.cur <= jobs'.cur
      /\ \A w \in sent : w.job \in Nat
  BY <1>a, Numbers, CurGrows, PipelineAssumption
<1>2. CASE Generate
  <2>1. ChipTypes /\ JobsTypes
    BY TypeParts
  <2>2. NextWork.job = jobs.cur
    BY DEF NextWork
  <2> QED BY <1>1, <1>2, <2>1, <2>2, GenerateSends DEF SentBehind
<1>3. CASE ~Generate
  <2>1. sent' = sent /\ (chip'.work = chip.work \/ chip'.work = NoWork)
    BY <1>3, OnlyGenerateSends, TypeParts
  <2> QED BY <1>1, <2>1 DEF SentBehind
<1> QED BY <1>2, <1>3

\* The invariant is inductive.
LEMMA InvStep == IInv /\ [Next]_vars => IInv'
BY TypeStep, HasWorkStep, AheadStep, BehindStep DEF IInv

\* Every variable of the pipeline keeps its type.
THEOREM TypeCorrect == Spec => []TypeOK
<1>1. Init => IInv
  BY InitInv
<1>2. IInv => TypeOK
  BY DEF IInv
<1> QED BY <1>1, <1>2, InvStep, PTL DEF Spec

\* The chip never returns to an older job, through full queues, purges,
\* reconnections, extranonce changes and power cycles.
THEOREM ChipMovesForward == Spec => JobsNeverGoBack
<1>1. Init => IInv
  BY InitInv
<1>2. IInv /\ [Next]_vars => [chip'.work # NoWork => \A w \in sent : w.job <= chip'.work.job]_vars
  <2> SUFFICES ASSUME IInv, [Next]_vars, chip'.work # NoWork
               PROVE  \A w \in sent : w.job <= chip'.work.job
    OBVIOUS
  <2>1. SentBehind'
    BY BehindStep
  <2>2. sent \subseteq sent'
    BY GenerateSends, OnlyGenerateSends, TypeParts DEF IInv
  <2> QED BY <2>1, <2>2 DEF SentBehind
<1> QED BY <1>1, <1>2, InvStep, PTL DEF Spec, JobsNeverGoBack
-----------------------------------------------------------------------------
\* The rest is about one session with one extranonce.

\* Nothing asks for a reset of extranonce_2.
LEMMA ResetStep ==
  ASSUME MaxExtranonces = 0, NeverReset, [Next]_vars
  PROVE  NeverReset'
<1> USE DEF NeverReset
<1>1. CASE Loop
  BY <1>1 DEF Loop, LoopTop, ApplySetting, ClearFlag, TakeItem, DequeueTimesOut, Generate,
              JobsUnchanged, poolVars
<1>2. CASE Power
  BY <1>2 DEF Power, PowerOff, ChipInit, ChipReady, poolVars
<1>3. ASSUME NEW s \in Settings, Change(s) PROVE NeverReset'
  <2>1. pool'.en1 = pool.en1
    BY <1>3 DEF Change
  <2> QED BY <1>3, <2>1 DEF Change
<1>4. ~ChangeExtranonce
  BY DEF ChangeExtranonce
<1>5. CASE RaiseFlag \/ \E clean \in BOOLEAN : Notify(clean)
  BY <1>5 DEF RaiseFlag, Notify, poolVars
<1>6. CASE UNCHANGED vars
  BY <1>6 DEF vars
<1> QED BY <1>1, <1>2, <1>3, <1>4, <1>5, <1>6 DEF Next, Protocol

\* Within a job, extranonce_2 stays above everything the chip has seen.
LEMMA NewStep ==
  ASSUME ~Exhausts, UInv, [Next]_vars
  PROVE  EveryWorkIsNew'
<1> USE DEF UInv
<1>0. /\ jobs.cur \in Nat /\ jobs.en2 \in 0 .. EN2_SPACE - 1 /\ ChipTypes /\ JobsTypes
      /\ \A w \in sent : w \in Work
      /\ \A w \in sent : w.job <= jobs.cur /\ w.job \in Nat
  BY Numbers, TypeParts DEF IInv, JobsTypes, SentBehind, SentTypes
<1>1. CASE TakeItem
  <2>1. queue # <<>> /\ jobs'.cur = queue[1].job /\ sent' = sent
    BY <1>1 DEF TakeItem
  <2>2. 1 \in 1 .. Len(queue) /\ queue[1].job \in Nat
    BY <2>1, Numbers DEF IInv
  <2>3. jobs.cur < jobs'.cur
    BY <2>1, <2>2 DEF IInv, QueueAhead
  <2>4. \A w \in sent' : w.job # jobs'.cur
    BY <1>0, <2>1, <2>2, <2>3
  <2> QED BY <2>4 DEF EveryWorkIsNew
<1>2. CASE Generate
  <2>1. /\ jobs'.cur = jobs.cur /\ jobs'.pc = "top"
        /\ \A w \in sent' : w \in sent \/ w = NextWork
    BY <1>0, <1>2, GenerateSends
  <2>2. CASE Kind = "STD"
    BY <2>1, <2>2 DEF EveryWorkIsNew
  <2>3. CASE Kind # "STD"
    <3>1. jobs'.en2 = (jobs.en2 + 1) % EN2_SPACE /\ jobs.en2 + 1 < EN2_SPACE
      BY <1>0, <1>2, <2>3 DEF Generate, JobsTypes
    <3>2. jobs'.en2 = jobs.en2 + 1
      BY <1>0, <3>1, PipelineAssumption
    <3>3. NextWork.en2 = jobs.en2
      BY DEF NextWork
    <3>4. \A w \in sent : w.job = jobs.cur => w.en2 < jobs.en2 /\ w.en2 \in 0 .. EN2_SPACE - 1
      BY <1>0, <2>3 DEF EveryWorkIsNew, Work
    <3>5. \A w \in sent' : w.job = jobs'.cur => w.en2 < jobs'.en2
      BY <1>0, <2>1, <3>2, <3>3, <3>4, PipelineAssumption
    <3> QED BY <2>3, <3>5 DEF EveryWorkIsNew
  <2> QED BY <2>2, <2>3
<1>3. CASE LoopTop
  <2>1. jobs'.cur = jobs.cur /\ jobs'.en2 = jobs.en2 /\ jobs'.pc # "generate" /\ sent' = sent
    BY <1>0, <1>3 DEF LoopTop, NeverReset, JobsTypes
  <2> QED BY <2>1 DEF EveryWorkIsNew
<1>4. CASE DequeueTimesOut
  <2>1. jobs'.cur = jobs.cur /\ jobs'.en2 = jobs.en2 /\ sent' = sent
        /\ (Kind = "STD" => jobs'.pc = "top")
    BY <1>0, <1>4 DEF DequeueTimesOut, Goto, JobsTypes
  <2> QED BY <2>1 DEF EveryWorkIsNew
<1>5. CASE \E s \in Settings : ApplySetting(s) \/ ClearFlag(s)
  <2>1. jobs'.cur = jobs.cur /\ jobs'.en2 = jobs.en2 /\ sent' = sent /\ jobs'.pc # "generate"
    BY <1>0, <1>5 DEF ApplySetting, ClearFlag, Goto, After, Clearing, JobsTypes
  <2> QED BY <2>1 DEF EveryWorkIsNew
<1>6. CASE Power \/ Protocol \/ UNCHANGED vars
  <2>1. jobs' = jobs /\ sent' = sent
    BY <1>6 DEF Power, PowerOff, ChipInit, ChipReady, Protocol, Notify, Change, ChangeExtranonce,
                RaiseFlag, vars
  <2> QED BY <2>1 DEF EveryWorkIsNew
<1> QED BY <1>1, <1>2, <1>3, <1>4, <1>5, <1>6 DEF Next, Loop

\* While the extranonce stays and extranonce_2 is not used up, the chip is never
\* given the same work twice, on every kind of channel.
THEOREM WorkIsUnique ==
  ASSUME MaxExtranonces = 0, ~Exhausts
  PROVE  Spec => NoRepeatedWork
<1>1. Init => UInv
  BY InitInv DEF UInv
<1>2. UInv /\ [Next]_vars => UInv'
  BY InvStep, ResetStep, NewStep DEF UInv
<1>3. UInv /\ [Next]_vars => [chip'.work \in {chip.work, NoWork} \/ chip'.work \notin sent]_vars
  <2> SUFFICES ASSUME UInv, [Next]_vars, Generate,
                      chip'.work \notin {chip.work, NoWork}, chip'.work \in sent
               PROVE  FALSE
    BY OnlyGenerateSends, TypeParts DEF UInv, IInv
  <2>1. chip'.work = NextWork
    BY GenerateSends, TypeParts DEF UInv, IInv
  <2>2. NextWork.job = jobs.cur /\ NextWork.en2 = jobs.en2
    BY DEF NextWork
  <2>3. jobs.pc = "generate"
    BY DEF Generate
  <2>4. jobs.en2 \in 0 .. EN2_SPACE - 1
    BY TypeParts DEF UInv, IInv, JobsTypes
  <2> QED BY <2>1, <2>2, <2>3, <2>4, PipelineAssumption DEF UInv, EveryWorkIsNew
<1> QED BY <1>1, <1>2, <1>3, PTL DEF Spec, NoRepeatedWork
-----------------------------------------------------------------------------
(* The chip's settings. *)

\* The pool's settings only grow; the chip's are never ahead of them.
Behind(s) == chip[s] <= pool[s]
\* Between the read of a setting and the clear of its flag, a chip that misses nothing
\* has the value read or a later one.
Applied(s) ==
  jobs.pc = Clearing(s) => /\ s \in flags /\ read <= pool[s]
                           /\ chip.state = "off" \/ s \in missed \/ read <= chip[s]
\* A chip with power has the setting, or it is on its way, or it was missed.
OnItsWay(s) ==
  chip.state = "off" \/ handler = s \/ s \in flags \/ s \in missed \/ chip[s] = pool[s]

SettingInv(s) == Behind(s) /\ Applied(s) /\ OnItsWay(s)
SettingParts == PoolTypes /\ ChipTypes /\ JobsTypes /\ ApplyTypes
SInv == \A s \in Settings : SettingInv(s)

\* A setting is untouched by a step that leaves alone all it depends on.
LEMMA Untouched ==
  ASSUME NEW s \in Settings, SettingInv(s), pool'[s] = pool[s], chip'[s] = chip[s],
         chip'.state = "off" <=> chip.state = "off", handler' = s <=> handler = s,
         s \in flags' <=> s \in flags, s \in missed' <=> s \in missed,
         jobs'.pc # Clearing(s) \/ (jobs'.pc = jobs.pc /\ read' = read)
  PROVE  SettingInv(s)'
BY DEF SettingInv, Behind, Applied, OnItsWay, Clearing

\* Each setting has a place of its own in the loop.
LEMMA ClearingDiffers ==
  ASSUME NEW s \in Settings, NEW u \in Settings, s # u PROVE Clearing(s) # Clearing(u)
<1>1. CASE s = "diff"
  BY <1>1 DEF Clearing
<1>2. CASE s = "mask"
  BY <1>2 DEF Clearing
<1> QED BY <1>1, <1>2

\* The values compared are numbers.
LEMMA SettingNumbers ==
  ASSUME SettingParts, NEW s \in Settings
  PROVE  pool[s] \in Nat /\ chip[s] \in Nat /\ read \in Nat
<1>1. pool[s] \in 0 .. MaxSettings /\ chip[s] \in 0 .. MaxSettings /\ read \in 0 .. MaxSettings
  BY DEF SettingParts, PoolTypes, ChipTypes, ApplyTypes
<1> QED BY <1>1, PipelineAssumption

\* Giving the value read to the chip delivers it.
LEMMA ApplyInStep ==
  ASSUME SettingParts, NEW u \in Settings, ApplySetting(u), NEW s \in Settings, SettingInv(s)
  PROVE  SettingInv(s)'
<1>0. pool[s] \in Nat /\ chip[s] \in Nat /\ read \in Nat
  BY SettingNumbers
<1>1. /\ jobs.pc = u /\ pool' = pool /\ handler' = handler /\ flags' = flags
  BY DEF ApplySetting, JobsUnchanged, poolVars
<1>2. CASE u \notin flags
  <2>1. chip' = chip /\ read' = read /\ missed' = missed /\ jobs'.pc = After(u)
    BY <1>2 DEF ApplySetting, Goto, applyVars, SettingParts, JobsTypes
  <2> QED BY <1>1, <2>1, Untouched DEF After, Clearing
<1>3. CASE u \in flags
  <2>1. read' = pool[u] /\ jobs'.pc = Clearing(u)
    BY <1>3 DEF ApplySetting, Goto, SettingParts, JobsTypes
  <2>2. CASE chip.state = "off"
    <3>1. chip' = chip /\ missed' = missed
      BY <1>3, <2>2 DEF ApplySetting
    <3>2. CASE s = u
      <4>1. Behind(s)' /\ OnItsWay(s)'
        BY <1>0, <1>1, <1>3, <2>2, <3>1, <3>2 DEF SettingInv, Behind, OnItsWay
      <4>2. Applied(s)'
        BY ONLY <1>0, <1>1, <1>3, <2>1, <2>2, <3>1, <3>2 DEF Applied
      <4> QED BY <4>1, <4>2 DEF SettingInv
    <3>3. CASE s # u
      <4>1. jobs'.pc # Clearing(s)
        BY <2>1, <3>3, ClearingDiffers
      <4> QED BY <1>1, <3>1, <4>1, Untouched
    <3> QED BY <3>2, <3>3
  <2>3. CASE chip.state # "off"
    <3>1. chip' = [chip EXCEPT ![u] = pool[u]] /\ missed' = missed \ {u}
      BY <1>3, <2>3 DEF ApplySetting
    <3>2. chip'[u] = pool[u] /\ chip'.state = chip.state /\ (s # u => chip'[s] = chip[s])
      BY <3>1 DEF SettingParts, ChipTypes
    <3>3. CASE s = u
      <4>a. Behind(s)'
        BY <1>1, <1>3, <2>1, <3>2, <3>3, <1>0 DEF SettingInv, Behind
      <4>b. Applied(s)'
        BY ONLY <1>0, <1>1, <1>3, <2>1, <3>2, <3>3 DEF Applied
      <4>c. OnItsWay(s)'
        BY <1>1, <1>3, <2>1, <3>2, <3>3, <1>0 DEF SettingInv, OnItsWay
      <4> QED BY <4>a, <4>b, <4>c DEF SettingInv
    <3>4. CASE s # u
      <4>1. jobs'.pc # Clearing(s) /\ (s \in missed' <=> s \in missed)
        BY <2>1, <3>1, <3>4, ClearingDiffers
      <4> QED BY <1>1, <3>2, <3>4, <4>1, Untouched
    <3> QED BY <3>3, <3>4
  <2> QED BY <2>2, <2>3
<1> QED BY <1>2, <1>3

\* The flag is cleared of a setting the chip has, or that it misses from then on.
LEMMA ClearInStep ==
  ASSUME SettingParts, NEW u \in Settings, ClearFlag(u), NEW s \in Settings, SettingInv(s)
  PROVE  SettingInv(s)'
<1>0. pool[s] \in Nat /\ chip[s] \in Nat /\ read \in Nat
  BY SettingNumbers
<1>1. /\ jobs.pc = Clearing(u) /\ pool' = pool /\ handler' = handler /\ chip' = chip
      /\ flags' = flags \ {u}
      /\ missed' = IF pool[u] = read \/ handler = u THEN missed ELSE missed \cup {u}
  BY DEF ClearFlag, JobsUnchanged, poolVars
<1>2. jobs'.pc = After(u)
  BY DEF ClearFlag, Goto, SettingParts, JobsTypes
<1>3. jobs'.pc # Clearing(s)
  BY <1>2 DEF After, Clearing
<1>4. CASE s # u
  <2>1. (s \in flags' <=> s \in flags) /\ (s \in missed' <=> s \in missed)
    BY <1>1, <1>4
  <2> QED BY <1>1, <1>3, <2>1, Untouched
<1>5. CASE s = u
  BY <1>1, <1>3, <1>5, <1>0 DEF SettingInv, Behind, Applied, OnItsWay
<1> QED BY <1>4, <1>5

\* Each step of the job task keeps the change on its way, delivers or misses it.
LEMMA LoopInStep ==
  ASSUME SettingParts, Loop, NEW s \in Settings, SettingInv(s)
  PROVE  SettingInv(s)'
<1>1. CASE LoopTop
  <2>1. /\ pool' = pool /\ handler' = handler /\ chip' = chip /\ missed' = missed
        /\ (s \in flags' <=> s \in flags)
    BY <1>1 DEF LoopTop, JobsUnchanged, poolVars, applyVars
  <2>2. jobs'.pc # Clearing(s)
    BY <1>1 DEF LoopTop, Clearing, SettingParts, JobsTypes
  <2> QED BY <2>1, <2>2, Untouched
<1>2. CASE TakeItem
  <2>1. pool' = pool /\ handler' = handler /\ chip' = chip /\ missed' = missed /\ flags' = flags
    BY <1>2 DEF TakeItem, JobsUnchanged, poolVars, applyVars
  <2>2. jobs'.pc # Clearing(s)
    BY <1>2 DEF TakeItem, Clearing
  <2> QED BY <2>1, <2>2, Untouched
<1>3. CASE DequeueTimesOut
  <2>1. pool' = pool /\ handler' = handler /\ chip' = chip /\ missed' = missed /\ flags' = flags
    BY <1>3 DEF DequeueTimesOut, JobsUnchanged, poolVars, applyVars
  <2>2. jobs'.pc # Clearing(s)
    BY <1>3 DEF DequeueTimesOut, Goto, Clearing, SettingParts, JobsTypes
  <2> QED BY <2>1, <2>2, Untouched
<1>4. CASE Generate
  <2>1. /\ pool' = pool /\ handler' = handler /\ missed' = missed /\ flags' = flags
        /\ chip' = chip \/ chip' = [chip EXCEPT !.work = NextWork]
    BY <1>4 DEF Generate, JobsUnchanged, poolVars, applyVars
  <2>2. chip'[s] = chip[s] /\ chip'.state = chip.state
    BY <2>1 DEF SettingParts, ChipTypes
  <2>3. jobs'.pc # Clearing(s)
    BY <1>4 DEF Generate, Clearing, SettingParts, JobsTypes
  <2> QED BY <2>1, <2>2, <2>3, Untouched
<1> QED BY <1>1, <1>2, <1>3, <1>4, ApplyInStep, ClearInStep DEF Loop

\* A start programs the pool's difficulty and forgets the version mask.
LEMMA PowerInStep ==
  ASSUME SettingParts, Power, NEW s \in Settings, SettingInv(s)
  PROVE  SettingInv(s)'
<1>0. pool[s] \in Nat /\ chip[s] \in Nat /\ read \in Nat
  BY SettingNumbers
<1>1. pool' = pool /\ handler' = handler /\ flags' = flags /\ jobs' = jobs /\ read' = read
  BY DEF Power, PowerOff, ChipInit, ChipReady, poolVars, applyVars
<1>2. CASE PowerOff
  <2>1. chip'.state = "off" /\ chip'[s] = chip[s] /\ missed' = missed
    BY <1>2 DEF PowerOff, SettingParts, ChipTypes, applyVars
  <2> QED BY <1>1, <2>1 DEF SettingInv, Behind, Applied, OnItsWay, Clearing
<1>3. CASE ChipInit
  <2>1. chip'.diff = pool.diff /\ chip'.mask = 0 /\ missed' = (missed \ {"diff"}) \cup {"mask"}
    BY <1>3 DEF ChipInit, SettingParts, ChipTypes
  <2>2. CASE s = "diff"
    <3>a. Behind(s)'
      BY <1>1, <2>1, <2>2, <1>0 DEF SettingInv, Behind
    <3>b. Applied(s)'
      BY <1>1, <2>1, <2>2, <1>0 DEF SettingInv, Behind, Applied, Clearing
    <3>c. OnItsWay(s)'
      BY <1>1, <2>1, <2>2, <1>0 DEF SettingInv, OnItsWay
    <3> QED BY <3>a, <3>b, <3>c DEF SettingInv
  <2>3. CASE s = "mask"
    <3>a. Behind(s)'
      BY <1>1, <2>1, <2>3, <1>0 DEF SettingInv, Behind
    <3>b. Applied(s)'
      BY <1>1, <2>1, <2>3, <1>0 DEF SettingInv, Behind, Applied, Clearing
    <3>c. OnItsWay(s)'
      BY <1>1, <2>1, <2>3, <1>0 DEF SettingInv, OnItsWay
    <3> QED BY <3>a, <3>b, <3>c DEF SettingInv
  <2> QED BY <2>2, <2>3
<1>4. CASE ChipReady
  <2>1. /\ chip.state # "off" /\ chip'.state # "off" /\ chip'[s] = chip[s] /\ missed' = missed
    BY <1>4 DEF ChipReady, SettingParts, ChipTypes, applyVars
  <2> QED BY <1>1, <2>1, Untouched
<1> QED BY <1>2, <1>3, <1>4 DEF Power

\* A change is on its way from its write on.
LEMMA ProtocolInStep ==
  ASSUME SettingParts, Protocol, NEW s \in Settings, SettingInv(s)
  PROVE  SettingInv(s)'
<1>0. pool[s] \in Nat /\ chip[s] \in Nat /\ read \in Nat
  BY SettingNumbers
<1>1. chip' = chip /\ jobs' = jobs /\ read' = read /\ missed' = missed
  BY DEF Protocol, Notify, Change, ChangeExtranonce, RaiseFlag, applyVars
<1>2. ASSUME NEW clean \in BOOLEAN, Notify(clean) PROVE SettingInv(s)'
  <2>1. pool' = pool /\ handler' = handler /\ flags' = flags
    BY <1>2 DEF Notify
  <2> QED BY <1>1, <2>1, Untouched
<1>3. ASSUME NEW u \in Settings, Change(u) PROVE SettingInv(s)'
  <2>1. /\ handler = "idle" /\ handler' = u /\ flags' = flags
        /\ pool' = [pool EXCEPT ![u] = @ + 1]
    BY <1>3 DEF Change, Handles
  <2>2. pool'[u] = pool[u] + 1 /\ (s # u => pool'[s] = pool[s])
    BY <2>1 DEF SettingParts, PoolTypes
  <2>3. CASE s = u
    <3>a. Behind(s)'
      BY <1>1, <2>1, <2>2, <2>3, <1>0 DEF SettingInv, Behind
    <3>b. Applied(s)'
      <4>1. Applied(s) /\ Clearing(s)' = Clearing(s)
        BY DEF SettingInv, Clearing
      <4>2. pool'[s] = pool[s] + 1
        BY <2>2, <2>3
      <4> QED BY ONLY <1>0, <1>1, <2>1, <4>1, <4>2 DEF Applied
    <3>c. OnItsWay(s)'
      BY <1>1, <2>1, <2>2, <2>3, <1>0 DEF SettingInv, OnItsWay
    <3> QED BY <3>a, <3>b, <3>c DEF SettingInv
  <2>4. CASE s # u
    BY <1>1, <2>1, <2>2, <2>4, Untouched
  <2> QED BY <2>3, <2>4
<1>4. CASE ChangeExtranonce
  <2>1. pool'[s] = pool[s] /\ handler = "idle" /\ handler' = "en2" /\ flags' = flags
    BY <1>4 DEF ChangeExtranonce, Handles, SettingParts, PoolTypes
  <2> QED BY <1>1, <2>1, Untouched
<1>5. CASE RaiseFlag
  <2>1. pool' = pool /\ flags' = flags \cup {handler} /\ handler' = "idle"
    BY <1>5 DEF RaiseFlag, poolVars
  <2> QED BY <1>1, <2>1 DEF SettingInv, Behind, Applied, OnItsWay, Clearing
<1> QED BY <1>2, <1>3, <1>4, <1>5 DEF Protocol

\* However often the pool changes its settings and whatever the order of the steps of
\* the three tasks, the chip in use has the last values, or they are on their way, or
\* the chip missed them in one of the two ways SettingsInStep names.
THEOREM SettingsStayInStep == Spec => []SettingsInStep
<1>1. Init => SInv
  BY DEF Init, SInv, SettingInv, Behind, Applied, OnItsWay, Clearing
<1>2. SInv /\ IInv /\ [Next]_vars => SInv'
  <2> SUFFICES ASSUME SInv, IInv, [Next]_vars, NEW s \in Settings PROVE SettingInv(s)'
    BY DEF SInv
  <2>1. SettingInv(s) /\ SettingParts
    BY TypeParts DEF SInv, IInv, SettingParts
  <2>2. CASE UNCHANGED vars
    BY <2>1, <2>2, Untouched DEF vars
  <2> QED BY <2>1, <2>2, LoopInStep, PowerInStep, ProtocolInStep DEF Next
<1>3. SInv => SettingsInStep
  BY DEF SInv, SettingInv, OnItsWay, SettingsInStep
<1>4. Init => IInv
  BY InitInv
<1> QED BY <1>1, <1>2, <1>3, <1>4, InvStep, PTL DEF Spec
=============================================================================
