---------------------------- MODULE Sessions_proofs ----------------------------
(***************************************************************************)
(* Proofs about what Machine knows of the pools: StratumSession, Sv2Session*)
(* and ProtocolSwitch, for every queue size, length of the duplicate check,*)
(* number of request ids, slots, budget, pair of pools and number of       *)
(* switches.                                                               *)
(*                                                                         *)
(* V1: no answer is counted as a share twice, and what waits in the queue  *)
(* is what the duplicate check remembers last.  V2: the queue holds one    *)
(* job, on the block of the session, the job a block names is never lost,  *)
(* and no answer is timed from a share before its own.  Switches: an item  *)
(* of the untyped queue is never read, nor freed, as another type than it  *)
(* was enqueued with, while the two pools do not mix standard and extended *)
(* channels and create_jobs_task finishes an iteration between two.        *)
(***************************************************************************)
EXTENDS Machine, FiniteSetTheorems, SequenceTheorems, WellFoundedInduction, TLAPS

\* The records whose fields change one at a time.
Buffers == [made : BOOLEAN, lines : Seq(V1!Lines)]
Sharers == [pc : {"idle", "write", "stamp"}, uid : Nat, old : BOOLEAN]
V1Pools == [serves : BOOLEAN, open : BOOLEAN, pending : SUBSET Nat, wire : Seq(V1!Lines)]
Counts == [stamped : Nat, counted : Nat]

\* The types, and that a task which connects or reads has an attempt left.
V1TaskType ==
  /\ task \in {"dial", "connect", "loop", "read", "failed"}
  /\ retry \in 0 .. MAX_RETRY_ATTEMPTS
  /\ task \in {"connect", "loop", "read"} => retry < MAX_RETRY_ATTEMPTS
V1PeerType == /\ pool \in V1Pools /\ sharer \in Sharers
              /\ transport \in BOOLEAN /\ asic \in BOOLEAN /\ uid \in Nat
V1JobsType == /\ active \in Seq(Jobs) /\ Len(active) <= MAX_ACTIVE_JOB_IDS
              /\ queue \in Seq(Jobs) /\ Len(queue) <= QUEUE_SIZE
V1TimingType == /\ tracking \subseteq 0 .. MAX_REQUEST_IDS - 1 /\ count \in Counts
V1Type == V1TaskType /\ V1PeerType /\ buffer \in Buffers /\ V1JobsType /\ V1TimingType

\* The queue is the end of the list of active ids, which has no id twice, and
\* it is empty while there is no session.
Ends(q, a) == /\ Len(q) <= Len(a)
              /\ \A i \in 1 .. Len(q) : q[i] = a[(Len(a) - Len(q)) + i]
V1QueueInv == /\ task \in {"dial", "connect", "failed"} => queue = <<>>
              /\ V1!IsInjective(active) /\ Ends(queue, active)

V1CountInv == IsFiniteSet(tracking) /\ V1!CountedOnce

(* The library's facts are about Cardinality as this module sees it. *)
LEMMA SameCardinality == ASSUME NEW S PROVE V1!Cardinality(S) = Cardinality(S)
  BY DEF V1!Cardinality, Cardinality
-----------------------------------------------------------------------------
(* Lines, connections and the two lists of jobs. *)

LEMMA LineTypes ==
  ASSUME NEW said \in V1!Lines
  PROVE  /\ said.kind = "notify" => said.job \in Jobs /\ said.clean \in BOOLEAN
         /\ said.kind = "answer" => said.id \in Nat /\ said.success \in BOOLEAN
  BY DEF V1!Lines, V1!Notifications

LEMMA LineTaken ==
  ASSUME V1Type, V1!HasLine
  PROVE  /\ V1!Line \in V1!Lines
         /\ [buffer EXCEPT !.lines = Tail(@)] \in Buffers
         /\ retry < MAX_RETRY_ATTEMPTS
<1>1. buffer.lines \in Seq(V1!Lines) /\ buffer.lines # <<>>
  BY DEF V1Type, V1!HasLine, Buffers
<1>2. Head(buffer.lines) \in V1!Lines /\ Tail(buffer.lines) \in Seq(V1!Lines)
  BY <1>1, HeadTailProperties
<1>3. QED
  BY <1>2 DEF V1!Line, V1Type, V1TaskType, V1!HasLine, Buffers

LEMMA SendTypes ==
  ASSUME NEW p \in V1Pools, NEW m \in V1!Lines
  PROVE  V1!Sends(p, m) \in V1Pools
<1>1. Append(p.wire, m) \in Seq(V1!Lines)
  BY AppendProperties DEF V1Pools
<1>2. QED
  BY <1>1 DEF V1!Sends, V1Pools

LEMMA CloseTypes ==
  ASSUME V1PeerType, V1!Close
  PROVE  transport' \in BOOLEAN /\ sharer' \in Sharers /\ pool' \in V1Pools /\ queue' = <<>>
<1>1. sharer' \in Sharers
  BY DEF V1PeerType, V1!Close, V1!Retired, Sharers
<1>2. pool' \in V1Pools
  BY EmptySeq DEF V1PeerType, V1!Close, V1Pools
<1>3. QED
  BY <1>1, <1>2 DEF V1!Close

LEMMA EndsAppend ==
  ASSUME NEW q \in Seq(Jobs), NEW a \in Seq(Jobs), NEW job \in Jobs, Ends(q, a)
  PROVE  Ends(Append(q, job), Append(a, job))
<1>0. Len(q) \in Nat /\ Len(a) \in Nat
  BY LenProperties
<1>1. /\ Len(q) \in Nat /\ Len(a) \in Nat
      /\ Len(Append(q, job)) = Len(q) + 1 /\ Len(Append(a, job)) = Len(a) + 1
  BY LenProperties, AppendProperties
<1>2. ASSUME NEW i \in 1 .. Len(q) + 1
      PROVE  Append(q, job)[i] = Append(a, job)[(Len(a) - Len(q)) + i]
  <2>1. CASE i = Len(q) + 1
    BY <1>1, <2>1, AppendProperties
  <2>2. CASE i \in 1 .. Len(q)
    <3>1. (Len(a) - Len(q)) + i \in 1 .. Len(a)
      BY <1>1, <2>2 DEF Ends
    <3>2. QED
      BY <2>2, <3>1, AppendProperties DEF Ends
  <2>3. i = Len(q) + 1 \/ i \in 1 .. Len(q)
    BY <1>0
  <2>4. QED
    BY <2>1, <2>2, <2>3
<1>3. (Len(a) + 1) - (Len(q) + 1) = Len(a) - Len(q) /\ Len(q) + 1 <= Len(a) + 1
  BY <1>0 DEF Ends
<1>4. QED
  BY <1>1, <1>2, <1>3 DEF Ends

LEMMA EndsTail ==
  ASSUME NEW q \in Seq(Jobs), NEW a \in Seq(Jobs), Ends(q, a)
  PROVE  /\ q # <<>> => Ends(Tail(q), a)
         /\ Len(q) < Len(a) => Ends(q, Tail(a))
<1>1. Len(q) \in Nat /\ Len(a) \in Nat
  BY LenProperties
<1>2. ASSUME q # <<>> PROVE Ends(Tail(q), a)
  <2>1. /\ Len(Tail(q)) = Len(q) - 1
        /\ \A i \in 1 .. Len(Tail(q)) : Tail(q)[i] = q[i + 1]
    BY <1>2, HeadTailProperties
  <2>2. ASSUME NEW i \in 1 .. Len(q) - 1
        PROVE  Tail(q)[i] = a[(Len(a) - (Len(q) - 1)) + i]
    <3>1. i + 1 \in 1 .. Len(q) /\ i \in 1 .. Len(Tail(q))
      BY <1>1, <2>1
    <3>2. q[i + 1] = a[(Len(a) - Len(q)) + (i + 1)]
      BY <3>1 DEF Ends
    <3>3. (Len(a) - Len(q)) + (i + 1) = (Len(a) - (Len(q) - 1)) + i
      BY <1>1
    <3>4. QED
      BY <2>1, <3>1, <3>2, <3>3
  <2>3. Len(q) - 1 <= Len(a)
    BY <1>1 DEF Ends
  <2>4. QED
    BY <2>1, <2>2, <2>3 DEF Ends
<1>3. ASSUME Len(q) < Len(a) PROVE Ends(q, Tail(a))
  <2>1. a # <<>>
    BY <1>1, <1>3, EmptySeq
  <2>2. /\ Len(Tail(a)) = Len(a) - 1
        /\ \A i \in 1 .. Len(Tail(a)) : Tail(a)[i] = a[i + 1]
    BY <2>1, HeadTailProperties
  <2>3. QED
    BY <1>1, <1>3, <2>2 DEF Ends
<1>4. QED
  BY <1>2, <1>3

LEMMA InjectiveAppend ==
  ASSUME NEW a \in Seq(Jobs), V1!IsInjective(a), NEW job \in Jobs, \A i \in DOMAIN a : a[i] # job
  PROVE  V1!IsInjective(Append(a, job))
<1>1. /\ Len(a) \in Nat /\ DOMAIN a = 1 .. Len(a)
      /\ Append(a, job) \in Seq(Jobs) /\ Len(Append(a, job)) = Len(a) + 1
      /\ \A i \in 1 .. Len(a) : Append(a, job)[i] = a[i]
      /\ Append(a, job)[Len(a) + 1] = job
  BY LenProperties, AppendProperties
<1>2. DOMAIN Append(a, job) = 1 .. Len(a) + 1
  BY <1>1, LenProperties
<1>3. QED
  BY <1>1, <1>2 DEF V1!IsInjective

LEMMA InjectiveTail ==
  ASSUME NEW a \in Seq(Jobs), a # <<>>, V1!IsInjective(a)
  PROVE  /\ V1!IsInjective(Tail(a))
         /\ \A job : (\A i \in DOMAIN a : a[i] # job) => \A i \in DOMAIN Tail(a) : Tail(a)[i] # job
<1>1. /\ Len(a) \in Nat /\ DOMAIN a = 1 .. Len(a) /\ Tail(a) \in Seq(Jobs)
      /\ Len(Tail(a)) = Len(a) - 1 /\ \A i \in 1 .. Len(Tail(a)) : Tail(a)[i] = a[i + 1]
  BY LenProperties, HeadTailProperties
<1>2. DOMAIN Tail(a) = 1 .. Len(a) - 1
  BY <1>1, LenProperties
<1>3. QED
  BY <1>1, <1>2 DEF V1!IsInjective

\* What a new job is added to: the announced ids and the queue with room for it.
LEMMA BeforeJob ==
  ASSUME V1!SessionAssumption, V1JobsType, V1QueueInv, NEW clean \in BOOLEAN
  PROVE  /\ V1!Announced(clean) \in Seq(Jobs) /\ Len(V1!Announced(clean)) <= MAX_ACTIVE_JOB_IDS
         /\ V1!IsInjective(V1!Announced(clean))
         /\ V1!QueueFor(clean) \in Seq(Jobs) /\ Len(V1!QueueFor(clean)) < QUEUE_SIZE
         /\ Ends(V1!QueueFor(clean), V1!Announced(clean))
<1>1. Len(queue) \in Nat /\ Len(active) \in Nat
  BY LenProperties DEF V1JobsType
<1>2. CASE clean
  <2>1. <<>> \in Seq(Jobs) /\ Len(<<>>) = 0
    BY EmptySeq
  <2>2. V1!IsInjective(<<>>) /\ Ends(<<>>, <<>>)
    BY <2>1 DEF V1!IsInjective, Ends
  <2>3. V1!Announced(clean) = <<>> /\ V1!QueueFor(clean) = <<>>
    BY <1>2 DEF V1!Announced, V1!QueueFor
  <2>4. QED
    BY <2>1, <2>2, <2>3 DEF V1!SessionAssumption
<1>3. CASE ~clean /\ Len(queue) = QUEUE_SIZE
  <2>1. V1!Announced(clean) = active /\ V1!QueueFor(clean) = Tail(queue)
    BY <1>3 DEF V1!Announced, V1!QueueFor
  <2>2. queue # <<>>
    BY <1>1, <1>3, EmptySeq DEF V1!SessionAssumption
  <2>3. Tail(queue) \in Seq(Jobs) /\ Len(Tail(queue)) = Len(queue) - 1
    BY <2>2, HeadTailProperties DEF V1JobsType
  <2>4. Ends(Tail(queue), active)
    BY <2>2, EndsTail DEF V1QueueInv, V1JobsType
  <2>5. QED
    BY <1>1, <1>3, <2>1, <2>3, <2>4 DEF V1JobsType, V1QueueInv, V1!SessionAssumption
<1>4. CASE ~clean /\ Len(queue) # QUEUE_SIZE
  <2>1. V1!Announced(clean) = active /\ V1!QueueFor(clean) = queue
    BY <1>4 DEF V1!Announced, V1!QueueFor
  <2>2. QED
    BY <1>1, <1>4, <2>1 DEF V1JobsType, V1QueueInv, V1!SessionAssumption
<1>5. QED
  BY <1>2, <1>3, <1>4

LEMMA JobAdded ==
  ASSUME V1!SessionAssumption, NEW a \in Seq(Jobs), NEW q \in Seq(Jobs), NEW job \in Jobs,
         Len(a) <= MAX_ACTIVE_JOB_IDS, Len(q) < QUEUE_SIZE, Ends(q, a), V1!IsInjective(a),
         \A i \in DOMAIN a : a[i] # job
  PROVE  /\ V1!WithActive(a, job) \in Seq(Jobs) /\ Len(V1!WithActive(a, job)) <= MAX_ACTIVE_JOB_IDS
         /\ Append(q, job) \in Seq(Jobs) /\ Len(Append(q, job)) <= QUEUE_SIZE
         /\ V1!IsInjective(V1!WithActive(a, job)) /\ Ends(Append(q, job), V1!WithActive(a, job))
<1>1. Len(a) \in Nat /\ Len(q) \in Nat
  BY LenProperties
<1>2. Append(q, job) \in Seq(Jobs) /\ Len(Append(q, job)) <= QUEUE_SIZE
  BY <1>1, AppendProperties DEF V1!SessionAssumption
<1>3. CASE Len(a) < MAX_ACTIVE_JOB_IDS
  <2>1. V1!WithActive(a, job) = Append(a, job)
    BY <1>3 DEF V1!WithActive
  <2>2. Append(a, job) \in Seq(Jobs) /\ Len(Append(a, job)) = Len(a) + 1
    BY AppendProperties
  <2>3. V1!IsInjective(Append(a, job)) /\ Ends(Append(q, job), Append(a, job))
    BY EndsAppend, InjectiveAppend
  <2>4. QED
    BY <1>1, <1>2, <1>3, <2>1, <2>2, <2>3 DEF V1!SessionAssumption
<1>4. CASE ~(Len(a) < MAX_ACTIVE_JOB_IDS)
  <2>1. V1!WithActive(a, job) = Append(Tail(a), job) /\ Len(q) < Len(a)
    BY <1>1, <1>4 DEF V1!WithActive, V1!SessionAssumption
  <2>2. a # <<>>
    BY <1>1, <2>1, EmptySeq
  <2>3. Tail(a) \in Seq(Jobs) /\ Len(Tail(a)) = Len(a) - 1
    BY <2>2, HeadTailProperties
  <2>4. Ends(q, Tail(a)) /\ V1!IsInjective(Tail(a)) /\ \A i \in DOMAIN Tail(a) : Tail(a)[i] # job
    BY <2>1, <2>2, EndsTail, InjectiveTail
  <2>5. V1!IsInjective(Append(Tail(a), job)) /\ Ends(Append(q, job), Append(Tail(a), job))
    BY <2>3, <2>4, EndsAppend, InjectiveAppend
  <2>6. Append(Tail(a), job) \in Seq(Jobs) /\ Len(Append(Tail(a), job)) = Len(Tail(a)) + 1
    BY <2>3, AppendProperties
  <2>7. QED
    BY <1>1, <1>2, <2>1, <2>3, <2>5, <2>6 DEF V1!SessionAssumption
<1>5. QED
  BY <1>3, <1>4

LEMMA Notified ==
  ASSUME V1!SessionAssumption, V1JobsType, V1QueueInv, NEW clean \in BOOLEAN, NEW job \in Jobs,
         ~\E i \in DOMAIN V1!Announced(clean) : active[i] = job
  PROVE  /\ V1!WithActive(V1!Announced(clean), job) \in Seq(Jobs)
         /\ Len(V1!WithActive(V1!Announced(clean), job)) <= MAX_ACTIVE_JOB_IDS
         /\ Append(V1!QueueFor(clean), job) \in Seq(Jobs)
         /\ Len(Append(V1!QueueFor(clean), job)) <= QUEUE_SIZE
         /\ V1!IsInjective(V1!WithActive(V1!Announced(clean), job))
         /\ Ends(Append(V1!QueueFor(clean), job), V1!WithActive(V1!Announced(clean), job))
<1>1. \A i \in DOMAIN V1!Announced(clean) : V1!Announced(clean)[i] # job
  BY EmptySeq DEF V1!Announced
<1>2. QED
  BY <1>1, BeforeJob, JobAdded
-----------------------------------------------------------------------------
(* Types. *)

LEMMA V1TypeInit == ASSUME V1!SessionAssumption, V1!Init PROVE V1Type
<1>1. <<>> \in Seq(Jobs) /\ <<>> \in Seq(V1!Lines) /\ Len(<<>>) = 0
  BY EmptySeq
<1>2. buffer \in Buffers /\ V1PeerType /\ V1TimingType
  BY <1>1 DEF V1!Init, Buffers, V1PeerType, V1Pools, Sharers, V1!Idle, V1TimingType, Counts
<1>3. QED
  BY <1>1, <1>2 DEF V1!Init, V1Type, V1TaskType, V1JobsType, V1!SessionAssumption

\* The queue after create_jobs_task took a job.
LEMMA JobTakenTypes ==
  ASSUME V1!SessionAssumption, V1JobsType, queue # <<>>
  PROVE  Tail(queue) \in Seq(Jobs) /\ Len(Tail(queue)) <= QUEUE_SIZE
<1>1. Len(queue) \in Nat /\ Len(queue) <= QUEUE_SIZE
  BY LenProperties DEF V1JobsType
<1>2. Tail(queue) \in Seq(Jobs) /\ Len(Tail(queue)) = Len(queue) - 1
  BY HeadTailProperties DEF V1JobsType
<1>3. QED
  BY <1>1, <1>2 DEF V1!SessionAssumption

LEMMA V1TypeNext == ASSUME V1!SessionAssumption, V1Type, V1QueueInv, [V1!Next]_V1!vars PROVE V1Type'
<1>0. <<>> \in Seq(Jobs) /\ <<>> \in Seq(V1!Lines) /\ Len(<<>>) = 0
  BY EmptySeq
<1>. USE DEF V1Type
<1>1. CASE V1!GiveUp
  BY <1>0, <1>1, CloseTypes DEF V1!GiveUp, V1TaskType, V1PeerType, V1JobsType, V1TimingType,
     V1!SessionAssumption
<1>2. CASE V1!DialFails
  BY <1>0, <1>2 DEF V1!DialFails, V1!Dials, V1TaskType, V1PeerType, V1JobsType, V1TimingType,
     V1!SessionAssumption
<1>3. CASE V1!MakeTransport
  BY <1>0, <1>3 DEF V1!MakeTransport, V1!Dials, V1TaskType, V1PeerType, V1JobsType, V1TimingType,
                    V1!SessionAssumption
<1>4. CASE V1!ConnectFails
  <2>1. sharer' \in Sharers
    BY <1>4 DEF V1!ConnectFails, V1PeerType, V1!Retired, Sharers
  <2>2. V1TaskType'
    BY <1>4 DEF V1!ConnectFails, V1TaskType, V1!SessionAssumption
  <2>3. QED
    BY <1>4, <2>1, <2>2 DEF V1!ConnectFails, V1PeerType, V1JobsType, V1TimingType
<1>5. CASE V1!Connects
  <2>1. pool' \in V1Pools
    <3>1. {V1!AUTHORIZE} \in SUBSET Nat
      BY DEF V1!AUTHORIZE
    <3>2. QED
      BY <1>0, <1>5, <3>1 DEF V1!Connects, V1PeerType, V1Pools
  <2>2. QED
    BY <1>0, <1>5, <2>1 DEF V1!Connects, V1TaskType, V1PeerType, V1JobsType, V1TimingType,
       V1!AUTHORIZE, V1!SessionAssumption
<1>6. CASE V1!Receive
  <2>1. buffer' \in Buffers /\ tracking' \subseteq 0 .. MAX_REQUEST_IDS - 1
    <3>1. [made |-> TRUE, lines |-> <<>>] \in Buffers
      BY <1>0 DEF Buffers
    <3>2. QED
      BY <1>6, <3>1 DEF V1!Receive, V1TimingType
  <2>2. QED
    BY <1>6, <2>1 DEF V1!Receive, V1TaskType, V1PeerType, V1JobsType, V1TimingType
<1>7. CASE V1!Read
  <2>1. buffer' \in Buffers /\ pool' \in V1Pools
    BY <1>0, <1>7 DEF V1!Read, Buffers, V1PeerType, V1Pools
  <2>2. QED
    BY <1>7, <2>1 DEF V1!Read, V1TaskType, V1PeerType, V1JobsType, V1TimingType
<1>8. CASE V1!ReadFails
  <2>1. buffer' \in Buffers
    BY <1>0, <1>8 DEF V1!ReadFails, Buffers
  <2>2. retry' \in 0 .. MAX_RETRY_ATTEMPTS
    BY <1>8 DEF V1!ReadFails, V1!Attempt, V1TaskType, V1!SessionAssumption
  <2>3. QED
    BY <1>0, <1>8, <2>1, <2>2, CloseTypes DEF V1!ReadFails, V1TaskType, V1PeerType, V1JobsType,
       V1TimingType, V1!SessionAssumption
<1>9. CASE V1!Paused
  BY <1>0, <1>9, CloseTypes, LineTaken DEF V1!Paused, V1!Took, V1TaskType, V1PeerType,
     V1JobsType, V1TimingType, V1!SessionAssumption
<1>10. CASE V1!Reconnect
  BY <1>0, <1>10, CloseTypes, LineTaken DEF V1!Reconnect, V1!Took, V1TaskType, V1PeerType,
     V1JobsType, V1TimingType, V1!SessionAssumption
<1>11. CASE V1!Malformed
  BY <1>11, LineTaken DEF V1!Malformed, V1!Took, V1TaskType, V1PeerType, V1JobsType, V1TimingType
<1>12. CASE V1!Notify
  <2>1. V1!Line.job \in Jobs /\ V1!Line.clean \in BOOLEAN
    BY <1>12, LineTaken, LineTypes DEF V1!Notify
  <2>2. V1JobsType'
    BY <1>12, <2>1, Notified DEF V1!Notify, V1JobsType
  <2>3. V1TaskType' /\ buffer' \in Buffers
    BY <1>12, LineTaken DEF V1!Notify, V1!Took, V1TaskType
  <2>4. QED
    BY <1>12, <2>2, <2>3 DEF V1!Notify, V1PeerType, V1TimingType
<1>13. CASE V1!ShareAnswer
  <2>1. V1TimingType'
    BY <1>13 DEF V1!ShareAnswer, V1!Answered, V1TimingType, Counts
  <2>2. V1TaskType' /\ buffer' \in Buffers
    BY <1>13, LineTaken DEF V1!ShareAnswer, V1!Took, V1TaskType
  <2>3. QED
    BY <1>13, <2>1, <2>2 DEF V1!ShareAnswer, V1PeerType, V1JobsType
<1>14. CASE V1!SetupAnswer
  <2>1. uid' \in Nat /\ pool' \in V1Pools
    BY <1>14 DEF V1!SetupAnswer, V1PeerType, V1Pools
  <2>2. V1TaskType' /\ buffer' \in Buffers
    BY <1>14, LineTaken DEF V1!SetupAnswer, V1!Took, V1TaskType, V1!SessionAssumption
  <2>3. QED
    BY <1>14, <2>1, <2>2 DEF V1!SetupAnswer, V1PeerType, V1JobsType, V1TimingType
<1>15. CASE V1!ShareFound
  <2>1. sharer' \in Sharers /\ uid' \in Nat
    BY <1>15 DEF V1!ShareFound, V1PeerType, Sharers
  <2>2. QED
    BY <1>15, <2>1 DEF V1!ShareFound, V1TaskType, V1PeerType, V1JobsType, V1TimingType
<1>16. CASE V1!ShareWritten
  <2>1. sharer' \in Sharers /\ pool' \in V1Pools
    BY <1>16 DEF V1!ShareWritten, V1PeerType, Sharers, V1Pools
  <2>2. QED
    BY <1>16, <2>1 DEF V1!ShareWritten, V1!session, V1TaskType, V1PeerType, V1JobsType,
       V1TimingType
<1>17. CASE V1!ShareStamped
  <2>1. V1!Index(sharer.uid) \in 0 .. MAX_REQUEST_IDS - 1
    BY DEF V1PeerType, Sharers, V1!Index, V1!SessionAssumption
  <2>2. V1TimingType'
    BY <1>17, <2>1 DEF V1!ShareStamped, V1TimingType, Counts
  <2>3. sharer' \in Sharers
    BY <1>17 DEF V1!ShareStamped, V1!Idle, Sharers
  <2>4. QED
    BY <1>17, <2>2, <2>3 DEF V1!ShareStamped, V1TaskType, V1PeerType, V1JobsType
<1>18. CASE V1!JobTaken
  BY <1>18, JobTakenTypes DEF V1!JobTaken, V1TaskType, V1PeerType, V1JobsType, V1TimingType
<1>19. CASE V1!PoolAnswers
  <2>1. pool' \in V1Pools
    <3>1. PICK id \in pool.pending, success \in BOOLEAN :
             pool' = [V1!Sends(pool, [kind |-> "answer", id |-> id, success |-> success])
                      EXCEPT !.pending = @ \ {id}]
      BY <1>19 DEF V1!PoolAnswers
    <3>2. [kind |-> "answer", id |-> id, success |-> success] \in V1!Lines
      BY DEF V1PeerType, V1Pools, V1!Lines
    <3>3. QED
      BY <3>1, <3>2, SendTypes DEF V1PeerType, V1Pools
  <2>2. QED
    BY <1>19, <2>1 DEF V1!PoolAnswers, V1!session, V1TaskType, V1PeerType, V1JobsType, V1TimingType
<1>20. CASE V1!PoolNotifies
  <2>1. pool' \in V1Pools
    BY <1>20, SendTypes DEF V1!PoolNotifies, V1PeerType, V1!Lines
  <2>2. QED
    BY <1>20, <2>1 DEF V1!PoolNotifies, V1!session, V1TaskType, V1PeerType, V1JobsType,
       V1TimingType
<1>21. CASE V1!PoolReconnects
  <2>1. pool' \in V1Pools
    BY <1>21, SendTypes DEF V1!PoolReconnects, V1PeerType, V1!Lines
  <2>2. QED
    BY <1>21, <2>1 DEF V1!PoolReconnects, V1!session, V1TaskType, V1PeerType, V1JobsType,
       V1TimingType
<1>22. CASE V1!PoolCloses \/ V1!PoolDies
  <2>1. pool' \in V1Pools
    BY <1>22 DEF V1!PoolCloses, V1!PoolDies, V1PeerType, V1Pools
  <2>2. QED
    BY <1>22, <2>1 DEF V1!PoolCloses, V1!PoolDies, V1!session, V1TaskType, V1PeerType,
       V1JobsType, V1TimingType
<1>23. CASE V1!Pause \/ V1!Resume
  BY <1>23 DEF V1!Pause, V1!Resume, V1!session, V1TaskType, V1PeerType, V1JobsType, V1TimingType
<1>24. CASE UNCHANGED V1!vars
  BY <1>24 DEF V1!vars, V1TaskType, V1PeerType, V1JobsType, V1TimingType
<1>25. QED
  BY <1>1, <1>2, <1>3, <1>4, <1>5, <1>6, <1>7, <1>8, <1>9, <1>10, <1>11, <1>12, <1>13, <1>14,
     <1>15, <1>16, <1>17, <1>18, <1>19, <1>20, <1>21, <1>22, <1>23, <1>24 DEF V1!Next, V1!Task

LEMMA V1InvType == V1Type => V1!TypeOK
  BY DEF V1Type, V1!TypeOK, V1TaskType, V1PeerType, V1JobsType, V1TimingType, Buffers, Sharers,
     V1Pools, Counts
-----------------------------------------------------------------------------
(* The queue. *)

LEMMA EmptyQueue ==
  /\ V1!IsInjective(<<>>) /\ Ends(<<>>, <<>>)
  /\ \A a \in Seq(Jobs) : Ends(<<>>, a)
  BY EmptySeq, LenProperties DEF V1!IsInjective, Ends

LEMMA QueueNext ==
  ASSUME V1!SessionAssumption, V1Type, V1QueueInv, [V1!Next]_V1!vars PROVE V1QueueInv'
<1>. active \in Seq(Jobs) /\ queue \in Seq(Jobs)
  BY DEF V1Type, V1JobsType
<1>1. CASE V1!GiveUp \/ V1!DialFails \/ V1!MakeTransport
  BY <1>1, EmptyQueue DEF V1!GiveUp, V1!DialFails, V1!MakeTransport, V1!Dials, V1!Close, V1QueueInv
<1>2. CASE V1!ConnectFails \/ V1!Receive \/ V1!Read \/ V1!Malformed \/ V1!ShareAnswer
           \/ V1!SetupAnswer
  BY <1>2 DEF V1!ConnectFails, V1!Receive, V1!Read, V1!Malformed, V1!ShareAnswer, V1!SetupAnswer,
     V1!HasLine, V1!Took, V1QueueInv
<1>3. CASE V1!Connects \/ V1!ReadFails \/ V1!Paused \/ V1!Reconnect
  BY <1>3, EmptyQueue DEF V1!Connects, V1!ReadFails, V1!Paused, V1!Reconnect, V1!Close, V1QueueInv
<1>4. CASE V1!Notify
  <2>1. V1!Line.job \in Jobs /\ V1!Line.clean \in BOOLEAN
    BY <1>4, LineTaken, LineTypes DEF V1!Notify
  <2>2. V1!IsInjective(active') /\ Ends(queue', active')
    BY <1>4, <2>1, Notified DEF V1!Notify, V1Type, V1QueueInv
  <2>3. QED
    BY <1>4, <2>2 DEF V1!Notify, V1!Took, V1QueueInv
<1>5. CASE V1!JobTaken
  <2>1. Ends(Tail(queue), active)
    BY <1>5, EndsTail DEF V1!JobTaken, V1QueueInv
  <2>2. QED
    BY <1>5, <2>1 DEF V1!JobTaken, V1QueueInv
<1>6. CASE V1!ShareFound \/ V1!ShareWritten \/ V1!ShareStamped
  BY <1>6 DEF V1!ShareFound, V1!ShareWritten, V1!ShareStamped, V1!session, V1QueueInv
<1>7. CASE V1!PoolAnswers \/ V1!PoolNotifies \/ V1!PoolReconnects \/ V1!PoolCloses \/ V1!PoolDies
  BY <1>7 DEF V1!PoolAnswers, V1!PoolNotifies, V1!PoolReconnects, V1!PoolCloses, V1!PoolDies,
     V1!session, V1QueueInv
<1>8. CASE V1!Pause \/ V1!Resume \/ UNCHANGED V1!vars
  BY <1>8 DEF V1!Pause, V1!Resume, V1!session, V1!vars, V1QueueInv
<1>9. QED
  BY <1>1, <1>2, <1>3, <1>4, <1>5, <1>6, <1>7, <1>8 DEF V1!Next, V1!Task

\* The end of an injective list is injective, and in the list.
LEMMA InvQueue == ASSUME V1Type, V1QueueInv PROVE V1!QueueIsKnown
<1>1. /\ Len(queue) \in Nat /\ Len(active) \in Nat
      /\ DOMAIN queue = 1 .. Len(queue) /\ DOMAIN active = 1 .. Len(active)
  BY LenProperties DEF V1Type, V1JobsType
<1>2. ASSUME NEW i \in DOMAIN queue
      PROVE  /\ (Len(active) - Len(queue)) + i \in DOMAIN active
             /\ queue[i] = active[(Len(active) - Len(queue)) + i]
  BY <1>1 DEF V1QueueInv, Ends
<1>3. ASSUME NEW i \in DOMAIN queue, NEW k \in DOMAIN queue, queue[i] = queue[k]
      PROVE  i = k
  <2>1. (Len(active) - Len(queue)) + i = (Len(active) - Len(queue)) + k
    BY <1>2, <1>3 DEF V1QueueInv, V1!IsInjective
  <2>2. QED
    BY <1>1, <2>1
<1>4. QED
  BY <1>1, <1>2, <1>3 DEF V1!QueueIsKnown, V1!IsInjective, V1!Contains
-----------------------------------------------------------------------------
(* The answers. *)

LEMMA CountNext == ASSUME V1Type, V1CountInv, [V1!Next]_V1!vars PROVE V1CountInv'
<1>. /\ IsFiniteSet(tracking) /\ Cardinality(tracking) \in Nat
     /\ count \in Counts /\ count.stamped \in Nat /\ count.counted \in Nat
     /\ count.counted + Cardinality(tracking) <= count.stamped
  BY FS_CardinalityType, SameCardinality DEF V1CountInv, V1!CountedOnce, V1Type, V1TimingType,
     Counts
<1>1. CASE V1!Receive
  <2>1. IsFiniteSet({}) /\ Cardinality({}) = 0
    BY FS_EmptySet
  <2>2. tracking' \in {tracking, {}} /\ count' = count
    BY <1>1 DEF V1!Receive
  <2>3. IsFiniteSet(tracking') /\ count'.counted + Cardinality(tracking') <= count'.stamped
    BY <2>1, <2>2
  <2>4. QED
    BY <2>3, SameCardinality DEF V1CountInv, V1!CountedOnce
<1>2. CASE V1!ShareAnswer
  <2>1. tracking' = tracking \ {V1!Index(V1!Line.id)} /\ V1!Index(V1!Line.id) \in tracking
    BY <1>2 DEF V1!ShareAnswer, V1!Answered
  <2>2. IsFiniteSet(tracking') /\ Cardinality(tracking') = Cardinality(tracking) - 1
    BY <2>1, FS_RemoveElement
  <2>3. count'.counted = count.counted + 1 /\ count'.stamped = count.stamped
    BY <1>2 DEF V1!ShareAnswer, Counts
  <2>4. QED
    BY <2>2, <2>3, SameCardinality DEF V1CountInv, V1!CountedOnce
<1>3. CASE V1!ShareStamped
  <2>1. tracking' = tracking \cup {V1!Index(sharer.uid)}
    BY <1>3 DEF V1!ShareStamped
  <2>2. IsFiniteSet(tracking') /\ Cardinality(tracking') <= Cardinality(tracking) + 1
        /\ Cardinality(tracking') \in Nat
    <3>1. /\ IsFiniteSet(tracking')
          /\ Cardinality(tracking') = IF V1!Index(sharer.uid) \in tracking
                                       THEN Cardinality(tracking) ELSE Cardinality(tracking) + 1
      BY <2>1, FS_AddElement
    <3>2. QED
      BY <3>1
  <2>3. count'.counted = count.counted /\ count'.stamped = count.stamped + 1
    BY <1>3 DEF V1!ShareStamped, Counts
  <2>4. QED
    BY <2>2, <2>3, SameCardinality DEF V1CountInv, V1!CountedOnce
<1>4. CASE UNCHANGED <<tracking, count>>
  BY <1>4, SameCardinality DEF V1CountInv, V1!CountedOnce
<1>5. CASE V1!Task /\ ~V1!Receive /\ ~V1!ShareAnswer
  <2>1. UNCHANGED <<tracking, count>>
    BY <1>5 DEF V1!Task, V1!GiveUp, V1!DialFails, V1!MakeTransport, V1!ConnectFails, V1!Connects,
       V1!Read, V1!ReadFails, V1!Paused, V1!Reconnect, V1!Malformed, V1!Notify, V1!SetupAnswer
  <2>2. QED
    BY <1>4, <2>1
<1>6. CASE V1!ShareFound \/ V1!ShareWritten \/ V1!JobTaken \/ V1!Pause \/ V1!Resume
           \/ UNCHANGED V1!vars
  <2>1. UNCHANGED <<tracking, count>>
    BY <1>6 DEF V1!ShareFound, V1!ShareWritten, V1!JobTaken, V1!Pause, V1!Resume, V1!session,
       V1!vars
  <2>2. QED
    BY <1>4, <2>1
<1>7. CASE V1!PoolAnswers \/ V1!PoolNotifies \/ V1!PoolReconnects \/ V1!PoolCloses \/ V1!PoolDies
  <2>1. UNCHANGED <<tracking, count>>
    BY <1>7 DEF V1!PoolAnswers, V1!PoolNotifies, V1!PoolReconnects, V1!PoolCloses, V1!PoolDies,
       V1!session
  <2>2. QED
    BY <1>4, <2>1
<1>8. QED
  BY <1>1, <1>2, <1>3, <1>5, <1>6, <1>7 DEF V1!Next
-----------------------------------------------------------------------------
V1Inv == V1Type /\ V1QueueInv /\ V1CountInv

LEMMA V1InvInit == ASSUME V1!SessionAssumption, V1!Init PROVE V1Inv
<1>1. V1QueueInv
  BY EmptyQueue DEF V1!Init, V1QueueInv
<1>2. V1CountInv
  BY FS_EmptySet, SameCardinality DEF V1!Init, V1CountInv, V1!CountedOnce
<1>3. QED
  BY <1>1, <1>2, V1TypeInit DEF V1Inv

LEMMA V1InvNext == ASSUME V1!SessionAssumption, V1Inv, [V1!Next]_V1!vars PROVE V1Inv'
  BY V1TypeNext, QueueNext, CountNext DEF V1Inv

LEMMA V1InvHolds == ASSUME V1Inv PROVE V1!SessionsHold
  BY InvQueue DEF V1Inv, V1!SessionsHold, V1CountInv

LEMMA V1Inductive == ASSUME V1!SessionAssumption PROVE V1!Spec => []V1Inv
BY V1InvInit, V1InvNext, PTL DEF V1!Spec

\* stratum_v1_task.c:44-69, stratum_api.c:41: the list of active ids stays within its array, the
\* timings within theirs, and the attempts within theirs, for all sizes of the three.
THEOREM V1TypeCorrect == ASSUME V1!SessionAssumption PROVE V1!Spec => []V1!TypeOK
<1>1. V1Inv => V1!TypeOK
  BY V1InvType DEF V1Inv
<1>2. QED
  BY <1>1, V1Inductive, PTL

\* stratum_v1_task.c:505, stratum_api.c:41: whatever the pool repeats, reconnects or leaves
\* unanswered, no share is counted twice and no job waits twice in the queue or unknown to the
\* duplicate check.
THEOREM V1StaysSound == ASSUME V1!SessionAssumption PROVE V1!Spec => []V1!SessionsHold
<1>1. V1Inv => V1!SessionsHold
  BY V1InvHolds
<1>2. QED
  BY <1>1, V1Inductive, PTL
-----------------------------------------------------------------------------
Connections == [seq : Nat, prev : Nat, pending : [0 .. SV2_PENDING_JOBS_SIZE - 1 -> Nat]]
Messages == [kind : {"setup", "channel", "refusal", "error"}]
            \cup [kind : {"job"}, id : Nat \ {0}, future : BOOLEAN]
            \cup [kind : {"prev"}, id : Nat \ {0}, prev : Nat \ {0}]
            \cup [kind : {"ack"}, seq : Nat, share : Nat]
Answers == [seq : Nat, share : Nat]
Peers == [serves : BOOLEAN, open : BOOLEAN, asked : {"none", "setup", "channel"},
          opened : BOOLEAN, wire : Seq(Messages), got : SUBSET Answers, jobs : Nat,
          offers : SUBSET (Nat \ {0}), prev : Nat]
Senders == [pc : {"idle", "numbered", "sealed"}, seq : Nat, share : Nat, old : BOOLEAN]
Offered == [id : Nat, prev : Nat]

\* The types, and that a task which holds a connection has an attempt left.
Resting == task \in {"dial", "failed"}
V2TaskType ==
  /\ task \in {"dial", "handshake", "setup", "setup_reply", "open", "open_reply", "loop", "failed"}
  /\ retry \in 0 .. MAX_RETRY_ATTEMPTS
  /\ ~Resting => retry < MAX_RETRY_ATTEMPTS
V2PeerType == /\ pool \in Peers /\ left \in [shares : Nat, jobs : Nat, prevs : Nat]
V2WorkType == /\ conn \in Connections /\ queue \in Seq(Offered) /\ handed \in Nat
V2ShareType == /\ sender \in Senders /\ shares \in Nat
               /\ stamps \in [0 .. SV2_SUBMIT_TIMING_SLOTS - 1 -> Nat]
               /\ \A s \in DOMAIN stamps : stamps[s] <= shares
V2Type == /\ V2TaskType /\ V2PeerType /\ V2WorkType /\ V2ShareType
          /\ transport \in BOOLEAN /\ noise \in {"none", "made", "keyed"}

\* Nothing is under way without a connection.
RestInv == Resting => /\ queue = <<>> /\ pool.wire = <<>> /\ pool.offers = {} /\ pool.got = {}
                      /\ ~pool.open /\ pool.prev = 0

\* The jobs a pool w has written, and those that wait in connection c, have ascending ids.
Ascend(w, c, made) ==
  /\ \A i, k \in 1 .. Len(w) :
       i < k /\ w[i].kind = "job" /\ w[k].kind = "job" => w[i].id < w[k].id
  /\ \A i \in 1 .. Len(w) : w[i].kind = "job" => w[i].id <= made
  /\ \A s \in 0 .. SV2_PENDING_JOBS_SIZE - 1 :
       /\ c.pending[s] <= made
       /\ \A i \in 1 .. Len(w) : w[i].kind = "job" => c.pending[s] < w[i].id

\* Job x will be in its slot when the message at place k of w is handled: it is
\* there or will be put there, and nothing before k takes its slot or empties it.
NoPrev(w, first, end) == \A h \in first .. end : w[h].kind # "prev"
Kept(w, c, k, x) ==
  /\ \A i \in 1 .. k - 1 : w[i].kind = "job" => w[i].id < x + SV2_PENDING_JOBS_SIZE
  /\ \/ c.pending[V2!Slot(x)] = x /\ NoPrev(w, 1, k - 1)
     \/ \E i \in 1 .. k - 1 :
          /\ w[i].kind = "job" /\ w[i].id = x /\ NoPrev(w, i + 1, k - 1)
          /\ w[i].future \/ (c.prev = 0 /\ NoPrev(w, 1, i - 1))

\* Every job that a block names, or may name next, is kept until then.
NamedAreKept(w, c) == \A k \in 1 .. Len(w) : w[k].kind = "prev" => Kept(w, c, k, w[k].id)
OffersAreKept(w, c, made, offers) ==
  \A x \in offers : made < x + SV2_PENDING_JOBS_SIZE /\ Kept(w, c, Len(w) + 1, x)

\* The block of the connection will be the pool's when all is handled.
InStep(w, c, prev) ==
  /\ prev = 0 => NoPrev(w, 1, Len(w))
  /\ NoPrev(w, 1, Len(w)) => c.prev = prev
  /\ \A k \in 1 .. Len(w) : w[k].kind = "prev" /\ NoPrev(w, k + 1, Len(w)) => w[k].prev = prev

WireInv == /\ Ascend(pool.wire, conn, pool.jobs)
           /\ NamedAreKept(pool.wire, conn)
           /\ OffersAreKept(pool.wire, conn, pool.jobs, pool.offers)
WorkInv == ~Resting => InStep(pool.wire, conn, pool.prev) /\ handed = conn.prev

\* In the stamps st of n shares, the one for number q is of share s, of a later one, or
\* used up.
Timed(marks, n, q, s) == s <= n /\ (marks[V2!Time(q)] = V2!NoShare \/ marks[V2!Time(q)] >= s)
StampInv ==
  /\ \A a \in pool.got : Timed(stamps, shares, a.seq, a.share)
  /\ \A i \in 1 .. Len(pool.wire) :
       pool.wire[i].kind = "ack" => Timed(stamps, shares, pool.wire[i].seq, pool.wire[i].share)
  /\ sender.pc # "idle" => Timed(stamps, shares, sender.seq, sender.share)
-----------------------------------------------------------------------------
(* The slots and the messages on the way. *)

LEMMA SlotsDiffer ==
  ASSUME V2!V2Assumption, NEW x \in Nat, NEW y \in Nat, x < y, y < x + SV2_PENDING_JOBS_SIZE
  PROVE  V2!Slot(x) # V2!Slot(y)
<1>. DEFINE n == SV2_PENDING_JOBS_SIZE
<1>1. SUFFICES ASSUME V2!Slot(x) = V2!Slot(y) PROVE FALSE
  OBVIOUS
<1>2. n \in Nat \ {0}
  BY DEF V2!V2Assumption
<1>3. x = n * (x \div n) + (x % n) /\ y = n * (y \div n) + (y % n)
      /\ x \div n \in Nat /\ y \div n \in Nat
  BY <1>2, Z3
<1>4. y - x = n * ((y \div n) - (x \div n))
  BY <1>1, <1>2, <1>3 DEF V2!Slot
<1>5. PICK d \in Int : y - x = n * d
  BY <1>3, <1>4
<1>6. y - x < n /\ y - x > 0 /\ y - x \in Int
  BY <1>2
<1>. HIDE DEF n
<1>7. CASE d <= 0
  <2>1. n * d <= 0
    BY <1>2, <1>7
  <2>2. QED
    BY <1>5, <1>6, <2>1
<1>8. CASE d >= 1
  <2>1. n * d >= n
    BY <1>2, <1>8
  <2>2. QED
    BY <1>2, <1>5, <1>6, <2>1
<1>9. QED
  BY <1>7, <1>8

LEMMA SlotRange == ASSUME V2!V2Assumption, NEW x \in Nat
                   PROVE  V2!Slot(x) \in 0 .. SV2_PENDING_JOBS_SIZE - 1
  BY DEF V2!V2Assumption, V2!Slot

LEMMA TimeRange == ASSUME V2!V2Assumption, NEW x \in Nat
                   PROVE  V2!Time(x) \in 0 .. SV2_SUBMIT_TIMING_SLOTS - 1
  BY DEF V2!V2Assumption, V2!Time

LEMMA MessageTypes ==
  ASSUME NEW m \in Messages
  PROVE  /\ m.kind = "job" => m.id \in Nat \ {0} /\ m.future \in BOOLEAN
         /\ m.kind = "prev" => m.id \in Nat \ {0} /\ m.prev \in Nat \ {0}
         /\ m.kind = "ack" => m.seq \in Nat /\ m.share \in Nat
  BY DEF Messages

\* Only what is written before place k decides whether a job is kept until then.
LEMMA KeptPrefix ==
  ASSUME NEW w, NEW y, NEW c, NEW k \in Nat, NEW x, Kept(w, c, k, x),
         \A i \in 1 .. k - 1 : y[i] = w[i]
  PROVE  Kept(y, c, k, x)
<1>1. \A i \in 1 .. k - 1 : i - 1 <= k - 1 /\ i \in Nat
  OBVIOUS
<1>2. QED
  BY <1>1 DEF Kept, NoPrev

\* A message that says nothing of jobs and blocks is written.
LEMMA OtherWritten ==
  ASSUME NEW w \in Seq(Messages), NEW c, NEW made, NEW offers, NEW prev,
         NEW m \in Messages, m.kind \notin {"job", "prev"}
  PROVE  LET y == Append(w, m)
         IN  /\ Ascend(w, c, made) => Ascend(y, c, made)
             /\ NamedAreKept(w, c) => NamedAreKept(y, c)
             /\ OffersAreKept(w, c, made, offers) => OffersAreKept(y, c, made, offers)
             /\ InStep(w, c, prev) => InStep(y, c, prev)
<1>. DEFINE y == Append(w, m)
            n == Len(w)
<1>1. /\ n \in Nat /\ Len(y) = n + 1 /\ y[n + 1] = m
      /\ \A i \in 1 .. n : y[i] = w[i]
  BY LenProperties, AppendProperties
<1>. HIDE DEF y, n
<1>2. Ascend(w, c, made) => Ascend(y, c, made)
  BY <1>1 DEF Ascend, n
<1>3. ASSUME NamedAreKept(w, c) PROVE NamedAreKept(y, c)
  <2>1. SUFFICES ASSUME NEW k \in 1 .. n, y[k].kind = "prev" PROVE Kept(y, c, k, y[k].id)
    BY <1>1 DEF NamedAreKept
  <2>2. Kept(w, c, k, w[k].id)
    BY <1>1, <1>3, <2>1 DEF NamedAreKept, n
  <2>3. QED
    BY <1>1, <2>1, <2>2, KeptPrefix
<1>4. ASSUME OffersAreKept(w, c, made, offers) PROVE OffersAreKept(y, c, made, offers)
  <2>1. SUFFICES ASSUME NEW x \in offers, Kept(w, c, n + 1, x) PROVE Kept(y, c, n + 2, x)
    BY <1>1, <1>4 DEF OffersAreKept, n
  <2>2. Kept(y, c, n + 1, x)
    BY <1>1, <2>1, KeptPrefix
  <2>3. \A i \in 1 .. n + 1 : i \in 1 .. n \/ (i = n + 1 /\ y[i].kind \notin {"job", "prev"})
    BY <1>1
  <2>4. \A i \in 1 .. n + 1 : y[i].kind = "job" => y[i].id < x + SV2_PENDING_JOBS_SIZE
    BY <1>1, <2>2, <2>3 DEF Kept
  <2>5. ASSUME NEW i \in 1 .. n + 1, NoPrev(y, i, n) PROVE NoPrev(y, i, n + 1)
    BY <1>1, <2>3, <2>5 DEF NoPrev
  <2>6. ASSUME NEW i \in 1 .. n, NoPrev(y, i + 1, n) PROVE NoPrev(y, i + 1, n + 1)
    BY <1>1, <2>5, <2>6
  <2>7. CASE c.pending[V2!Slot(x)] = x /\ NoPrev(y, 1, n)
    BY <1>1, <2>4, <2>5, <2>7 DEF Kept
  <2>8. CASE ~(c.pending[V2!Slot(x)] = x /\ NoPrev(y, 1, n))
    BY <1>1, <2>2, <2>4, <2>6, <2>8 DEF Kept
  <2>9. QED
    BY <2>7, <2>8
<1>5. InStep(w, c, prev) => InStep(y, c, prev)
  BY <1>1 DEF InStep, NoPrev, n
<1>6. QED
  BY <1>2, <1>3, <1>4, <1>5 DEF y

LEMMA OfferWritten ==
  ASSUME V2!V2Assumption, NEW w \in Seq(Messages), NEW c \in Connections, NEW made \in Nat,
         NEW offers \in SUBSET (Nat \ {0}), NEW prev, NEW future \in BOOLEAN,
         Ascend(w, c, made), OffersAreKept(w, c, made, offers), NamedAreKept(w, c),
         InStep(w, c, prev)
  PROVE  LET id == made + 1
             y == Append(w, [kind |-> "job", id |-> id, future |-> future])
             new == {o \in offers : o > id - SV2_PENDING_JOBS_SIZE}
                    \cup (IF future \/ prev = 0 THEN {id} ELSE {})
         IN  /\ y \in Seq(Messages) /\ new \in SUBSET (Nat \ {0})
             /\ Ascend(y, c, id) /\ OffersAreKept(y, c, id, new) /\ NamedAreKept(y, c)
             /\ InStep(y, c, prev)
<1>. DEFINE id == made + 1
            m == [kind |-> "job", id |-> id, future |-> future]
            y == Append(w, m)
            n == Len(w)
            new == {o \in offers : o > id - SV2_PENDING_JOBS_SIZE}
                   \cup (IF future \/ prev = 0 THEN {id} ELSE {})
<1>0. m \in Messages /\ m.kind = "job" /\ m.id = id /\ m.future = future
  BY DEF Messages
<1>. HIDE DEF m
<1>1. /\ n \in Nat /\ Len(y) = n + 1 /\ y[n + 1] = m /\ y \in Seq(Messages)
      /\ \A i \in 1 .. n : y[i] = w[i]
  BY <1>0, LenProperties, AppendProperties
<1>. HIDE DEF y, n
<1>2. Ascend(y, c, id)
  <2>1. \A i \in 1 .. n : w[i].kind = "job" => w[i].id \in Nat
    BY <1>1, MessageTypes, ElementOfSeq DEF n
  <2>2. \A s \in 0 .. SV2_PENDING_JOBS_SIZE - 1 : c.pending[s] \in Nat
    BY DEF Connections
  <2>3. \A i, k \in 1 .. n + 1 : i < k => i \in 1 .. n /\ (k \in 1 .. n \/ k = n + 1)
    BY <1>1
  <2>4. \A i, k \in 1 .. n + 1 :
          i < k /\ y[i].kind = "job" /\ y[k].kind = "job" => y[i].id < y[k].id
    BY <1>0, <1>1, <2>1, <2>3 DEF Ascend, n
  <2>5. \A i \in 1 .. n + 1 : y[i].kind = "job" => y[i].id <= id
    BY <1>0, <1>1, <2>1 DEF Ascend, n
  <2>6. \A s \in 0 .. SV2_PENDING_JOBS_SIZE - 1 :
          /\ c.pending[s] <= id
          /\ \A i \in 1 .. n + 1 : y[i].kind = "job" => c.pending[s] < y[i].id
    BY <1>0, <1>1, <2>1, <2>2 DEF Ascend, n
  <2>7. QED
    BY <1>1, <2>4, <2>5, <2>6 DEF Ascend
<1>3. NamedAreKept(y, c)
  <2>1. SUFFICES ASSUME NEW k \in 1 .. n, y[k].kind = "prev" PROVE Kept(y, c, k, y[k].id)
    BY <1>0, <1>1 DEF NamedAreKept
  <2>2. Kept(w, c, k, w[k].id)
    BY <1>1, <2>1 DEF NamedAreKept, n
  <2>3. QED
    BY <1>1, <2>1, <2>2, KeptPrefix, SMTT(20), ZenonT(20)
<1>4. ASSUME NEW x \in new PROVE id < x + SV2_PENDING_JOBS_SIZE /\ Kept(y, c, n + 2, x)
  <2>1. CASE x \in offers /\ x > id - SV2_PENDING_JOBS_SIZE
    <3>1. id < x + SV2_PENDING_JOBS_SIZE
      BY <2>1 DEF V2!V2Assumption
    <3>2. Kept(w, c, n + 1, x)
      BY <2>1 DEF OffersAreKept, n
    <3>3. Kept(y, c, n + 1, x)
      BY <1>1, <3>2, KeptPrefix
    <3>4. QED
      BY <1>0, <1>1, <3>1, <3>3 DEF Kept, NoPrev
  <2>2. CASE x = id /\ (future \/ prev = 0)
    <3>1. id < id + SV2_PENDING_JOBS_SIZE
      BY DEF V2!V2Assumption
    <3>2. \A i \in 1 .. n + 1 : y[i].kind = "job" => y[i].id < id + SV2_PENDING_JOBS_SIZE
      <4>1. \A i \in 1 .. n : w[i].kind = "job" => w[i].id <= made
        BY DEF Ascend, n
      <4>2. \A i \in 1 .. n : w[i].kind = "job" => w[i].id \in Nat
        BY <1>1, MessageTypes, ElementOfSeq DEF n
      <4>3. \A i \in 1 .. n : w[i].kind = "job" => w[i].id < id + SV2_PENDING_JOBS_SIZE
        BY <1>0, <4>1, <4>2 DEF V2!V2Assumption
      <4>4. SUFFICES ASSUME NEW i \in 1 .. n + 1, y[i].kind = "job"
                     PROVE  y[i].id < id + SV2_PENDING_JOBS_SIZE
        OBVIOUS
      <4>5. CASE i = n + 1
        BY <1>0, <1>1, <3>1, <4>5
      <4>6. CASE i # n + 1
        <5>1. i \in 1 .. n /\ y[i] = w[i]
          BY <1>1, <4>6
        <5>2. QED
          BY <4>3, <4>4, <5>1
      <4>7. QED
        BY <4>5, <4>6
    <3>3. y[n + 1].future \/ (c.prev = 0 /\ NoPrev(y, 1, n))
      BY <1>0, <1>1, <2>2 DEF InStep, NoPrev, n
    <3>4. NoPrev(y, (n + 1) + 1, n + 1)
      BY <1>1 DEF NoPrev
    <3>5. QED
      BY <1>0, <1>1, <2>2, <3>1, <3>2, <3>3, <3>4 DEF Kept
  <2>3. QED
    BY <2>1, <2>2
<1>5. OffersAreKept(y, c, id, new)
  BY <1>1, <1>4 DEF OffersAreKept
<1>6. InStep(y, c, prev)
  BY <1>0, <1>1, SMTT(30) DEF InStep, NoPrev, n
<1>7. new \in SUBSET (Nat \ {0})
  <2>1. id \in Nat \ {0}
    OBVIOUS
  <2>. HIDE DEF id
  <2>2. QED
    BY <2>1
<1>8. QED
  BY <1>1, <1>2, <1>3, <1>5, <1>6, <1>7 DEF y, m

LEMMA BlockWritten ==
  ASSUME NEW w \in Seq(Messages), NEW c, NEW made, NEW offers \in SUBSET (Nat \ {0}),
         NEW old, NEW prev \in Nat \ {0}, NEW id \in offers,
         Ascend(w, c, made), OffersAreKept(w, c, made, offers), NamedAreKept(w, c),
         InStep(w, c, old)
  PROVE  LET y == Append(w, [kind |-> "prev", id |-> id, prev |-> prev])
         IN  /\ y \in Seq(Messages)
             /\ Ascend(y, c, made) /\ NamedAreKept(y, c) /\ InStep(y, c, prev)
<1>. DEFINE m == [kind |-> "prev", id |-> id, prev |-> prev]
            y == Append(w, m)
            n == Len(w)
<1>0. m \in Messages /\ m.kind = "prev" /\ m.id = id /\ m.prev = prev
  BY DEF Messages
<1>. HIDE DEF m
<1>1. /\ n \in Nat /\ Len(y) = n + 1 /\ y[n + 1] = m /\ y \in Seq(Messages)
      /\ \A i \in 1 .. n : y[i] = w[i]
  BY <1>0, LenProperties, AppendProperties
<1>. HIDE DEF y, n
<1>2. Ascend(y, c, made)
  BY <1>0, <1>1, SMTT(20), ZenonT(20) DEF Ascend, n
<1>3. NamedAreKept(y, c)
  <2>1. SUFFICES ASSUME NEW k \in 1 .. n + 1, y[k].kind = "prev" PROVE Kept(y, c, k, y[k].id)
    BY <1>1 DEF NamedAreKept
  <2>2. CASE k = n + 1
    <3>1. Kept(w, c, n + 1, id)
      BY DEF OffersAreKept, n
    <3>2. QED
      BY <1>0, <1>1, <2>2, <3>1, KeptPrefix
  <2>3. CASE k \in 1 .. n
    <3>1. Kept(w, c, k, w[k].id)
      BY <1>1, <2>1, <2>3 DEF NamedAreKept, n
    <3>2. QED
      BY <1>1, <2>3, <3>1, KeptPrefix
  <2>4. k = n + 1 \/ k \in 1 .. n
    BY <1>1
  <2>5. QED
    BY <2>2, <2>3, <2>4
<1>4. InStep(y, c, prev)
  <2>1. ~NoPrev(y, 1, n + 1)
    BY <1>0, <1>1 DEF NoPrev
  <2>2. \A k \in 1 .. n : ~NoPrev(y, k + 1, n + 1)
    BY <1>0, <1>1 DEF NoPrev
  <2>3. QED
    BY <1>0, <1>1, <2>1, <2>2 DEF InStep
<1>5. QED
  BY <1>1, <1>2, <1>3, <1>4 DEF y, m

\* The first message is handled.  What is kept until place k of the whole is kept until place
\* k - 1 of the rest, when the connection has changed from c to d as the message asks.
LEMMA Handled ==
  ASSUME NEW w \in Seq(Messages), w # <<>>, NEW c, NEW d, NEW made, NEW offers, NEW prev,
         NamedAreKept(w, c), OffersAreKept(w, c, made, offers),
         \A k \in 2 .. Len(w) + 1 : \A x \in Nat \ {0} :
            Kept(w, c, k, x) => Kept(Tail(w), d, k - 1, x),
         offers \in SUBSET (Nat \ {0})
  PROVE  LET y == Tail(w)
         IN  NamedAreKept(y, d) /\ OffersAreKept(y, d, made, offers)
<1>. DEFINE y == Tail(w)
            n == Len(w)
<1>1. /\ n \in Nat /\ n >= 1 /\ Len(y) = n - 1 /\ y \in Seq(Messages)
      /\ \A i \in 1 .. n - 1 : y[i] = w[i + 1]
  <2>1. n \in Nat \ {0}
    BY EmptySeq
  <2>2. Len(y) = n - 1 /\ y \in Seq(Messages) /\ \A i \in 1 .. Len(y) : y[i] = w[i + 1]
    BY HeadTailProperties
  <2>3. QED
    BY <2>1, <2>2
<1>. HIDE DEF y, n
<1>2. ASSUME NEW k \in 1 .. n - 1, y[k].kind = "prev" PROVE Kept(y, d, k, y[k].id)
  <2>1. y[k] = w[k + 1] /\ k + 1 \in 2 .. n /\ k + 1 \in 2 .. n + 1 /\ (k + 1) - 1 = k
    BY <1>1
  <2>2. y[k].id \in Nat \ {0}
    <3>1. y[k] \in Messages
      BY <1>1, ElementOfSeq
    <3>2. QED
      BY <1>2, <3>1, MessageTypes
  <2>3. Kept(w, c, k + 1, y[k].id)
    BY <1>1, <1>2, <2>1 DEF NamedAreKept, n
  <2>4. QED
    BY <2>1, <2>2, <2>3 DEF y, n
<1>3. ASSUME NEW x \in offers
      PROVE  made < x + SV2_PENDING_JOBS_SIZE /\ Kept(y, d, n, x)
  <2>1. n + 1 \in 2 .. n + 1 /\ (n + 1) - 1 = n
    BY <1>1
  <2>2. QED
    BY <2>1 DEF OffersAreKept, y, n
<1>4. QED
  BY <1>1, <1>2, <1>3 DEF NamedAreKept, OffersAreKept, y

\* The rest of the messages, moved up by one.
LEMMA Rest ==
  ASSUME NEW w \in Seq(Messages), w # <<>>
  PROVE  /\ Len(w) \in Nat \ {0} /\ Len(Tail(w)) = Len(w) - 1
         /\ Tail(w) \in Seq(Messages) /\ w[1] \in Messages
         /\ \A i \in 1 .. Len(w) - 1 : Tail(w)[i] = w[i + 1]
         /\ \A i \in 2 .. Len(w) : i - 1 \in 1 .. Len(w) - 1 /\ Tail(w)[i - 1] = w[i]
<1>1. Len(w) \in Nat \ {0}
  BY EmptySeq
<1>2. /\ Len(Tail(w)) = Len(w) - 1 /\ Tail(w) \in Seq(Messages)
      /\ \A i \in 1 .. Len(Tail(w)) : Tail(w)[i] = w[i + 1]
  BY HeadTailProperties
<1>3. w[1] \in Messages
  BY <1>1, ElementOfSeq
<1>4. \A i \in 2 .. Len(w) : i - 1 \in 1 .. Len(w) - 1 /\ (i - 1) + 1 = i
  BY <1>1
<1>5. QED
  BY <1>1, <1>2, <1>3, <1>4

LEMMA RestPrev ==
  ASSUME NEW w \in Seq(Messages), w # <<>>, NEW a \in 1 .. Len(w), NEW b \in 0 .. Len(w) - 1,
         NoPrev(w, a + 1, b + 1)
  PROVE  NoPrev(Tail(w), a, b)
<1>1. SUFFICES ASSUME NEW h \in a .. b PROVE Tail(w)[h].kind # "prev"
  BY DEF NoPrev
<1>2. h \in 1 .. Len(w) - 1 /\ h + 1 \in a + 1 .. b + 1
  BY Rest
<1>3. QED
  BY <1>2, Rest DEF NoPrev

LEMMA KeptHere ==
  ASSUME NEW w \in Seq(Messages), w # <<>>, NEW d, NEW k \in 2 .. Len(w) + 1, NEW x,
         \A i \in 1 .. k - 1 : w[i].kind = "job" => w[i].id < x + SV2_PENDING_JOBS_SIZE,
         d.pending[V2!Slot(x)] = x, NoPrev(w, 2, k - 1)
  PROVE  Kept(Tail(w), d, k - 1, x)
<1>1. \A i \in 1 .. k - 2 : /\ i \in 1 .. Len(w) - 1 /\ i + 1 \in 1 .. k - 1
                            /\ Tail(w)[i] = w[i + 1]
  BY Rest
<1>2. NoPrev(Tail(w), 1, (k - 1) - 1)
  <2>1. 1 \in 1 .. Len(w) /\ k - 2 \in 0 .. Len(w) - 1 /\ (k - 2) + 1 = k - 1 /\ (k - 1) - 1 = k - 2
        /\ 1 + 1 = 2
    BY Rest
  <2>2. NoPrev(w, 1 + 1, (k - 2) + 1)
    BY <2>1
  <2>3. NoPrev(Tail(w), 1, k - 2)
    BY <2>1, <2>2, RestPrev
  <2>4. QED
    BY <2>1, <2>3
<1>3. (k - 1) - 1 = k - 2
  OBVIOUS
<1>4. QED
  BY <1>1, <1>2, <1>3 DEF Kept

LEMMA KeptLater ==
  ASSUME NEW w \in Seq(Messages), w # <<>>, NEW d, NEW k \in 2 .. Len(w) + 1, NEW x,
         \A i \in 1 .. k - 1 : w[i].kind = "job" => w[i].id < x + SV2_PENDING_JOBS_SIZE,
         NEW i \in 2 .. k - 1, w[i].kind = "job", w[i].id = x, NoPrev(w, i + 1, k - 1),
         w[i].future \/ (d.prev = 0 /\ NoPrev(w, 1, i - 1))
  PROVE  Kept(Tail(w), d, k - 1, x)
<1>0. Len(w) \in Nat \ {0} /\ (k - 1) - 1 = k - 2 /\ i - 1 \in 1 .. k - 2
  BY Rest
<1>1. \A h \in 1 .. k - 2 : /\ h \in 1 .. Len(w) - 1 /\ h + 1 \in 1 .. k - 1
                            /\ Tail(w)[h] = w[h + 1]
  BY <1>0, Rest
<1>2. Tail(w)[i - 1] = w[i]
  BY <1>0, Rest
<1>3. NoPrev(Tail(w), (i - 1) + 1, k - 2)
  <2>1. \A h \in (i - 1) + 1 .. k - 2 : h \in 1 .. k - 2 /\ h + 1 \in i + 1 .. k - 1
    BY <1>0
  <2>2. QED
    BY <1>1, <2>1 DEF NoPrev
<1>4. NoPrev(w, 1, i - 1) => NoPrev(Tail(w), 1, (i - 1) - 1)
  <2>1. \A h \in 1 .. (i - 1) - 1 : h \in 1 .. k - 2 /\ h + 1 \in 1 .. i - 1
    BY <1>0
  <2>2. QED
    BY <1>1, <2>1 DEF NoPrev
<1>5. QED
  BY <1>0, <1>1, <1>2, <1>3, <1>4 DEF Kept

LEMMA RestAscends ==
  ASSUME NEW w \in Seq(Messages), w # <<>>, NEW c, NEW d, NEW made, Ascend(w, c, made),
         \A s \in 0 .. SV2_PENDING_JOBS_SIZE - 1 :
            \/ d.pending[s] = c.pending[s]
            \/ w[1].kind = "job" /\ d.pending[s] = w[1].id
            \/ d.pending[s] = 0 /\ c.pending[s] \in Nat /\ made \in Nat
  PROVE  Ascend(Tail(w), d, made)
<1>1. \A i \in 1 .. Len(w) - 1 : i + 1 \in 1 .. Len(w) /\ 1 < i + 1 /\ Tail(w)[i] = w[i + 1]
  BY Rest
<1>2. Len(Tail(w)) = Len(w) - 1 /\ 1 \in 1 .. Len(w)
  BY Rest
<1>3. \A i \in 1 .. Len(w) : w[i].kind = "job" => w[i].id \in Nat \ {0}
  BY MessageTypes, ElementOfSeq
<1>4. \A i, k \in 1 .. Len(w) - 1 : i < k => i + 1 < k + 1
  OBVIOUS
<1>5. \A i, k \in 1 .. Len(w) - 1 :
        i < k /\ Tail(w)[i].kind = "job" /\ Tail(w)[k].kind = "job" => Tail(w)[i].id < Tail(w)[k].id
  BY <1>1, <1>4 DEF Ascend
<1>6. \A i \in 1 .. Len(w) - 1 : Tail(w)[i].kind = "job" => Tail(w)[i].id <= made
  BY <1>1 DEF Ascend
<1>7. ASSUME NEW s \in 0 .. SV2_PENDING_JOBS_SIZE - 1
      PROVE  /\ d.pending[s] <= made
             /\ \A i \in 1 .. Len(w) - 1 : Tail(w)[i].kind = "job" => d.pending[s] < Tail(w)[i].id
  <2>1. CASE d.pending[s] = c.pending[s]
    BY <1>1, <2>1 DEF Ascend
  <2>2. CASE w[1].kind = "job" /\ d.pending[s] = w[1].id
    BY <1>1, <1>2, <2>2 DEF Ascend
  <2>3. CASE d.pending[s] = 0 /\ c.pending[s] \in Nat /\ made \in Nat
    BY <1>1, <1>3, <2>3
  <2>4. QED
    BY <2>1, <2>2, <2>3
<1>8. QED
  BY <1>2, <1>5, <1>6, <1>7 DEF Ascend

LEMMA RestInStep ==
  ASSUME NEW w \in Seq(Messages), w # <<>>, NEW c, NEW d, NEW prev, InStep(w, c, prev),
         IF w[1].kind = "prev" THEN d.prev = w[1].prev ELSE d.prev = c.prev
  PROVE  InStep(Tail(w), d, prev)
<1>1. \A i \in 1 .. Len(w) - 1 : i + 1 \in 1 .. Len(w) /\ Tail(w)[i] = w[i + 1]
  BY Rest
<1>2. Len(w) \in Nat \ {0} /\ Len(Tail(w)) = Len(w) - 1 /\ 1 \in 1 .. Len(w)
  BY Rest
<1>3. \A a \in 1 .. Len(w) : NoPrev(Tail(w), a, Len(w) - 1) <=> NoPrev(w, a + 1, Len(w))
  <2>1. ASSUME NEW a \in 1 .. Len(w), NoPrev(Tail(w), a, Len(w) - 1)
        PROVE  NoPrev(w, a + 1, Len(w))
    <3>1. \A h \in a + 1 .. Len(w) : h - 1 \in a .. Len(w) - 1 /\ h \in 2 .. Len(w)
      BY <1>2
    <3>2. \A h \in 2 .. Len(w) : Tail(w)[h - 1] = w[h]
      BY Rest
    <3>3. QED
      BY <2>1, <3>1, <3>2 DEF NoPrev
  <2>2. ASSUME NEW a \in 1 .. Len(w), NoPrev(w, a + 1, Len(w))
        PROVE  NoPrev(Tail(w), a, Len(w) - 1)
    <3>1. \A h \in a .. Len(w) - 1 : h + 1 \in a + 1 .. Len(w) /\ h \in 1 .. Len(w) - 1
      BY <1>2
    <3>2. QED
      BY <1>1, <2>2, <3>1 DEF NoPrev
  <2>3. QED
    BY <2>1, <2>2
<1>4. NoPrev(w, 1, Len(w)) <=> w[1].kind # "prev" /\ NoPrev(w, 2, Len(w))
  <2>1. \A h \in 1 .. Len(w) : h = 1 \/ h \in 2 .. Len(w)
    BY <1>2
  <2>2. 1 \in 1 .. Len(w) /\ \A h \in 2 .. Len(w) : h \in 1 .. Len(w)
    BY <1>2
  <2>3. QED
    BY <2>1, <2>2 DEF NoPrev
<1>5. prev = 0 => NoPrev(Tail(w), 1, Len(w) - 1)
  BY <1>2, <1>3, <1>4 DEF InStep
<1>6. NoPrev(Tail(w), 1, Len(w) - 1) => d.prev = prev
  BY <1>2, <1>3, <1>4 DEF InStep
<1>7. ASSUME NEW k \in 1 .. Len(w) - 1, Tail(w)[k].kind = "prev",
             NoPrev(Tail(w), k + 1, Len(w) - 1)
      PROVE  Tail(w)[k].prev = prev
  BY <1>1, <1>2, <1>3, <1>7 DEF InStep
<1>8. QED
  BY <1>2, <1>5, <1>6, <1>7 DEF InStep

\* The connection after a job: it is the work, or waits in its slot.
LEMMA JobHandled ==
  ASSUME V2!V2Assumption, NEW w \in Seq(Messages), w # <<>>, w[1].kind = "job",
         NEW c \in Connections, NEW made \in Nat, Ascend(w, c, made),
         NEW k \in 2 .. Len(w) + 1, NEW x \in Nat \ {0}, Kept(w, c, k, x),
         NEW d,
         IF ~w[1].future /\ c.prev # 0
           THEN d = c
           ELSE d = [c EXCEPT !.pending[V2!Slot(w[1].id)] = w[1].id]
  PROVE  Kept(Tail(w), d, k - 1, x)
<1>1. \A i \in 1 .. k - 1 : w[i].kind = "job" => w[i].id < x + SV2_PENDING_JOBS_SIZE
  BY DEF Kept
<1>2. w[1] \in Messages /\ 1 \in 1 .. k - 1 /\ 1 \in 1 .. Len(w) /\ Len(w) \in Nat
  BY Rest
<1>3. w[1].id \in Nat \ {0} /\ w[1].future \in BOOLEAN
  BY <1>2, MessageTypes
<1>4. V2!Slot(x) \in 0 .. SV2_PENDING_JOBS_SIZE - 1
      /\ V2!Slot(w[1].id) \in 0 .. SV2_PENDING_JOBS_SIZE - 1
  BY <1>3, SlotRange
<1>5. d.prev = c.prev
  BY DEF Connections
<1>6. CASE c.pending[V2!Slot(x)] = x /\ NoPrev(w, 1, k - 1)
  <2>1. x < w[1].id /\ w[1].id < x + SV2_PENDING_JOBS_SIZE
    BY <1>1, <1>2, <1>4, <1>6 DEF Ascend
  <2>2. V2!Slot(x) # V2!Slot(w[1].id)
    BY <1>3, <2>1, SlotsDiffer
  <2>3. d.pending[V2!Slot(x)] = x
    BY <1>4, <1>6, <2>2 DEF Connections
  <2>4. NoPrev(w, 2, k - 1)
    BY <1>6 DEF NoPrev
  <2>5. QED
    BY <1>1, <2>3, <2>4, KeptHere
<1>7. ASSUME NEW i \in 1 .. k - 1, w[i].kind = "job", w[i].id = x, NoPrev(w, i + 1, k - 1),
             w[i].future \/ (c.prev = 0 /\ NoPrev(w, 1, i - 1))
      PROVE  Kept(Tail(w), d, k - 1, x)
  <2>1. CASE i = 1
    <3>1. d.pending[V2!Slot(x)] = x
      BY <1>3, <1>4, <1>7, <2>1 DEF Connections
    <3>2. NoPrev(w, 2, k - 1)
      BY <1>7, <2>1
    <3>3. QED
      BY <1>1, <3>1, <3>2, KeptHere
  <2>2. CASE i \in 2 .. k - 1
    BY <1>1, <1>5, <1>7, <2>2, KeptLater
  <2>3. i = 1 \/ i \in 2 .. k - 1
    OBVIOUS
  <2>4. QED
    BY <2>1, <2>2, <2>3
<1>8. QED
  BY <1>6, <1>7 DEF Kept

\* What is kept for later was written after the block that is handled now.
LEMMA BlockHandled ==
  ASSUME NEW w \in Seq(Messages), w # <<>>, w[1].kind = "prev", NEW c, NEW d,
         NEW k \in 2 .. Len(w) + 1, NEW x \in Nat \ {0}, Kept(w, c, k, x)
  PROVE  Kept(Tail(w), d, k - 1, x)
<1>1. \A i \in 1 .. k - 1 : w[i].kind = "job" => w[i].id < x + SV2_PENDING_JOBS_SIZE
  BY DEF Kept
<1>2. ~NoPrev(w, 1, k - 1)
  BY DEF NoPrev
<1>3. PICK i \in 1 .. k - 1 :
        /\ w[i].kind = "job" /\ w[i].id = x /\ NoPrev(w, i + 1, k - 1)
        /\ w[i].future \/ (c.prev = 0 /\ NoPrev(w, 1, i - 1))
  BY <1>2 DEF Kept
<1>4. i # 1
  BY <1>3
<1>5. i \in 2 .. k - 1
  BY <1>4
<1>6. w[i].future
  BY <1>3, <1>5 DEF NoPrev
<1>7. QED
  BY <1>1, <1>3, <1>5, <1>6, KeptLater

LEMMA OtherHandled ==
  ASSUME NEW w \in Seq(Messages), w # <<>>, w[1].kind \notin {"job", "prev"}, NEW c,
         NEW k \in 2 .. Len(w) + 1, NEW x \in Nat \ {0}, Kept(w, c, k, x)
  PROVE  Kept(Tail(w), c, k - 1, x)
<1>1. \A i \in 1 .. k - 1 : w[i].kind = "job" => w[i].id < x + SV2_PENDING_JOBS_SIZE
  BY DEF Kept
<1>2. CASE c.pending[V2!Slot(x)] = x /\ NoPrev(w, 1, k - 1)
  <2>1. NoPrev(w, 2, k - 1)
    BY <1>2 DEF NoPrev
  <2>2. QED
    BY <1>1, <1>2, <2>1, KeptHere
<1>3. ASSUME NEW i \in 1 .. k - 1, w[i].kind = "job", w[i].id = x, NoPrev(w, i + 1, k - 1),
             w[i].future \/ (c.prev = 0 /\ NoPrev(w, 1, i - 1))
      PROVE  Kept(Tail(w), c, k - 1, x)
  <2>1. i # 1
    BY <1>3
  <2>2. i \in 2 .. k - 1
    BY <2>1
  <2>3. QED
    BY <1>1, <1>3, <2>2, KeptLater
<1>4. QED
  BY <1>2, <1>3 DEF Kept
-----------------------------------------------------------------------------
(* The types of V2. *)

\* Every non-empty set of numbers has a least one.
LEMMA Least == ASSUME NEW T \in SUBSET Nat, T # {} PROVE \E m \in T : \A k \in T : m <= k
<1>1. PICK m \in T : \A k \in T : ~(<<k, m>> \in OpToRel(<, Nat))
  BY NatLessThanWellFounded, WFMin, Zenon
<1>2. ASSUME NEW k \in T, k < m PROVE <<k, m>> \in OpToRel(<, Nat)
  BY <1>2 DEF OpToRel
<1>3. \A k \in T : ~(k < m)
  BY <1>1, <1>2, Zenon
<1>4. QED
  BY <1>3

\* The greatest of some slots, which LastOf takes.
LEMMA GreatestSlot ==
  ASSUME V2!V2Assumption, NEW S \in SUBSET (0 .. SV2_PENDING_JOBS_SIZE - 1), S # {}
  PROVE  (CHOOSE s \in S : \A t \in S : t <= s) \in S
<1>. DEFINE n == SV2_PENDING_JOBS_SIZE
            D == {n - s : s \in S}
<1>1. n \in Nat /\ \A s \in S : s \in Nat /\ n - s \in Nat
  BY DEF V2!V2Assumption
<1>2. D \in SUBSET Nat /\ D # {}
  BY <1>1
<1>3. PICK x \in D : \A y \in D : x <= y
  BY <1>2, Least, Zenon
<1>4. PICK s \in S : x = n - s
  BY <1>3
<1>5. ASSUME NEW t \in S PROVE t <= s
  <2>1. n - t \in D
    OBVIOUS
  <2>2. n - s <= n - t
    BY <1>3, <1>4, <2>1
  <2>3. n \in Int /\ s \in Int /\ t \in Int
    BY <1>1
  <2>. HIDE DEF n, D
  <2>4. QED
    BY <2>2, <2>3
<1>6. QED
  BY <1>4, <1>5

LEMMA HeadIsFirst == ASSUME NEW w \in Seq(Messages), w # <<>> PROVE Head(w) = w[1]
  OBVIOUS

LEMMA FreshType ==
  ASSUME V2!V2Assumption
  PROVE  V2!Fresh \in Connections /\ V2!Fresh.prev = 0
         /\ \A s \in 0 .. SV2_PENDING_JOBS_SIZE - 1 : V2!Fresh.pending[s] = 0
  BY DEF V2!Fresh, V2!NoJob, Connections

LEMMA ClosedType ==
  ASSUME NEW p \in Peers
  PROVE  /\ V2!Closed(p) \in Peers /\ V2!Closed(p).wire = <<>> /\ V2!Closed(p).offers = {}
         /\ V2!Closed(p).got = {} /\ ~V2!Closed(p).open /\ V2!Closed(p).prev = 0
         /\ V2!Closed(p).jobs = p.jobs
<1>1. <<>> \in Seq(Messages) /\ {} \in SUBSET Answers /\ {} \in SUBSET (Nat \ {0})
  BY EmptySeq
<1>2. QED
  BY <1>1 DEF V2!Closed, Peers

LEMMA SentType ==
  ASSUME NEW p \in Peers, NEW m \in Messages
  PROVE  /\ V2!Sends(p, m) \in Peers
         /\ V2!Sends(p, m) = [p EXCEPT !.wire = Append(p.wire, m)]
         /\ Append(p.wire, m) \in Seq(Messages)
<1>1. Append(p.wire, m) \in Seq(Messages)
  BY AppendProperties DEF Peers
<1>2. QED
  BY <1>1 DEF V2!Sends, Peers

LEMMA TakenType ==
  ASSUME V2PeerType, V2!HasMessage
  PROVE  /\ [pool EXCEPT !.wire = Tail(@)] \in Peers
         /\ pool.wire \in Seq(Messages) /\ pool.wire # <<>>
         /\ V2!Message \in Messages /\ V2!Message = pool.wire[1]
<1>1. pool.wire \in Seq(Messages) /\ pool.wire # <<>>
  BY DEF V2PeerType, V2!HasMessage, Peers
<1>2. Tail(pool.wire) \in Seq(Messages) /\ pool.wire[1] \in Messages
  BY <1>1, Rest
<1>3. QED
  BY <1>1, <1>2, HeadIsFirst DEF V2PeerType, V2!Message, Peers

LEMMA FailTypes ==
  ASSUME V2!V2Assumption, V2Type, V2!Fails, ~Resting
  PROVE  V2Type'
<1>1. pool' \in Peers
  BY ClosedType DEF V2!Fails, V2!Close, V2Type, V2PeerType
<1>2. sender' \in Senders
  BY DEF V2!Fails, V2!Close, V2Type, V2ShareType, Senders
<1>3. retry' \in 0 .. MAX_RETRY_ATTEMPTS
  BY DEF V2!Fails, V2!Attempt, V2Type, V2TaskType, V2!V2Assumption
<1>4. queue' \in Seq(Offered)
  BY EmptySeq DEF V2!Fails, V2!Close
<1>5. QED
  BY <1>1, <1>2, <1>3, <1>4 DEF V2!Fails, V2!Close, V2Type, V2TaskType, V2PeerType, V2WorkType,
                                V2ShareType, Resting

LEMMA V2TypeInit == ASSUME V2!V2Assumption, V2!Init PROVE V2Type
<1>1. <<>> \in Seq(Messages) /\ {} \in SUBSET Answers /\ {} \in SUBSET (Nat \ {0})
      /\ <<>> \in Seq(Offered)
  BY EmptySeq
<1>2. pool \in Peers
  BY <1>1 DEF V2!Init, Peers
<1>3. left \in [shares : Nat, jobs : Nat, prevs : Nat]
  BY DEF V2!Init, V2!V2Assumption
<1>4. V2WorkType
  BY <1>1, FreshType DEF V2!Init, V2WorkType
<1>5. V2ShareType
  BY DEF V2!Init, V2ShareType, V2!Idle, Senders, V2!NoShare
<1>6. V2TaskType
  BY DEF V2!Init, V2TaskType, V2!V2Assumption, Resting
<1>7. QED
  BY <1>2, <1>3, <1>4, <1>5, <1>6 DEF V2!Init, V2Type, V2PeerType

\* The work that a block releases.
LEMMA ReleasedTypes ==
  ASSUME V2!V2Assumption, V2WorkType, NEW id \in Nat \ {0}
  PROVE  /\ V2!Released(id) \in SUBSET (0 .. SV2_PENDING_JOBS_SIZE - 1)
         /\ [conn EXCEPT !.pending = V2!PendingAfter(V2!Released(id))] \in Connections
         /\ V2!LastOf(V2!Released(id), id) \in Nat
<1>1. V2!Slot(id) \in 0 .. SV2_PENDING_JOBS_SIZE - 1
      /\ DOMAIN conn.pending = 0 .. SV2_PENDING_JOBS_SIZE - 1
  BY SlotRange DEF V2WorkType, Connections
<1>2. V2!Released(id) \in SUBSET (0 .. SV2_PENDING_JOBS_SIZE - 1)
  BY <1>1 DEF V2!Released
<1>3. V2!PendingAfter(V2!Released(id)) \in [0 .. SV2_PENDING_JOBS_SIZE - 1 -> Nat]
  BY <1>1 DEF V2!PendingAfter, V2!NoJob, V2WorkType, Connections
<1>4. V2!LastOf(V2!Released(id), id) \in Nat
  <2>. DEFINE others == {s \in V2!Released(id) : conn.pending[s] # id}
  <2>1. CASE others = {}
    BY <2>1 DEF V2!LastOf
  <2>2. CASE others # {}
    <3>1. (CHOOSE s \in others : \A t \in others : t <= s) \in others
      BY <1>2, <2>2, GreatestSlot
    <3>2. conn.pending[CHOOSE s \in others : \A t \in others : t <= s] \in Nat
      BY <1>2, <3>1 DEF V2WorkType, Connections
    <3>3. QED
      BY <2>2, <3>2 DEF V2!LastOf
  <2>3. QED
    BY <2>1, <2>2
<1>5. QED
  BY <1>2, <1>3, <1>4 DEF V2WorkType, Connections

LEMMA V2TypeNext == ASSUME V2!V2Assumption, V2Type, RestInv, [V2!Next]_V2!vars PROVE V2Type'
<1>. USE DEF V2Type
<1>. pool \in Peers /\ conn \in Connections /\ queue \in Seq(Offered) /\ sender \in Senders
  BY DEF V2PeerType, V2WorkType, V2ShareType
<1>1. CASE V2!GiveUp
  <2>1. pool' \in Peers /\ sender' \in Senders /\ queue' \in Seq(Offered)
    BY <1>1, ClosedType, EmptySeq DEF V2!GiveUp, V2!Close, Senders
  <2>2. QED
    BY <1>1, <2>1 DEF V2!GiveUp, V2!Close, V2TaskType, V2PeerType, V2WorkType, V2ShareType,
                      Resting
<1>2. CASE V2!DialFails
  BY <1>2 DEF V2!DialFails, V2!Dials, V2!Attempt, V2TaskType, V2PeerType, V2WorkType,
              V2ShareType, Resting, V2!V2Assumption
<1>3. CASE V2!Connects
  <2>1. pool' \in Peers /\ conn' \in Connections
    BY <1>3, FreshType DEF V2!Connects, Peers
  <2>2. QED
    BY <1>3, <2>1 DEF V2!Connects, V2!Dials, V2TaskType, V2PeerType, V2WorkType, V2ShareType,
                      Resting
<1>4. CASE V2!HandshakeFails \/ V2!ReceiveFails \/ V2!Refused
  BY <1>4, FailTypes DEF V2!HandshakeFails, V2!ReceiveFails, V2!Refused, V2!Receives, Resting
<1>5. CASE V2!Handshake
  BY <1>5 DEF V2!Handshake, V2TaskType, V2PeerType, V2WorkType, V2ShareType, Resting
<1>6. CASE V2!SendSetup \/ V2!SendOpen
  <2>1. pool' \in Peers
    <3>1. PICK what \in {"setup", "channel"} :
            pool' \in {pool, [pool EXCEPT !.open = FALSE], [pool EXCEPT !.asked = what]}
      BY <1>6 DEF V2!SendSetup, V2!SendOpen, V2!Asks
    <3>2. pool \in Peers
      BY DEF V2PeerType
    <3>3. QED
      BY <3>1, <3>2 DEF Peers
  <2>2. QED
    BY <1>6, <2>1 DEF V2!SendSetup, V2!SendOpen, V2!Asks, V2TaskType, V2PeerType, V2WorkType,
                      V2ShareType, Resting
<1>7. CASE V2!Accepted
  BY <1>7, TakenType DEF V2!Accepted, V2!Took, V2TaskType, V2PeerType, V2WorkType, V2ShareType,
                         Resting
<1>8. CASE V2!Opened
  BY <1>8, TakenType DEF V2!Opened, V2!Took, V2TaskType, V2PeerType, V2WorkType, V2ShareType,
                         Resting, V2!V2Assumption
<1>9. CASE V2!NewJob
  <2>1. pool' \in Peers /\ V2!Message \in Messages /\ V2!Message.kind = "job"
    BY <1>9, TakenType DEF V2!NewJob, V2!Handles, V2!Took
  <2>2. V2!Message.id \in Nat
    BY <2>1, MessageTypes
  <2>3. V2WorkType'
    <3>1. CASE ~V2!Message.future /\ conn.prev # 0
      <4>1. [id |-> V2!Message.id, prev |-> conn.prev] \in Offered /\ conn.prev \in Nat
        BY <2>2 DEF Offered, Connections
      <4>2. conn' = conn /\ handed' = conn.prev
            /\ queue' = <<[id |-> V2!Message.id, prev |-> conn.prev]>>
        BY <1>9, <3>1 DEF V2!NewJob, V2!Enqueued
      <4>3. QED
        BY <4>1, <4>2 DEF V2WorkType
    <3>2. CASE ~(~V2!Message.future /\ conn.prev # 0)
      <4>1. conn' = [conn EXCEPT !.pending[V2!Slot(V2!Message.id)] = V2!Message.id]
            /\ UNCHANGED <<queue, handed>>
        BY <1>9, <3>2 DEF V2!NewJob
      <4>2. conn' \in Connections
        BY <2>2, <4>1, SlotRange DEF Connections
      <4>3. QED
        BY <4>1, <4>2 DEF V2WorkType
    <3>3. QED
      BY <3>1, <3>2
  <2>4. QED
    BY <1>9, <2>1, <2>3 DEF V2!NewJob, V2!Handles, V2TaskType, V2PeerType, V2ShareType, Resting
<1>10. CASE V2!SetNewPrevHash
  <2>1. pool' \in Peers /\ V2!Message \in Messages /\ V2!Message.kind = "prev"
    BY <1>10, TakenType DEF V2!SetNewPrevHash, V2!Handles, V2!Took
  <2>2. V2!Message.id \in Nat \ {0} /\ V2!Message.prev \in Nat \ {0}
    BY <2>1, MessageTypes
  <2>. DEFINE slots == V2!Released(V2!Message.id)
  <2>3. [conn EXCEPT !.pending = V2!PendingAfter(slots)] \in Connections
        /\ V2!LastOf(slots, V2!Message.id) \in Nat
    BY <2>2, ReleasedTypes
  <2>4. conn' = [conn EXCEPT !.prev = V2!Message.prev, !.pending = V2!PendingAfter(slots)]
        /\ IF slots = {}
             THEN UNCHANGED <<queue, handed>>
             ELSE /\ queue' = <<[id |-> V2!LastOf(slots, V2!Message.id), prev |-> V2!Message.prev]>>
                  /\ handed' = V2!Message.prev
    BY <1>10 DEF V2!SetNewPrevHash, V2!Enqueued
  <2>. HIDE DEF slots
  <2>5. conn' \in Connections
    BY <2>2, <2>3, <2>4 DEF Connections
  <2>6. [id |-> V2!LastOf(slots, V2!Message.id), prev |-> V2!Message.prev] \in Offered
    BY <2>2, <2>3 DEF Offered
  <2>7. V2WorkType'
    BY <2>2, <2>4, <2>5, <2>6, SMTT(30) DEF V2WorkType
  <2>8. QED
    BY <1>10, <2>1, <2>7 DEF V2!SetNewPrevHash, V2!Handles, V2TaskType, V2PeerType, V2ShareType,
                             Resting
<1>11. CASE V2!SubmitSharesSuccess
  <2>1. pool' \in Peers
    BY <1>11, TakenType DEF V2!SubmitSharesSuccess, V2!Handles, V2!Took
  <2>2. V2ShareType'
    <3>1. stamps' = [stamps EXCEPT ![V2!Time(V2!Message.seq)] = 0] /\ UNCHANGED <<sender, shares>>
      BY <1>11 DEF V2!SubmitSharesSuccess, V2!NoShare
    <3>2. stamps' \in [0 .. SV2_SUBMIT_TIMING_SLOTS - 1 -> Nat]
          /\ \A s \in 0 .. SV2_SUBMIT_TIMING_SLOTS - 1 : stamps'[s] \in {stamps[s], 0}
      BY <3>1 DEF V2ShareType
    <3>3. QED
      BY <3>1, <3>2 DEF V2ShareType
  <2>3. QED
    BY <1>11, <2>1, <2>2 DEF V2!SubmitSharesSuccess, V2!Handles, V2TaskType, V2PeerType,
                             V2WorkType, Resting
<1>12. CASE V2!SubmitSharesError
  BY <1>12, TakenType DEF V2!SubmitSharesError, V2!Handles, V2!Took, V2TaskType, V2PeerType,
                          V2WorkType, V2ShareType, Resting
<1>13. CASE V2!ShareFound
  <2>1. conn' \in Connections
    BY <1>13 DEF V2!ShareFound, Connections
  <2>2. left' \in [shares : Nat, jobs : Nat, prevs : Nat]
    BY <1>13 DEF V2!ShareFound, V2PeerType
  <2>3. sender' \in Senders
    BY <1>13 DEF V2!ShareFound, V2ShareType, Connections, Senders
  <2>4. shares' \in Nat /\ stamps' \in [0 .. SV2_SUBMIT_TIMING_SLOTS - 1 -> Nat]
        /\ \A s \in DOMAIN stamps' : stamps'[s] <= shares'
    <3>1. stamps' = [stamps EXCEPT ![V2!Time(conn.seq)] = shares + 1] /\ shares' = shares + 1
      BY <1>13 DEF V2!ShareFound, V2!Stamped
    <3>2. shares + 1 \in Nat
      BY DEF V2ShareType
    <3>3. stamps' \in [0 .. SV2_SUBMIT_TIMING_SLOTS - 1 -> Nat]
          /\ \A s \in 0 .. SV2_SUBMIT_TIMING_SLOTS - 1 : stamps'[s] \in {stamps[s], shares + 1}
      BY <3>1, <3>2 DEF V2ShareType
    <3>4. QED
      BY <3>1, <3>2, <3>3 DEF V2ShareType
  <2>5. QED
    BY <1>13, <2>1, <2>2, <2>3, <2>4 DEF V2!ShareFound, V2TaskType, V2PeerType, V2WorkType,
                                         V2ShareType, Resting
<1>14. CASE V2!ShareSealed
  <2>1. sender' \in Senders
    BY <1>14 DEF V2!ShareSealed, V2!Idle, V2!NoShare, Senders
  <2>2. QED
    BY <1>14, <2>1 DEF V2!ShareSealed, V2!session, V2TaskType, V2PeerType, V2WorkType,
                       V2ShareType, Resting
<1>15. CASE V2!ShareSent
  <2>1. sender' \in Senders
    BY <1>15 DEF V2!ShareSent, V2!Idle, V2!NoShare, Senders
  <2>2. pool' \in Peers
    <3>1. [kind |-> "error"] \in Messages
      BY DEF Messages
    <3>2. V2!Sends(pool, [kind |-> "error"]) \in Peers
      BY <3>1, SentType
    <3>3. [pool EXCEPT !.got = @ \cup {[seq |-> sender.seq, share |-> sender.share]}] \in Peers
      BY DEF Peers, Senders, Answers
    <3>4. pool' \in {pool, V2!Sends(pool, [kind |-> "error"]),
                     [pool EXCEPT !.got = @ \cup {[seq |-> sender.seq, share |-> sender.share]}]}
      BY <1>15 DEF V2!ShareSent, Peers, Senders
    <3>5. QED
      BY <3>2, <3>3, <3>4
  <2>3. QED
    BY <1>15, <2>1, <2>2 DEF V2!ShareSent, V2!session, V2TaskType, V2PeerType, V2WorkType,
                             V2ShareType, Resting
<1>16. CASE V2!JobTaken
  <2>1. queue' \in Seq(Offered)
    BY <1>16, HeadTailProperties DEF V2!JobTaken
  <2>2. QED
    BY <1>16, <2>1 DEF V2!JobTaken, V2TaskType, V2PeerType, V2WorkType, V2ShareType, Resting
<1>17. CASE V2!PoolAnswers
  <2>1. pool' \in Peers
    <3>1. PICK yes \in BOOLEAN :
            pool' = [V2!Sends(pool, [kind |-> IF yes THEN pool.asked ELSE "refusal"])
                     EXCEPT !.asked = "none", !.opened = yes /\ pool.asked = "channel"]
      BY <1>17 DEF V2!PoolAnswers
    <3>2. [kind |-> IF yes THEN pool.asked ELSE "refusal"] \in Messages
      BY <1>17 DEF V2!PoolAnswers, Peers, Messages
    <3>3. QED
      BY <3>1, <3>2, SentType, SMTT(20), ZenonT(20) DEF Peers
  <2>2. QED
    BY <1>17, <2>1 DEF V2!PoolAnswers, V2!session, V2TaskType, V2PeerType, V2WorkType,
                       V2ShareType, Resting
<1>18. CASE V2!PoolSendsJob
  <2>1. pool' \in Peers
    <3>1. PICK future \in BOOLEAN :
            pool' = [V2!Sends(pool, [kind |-> "job", id |-> pool.jobs + 1, future |-> future])
                     EXCEPT !.jobs = pool.jobs + 1,
                            !.offers = {o \in @ : o > (pool.jobs + 1) - SV2_PENDING_JOBS_SIZE}
                                       \cup (IF future \/ pool.prev = 0
                                             THEN {pool.jobs + 1} ELSE {})]
      BY <1>18 DEF V2!PoolSendsJob
    <3>2. pool.jobs + 1 \in Nat \ {0}
      BY DEF Peers
    <3>3. [kind |-> "job", id |-> pool.jobs + 1, future |-> future] \in Messages
      BY <3>2 DEF Messages
    <3>4. V2!Sends(pool, [kind |-> "job", id |-> pool.jobs + 1, future |-> future]) \in Peers
      BY <3>3, SentType
    <3>5. QED
      BY <3>1, <3>2, <3>4 DEF Peers
  <2>2. left' \in [shares : Nat, jobs : Nat, prevs : Nat]
    BY <1>18 DEF V2!PoolSendsJob, V2PeerType
  <2>3. QED
    BY <1>18, <2>1, <2>2 DEF V2!PoolSendsJob, V2!session, V2TaskType, V2PeerType, V2WorkType,
                             V2ShareType, Resting
<1>19. CASE V2!PoolSetsPrevHash
  <2>1. pool' \in Peers
    <3>1. PICK id \in pool.offers :
            pool' = [V2!Sends(pool, [kind |-> "prev", id |-> id, prev |-> left.prevs])
                     EXCEPT !.prev = left.prevs, !.offers = {}]
      BY <1>19 DEF V2!PoolSetsPrevHash
    <3>2. id \in Nat \ {0} /\ left.prevs \in Nat \ {0}
      BY <1>19, <3>1 DEF V2!PoolSetsPrevHash, V2PeerType, Peers
    <3>3. [kind |-> "prev", id |-> id, prev |-> left.prevs] \in Messages
      BY <3>2 DEF Messages
    <3>4. V2!Sends(pool, [kind |-> "prev", id |-> id, prev |-> left.prevs]) \in Peers
      BY <3>3, SentType
    <3>5. QED
      BY <3>1, <3>2, <3>4 DEF Peers
  <2>2. left' \in [shares : Nat, jobs : Nat, prevs : Nat]
    BY <1>19 DEF V2!PoolSetsPrevHash, V2PeerType
  <2>3. QED
    BY <1>19, <2>1, <2>2 DEF V2!PoolSetsPrevHash, V2!session, V2TaskType, V2PeerType, V2WorkType,
                             V2ShareType, Resting
<1>20. CASE V2!PoolAcks
  <2>1. pool' \in Peers
    <3>1. PICK end \in pool.got :
            pool' = [V2!Sends(pool, [kind |-> "ack", seq |-> end.seq, share |-> end.share])
                     EXCEPT !.got = {g \in @ : g.share > end.share}]
      BY <1>20 DEF V2!PoolAcks
    <3>2. [kind |-> "ack", seq |-> end.seq, share |-> end.share] \in Messages
      BY <3>1 DEF Messages, Peers, Answers
    <3>3. V2!Sends(pool, [kind |-> "ack", seq |-> end.seq, share |-> end.share]) \in Peers
      BY <3>2, SentType
    <3>4. QED
      BY <3>1, <3>3 DEF Peers
  <2>2. QED
    BY <1>20, <2>1 DEF V2!PoolAcks, V2!session, V2TaskType, V2PeerType, V2WorkType, V2ShareType,
                       Resting
<1>21. CASE V2!PoolRejects
  <2>1. pool' \in Peers
    <3>1. [kind |-> "error"] \in Messages
      BY DEF Messages
    <3>2. V2!Sends(pool, [kind |-> "error"]) \in Peers
      BY <3>1, SentType
    <3>3. PICK g \in pool.got :
            pool' = [V2!Sends(pool, [kind |-> "error"]) EXCEPT !.got = @ \ {g}]
      BY <1>21 DEF V2!PoolRejects
    <3>4. QED
      BY <3>2, <3>3 DEF Peers
  <2>2. QED
    BY <1>21, <2>1 DEF V2!PoolRejects, V2!session, V2TaskType, V2PeerType, V2WorkType,
                       V2ShareType, Resting
<1>22. CASE V2!PoolDies
  <2>1. pool' \in Peers
    BY <1>22 DEF V2!PoolDies, Peers
  <2>2. QED
    BY <1>22, <2>1 DEF V2!PoolDies, V2!session, V2TaskType, V2PeerType, V2WorkType, V2ShareType,
                       Resting
<1>23. CASE UNCHANGED V2!vars
  BY <1>23 DEF V2!vars, V2TaskType, V2PeerType, V2WorkType, V2ShareType, Resting
<1>24. QED
  BY <1>1, <1>2, <1>3, <1>4, <1>5, <1>6, <1>7, <1>8, <1>9, <1>10, <1>11, <1>12, <1>13, <1>14,
     <1>15, <1>16, <1>17, <1>18, <1>19, <1>20, <1>21, <1>22, <1>23 DEF V2!Next, V2!Task

\* Without a connection nothing is under way.
LEMMA RestNext == ASSUME V2!V2Assumption, V2Type, RestInv, [V2!Next]_V2!vars PROVE RestInv'
<1>. pool \in Peers
  BY DEF V2Type, V2PeerType
<1>1. CASE V2!GiveUp \/ V2!HandshakeFails \/ V2!ReceiveFails \/ V2!Refused
  BY <1>1, ClosedType DEF V2!GiveUp, V2!HandshakeFails, V2!ReceiveFails, V2!Refused, V2!Fails,
                          V2!Close, RestInv
<1>2. CASE V2!DialFails
  BY <1>2 DEF V2!DialFails, RestInv, Resting
<1>3. CASE V2!Connects \/ V2!Handshake \/ V2!SendSetup \/ V2!SendOpen \/ V2!Accepted \/ V2!Opened
  BY <1>3 DEF V2!Connects, V2!Handshake, V2!SendSetup, V2!SendOpen, V2!Asks, V2!Accepted,
              V2!Opened, RestInv, Resting
<1>4. CASE V2!NewJob \/ V2!SetNewPrevHash \/ V2!SubmitSharesSuccess \/ V2!SubmitSharesError
  BY <1>4 DEF V2!NewJob, V2!SetNewPrevHash, V2!SubmitSharesSuccess, V2!SubmitSharesError,
              V2!Handles, RestInv, Resting
<1>5. CASE V2!ShareFound \/ V2!ShareSealed \/ UNCHANGED V2!vars
  BY <1>5 DEF V2!ShareFound, V2!ShareSealed, V2!session, V2!vars, RestInv, Resting
<1>6. CASE V2!ShareSent
  BY <1>6 DEF V2!ShareSent, V2!session, RestInv, Resting
<1>7. CASE V2!JobTaken
  BY <1>7 DEF V2!JobTaken, RestInv, Resting
<1>8. CASE V2!PoolAnswers \/ V2!PoolSendsJob \/ V2!PoolSetsPrevHash \/ V2!PoolAcks \/ V2!PoolRejects
  BY <1>8 DEF V2!PoolAnswers, V2!PoolSendsJob, V2!PoolSetsPrevHash, V2!PoolAcks, V2!PoolRejects,
              V2!Speaks, V2!session, RestInv, Resting
<1>9. CASE V2!PoolDies
  BY <1>9 DEF V2!PoolDies, V2!session, RestInv, Resting, Peers
<1>10. QED
  BY <1>1, <1>2, <1>3, <1>4, <1>5, <1>6, <1>7, <1>8, <1>9 DEF V2!Next, V2!Task
-----------------------------------------------------------------------------
(* The work of V2 is the pool's. *)

FollowInv == WireInv /\ WorkInv /\ V2!QueueIsCurrent

\* Of the connection, only the slots and the block matter.
LEMMA NothingSaid ==
  ASSUME FollowInv, pool'.wire = pool.wire, pool'.jobs = pool.jobs, pool'.offers = pool.offers,
         pool'.prev = pool.prev, conn'.pending = conn.pending, conn'.prev = conn.prev,
         handed' = handed, queue' = queue, Resting' = Resting
  PROVE  FollowInv'
<1>1. WireInv'
  BY DEF FollowInv, WireInv, Ascend, NamedAreKept, OffersAreKept, Kept, NoPrev
<1>2. WorkInv'
  BY DEF FollowInv, WorkInv, InStep, NoPrev
<1>3. V2!QueueIsCurrent'
  BY DEF FollowInv, V2!QueueIsCurrent
<1>4. QED
  BY <1>1, <1>2, <1>3 DEF FollowInv

LEMMA OtherSaid ==
  ASSUME FollowInv, pool \in Peers, NEW m \in Messages, m.kind \notin {"job", "prev"},
         pool'.wire = Append(pool.wire, m), pool'.jobs = pool.jobs, pool'.offers = pool.offers,
         pool'.prev = pool.prev, UNCHANGED <<conn, handed, queue, task>>
  PROVE  FollowInv'
<1>0. pool.wire \in Seq(Messages)
  BY DEF Peers
<1>1. WireInv'
  BY <1>0, OtherWritten DEF FollowInv, WireInv
<1>2. WorkInv'
  BY <1>0, OtherWritten DEF FollowInv, WorkInv, Resting
<1>3. V2!QueueIsCurrent'
  BY DEF FollowInv, V2!QueueIsCurrent
<1>4. QED
  BY <1>1, <1>2, <1>3 DEF FollowInv

\* A message that says nothing of jobs and blocks is handled.
LEMMA OtherHeard ==
  ASSUME FollowInv, pool \in Peers, V2!HasMessage, V2!Message.kind \notin {"job", "prev"},
         V2!Took, UNCHANGED <<conn, handed, queue>>, ~Resting, ~Resting'
  PROVE  FollowInv'
<1>0. /\ pool.wire \in Seq(Messages) /\ pool.wire # <<>> /\ V2!Message = pool.wire[1]
      /\ pool' = [pool EXCEPT !.wire = Tail(pool.wire)] /\ pool.offers \in SUBSET (Nat \ {0})
  BY HeadIsFirst DEF V2!HasMessage, V2!Message, V2!Took, Peers
<1>1. /\ pool'.wire = Tail(pool.wire) /\ pool'.jobs = pool.jobs /\ pool'.offers = pool.offers
      /\ pool'.prev = pool.prev
  BY <1>0 DEF Peers
<1>2. \A k \in 2 .. Len(pool.wire) + 1 : \A x \in Nat \ {0} :
        Kept(pool.wire, conn, k, x) => Kept(Tail(pool.wire), conn, k - 1, x)
  BY <1>0, OtherHandled
<1>3. Ascend(Tail(pool.wire), conn, pool.jobs)
  BY <1>0, RestAscends DEF FollowInv, WireInv
<1>4. NamedAreKept(Tail(pool.wire), conn)
      /\ OffersAreKept(Tail(pool.wire), conn, pool.jobs, pool.offers)
  BY <1>0, <1>2, Handled DEF FollowInv, WireInv
<1>5. InStep(Tail(pool.wire), conn, pool.prev)
  BY <1>0, RestInStep DEF FollowInv, WorkInv
<1>6. WireInv' /\ WorkInv'
  BY <1>1, <1>3, <1>4, <1>5 DEF FollowInv, WireInv, WorkInv
<1>7. V2!QueueIsCurrent'
  BY DEF FollowInv, V2!QueueIsCurrent
<1>8. QED
  BY <1>6, <1>7 DEF FollowInv

\* A connection closes.
LEMMA Hushed ==
  ASSUME FollowInv, pool \in Peers, V2!Close, UNCHANGED conn, Resting'
  PROVE  FollowInv'
<1>1. pool'.wire = <<>> /\ pool'.offers = {} /\ pool'.jobs = pool.jobs /\ queue' = <<>>
  BY ClosedType DEF V2!Close
<1>2. WireInv'
  BY <1>1, EmptySeq DEF FollowInv, WireInv, Ascend, NamedAreKept, OffersAreKept
<1>3. WorkInv' /\ V2!QueueIsCurrent'
  BY <1>1 DEF WorkInv, V2!QueueIsCurrent
<1>4. QED
  BY <1>2, <1>3 DEF FollowInv

LEMMA JobHeard ==
  ASSUME V2!V2Assumption, V2Type, FollowInv, V2!NewJob PROVE FollowInv'
<1>0. /\ pool.wire \in Seq(Messages) /\ pool.wire # <<>> /\ V2!Message = pool.wire[1]
      /\ pool' = [pool EXCEPT !.wire = Tail(pool.wire)] /\ pool.offers \in SUBSET (Nat \ {0})
      /\ pool.jobs \in Nat /\ conn \in Connections /\ pool \in Peers
  BY HeadIsFirst DEF V2!NewJob, V2!Handles, V2!HasMessage, V2!Message, V2!Took, V2Type,
                     V2PeerType, V2WorkType, Peers
<1>. DEFINE w == pool.wire
<1>1. w[1].kind = "job" /\ w[1] \in Messages /\ w[1].id \in Nat \ {0}
  <2>1. w[1].kind = "job" /\ w[1] \in Messages
    BY <1>0, Rest DEF V2!NewJob, V2!Handles
  <2>2. QED
    BY <2>1, MessageTypes
<1>2. IF ~w[1].future /\ conn.prev # 0
        THEN conn' = conn
        ELSE conn' = [conn EXCEPT !.pending[V2!Slot(w[1].id)] = w[1].id]
  BY <1>0 DEF V2!NewJob
<1>3. conn'.prev = conn.prev /\ handed' = handed
  BY <1>0, <1>2 DEF V2!NewJob, Connections, FollowInv, WorkInv, V2!Handles, Resting
<1>4. /\ pool'.wire = Tail(w) /\ pool'.jobs = pool.jobs /\ pool'.offers = pool.offers
      /\ pool'.prev = pool.prev
  BY <1>0 DEF Peers
<1>5. Ascend(w, conn, pool.jobs) /\ NamedAreKept(w, conn)
      /\ OffersAreKept(w, conn, pool.jobs, pool.offers)
  BY DEF FollowInv, WireInv
<1>6. \A k \in 2 .. Len(w) + 1 : \A x \in Nat \ {0} :
        Kept(w, conn, k, x) => Kept(Tail(w), conn', k - 1, x)
  BY <1>0, <1>1, <1>2, <1>5, JobHandled
<1>7. Ascend(Tail(w), conn', pool.jobs)
  <2>1. \A s \in 0 .. SV2_PENDING_JOBS_SIZE - 1 :
          conn'.pending[s] = conn.pending[s] \/ conn'.pending[s] = w[1].id
    BY <1>0, <1>2 DEF Connections
  <2>2. QED
    BY <1>0, <1>1, <1>5, <2>1, RestAscends
<1>8. NamedAreKept(Tail(w), conn') /\ OffersAreKept(Tail(w), conn', pool.jobs, pool.offers)
  BY <1>0, <1>5, <1>6, Handled
<1>9. ~Resting /\ ~Resting' /\ InStep(w, conn, pool.prev) /\ handed = conn.prev
  BY DEF V2!NewJob, V2!Handles, Resting, FollowInv, WorkInv
<1>10. InStep(Tail(w), conn', pool.prev)
  BY <1>0, <1>1, <1>3, <1>9, RestInStep
<1>11. WireInv' /\ WorkInv'
  BY <1>3, <1>4, <1>7, <1>8, <1>9, <1>10 DEF WireInv, WorkInv
<1>12. V2!QueueIsCurrent'
  <2>1. CASE ~w[1].future /\ conn.prev # 0
    <3>1. queue' = <<[id |-> w[1].id, prev |-> conn.prev]>>
      BY <1>0, <2>1 DEF V2!NewJob, V2!Enqueued
    <3>2. QED
      BY <1>3, <2>1, <3>1 DEF V2!QueueIsCurrent
  <2>2. CASE ~(~w[1].future /\ conn.prev # 0)
    BY <1>0, <1>3, <2>2 DEF V2!NewJob, FollowInv, V2!QueueIsCurrent
  <2>3. QED
    BY <2>1, <2>2
<1>13. QED
  BY <1>11, <1>12 DEF FollowInv

LEMMA BlockHeard ==
  ASSUME V2!V2Assumption, V2Type, FollowInv, V2!SetNewPrevHash PROVE FollowInv'
<1>0. /\ pool.wire \in Seq(Messages) /\ pool.wire # <<>> /\ V2!Message = pool.wire[1]
      /\ pool' = [pool EXCEPT !.wire = Tail(pool.wire)] /\ pool.offers \in SUBSET (Nat \ {0})
      /\ pool.jobs \in Nat /\ conn \in Connections /\ pool \in Peers
  BY HeadIsFirst DEF V2!SetNewPrevHash, V2!Handles, V2!HasMessage, V2!Message, V2!Took, V2Type,
                     V2PeerType, V2WorkType, Peers
<1>. DEFINE w == pool.wire
            slots == V2!Released(w[1].id)
<1>1. w[1].kind = "prev" /\ w[1].id \in Nat \ {0} /\ w[1].prev \in Nat \ {0} /\ Len(w) \in Nat \ {0}
  <2>1. w[1].kind = "prev" /\ w[1] \in Messages /\ Len(w) \in Nat \ {0}
    BY <1>0, Rest DEF V2!SetNewPrevHash, V2!Handles
  <2>2. QED
    BY <2>1, MessageTypes
<1>2. Ascend(w, conn, pool.jobs) /\ NamedAreKept(w, conn)
      /\ OffersAreKept(w, conn, pool.jobs, pool.offers)
  BY DEF FollowInv, WireInv
<1>3. V2!Slot(w[1].id) \in slots
  <2>1. Kept(w, conn, 1, w[1].id)
    BY <1>1, <1>2 DEF NamedAreKept
  <2>2. conn.pending[V2!Slot(w[1].id)] = w[1].id
    BY <2>1 DEF Kept
  <2>3. V2!Slot(w[1].id) \in DOMAIN conn.pending
    BY <1>0, <1>1, SlotRange DEF Connections
  <2>4. QED
    BY <1>1, <2>2, <2>3 DEF V2!Released, V2!NoJob
<1>4. conn' = [conn EXCEPT !.prev = w[1].prev, !.pending = V2!PendingAfter(slots)]
      /\ IF slots = {}
           THEN UNCHANGED <<queue, handed>>
           ELSE /\ queue' = <<[id |-> V2!LastOf(slots, w[1].id), prev |-> w[1].prev]>>
                /\ handed' = w[1].prev
  BY <1>0 DEF V2!SetNewPrevHash, V2!Enqueued
<1>. HIDE DEF slots
<1>5. conn'.prev = w[1].prev /\ handed' = w[1].prev
  BY <1>0, <1>3, <1>4 DEF Connections
<1>6. \A s \in 0 .. SV2_PENDING_JOBS_SIZE - 1 :
        \/ conn'.pending[s] = conn.pending[s]
        \/ conn'.pending[s] = 0 /\ conn.pending[s] \in Nat
  BY <1>0, <1>4 DEF V2!PendingAfter, V2!NoJob, Connections
<1>7. /\ pool'.wire = Tail(w) /\ pool'.jobs = pool.jobs /\ pool'.offers = pool.offers
      /\ pool'.prev = pool.prev
  BY <1>0 DEF Peers
<1>8. \A k \in 2 .. Len(w) + 1 : \A x \in Nat \ {0} :
        Kept(w, conn, k, x) => Kept(Tail(w), conn', k - 1, x)
  BY <1>0, <1>1, BlockHandled
<1>9. Ascend(Tail(w), conn', pool.jobs)
  BY <1>0, <1>2, <1>6, RestAscends
<1>10. NamedAreKept(Tail(w), conn') /\ OffersAreKept(Tail(w), conn', pool.jobs, pool.offers)
  BY <1>0, <1>2, <1>8, Handled
<1>11. ~Resting /\ ~Resting' /\ InStep(w, conn, pool.prev)
  BY DEF V2!SetNewPrevHash, V2!Handles, Resting, FollowInv, WorkInv
<1>12. InStep(Tail(w), conn', pool.prev)
  BY <1>0, <1>1, <1>5, <1>11, RestInStep
<1>13. WireInv' /\ WorkInv'
  BY <1>5, <1>7, <1>9, <1>10, <1>11, <1>12 DEF WireInv, WorkInv
<1>14. V2!QueueIsCurrent'
  <2>1. queue' = <<[id |-> V2!LastOf(slots, w[1].id), prev |-> w[1].prev]>>
    BY <1>3, <1>4
  <2>2. QED
    BY <1>1, <1>5, <2>1 DEF V2!QueueIsCurrent
<1>15. QED
  BY <1>13, <1>14 DEF FollowInv

LEMMA FollowNext ==
  ASSUME V2!V2Assumption, V2Type, RestInv, FollowInv, [V2!Next]_V2!vars PROVE FollowInv'
<1>. pool \in Peers /\ conn \in Connections /\ queue \in Seq(Offered)
     /\ pool.wire \in Seq(Messages) /\ pool.jobs \in Nat /\ pool.offers \in SUBSET (Nat \ {0})
  BY DEF V2Type, V2PeerType, V2WorkType, Peers
<1>1. CASE V2!GiveUp \/ V2!HandshakeFails \/ V2!ReceiveFails \/ V2!Refused
  <2>1. V2!Close /\ UNCHANGED conn /\ Resting'
    BY <1>1 DEF V2!GiveUp, V2!HandshakeFails, V2!ReceiveFails, V2!Refused, V2!Fails, Resting
  <2>2. QED
    BY <2>1, Hushed
<1>2. CASE V2!DialFails \/ UNCHANGED V2!vars \/ V2!ShareSealed \/ V2!Handshake
  BY <1>2, NothingSaid DEF V2!DialFails, V2!vars, V2!ShareSealed, V2!Handshake, V2!session, Resting
<1>3. CASE V2!Connects
  <2>1. /\ pool.wire = <<>> /\ pool.offers = {} /\ pool.prev = 0 /\ queue = <<>>
        /\ pool' = [pool EXCEPT !.open = TRUE] /\ conn' = V2!Fresh /\ handed' = 0 /\ queue' = queue
    BY <1>3 DEF V2!Connects, V2!Dials, RestInv, Resting
  <2>2. pool'.wire = <<>> /\ pool'.offers = {} /\ pool'.prev = 0 /\ pool'.jobs = pool.jobs
    BY <2>1 DEF Peers
  <2>3. Len(<<>>) = 0
    BY EmptySeq
  <2>4. WireInv'
    BY <2>1, <2>2, <2>3, FreshType DEF WireInv, Ascend, NamedAreKept, OffersAreKept
  <2>5. InStep(<<>>, V2!Fresh, 0)
    BY <2>3, FreshType DEF InStep, NoPrev
  <2>6. WorkInv'
    BY <2>1, <2>2, <2>5, FreshType DEF WorkInv
  <2>7. V2!QueueIsCurrent'
    BY <2>1, <2>3 DEF V2!QueueIsCurrent
  <2>8. QED
    BY <2>4, <2>6, <2>7 DEF FollowInv
<1>4. CASE V2!SendSetup \/ V2!SendOpen
  <2>1. /\ pool'.wire = pool.wire /\ pool'.jobs = pool.jobs /\ pool'.offers = pool.offers
        /\ pool'.prev = pool.prev
    BY <1>4 DEF V2!SendSetup, V2!SendOpen, V2!Asks, Peers
  <2>2. UNCHANGED <<conn, handed, queue>> /\ Resting' = Resting
    BY <1>4 DEF V2!SendSetup, V2!SendOpen, V2!Asks, Resting
  <2>3. QED
    BY <2>1, <2>2, NothingSaid
<1>5. CASE V2!Accepted \/ V2!Opened
  <2>1. V2!HasMessage /\ V2!Message.kind \notin {"job", "prev"} /\ V2!Took
    BY <1>5 DEF V2!Accepted, V2!Opened
  <2>2. UNCHANGED <<conn, handed, queue>> /\ ~Resting /\ ~Resting'
    BY <1>5 DEF V2!Accepted, V2!Opened, Resting
  <2>3. QED
    BY <2>1, <2>2, OtherHeard
<1>6. CASE V2!NewJob
  BY <1>6, JobHeard
<1>7. CASE V2!SetNewPrevHash
  BY <1>7, BlockHeard
<1>8. CASE V2!SubmitSharesSuccess \/ V2!SubmitSharesError
  <2>1. V2!HasMessage /\ V2!Message.kind \notin {"job", "prev"} /\ V2!Took
    BY <1>8 DEF V2!SubmitSharesSuccess, V2!SubmitSharesError, V2!Handles
  <2>2. UNCHANGED <<conn, handed, queue>> /\ ~Resting /\ ~Resting'
    BY <1>8 DEF V2!SubmitSharesSuccess, V2!SubmitSharesError, V2!Handles, Resting
  <2>3. QED
    BY <2>1, <2>2, OtherHeard
<1>9. CASE V2!ShareFound
  <2>1. conn'.pending = conn.pending /\ conn'.prev = conn.prev
    BY <1>9 DEF V2!ShareFound, Connections
  <2>2. UNCHANGED <<pool, handed, queue>> /\ Resting' = Resting
    BY <1>9 DEF V2!ShareFound, Resting
  <2>3. QED
    BY <2>1, <2>2, NothingSaid
<1>10. CASE V2!ShareSent
  <2>1. UNCHANGED <<conn, handed, queue, task>>
    BY <1>10 DEF V2!ShareSent, V2!session
  <2>2. CASE pool.open /\ ~sender.old /\ ~pool.opened
    <3>1. [kind |-> "error"] \in Messages
      BY DEF Messages
    <3>2. pool' = V2!Sends(pool, [kind |-> "error"])
      BY <1>10, <2>2 DEF V2!ShareSent
    <3>3. pool' = [pool EXCEPT !.wire = Append(pool.wire, [kind |-> "error"])]
      BY <3>1, <3>2, SentType
    <3>4. QED
      BY <2>1, <3>1, <3>3, OtherSaid DEF Peers
  <2>3. CASE ~(pool.open /\ ~sender.old /\ ~pool.opened)
    <3>1. pool' = pool
          \/ pool' = [pool EXCEPT !.got = @ \cup {[seq |-> sender.seq, share |-> sender.share]}]
      BY <1>10, <2>3 DEF V2!ShareSent
    <3>2. /\ pool'.wire = pool.wire /\ pool'.jobs = pool.jobs /\ pool'.offers = pool.offers
          /\ pool'.prev = pool.prev
      BY <3>1 DEF Peers
    <3>3. QED
      BY <2>1, <3>2, NothingSaid DEF Resting
  <2>4. QED
    BY <2>2, <2>3
<1>11. CASE V2!JobTaken
  <2>1. WireInv' /\ WorkInv'
    BY <1>11 DEF V2!JobTaken, FollowInv, WireInv, WorkInv, Resting
  <2>2. V2!QueueIsCurrent'
    <3>1. queue # <<>> /\ queue' = Tail(queue) /\ Len(queue) <= 1
      BY <1>11 DEF V2!JobTaken, FollowInv, V2!QueueIsCurrent
    <3>2. Len(queue) \in Nat \ {0}
      BY <3>1, EmptySeq
    <3>3. Len(Tail(queue)) = Len(queue) - 1 /\ Tail(queue) \in Seq(Offered)
      BY <3>1, HeadTailProperties
    <3>4. Len(Tail(queue)) = 0
      BY <3>1, <3>2, <3>3
    <3>5. DOMAIN Tail(queue) = 1 .. 0
      BY <3>3, <3>4, LenProperties
    <3>6. QED
      BY <3>1, <3>4, <3>5 DEF V2!QueueIsCurrent
  <2>3. QED
    BY <2>1, <2>2 DEF FollowInv
<1>12. CASE V2!PoolAnswers
  <2>1. PICK yes \in BOOLEAN :
          pool' = [V2!Sends(pool, [kind |-> IF yes THEN pool.asked ELSE "refusal"])
                   EXCEPT !.asked = "none", !.opened = yes /\ pool.asked = "channel"]
    BY <1>12 DEF V2!PoolAnswers
  <2>. DEFINE m == [kind |-> IF yes THEN pool.asked ELSE "refusal"]
  <2>2. m \in Messages /\ m.kind \notin {"job", "prev"}
    BY <1>12 DEF V2!PoolAnswers, Peers, Messages
  <2>. HIDE DEF m
  <2>3. /\ V2!Sends(pool, m) \in Peers
        /\ V2!Sends(pool, m) = [pool EXCEPT !.wire = Append(pool.wire, m)]
    BY <2>2, SentType
  <2>4. pool' = [V2!Sends(pool, m) EXCEPT !.asked = "none",
                                          !.opened = yes /\ pool.asked = "channel"]
    BY <2>1 DEF m
  <2>5. /\ pool'.wire = Append(pool.wire, m) /\ pool'.jobs = pool.jobs
        /\ pool'.offers = pool.offers /\ pool'.prev = pool.prev
    BY <2>3, <2>4 DEF Peers
  <2>6. QED
    BY <1>12, <2>2, <2>5, OtherSaid DEF V2!PoolAnswers, V2!session
<1>13. CASE V2!PoolSendsJob
  <2>1. PICK future \in BOOLEAN :
          pool' = [V2!Sends(pool, [kind |-> "job", id |-> pool.jobs + 1, future |-> future])
                   EXCEPT !.jobs = pool.jobs + 1,
                          !.offers = {o \in @ : o > (pool.jobs + 1) - SV2_PENDING_JOBS_SIZE}
                                     \cup (IF future \/ pool.prev = 0 THEN {pool.jobs + 1} ELSE {})]
    BY <1>13 DEF V2!PoolSendsJob
  <2>. DEFINE m == [kind |-> "job", id |-> pool.jobs + 1, future |-> future]
              new == {o \in pool.offers : o > (pool.jobs + 1) - SV2_PENDING_JOBS_SIZE}
                     \cup (IF future \/ pool.prev = 0 THEN {pool.jobs + 1} ELSE {})
  <2>2. /\ pool'.wire = Append(pool.wire, m) /\ pool'.jobs = pool.jobs + 1
        /\ pool'.offers = new /\ pool'.prev = pool.prev
    BY <2>1 DEF V2!Sends, Peers
  <2>3. ~Resting /\ UNCHANGED <<conn, handed, queue, task>>
    BY <1>13 DEF V2!PoolSendsJob, V2!Speaks, V2!session, RestInv
  <2>4. /\ Ascend(Append(pool.wire, m), conn, pool.jobs + 1)
        /\ OffersAreKept(Append(pool.wire, m), conn, pool.jobs + 1, new)
        /\ NamedAreKept(Append(pool.wire, m), conn) /\ InStep(Append(pool.wire, m), conn, pool.prev)
    BY <2>3, OfferWritten, SMTT(20), ZenonT(20) DEF FollowInv, WireInv, WorkInv
  <2>. HIDE DEF m, new
  <2>5. WireInv' /\ WorkInv'
    BY <2>2, <2>3, <2>4 DEF WireInv, WorkInv, FollowInv, Resting
  <2>6. V2!QueueIsCurrent'
    BY <2>3 DEF FollowInv, V2!QueueIsCurrent
  <2>7. QED
    BY <2>5, <2>6 DEF FollowInv
<1>14. CASE V2!PoolSetsPrevHash
  <2>1. PICK id \in pool.offers :
          pool' = [V2!Sends(pool, [kind |-> "prev", id |-> id, prev |-> left.prevs])
                   EXCEPT !.prev = left.prevs, !.offers = {}]
    BY <1>14 DEF V2!PoolSetsPrevHash
  <2>. DEFINE m == [kind |-> "prev", id |-> id, prev |-> left.prevs]
  <2>2. left.prevs \in Nat \ {0}
    BY <1>14 DEF V2!PoolSetsPrevHash, V2Type, V2PeerType
  <2>3. /\ pool'.wire = Append(pool.wire, m) /\ pool'.jobs = pool.jobs
        /\ pool'.offers = {} /\ pool'.prev = left.prevs
    BY <2>1 DEF V2!Sends, Peers
  <2>4. ~Resting /\ UNCHANGED <<conn, handed, queue, task>>
    BY <1>14 DEF V2!PoolSetsPrevHash, V2!Speaks, V2!session, RestInv
  <2>5. /\ Ascend(Append(pool.wire, m), conn, pool.jobs)
        /\ NamedAreKept(Append(pool.wire, m), conn)
        /\ InStep(Append(pool.wire, m), conn, left.prevs)
    BY <2>2, <2>4, BlockWritten DEF FollowInv, WireInv, WorkInv
  <2>. HIDE DEF m
  <2>6. WireInv' /\ WorkInv'
    BY <2>3, <2>4, <2>5 DEF WireInv, OffersAreKept, WorkInv, FollowInv, Resting
  <2>7. V2!QueueIsCurrent'
    BY <2>4 DEF FollowInv, V2!QueueIsCurrent
  <2>8. QED
    BY <2>6, <2>7 DEF FollowInv
<1>15. CASE V2!PoolAcks
  <2>1. PICK end \in pool.got :
          pool' = [V2!Sends(pool, [kind |-> "ack", seq |-> end.seq, share |-> end.share])
                   EXCEPT !.got = {g \in @ : g.share > end.share}]
    BY <1>15 DEF V2!PoolAcks
  <2>. DEFINE m == [kind |-> "ack", seq |-> end.seq, share |-> end.share]
  <2>2. m \in Messages /\ m.kind \notin {"job", "prev"}
    BY DEF Peers, Messages, Answers
  <2>3. /\ pool'.wire = Append(pool.wire, m) /\ pool'.jobs = pool.jobs
        /\ pool'.offers = pool.offers /\ pool'.prev = pool.prev
    BY <2>1 DEF V2!Sends, Peers
  <2>. HIDE DEF m
  <2>4. QED
    BY <1>15, <2>2, <2>3, OtherSaid DEF V2!PoolAcks, V2!session
<1>16. CASE V2!PoolRejects
  <2>1. PICK g \in pool.got : pool' = [V2!Sends(pool, [kind |-> "error"]) EXCEPT !.got = @ \ {g}]
    BY <1>16 DEF V2!PoolRejects
  <2>2. [kind |-> "error"] \in Messages
    BY DEF Messages
  <2>3. /\ pool'.wire = Append(pool.wire, [kind |-> "error"]) /\ pool'.jobs = pool.jobs
        /\ pool'.offers = pool.offers /\ pool'.prev = pool.prev
    BY <2>1 DEF V2!Sends, Peers
  <2>4. QED
    BY <1>16, <2>2, <2>3, OtherSaid DEF V2!PoolRejects, V2!session
<1>17. CASE V2!PoolDies
  <2>1. /\ pool'.wire = pool.wire /\ pool'.jobs = pool.jobs /\ pool'.offers = pool.offers
        /\ pool'.prev = pool.prev
    BY <1>17 DEF V2!PoolDies, Peers
  <2>2. QED
    BY <1>17, <2>1, NothingSaid DEF V2!PoolDies, V2!session, Resting
<1>18. QED
  BY <1>1, <1>2, <1>3, <1>4, <1>5, <1>6, <1>7, <1>8, <1>9, <1>10, <1>11, <1>12, <1>13, <1>14,
     <1>15, <1>16, <1>17 DEF V2!Next, V2!Task
-----------------------------------------------------------------------------
(* The stamps. *)

\* Stamps that do not move back, and answers to shares that were sent.
LEMMA StampsKept ==
  ASSUME StampInv,
         \A q \in Nat, s \in Nat : Timed(stamps, shares, q, s) => Timed(stamps', shares', q, s),
         \A a \in pool'.got : a \in Answers /\ Timed(stamps, shares, a.seq, a.share),
         \A i \in 1 .. Len(pool'.wire) :
            pool'.wire[i].kind = "ack" =>
               /\ pool'.wire[i].seq \in Nat /\ pool'.wire[i].share \in Nat
               /\ Timed(stamps, shares, pool'.wire[i].seq, pool'.wire[i].share),
         \/ sender'.pc = "idle"
         \/ Timed(stamps', shares', sender'.seq, sender'.share)
         \/ /\ sender.pc # "idle" /\ sender'.seq = sender.seq /\ sender'.share = sender.share
            /\ sender.seq \in Nat /\ sender.share \in Nat
  PROVE  StampInv'
<1>1. \A a \in pool'.got : Timed(stamps', shares', a.seq, a.share)
  <2>1. \A a \in Answers : a.seq \in Nat /\ a.share \in Nat
    BY DEF Answers
  <2>2. QED
    BY <2>1
<1>2. \A i \in 1 .. Len(pool'.wire) :
        pool'.wire[i].kind = "ack" =>
           Timed(stamps', shares', pool'.wire[i].seq, pool'.wire[i].share)
  OBVIOUS
<1>3. sender'.pc # "idle" => Timed(stamps', shares', sender'.seq, sender'.share)
  BY DEF StampInv
<1>4. QED
  BY <1>1, <1>2, <1>3 DEF StampInv

\* The answers that are there, and those of a wire that loses its first message or gets one more.
LEMMA AnswersThere ==
  ASSUME StampInv, pool \in Peers, sender \in Senders
  PROVE  /\ \A a \in pool.got : a \in Answers /\ Timed(stamps, shares, a.seq, a.share)
         /\ \A i \in 1 .. Len(pool.wire) :
              pool.wire[i].kind = "ack" =>
                 /\ pool.wire[i].seq \in Nat /\ pool.wire[i].share \in Nat
                 /\ Timed(stamps, shares, pool.wire[i].seq, pool.wire[i].share)
         /\ sender.seq \in Nat /\ sender.share \in Nat
<1>1. \A i \in 1 .. Len(pool.wire) :
        pool.wire[i].kind = "ack" => pool.wire[i].seq \in Nat /\ pool.wire[i].share \in Nat
  BY MessageTypes, ElementOfSeq DEF Peers
<1>2. QED
  BY <1>1 DEF StampInv, Peers, Senders

LEMMA AnswersHeard ==
  ASSUME StampInv, pool \in Peers, sender \in Senders, V2!HasMessage, V2!Took
  PROVE  /\ pool'.got = pool.got
         /\ \A i \in 1 .. Len(pool'.wire) :
              pool'.wire[i].kind = "ack" =>
                 /\ pool'.wire[i].seq \in Nat /\ pool'.wire[i].share \in Nat
                 /\ Timed(stamps, shares, pool'.wire[i].seq, pool'.wire[i].share)
<1>1. pool'.wire = Tail(pool.wire) /\ pool'.got = pool.got
  BY DEF V2!Took, Peers
<1>2. pool.wire \in Seq(Messages) /\ pool.wire # <<>>
  BY DEF V2!HasMessage, Peers
<1>3. Len(Tail(pool.wire)) = Len(pool.wire) - 1 /\ Len(pool.wire) \in Nat \ {0}
      /\ \A i \in 1 .. Len(pool.wire) - 1 : Tail(pool.wire)[i] = pool.wire[i + 1]
  BY <1>2, Rest
<1>4. \A i \in 1 .. Len(pool.wire) - 1 : i + 1 \in 1 .. Len(pool.wire)
  BY <1>3
<1>5. QED
  BY <1>1, <1>3, <1>4, AnswersThere

LEMMA AnswersSaid ==
  ASSUME StampInv, pool \in Peers, sender \in Senders, NEW m \in Messages,
         m.kind = "ack" => Timed(stamps, shares, m.seq, m.share)
  PROVE  LET y == Append(pool.wire, m)
         IN  \A i \in 1 .. Len(y) :
               y[i].kind = "ack" => /\ y[i].seq \in Nat /\ y[i].share \in Nat
                                    /\ Timed(stamps, shares, y[i].seq, y[i].share)
<1>. DEFINE y == Append(pool.wire, m)
            n == Len(pool.wire)
<1>1. pool.wire \in Seq(Messages)
  BY DEF Peers
<1>2. /\ n \in Nat /\ Len(y) = n + 1 /\ y[n + 1] = m
      /\ \A i \in 1 .. n : y[i] = pool.wire[i]
  BY <1>1, LenProperties, AppendProperties
<1>3. m.kind = "ack" => m.seq \in Nat /\ m.share \in Nat
  BY MessageTypes
<1>. HIDE DEF y
<1>4. \A i \in 1 .. n + 1 : i \in 1 .. n \/ i = n + 1
  BY <1>2
<1>5. QED
  BY <1>2, <1>3, <1>4, AnswersThere DEF y

LEMMA StampNext ==
  ASSUME V2!V2Assumption, V2Type, StampInv, [V2!Next]_V2!vars PROVE StampInv'
<1>. pool \in Peers /\ conn \in Connections /\ sender \in Senders /\ pool.got \in SUBSET Answers
  BY DEF V2Type, V2PeerType, V2WorkType, V2ShareType, Peers
<1>1. CASE V2!GiveUp \/ V2!HandshakeFails \/ V2!ReceiveFails \/ V2!Refused
  <2>1. V2!Close /\ UNCHANGED <<stamps, shares>>
    BY <1>1 DEF V2!GiveUp, V2!HandshakeFails, V2!ReceiveFails, V2!Refused, V2!Fails
  <2>2. pool'.got = {} /\ pool'.wire = <<>> /\ Len(<<>>) = 0
    BY <2>1, ClosedType, EmptySeq DEF V2!Close
  <2>3. sender'.pc = sender.pc /\ sender'.seq = sender.seq /\ sender'.share = sender.share
    BY <2>1 DEF V2!Close, Senders
  <2>4. QED
    BY <2>1, <2>2, <2>3 DEF StampInv
<1>2. CASE UNCHANGED <<pool, stamps, shares, sender>>
  BY <1>2 DEF StampInv
<1>3. CASE V2!DialFails \/ V2!Handshake \/ V2!JobTaken \/ UNCHANGED V2!vars
  BY <1>2, <1>3 DEF V2!DialFails, V2!Handshake, V2!JobTaken, V2!vars
<1>4. CASE V2!Connects \/ V2!SendSetup \/ V2!SendOpen \/ V2!PoolDies
  <2>1. UNCHANGED <<stamps, shares, sender>> /\ pool'.got = pool.got /\ pool'.wire = pool.wire
    BY <1>4 DEF V2!Connects, V2!SendSetup, V2!SendOpen, V2!Asks, V2!PoolDies, Peers
  <2>2. QED
    BY <2>1 DEF StampInv
<1>5. CASE V2!Accepted \/ V2!Opened \/ V2!NewJob \/ V2!SetNewPrevHash \/ V2!SubmitSharesError
  <2>1. V2!HasMessage /\ V2!Took /\ UNCHANGED <<stamps, shares, sender>>
    BY <1>5 DEF V2!Accepted, V2!Opened, V2!NewJob, V2!SetNewPrevHash, V2!SubmitSharesError,
                V2!Handles
  <2>2. QED
    BY <2>1, AnswersHeard DEF StampInv
<1>6. CASE V2!SubmitSharesSuccess
  <2>1. V2!HasMessage /\ V2!Took /\ UNCHANGED <<shares, sender>>
        /\ stamps' = [stamps EXCEPT ![V2!Time(V2!Message.seq)] = V2!NoShare]
    BY <1>6 DEF V2!SubmitSharesSuccess, V2!Handles
  <2>2. ASSUME NEW q \in Nat, NEW s \in Nat, Timed(stamps, shares, q, s)
        PROVE  Timed(stamps', shares', q, s)
    <3>1. stamps'[V2!Time(q)] \in {stamps[V2!Time(q)], V2!NoShare}
      BY <2>1, TimeRange DEF V2Type, V2ShareType
    <3>2. QED
      BY <2>1, <2>2, <3>1 DEF Timed
  <2>3. pool'.got = pool.got
        /\ \A i \in 1 .. Len(pool'.wire) :
             pool'.wire[i].kind = "ack" =>
                /\ pool'.wire[i].seq \in Nat /\ pool'.wire[i].share \in Nat
                /\ Timed(stamps, shares, pool'.wire[i].seq, pool'.wire[i].share)
    BY <2>1, AnswersHeard
  <2>4. \/ sender'.pc = "idle"
        \/ /\ sender.pc # "idle" /\ sender'.seq = sender.seq /\ sender'.share = sender.share
           /\ sender.seq \in Nat /\ sender.share \in Nat
    BY <2>1, AnswersThere
  <2>5. \A a \in pool'.got : a \in Answers /\ Timed(stamps, shares, a.seq, a.share)
    BY <2>3, AnswersThere
  <2>6. QED
    BY <2>2, <2>3, <2>4, <2>5, StampsKept
<1>7. CASE V2!ShareFound
  <2>1. /\ pool' = pool /\ shares' = shares + 1
        /\ stamps' = [stamps EXCEPT ![V2!Time(conn.seq)] = shares + 1]
        /\ sender'.seq = conn.seq /\ sender'.share = shares + 1
    BY <1>7 DEF V2!ShareFound, V2!Stamped
  <2>2. shares \in Nat /\ conn.seq \in Nat
    BY DEF V2Type, V2ShareType, Connections
  <2>3. ASSUME NEW q \in Nat, NEW s \in Nat, Timed(stamps, shares, q, s)
        PROVE  Timed(stamps', shares', q, s)
    <3>1. stamps'[V2!Time(q)] \in {stamps[V2!Time(q)], shares + 1}
      BY <2>1, TimeRange DEF V2Type, V2ShareType
    <3>2. QED
      BY <2>1, <2>2, <2>3, <3>1 DEF Timed
  <2>4. Timed(stamps', shares', sender'.seq, sender'.share)
    <3>1. V2!Time(conn.seq) \in 0 .. SV2_SUBMIT_TIMING_SLOTS - 1
      BY <2>2, TimeRange
    <3>2. stamps'[V2!Time(conn.seq)] = shares + 1
      BY <2>1, <3>1 DEF V2Type, V2ShareType
    <3>3. QED
      BY <2>1, <2>2, <3>2 DEF Timed
  <2>5. \A a \in pool'.got : a \in Answers /\ Timed(stamps, shares, a.seq, a.share)
    BY <2>1, AnswersThere
  <2>6. \A i \in 1 .. Len(pool'.wire) :
          pool'.wire[i].kind = "ack" =>
             /\ pool'.wire[i].seq \in Nat /\ pool'.wire[i].share \in Nat
             /\ Timed(stamps, shares, pool'.wire[i].seq, pool'.wire[i].share)
    BY <2>1, AnswersThere
  <2>7. QED
    BY <2>3, <2>4, <2>5, <2>6, StampsKept
<1>8. CASE V2!ShareSealed
  <2>1. UNCHANGED <<stamps, shares, pool>>
        /\ \/ sender' = V2!Idle
           \/ sender' = [sender EXCEPT !.pc = "sealed"] /\ sender.pc = "numbered"
    BY <1>8 DEF V2!ShareSealed
  <2>2. \/ sender'.pc = "idle"
        \/ sender.pc # "idle" /\ sender'.seq = sender.seq /\ sender'.share = sender.share
    BY <2>1 DEF V2!Idle, Senders
  <2>3. QED
    BY <2>1, <2>2 DEF StampInv
<1>9. CASE V2!ShareSent
  <2>1. UNCHANGED <<stamps, shares>> /\ sender.pc # "idle" /\ sender'.pc = "idle"
    BY <1>9 DEF V2!ShareSent, V2!Idle
  <2>2. CASE pool.open /\ ~sender.old /\ pool.opened
    <3>1. pool' = [pool EXCEPT !.got = @ \cup {[seq |-> sender.seq, share |-> sender.share]}]
      BY <1>9, <2>2 DEF V2!ShareSent
    <3>2. pool'.wire = pool.wire
          /\ pool'.got = pool.got \cup {[seq |-> sender.seq, share |-> sender.share]}
      BY <3>1 DEF Peers
    <3>3. QED
      BY <2>1, <3>2 DEF StampInv
  <2>3. CASE pool.open /\ ~sender.old /\ ~pool.opened
    <3>1. [kind |-> "error"] \in Messages
      BY DEF Messages
    <3>2. pool' = V2!Sends(pool, [kind |-> "error"])
      BY <1>9, <2>3 DEF V2!ShareSent
    <3>3. pool'.wire = Append(pool.wire, [kind |-> "error"]) /\ pool'.got = pool.got
      BY <3>2 DEF V2!Sends, Peers
    <3>4. QED
      BY <2>1, <3>1, <3>3, AnswersSaid DEF StampInv
  <2>4. CASE ~pool.open \/ sender.old
    <3>1. pool' = pool
      BY <1>9, <2>4 DEF V2!ShareSent
    <3>2. QED
      BY <2>1, <3>1 DEF StampInv
  <2>5. QED
    BY <2>2, <2>3, <2>4
<1>10. CASE V2!PoolAnswers \/ V2!PoolSendsJob \/ V2!PoolSetsPrevHash \/ V2!PoolRejects
  <2>1. UNCHANGED <<stamps, shares, sender>>
    BY <1>10 DEF V2!PoolAnswers, V2!PoolSendsJob, V2!PoolSetsPrevHash, V2!PoolRejects
  <2>2. \E m \in Messages : /\ m.kind # "ack" /\ pool'.wire = Append(pool.wire, m)
                            /\ pool'.got \in SUBSET pool.got
    <3>1. CASE V2!PoolAnswers
      <4>1. PICK yes \in BOOLEAN :
              pool' = [V2!Sends(pool, [kind |-> IF yes THEN pool.asked ELSE "refusal"])
                       EXCEPT !.asked = "none", !.opened = yes /\ pool.asked = "channel"]
        BY <3>1 DEF V2!PoolAnswers
      <4>. DEFINE m == [kind |-> IF yes THEN pool.asked ELSE "refusal"]
      <4>2. m \in Messages /\ m.kind # "ack"
        BY <3>1 DEF V2!PoolAnswers, Peers, Messages
      <4>3. pool'.wire = Append(pool.wire, m) /\ pool'.got = pool.got
        BY <4>1 DEF V2!Sends, Peers
      <4>. HIDE DEF m
      <4>4. QED
        BY <4>2, <4>3
    <3>2. CASE V2!PoolSendsJob
      <4>1. PICK future \in BOOLEAN :
              pool' = [V2!Sends(pool, [kind |-> "job", id |-> pool.jobs + 1, future |-> future])
                       EXCEPT !.jobs = pool.jobs + 1,
                              !.offers = {o \in @ : o > (pool.jobs + 1) - SV2_PENDING_JOBS_SIZE}
                                  \cup (IF future \/ pool.prev = 0 THEN {pool.jobs + 1} ELSE {})]
        BY <3>2 DEF V2!PoolSendsJob
      <4>. DEFINE m == [kind |-> "job", id |-> pool.jobs + 1, future |-> future]
      <4>2. m \in Messages /\ m.kind # "ack"
        BY DEF Peers, Messages
      <4>3. pool'.wire = Append(pool.wire, m) /\ pool'.got = pool.got
        BY <4>1 DEF V2!Sends, Peers
      <4>. HIDE DEF m
      <4>4. QED
        BY <4>2, <4>3
    <3>3. CASE V2!PoolSetsPrevHash
      <4>1. PICK id \in pool.offers :
              pool' = [V2!Sends(pool, [kind |-> "prev", id |-> id, prev |-> left.prevs])
                       EXCEPT !.prev = left.prevs, !.offers = {}]
        BY <3>3 DEF V2!PoolSetsPrevHash
      <4>. DEFINE m == [kind |-> "prev", id |-> id, prev |-> left.prevs]
      <4>2. m \in Messages /\ m.kind # "ack"
        BY <3>3 DEF V2!PoolSetsPrevHash, V2Type, V2PeerType, Peers, Messages
      <4>3. pool'.wire = Append(pool.wire, m) /\ pool'.got = pool.got
        BY <4>1 DEF V2!Sends, Peers
      <4>. HIDE DEF m
      <4>4. QED
        BY <4>2, <4>3
    <3>4. CASE V2!PoolRejects
      <4>1. PICK g \in pool.got :
              pool' = [V2!Sends(pool, [kind |-> "error"]) EXCEPT !.got = @ \ {g}]
        BY <3>4 DEF V2!PoolRejects
      <4>2. [kind |-> "error"] \in Messages /\ [kind |-> "error"].kind # "ack"
        BY DEF Messages
      <4>3. pool'.wire = Append(pool.wire, [kind |-> "error"]) /\ pool'.got = pool.got \ {g}
        BY <4>1 DEF V2!Sends, Peers
      <4>4. QED
        BY <4>2, <4>3
    <3>5. QED
      BY <1>10, <3>1, <3>2, <3>3, <3>4
  <2>3. PICK m \in Messages : /\ m.kind # "ack" /\ pool'.wire = Append(pool.wire, m)
                              /\ pool'.got \in SUBSET pool.got
    BY <2>2
  <2>4. QED
    BY <2>1, <2>3, AnswersSaid DEF StampInv
<1>11. CASE V2!PoolAcks
  <2>1. PICK end \in pool.got :
          pool' = [V2!Sends(pool, [kind |-> "ack", seq |-> end.seq, share |-> end.share])
                   EXCEPT !.got = {g \in @ : g.share > end.share}]
    BY <1>11 DEF V2!PoolAcks
  <2>. DEFINE m == [kind |-> "ack", seq |-> end.seq, share |-> end.share]
  <2>2. m \in Messages /\ m.seq = end.seq /\ m.share = end.share
    BY DEF Messages, Answers
  <2>3. pool'.wire = Append(pool.wire, m) /\ pool'.got \in SUBSET pool.got
    BY <2>1 DEF V2!Sends, Peers
  <2>. HIDE DEF m
  <2>4. Timed(stamps, shares, m.seq, m.share)
    BY <2>2 DEF StampInv
  <2>5. UNCHANGED <<stamps, shares, sender>>
    BY <1>11 DEF V2!PoolAcks
  <2>6. QED
    BY <2>2, <2>3, <2>4, <2>5, AnswersSaid DEF StampInv
<1>12. QED
  BY <1>1, <1>2, <1>3, <1>4, <1>5, <1>6, <1>7, <1>8, <1>9, <1>10, <1>11 DEF V2!Next, V2!Task
-----------------------------------------------------------------------------
V2Inv == V2Type /\ RestInv /\ FollowInv /\ StampInv

LEMMA V2InvInit == ASSUME V2!V2Assumption, V2!Init PROVE V2Inv
<1>1. pool.wire = <<>> /\ pool.offers = {} /\ pool.got = {} /\ pool.jobs \in Nat
      /\ queue = <<>> /\ conn = V2!Fresh /\ Len(<<>>) = 0
  BY EmptySeq DEF V2!Init
<1>2. RestInv
  BY DEF V2!Init, RestInv
<1>3. FollowInv
  BY <1>1, FreshType DEF V2!Init, FollowInv, WireInv, Ascend, NamedAreKept, OffersAreKept, WorkInv,
                         Resting, V2!QueueIsCurrent
<1>4. StampInv
  BY <1>1 DEF V2!Init, StampInv, V2!Idle
<1>5. QED
  BY <1>2, <1>3, <1>4, V2TypeInit DEF V2Inv

LEMMA V2InvNext == ASSUME V2!V2Assumption, V2Inv, [V2!Next]_V2!vars PROVE V2Inv'
  BY V2TypeNext, RestNext, FollowNext, StampNext DEF V2Inv

LEMMA V2Inductive == ASSUME V2!V2Assumption PROVE V2!Spec => []V2Inv
BY V2InvInit, V2InvNext, PTL DEF V2!Spec

\* stratum_v2_task.c:548: what the pool named last is the work, once all is handled.
LEMMA V2Follows == ASSUME FollowInv PROVE V2!WorkFollowsPool
<1>1. SUFFICES ASSUME task = "loop", pool.wire = <<>>, pool.prev # 0 PROVE handed = pool.prev
  BY DEF V2!WorkFollowsPool
<1>2. InStep(pool.wire, conn, pool.prev) /\ handed = conn.prev
  BY <1>1 DEF FollowInv, WorkInv, Resting
<1>3. NoPrev(pool.wire, 1, Len(pool.wire))
  BY <1>1, EmptySeq DEF NoPrev
<1>4. QED
  BY <1>2, <1>3 DEF InStep

LEMMA V2Timed == ASSUME V2Type, StampInv PROVE V2!AnswersTimed
<1>1. DOMAIN pool.wire = 1 .. Len(pool.wire)
  BY LenProperties DEF V2Type, V2PeerType, Peers
<1>2. QED
  BY <1>1 DEF StampInv, Timed, V2!AnswersTimed

LEMMA V2InvType == ASSUME V2Inv PROVE V2!TypeOK
<1>1. \A i \in DOMAIN queue : queue[i].id \in Nat /\ queue[i].prev \in Nat
  <2>1. DOMAIN queue = 1 .. Len(queue) /\ \A i \in 1 .. Len(queue) : queue[i] \in Offered
    BY LenProperties, ElementOfSeq DEF V2Inv, V2Type, V2WorkType
  <2>2. QED
    BY <2>1 DEF Offered
<1>2. \A s \in DOMAIN stamps : stamps[s] \in 0 .. shares
  BY DEF V2Inv, V2Type, V2ShareType
<1>3. QED
  BY <1>1, <1>2 DEF V2Inv, V2Type, V2TaskType, V2PeerType, V2WorkType, V2ShareType,
                    V2!TypeOK, Connections, Senders

LEMMA V2InvHolds == ASSUME V2Inv PROVE V2!SessionsHold
  BY V2Follows, V2Timed DEF V2Inv, FollowInv, V2!SessionsHold

\* stratum_v2_task.c:97-106,158: every variable of a V2 session keeps its type: sequence numbers and
\* job ids of any size fall into their slots, and attempts stay within theirs.
THEOREM V2TypeCorrect == ASSUME V2!V2Assumption PROVE V2!Spec => []V2!TypeOK
<1>1. V2Inv => V2!TypeOK
  BY V2InvType
<1>2. QED
  BY <1>1, V2Inductive, PTL

\* stratum_v2_task.c:542,548,158: the queue holds one job at most, on the block the session knows;
\* the job a block names has not been lost, however many offers came before; and no answer is timed
\* from a share before the one it is for.
THEOREM V2StaysSound == ASSUME V2!V2Assumption PROVE V2!Spec => []V2!SessionsHold
<1>1. V2Inv => V2!SessionsHold
  BY V2InvHolds
<1>2. QED
  BY <1>1, V2Inductive, PTL
-----------------------------------------------------------------------------
(* Switches between the pools. *)

\* The pools whose V2 connections, if any, open the same kind of channel.
SameChannels == \A p, q \in Switch!Pools : ~(config[p] = "STD" /\ config[q] = "EXT")

\* The kinds of item that the pools of this unit send.
Sent == {config[p] : p \in Switch!Pools}

\* The unit as the coordinator and the protocol task keep it: the queue is only
\* filled during a session, by items of its kind, and freed as such; a switch
\* happens while no protocol task runs.
FeedInv ==
  /\ protocol = Switch!ProtocolOf(config[inUse])
  /\ coord # "idle" => task.pc = "dead"
  /\ coord = "idle" => task.kind = config[inUse]
  /\ queue # <<>> => task.pc = "session"
  /\ \A i \in DOMAIN queue : queue[i] = task.kind
  /\ task.pc # "start" => freeFn = task.kind
  /\ connType = "EXT" => "EXT" \in Sent

\* The types, and that an item is where the code will look at it.
SwitchType ==
  /\ Switch!TypeOK
  /\ task.pc = "handshake" => task.kind # "V1"
  /\ jobs.pc \in {"final", "generate"} => jobs.current # NULL
  /\ jobs.pc = "check" => jobs.item # NULL

\* What create_jobs_task holds is of the protocol it believes in, unless a switch it
\* has yet to notice fell in between; the next switch waits until it has.
CreateInv ==
  /\ jobs.current # NULL => jobs.current \in Sent /\ Switch!ProtocolOf(jobs.current) = jobs.proto
  /\ jobs.item # NULL => jobs.pc = "check"
  /\ jobs.item # NULL =>
        jobs.item \in Sent /\ (protocol = jobs.proto => Switch!ProtocolOf(jobs.item) = jobs.proto)
  /\ coord = "cleared" => jobs.proto = protocol

SwitchInv == SwitchType /\ FeedInv /\ CreateInv /\ Switch!ItemsKeepType

CastType == [item : Switch!Kinds, as : Switch!Kinds, how : {"free", "read", "discard"}]
JobType == [pc : {"top", "dequeue", "check", "final", "generate", "building"},
            proto : {"V1", "V2"}, current : Switch!Kinds \cup {NULL},
            item : Switch!Kinds \cup {NULL}, ptr : Conns \cup {NULL}]
SwitchTaskType == [pc : {"start", "top", "handshake", "session", "forget", "dead"},
             kind : Switch!Kinds, conn : Conns \cup {NULL}]
-----------------------------------------------------------------------------
(* Types. *)

LEMMA SwitchTypeInit == ASSUME Switch!SwitchAssumption, Switch!Init PROVE SwitchType
<1>1. config \in [Switch!Pools -> Switch!Kinds] /\ config["primary"] \in Switch!Kinds
  BY DEF Switch!Init, Switch!SwitchAssumption, Switch!Pools
<1>2. Switch!ProtocolOf(config["primary"]) \in {"V1", "V2"}
  BY DEF Switch!ProtocolOf
<1>3. QED
  BY <1>1, <1>2 DEF Switch!Init, SwitchType, Switch!TypeOK, Switch!SwitchAssumption,
     Switch!Pools, Switch!Kinds

LEMMA KindTypes ==
  /\ \A p : Switch!TypeUnder(p) \in Switch!Kinds
  /\ \A k : Switch!ProtocolOf(k) \in {"V1", "V2"}
  BY DEF Switch!TypeUnder, Switch!Kinds, Switch!ProtocolOf

LEMMA CastTypes ==
  /\ \A item, as \in Switch!Kinds, how \in {"free", "read", "discard"} :
       Switch!Cast(item, as, how) \in CastType
  /\ \A item \in Switch!Kinds \cup {NULL} : \A p : Switch!free_work_item(item, p) \subseteq CastType
  BY KindTypes DEF Switch!free_work_item, Switch!Cast, CastType

\* The queue after an item is taken or added.
LEMMA QueueTypes ==
  ASSUME Switch!TypeOK, Switch!SwitchAssumption
  PROVE  /\ queue # <<>> => /\ Head(queue) \in Switch!Kinds
                            /\ Tail(queue) \in Seq(Switch!Kinds)
                            /\ Len(Tail(queue)) = Len(queue) - 1
         /\ \A q \in Seq(Switch!Kinds), k \in Switch!Kinds :
              /\ Append(q, k) \in Seq(Switch!Kinds) /\ Len(Append(q, k)) = Len(q) + 1
         /\ \A i \in DOMAIN queue : queue[i] \in Switch!Kinds
         /\ Len(queue) \in Nat
         /\ queue = <<>> <=> Len(queue) = 0
  BY HeadTailProperties, AppendProperties, EmptySeq DEF Switch!TypeOK

\* A step of create_jobs_task keeps the types if it keeps those of what it changes.
LEMMA JobStepTypes ==
  ASSUME SwitchType, Switch!JobsUnchanged, jobs' \in JobType, casts' \subseteq CastType,
         queue' \in Seq(Switch!Kinds), Len(queue') <= QUEUE_SIZE,
         jobs'.pc \in {"final", "generate"} => jobs'.current # NULL,
         jobs'.pc = "check" => jobs'.item # NULL
  PROVE  SwitchType'
  BY DEF SwitchType, Switch!TypeOK, Switch!JobsUnchanged, Switch!connVars, JobType, CastType

LEMMA TypeOfJobs ==
  ASSUME SwitchType, Switch!SwitchAssumption,
         \/ Switch!LoopTop \/ Switch!DequeueGets \/ Switch!DequeueTimesOut
         \/ Switch!DiscardItem \/ Switch!TakeItem
         \/ Switch!FinalCheck \/ Switch!Generate \/ Switch!FinishBuilding
  PROVE  SwitchType'
<1> USE DEF Switch!JobsBecome
<1>0. /\ jobs \in JobType /\ protocol \in {"V1", "V2"} /\ queue \in Seq(Switch!Kinds)
      /\ Len(queue) <= QUEUE_SIZE /\ conn \in Conns \cup {NULL} /\ QUEUE_SIZE \in Nat
      /\ jobs.pc \in {"final", "generate"} => jobs.current # NULL
      /\ jobs.pc = "check" => jobs.item # NULL
      /\ NULL \notin Switch!Kinds
  BY DEF SwitchType, Switch!TypeOK, JobType, Switch!SwitchAssumption
<1>1. CASE Switch!LoopTop
  <2>1. casts' \subseteq CastType
    BY <1>0, <1>1, CastTypes DEF Switch!LoopTop, JobType
  <2>2. jobs' \in JobType /\ jobs'.pc = "dequeue"
    BY <1>0, <1>1 DEF Switch!LoopTop, JobType
  <2>3. QED
    BY <1>0, <1>1, <2>1, <2>2, JobStepTypes DEF Switch!LoopTop
<1>2. CASE Switch!DequeueGets
  <2>1. /\ Head(queue) \in Switch!Kinds /\ Tail(queue) \in Seq(Switch!Kinds)
        /\ Len(Tail(queue)) <= QUEUE_SIZE
    BY <1>0, <1>2, QueueTypes DEF Switch!DequeueGets, SwitchType
  <2>2. jobs' \in JobType /\ jobs'.pc = "check" /\ jobs'.item = Head(queue)
    BY <1>0, <1>2, <2>1 DEF Switch!DequeueGets, JobType
  <2>3. QED
    BY <1>0, <1>2, <2>1, <2>2, JobStepTypes DEF Switch!DequeueGets
<1>3. CASE Switch!DequeueTimesOut
  <2>1. jobs' \in JobType /\ jobs'.pc \in {"top", "final"}
        /\ (jobs'.pc = "final" => jobs'.current # NULL)
    BY <1>0, <1>3 DEF Switch!DequeueTimesOut, JobType
  <2>2. QED
    BY <1>0, <1>3, <2>1, JobStepTypes DEF Switch!DequeueTimesOut
<1>4. CASE Switch!DiscardItem
  <2>1. jobs.item \in Switch!Kinds /\ jobs.current \in Switch!Kinds \cup {NULL}
    BY <1>0, <1>4 DEF Switch!DiscardItem, JobType
  <2>2. casts' \subseteq CastType
    BY <1>4, <2>1, CastTypes DEF Switch!DiscardItem, Switch!Kinds
  <2>3. jobs' \in JobType /\ jobs'.pc = "top"
    BY <1>0, <1>4 DEF Switch!DiscardItem, JobType
  <2>4. QED
    BY <1>0, <1>4, <2>2, <2>3, JobStepTypes DEF Switch!DiscardItem
<1>5. CASE Switch!TakeItem
  <2>1. jobs.item \in Switch!Kinds /\ jobs.current \in Switch!Kinds \cup {NULL}
    BY <1>0, <1>5 DEF Switch!TakeItem, JobType
  <2>2. casts' \subseteq CastType
    <3>1. Switch!TypeUnder(jobs.proto) \in Switch!Kinds
      BY KindTypes
    <3>2. Switch!Cast(jobs.item, Switch!TypeUnder(jobs.proto), "read") \in CastType
      BY <2>1, <3>1, CastTypes
    <3>3. Switch!free_work_item(jobs.current, jobs.proto) \subseteq CastType
      BY <2>1, CastTypes
    <3>4. casts' = Switch!free_work_item(jobs.current, jobs.proto)
                   \cup {Switch!Cast(jobs.item, Switch!TypeUnder(jobs.proto), "read")}
      BY <1>5 DEF Switch!TakeItem
    <3>5. QED
      BY <3>2, <3>3, <3>4
  <2>3. jobs' \in JobType /\ jobs'.pc \in {"top", "final"} /\ jobs'.current = jobs.item
    BY <1>0, <1>5 DEF Switch!TakeItem, JobType
  <2>4. QED
    BY <1>0, <1>5, <2>1, <2>2, <2>3, JobStepTypes DEF Switch!TakeItem
<1>6. CASE Switch!FinalCheck
  <2>1. casts' \subseteq CastType
    BY <1>0, <1>6, CastTypes DEF Switch!FinalCheck, JobType
  <2>2. jobs' \in JobType /\ jobs'.pc \in {"top", "generate"}
        /\ (jobs'.pc = "generate" => jobs'.current = jobs.current)
    BY <1>0, <1>6 DEF Switch!FinalCheck, JobType
  <2>3. QED
    BY <1>0, <1>6, <2>1, <2>2, JobStepTypes DEF Switch!FinalCheck
<1>7. CASE Switch!Generate
  <2>1. jobs.current \in Switch!Kinds
    BY <1>0, <1>7 DEF Switch!Generate, JobType
  <2>2. casts' \subseteq CastType
    BY <1>7, <2>1, CastTypes, KindTypes DEF Switch!Generate
  <2>3. jobs' \in JobType /\ jobs'.pc \in {"top", "building"}
    BY <1>0, <1>7 DEF Switch!Generate, JobType
  <2>4. QED
    BY <1>0, <1>7, <2>2, <2>3, JobStepTypes DEF Switch!Generate
<1>8. CASE Switch!FinishBuilding
  <2>1. jobs' \in JobType /\ jobs'.pc = "top"
    BY <1>0, <1>8 DEF Switch!FinishBuilding, JobType
  <2>2. QED
    BY <1>0, <1>8, <2>1, JobStepTypes DEF Switch!FinishBuilding
<1>9. QED
  BY <1>1, <1>2, <1>3, <1>4, <1>5, <1>6, <1>7, <1>8

\* queue_clear leaves an empty queue, having freed items of the queue.
LEMMA ClearTypes ==
  ASSUME Switch!TypeOK, Switch!SwitchAssumption, Switch!ClearQueue
  PROVE  /\ queue' = <<>> /\ queue' \in Seq(Switch!Kinds) /\ Len(queue') <= QUEUE_SIZE
         /\ casts' \subseteq CastType
<1>1. freeFn \in Switch!Kinds
  BY DEF Switch!TypeOK
<1>2. casts' \subseteq CastType
  BY <1>1, QueueTypes, CastTypes DEF Switch!ClearQueue
<1>3. QED
  BY <1>2, EmptySeq DEF Switch!ClearQueue, Switch!SwitchAssumption

LEMMA TypeOfTask ==
  ASSUME SwitchType, Switch!SwitchAssumption,
         \/ Switch!TaskStarts \/ Switch!TaskConnects \/ Switch!OpenChannel \/ Switch!EnqueueJob
         \/ Switch!LoseConnection
         \/ Switch!TaskCloses \/ Switch!TaskForgets
  PROVE  SwitchType'
<1> USE DEF Switch!TaskUnchanged, Switch!KeepQueue, Switch!connVars
<1>0. Switch!TypeOK /\ task \in SwitchTaskType /\ QUEUE_SIZE \in Nat \ {0}
  BY DEF SwitchType, Switch!TypeOK, SwitchTaskType, Switch!SwitchAssumption
<1>1. CASE Switch!TaskStarts
  <2>1. CASE task.kind = "V1"
    BY <1>0, <1>1, <2>1 DEF Switch!TaskStarts, SwitchType, Switch!TypeOK, SwitchTaskType
  <2>2. CASE task.kind # "V1"
    <3>1. PICK c \in Conns : /\ connHeap' = [connHeap EXCEPT ![c] = "live"]
                             /\ conn' = c /\ connType' = NULL
                             /\ task' = [task EXCEPT !.pc = "top", !.conn = c]
      BY <1>1, <2>2 DEF Switch!TaskStarts
    <3>2. task' \in SwitchTaskType /\ task'.pc = "top" /\ freeFn' \in Switch!Kinds
      BY <1>0, <1>1, <3>1 DEF Switch!TaskStarts, SwitchTaskType
    <3>3. QED
      BY <1>0, <1>1, <3>1, <3>2 DEF Switch!TaskStarts, SwitchType, Switch!TypeOK, SwitchTaskType
  <2>3. QED
    BY <2>1, <2>2
<1>2. CASE Switch!TaskConnects
  <2>1. task' \in SwitchTaskType /\ (task'.pc = "handshake" => task'.kind # "V1")
    BY <1>0, <1>2 DEF Switch!TaskConnects, SwitchTaskType
  <2>2. CASE task.kind = "V1"
    BY <1>0, <1>2, <2>1, <2>2, ClearTypes DEF Switch!TaskConnects, SwitchType, Switch!TypeOK,
       SwitchTaskType, CastType
  <2>3. CASE task.kind # "V1"
    BY <1>0, <1>2, <2>1, <2>3 DEF Switch!TaskConnects, SwitchType, Switch!TypeOK, SwitchTaskType
  <2>4. QED
    BY <2>2, <2>3
<1>3. CASE Switch!OpenChannel
  BY <1>0, <1>3 DEF Switch!OpenChannel, SwitchType, Switch!TypeOK, SwitchTaskType, Switch!Kinds
<1>4. CASE Switch!EnqueueJob
  <2>1. task.kind \in Switch!Kinds
    BY <1>0 DEF SwitchTaskType
  <2>2. CASE Len(queue) = QUEUE_SIZE
    <3>1. queue # <<>>
      BY <1>0, <2>2, QueueTypes
    <3>2. queue' \in Seq(Switch!Kinds) /\ Len(queue') = Len(queue) /\ casts' \subseteq CastType
      BY <1>0, <1>4, <2>1, <2>2, <3>1, QueueTypes, CastTypes DEF Switch!EnqueueJob
    <3>3. QED
      BY <1>4, <3>2 DEF Switch!EnqueueJob, SwitchType, Switch!TypeOK, CastType
  <2>3. CASE Len(queue) # QUEUE_SIZE
    <3>1. queue \in Seq(Switch!Kinds) /\ Len(queue) \in Nat /\ Len(queue) < QUEUE_SIZE
      BY <1>0, <2>3, QueueTypes DEF Switch!TypeOK
    <3>2. queue' \in Seq(Switch!Kinds) /\ Len(queue') <= QUEUE_SIZE /\ casts' = {}
      BY <1>0, <1>4, <2>1, <2>3, <3>1, QueueTypes DEF Switch!EnqueueJob
    <3>3. QED
      BY <1>4, <3>2 DEF Switch!EnqueueJob, SwitchType, Switch!TypeOK
  <2>4. QED
    BY <2>2, <2>3
<1>5. CASE Switch!LoseConnection
  BY <1>0, <1>5, ClearTypes, SMTT(30) DEF Switch!LoseConnection, SwitchType, Switch!TypeOK,
     SwitchTaskType, CastType
<1>6. CASE Switch!TaskCloses
  BY <1>0, <1>6, ClearTypes, SMTT(30) DEF Switch!TaskCloses, SwitchType, Switch!TypeOK,
     SwitchTaskType, CastType
<1>7. CASE Switch!TaskForgets
  BY <1>0, <1>7 DEF Switch!TaskForgets, SwitchType, Switch!TypeOK, SwitchTaskType
<1>8. QED
  BY <1>1, <1>2, <1>3, <1>4, <1>5, <1>6, <1>7

LEMMA TypeOfCoord ==
  ASSUME SwitchType, Switch!SwitchAssumption,
     Switch!SwitchClears \/ Switch!SwitchSets \/ Switch!SwitchStarts
  PROVE  SwitchType'
<1> USE DEF Switch!CoordUnchanged, Switch!KeepQueue, Switch!connVars
<1>0. Switch!TypeOK /\ MaxSwitches \in Nat /\ config \in [Switch!Pools -> Switch!Kinds]
  BY DEF SwitchType, Switch!TypeOK, Switch!SwitchAssumption
<1>1. CASE Switch!SwitchClears
  BY <1>0, <1>1, ClearTypes DEF Switch!SwitchClears, SwitchType, Switch!TypeOK, CastType
<1>2. CASE Switch!SwitchSets
  BY <1>0, <1>2, KindTypes DEF Switch!SwitchSets, SwitchType, Switch!TypeOK
<1>3. CASE Switch!SwitchStarts
  <2>1. task' \in SwitchTaskType /\ task'.pc = "start"
    BY <1>0, <1>3 DEF Switch!SwitchStarts, SwitchTaskType, Switch!TypeOK
  <2>2. QED
    BY <1>3, <2>1 DEF Switch!SwitchStarts, SwitchType, Switch!TypeOK, SwitchTaskType
<1>4. QED
  BY <1>1, <1>2, <1>3

LEMMA SwitchTypeStep ==
  ASSUME SwitchType, Switch!SwitchAssumption, [Switch!Next]_Switch!vars
  PROVE  SwitchType'
<1>1. CASE UNCHANGED Switch!vars
  BY <1>1 DEF Switch!vars, Switch!connVars, SwitchType, Switch!TypeOK
<1>2. QED
  BY <1>1, TypeOfJobs, TypeOfTask, TypeOfCoord DEF Switch!Next

\* Every variable keeps its type, and the queue its capacity.
THEOREM SwitchTypeCorrect == ASSUME Switch!SwitchAssumption PROVE Switch!Spec => []Switch!TypeOK
<1>1. Switch!Init => SwitchType
  BY SwitchTypeInit
<1>2. SwitchType /\ [Switch!Next]_Switch!vars => SwitchType'
  BY SwitchTypeStep
<1>3. SwitchType => Switch!TypeOK
  BY DEF SwitchType
<1>4. QED
  BY <1>1, <1>2, <1>3, PTL DEF Switch!Spec
-----------------------------------------------------------------------------
(* The types of items. *)

\* A V1 item is freed and read as one; under V2 the channel of the connection tells
\* the kind of item, wrongly only for an item of the other kind.
LEMMA RightType ==
  ASSUME SwitchType, Switch!SwitchAssumption, SameChannels, FeedInv,
         NEW k \in Sent, NEW p \in {"V1", "V2"}, Switch!ProtocolOf(k) = p
  PROVE  /\ Switch!TypeUnder(p) \in {"V1", "EXT"} => k = Switch!TypeUnder(p)
         /\ (\A q \in Switch!Pools : config[q] # "EXT") => k = Switch!TypeUnder(p)
<1>1. k \in Switch!Kinds
  BY DEF SwitchType, Switch!TypeOK, Switch!SwitchAssumption, Sent
<1>2. CASE p = "V1"
  BY <1>1, <1>2 DEF Switch!ProtocolOf, Switch!TypeUnder, Switch!Kinds
<1>3. CASE p = "V2" /\ Switch!IsExtended
  <2>1. PICK e \in Switch!Pools : config[e] = "EXT"
    BY <1>3 DEF Switch!IsExtended, FeedInv, Sent
  <2>2. k \in {"STD", "EXT"} /\ k # "STD"
    BY <1>1, <1>3, <2>1 DEF Switch!ProtocolOf, Switch!Kinds, Sent, SameChannels
  <2>3. QED
    BY <1>3, <2>1, <2>2 DEF Switch!TypeUnder
<1>4. CASE p = "V2" /\ ~Switch!IsExtended
  BY <1>1, <1>4 DEF Switch!ProtocolOf, Switch!TypeUnder, Switch!Kinds, Sent
<1>5. QED
  BY <1>2, <1>3, <1>4

\* What create_jobs_task may do to an item of the protocol it believes in.
LEMMA RightCasts ==
  ASSUME SwitchInv, Switch!SwitchAssumption, SameChannels,
         NEW item, item # NULL => item \in Sent /\ Switch!ProtocolOf(item) = jobs.proto,
         NEW how \in {"free", "read"}
  PROVE  \A c \in (IF item = NULL THEN {} ELSE {Switch!Cast(item, Switch!TypeUnder(jobs.proto),
     how)}) :
           /\ c.as \in {"V1", "EXT"} => c.item = c.as
           /\ (\A q \in Switch!Pools : config[q] # "EXT") => c.item = c.as
  BY RightType DEF SwitchInv, SwitchType, Switch!TypeOK, Switch!Cast

LEMMA FeedInit ==
  ASSUME Switch!SwitchAssumption, Switch!Init
  PROVE  FeedInv /\ CreateInv /\ Switch!ItemsKeepType
<1>1. FeedInv
  BY EmptySeq DEF Switch!Init, FeedInv, Switch!SwitchAssumption, Switch!Kinds
<1>2. CreateInv
  BY DEF Switch!Init, CreateInv
<1>3. Switch!ItemsKeepType
  BY DEF Switch!Init, Switch!ItemsKeepType, Switch!NoWildPointer,
     Switch!FreedAsCreatedIfStandard, Switch!FreedAsCreated
<1>4. QED
  BY <1>1, <1>2, <1>3

\* The two ways a step can break what it makes of items.
LEMMA KeepsTypes ==
  ASSUME config' = config,
         \A c \in casts' : /\ c.as \in {"V1", "EXT"} => c.item = c.as
                           /\ (\A q \in Switch!Pools : config[q] # "EXT") =>
                                (c.how = "free" => c.item = c.as)
  PROVE  Switch!ItemsKeepType'
  BY DEF Switch!ItemsKeepType, Switch!NoWildPointer, Switch!FreedAsCreatedIfStandard,
     Switch!FreedAsCreated

\* The queue hands out its items one by one.
LEMMA FeedOfJobs ==
  ASSUME SwitchInv, Switch!SwitchAssumption, Switch!JobsUnchanged,
     queue' = queue \/ (queue # <<>> /\ queue' = Tail(queue))
  PROVE  FeedInv'
<1>1. queue \in Seq(Switch!Kinds)
  BY DEF SwitchInv, SwitchType, Switch!TypeOK
<1>2. \A i \in DOMAIN queue' : queue'[i] = task.kind
  <2>1. CASE queue' = queue
    BY <2>1 DEF SwitchInv, FeedInv
  <2>2. CASE queue # <<>> /\ queue' = Tail(queue)
    <3>1. \A i \in DOMAIN Tail(queue) : i + 1 \in DOMAIN queue /\ Tail(queue)[i] = queue[i + 1]
      BY <1>1, <2>2, HeadTailProperties
    <3>2. QED
      BY <2>2, <3>1 DEF SwitchInv, FeedInv
  <2>3. QED
    BY <2>1, <2>2
<1>3. queue' # <<>> => queue # <<>>
  BY <1>1, HeadTailProperties
<1>4. QED
  BY <1>2, <1>3 DEF SwitchInv, FeedInv, Switch!JobsUnchanged, Switch!connVars, Sent,
     Switch!IsExtended

LEMMA InvOfJobs ==
  ASSUME SwitchInv, Switch!SwitchAssumption, SameChannels,
         \/ Switch!LoopTop \/ Switch!DequeueGets \/ Switch!DequeueTimesOut
         \/ Switch!DiscardItem \/ Switch!TakeItem
         \/ Switch!FinalCheck \/ Switch!Generate \/ Switch!FinishBuilding
  PROVE  FeedInv' /\ CreateInv' /\ Switch!ItemsKeepType'
<1> USE DEF Switch!JobsBecome
<1>a. Switch!JobsUnchanged
  BY DEF Switch!LoopTop, Switch!DequeueGets, Switch!DequeueTimesOut, Switch!DiscardItem,
     Switch!TakeItem, Switch!FinalCheck, Switch!Generate, Switch!FinishBuilding
<1>b. SwitchType /\ FeedInv /\ CreateInv /\ jobs \in JobType /\ protocol \in {"V1", "V2"}
  BY DEF SwitchInv, SwitchType, Switch!TypeOK, JobType
<1>0. /\ config' = config /\ Sent' = Sent /\ coord' = coord /\ protocol' = protocol
      /\ jobs.current # NULL =>
           jobs.current \in Sent /\ Switch!ProtocolOf(jobs.current) = jobs.proto
      /\ jobs.item # NULL => jobs.pc = "check"
      /\ jobs.item # NULL =>
        jobs.item \in Sent /\ (protocol = jobs.proto => Switch!ProtocolOf(jobs.item) = jobs.proto)
      /\ coord = "cleared" => jobs.proto = protocol
      /\ jobs.pc = "check" => jobs.item # NULL
  BY <1>a, <1>b DEF Switch!JobsUnchanged, CreateInv, Sent, SwitchType
<1>c. queue' = queue \/ (queue # <<>> /\ queue' = Tail(queue))
  <2>1. CASE Switch!LoopTop
    BY <2>1 DEF Switch!LoopTop
  <2>2. CASE Switch!DequeueGets
    BY <2>2 DEF Switch!DequeueGets
  <2>3. CASE Switch!DequeueTimesOut \/ Switch!DiscardItem \/ Switch!TakeItem
    BY <2>3 DEF Switch!DequeueTimesOut, Switch!DiscardItem, Switch!TakeItem
  <2>4. CASE Switch!FinalCheck \/ Switch!Generate \/ Switch!FinishBuilding
    BY <2>4 DEF Switch!FinalCheck, Switch!Generate, Switch!FinishBuilding
  <2>5. QED
    BY <2>1, <2>2, <2>3, <2>4
<1>d. FeedInv'
  BY <1>a, <1>c, FeedOfJobs
<1>1. \A c \in Switch!free_work_item(jobs.current, jobs.proto) :
        /\ c.as \in {"V1", "EXT"} => c.item = c.as
        /\ (\A q \in Switch!Pools : config[q] # "EXT") => c.item = c.as
  BY <1>a, <1>b, <1>0, RightCasts DEF Switch!free_work_item
<1>2. CASE Switch!LoopTop
  <2>1. CreateInv'
    BY <1>a, <1>b, <1>0, <1>2 DEF Switch!LoopTop, CreateInv, JobType
  <2>2. Switch!ItemsKeepType'
    BY <1>a, <1>b, <1>0, <1>1, <1>2, KeepsTypes DEF Switch!LoopTop
  <2>3. QED
    BY <1>2, <2>1, <2>2, <1>d
<1>3. CASE Switch!DequeueGets
  <2>1. Head(queue) = task.kind /\ task.kind \in Sent /\ Switch!ProtocolOf(task.kind) = protocol
    <3>1. coord = "idle" /\ task.kind = config[inUse] /\ protocol = Switch!ProtocolOf(config[inUse])
      BY <1>a, <1>b, <1>0, <1>3 DEF Switch!DequeueGets, FeedInv
    <3>2. queue \in Seq(Switch!Kinds) /\ queue # <<>> /\ inUse \in Switch!Pools
      BY <1>a, <1>b, <1>0, <1>3 DEF Switch!DequeueGets, SwitchType, Switch!TypeOK
    <3>3. 1 \in DOMAIN queue /\ Head(queue) = queue[1]
      BY <3>2, EmptySeq, HeadTailProperties
    <3>4. QED
      BY <1>a, <1>b, <1>0, <3>1, <3>2, <3>3 DEF FeedInv, Sent
  <2>2. CreateInv'
    BY <1>a, <1>b, <1>0, <1>3, <2>1 DEF Switch!DequeueGets, CreateInv, JobType
  <2>3. Switch!ItemsKeepType'
    BY <1>a, <1>b, <1>0, <1>3, KeepsTypes DEF Switch!DequeueGets
  <2>4. QED
    BY <1>3, <2>2, <2>3, <1>d
<1>4. CASE Switch!DequeueTimesOut
  <2>1. CreateInv'
    BY <1>a, <1>b, <1>0, <1>4 DEF Switch!DequeueTimesOut, CreateInv, JobType
  <2>2. Switch!ItemsKeepType'
    BY <1>a, <1>b, <1>0, <1>4, KeepsTypes DEF Switch!DequeueTimesOut
  <2>3. QED
    BY <1>4, <2>1, <2>2, <1>d
<1>5. CASE Switch!DiscardItem
  <2>1. CreateInv'
    BY <1>a, <1>b, <1>0, <1>5 DEF Switch!DiscardItem, CreateInv, JobType
  <2>2. \A c \in {Switch!Cast(jobs.item, "STD", "discard")} : c.as = "STD" /\ c.how = "discard"
    BY DEF Switch!Cast
  <2>3. Switch!ItemsKeepType'
    BY <1>a, <1>b, <1>0, <1>1, <1>5, <2>2, KeepsTypes DEF Switch!DiscardItem
  <2>4. QED
    BY <1>5, <2>1, <2>3, <1>d
<1>6. CASE Switch!TakeItem
  <2>1. jobs.item # NULL /\ protocol = jobs.proto
    BY <1>a, <1>b, <1>0, <1>6 DEF Switch!TakeItem
  <2>2. \A c \in {Switch!Cast(jobs.item, Switch!TypeUnder(jobs.proto), "read")} :
          /\ c.as \in {"V1", "EXT"} => c.item = c.as
          /\ (\A q \in Switch!Pools : config[q] # "EXT") => c.item = c.as
    BY <1>a, <1>b, <1>0, <2>1, RightCasts
  <2>3. casts' = Switch!free_work_item(jobs.current, jobs.proto)
                 \cup {Switch!Cast(jobs.item, Switch!TypeUnder(jobs.proto), "read")}
    BY <1>6 DEF Switch!TakeItem
  <2>4. Switch!ItemsKeepType'
    BY <1>a, <1>b, <1>0, <1>1, <2>2, <2>3, KeepsTypes
  <2>5. CreateInv'
    BY <1>a, <1>b, <1>0, <1>6, <2>1 DEF Switch!TakeItem, CreateInv, JobType
  <2>6. QED
    BY <1>6, <2>4, <2>5, <1>d
<1>7. CASE Switch!FinalCheck
  <2>1. CreateInv'
    BY <1>a, <1>b, <1>0, <1>7 DEF Switch!FinalCheck, CreateInv, JobType
  <2>2. Switch!ItemsKeepType'
    BY <1>a, <1>b, <1>0, <1>1, <1>7, KeepsTypes DEF Switch!FinalCheck
  <2>3. QED
    BY <1>7, <2>1, <2>2, <1>d
<1>8. CASE Switch!Generate
  <2>1. jobs.current # NULL
    BY <1>a, <1>b, <1>0, <1>8 DEF Switch!Generate, SwitchType
  <2>2. \A c \in {Switch!Cast(jobs.current, Switch!TypeUnder(jobs.proto), "read")} :
          /\ c.as \in {"V1", "EXT"} => c.item = c.as
          /\ (\A q \in Switch!Pools : config[q] # "EXT") => c.item = c.as
    BY <1>a, <1>b, <1>0, <2>1, RightCasts
  <2>3. Switch!ItemsKeepType'
    BY <1>a, <1>b, <1>0, <1>8, <2>2, KeepsTypes DEF Switch!Generate
  <2>4. CreateInv'
    BY <1>a, <1>b, <1>0, <1>8 DEF Switch!Generate, CreateInv, JobType
  <2>5. QED
    BY <1>8, <2>3, <2>4, <1>d
<1>9. CASE Switch!FinishBuilding
  <2>1. CreateInv'
    BY <1>a, <1>b, <1>0, <1>9 DEF Switch!FinishBuilding, CreateInv, JobType
  <2>2. Switch!ItemsKeepType'
    BY <1>a, <1>b, <1>0, <1>9, KeepsTypes DEF Switch!FinishBuilding
  <2>3. QED
    BY <1>9, <2>1, <2>2, <1>d
<1>10. QED
  BY <1>2, <1>3, <1>4, <1>5, <1>6, <1>7, <1>8, <1>9

\* Clearing the queue frees its items as what they are.
LEMMA ClearKeepsTypes ==
  ASSUME SwitchInv, Switch!SwitchAssumption, Switch!ClearQueue, config' = config
  PROVE  Switch!ItemsKeepType'
<1>1. \A i \in DOMAIN queue : queue[i] = freeFn
  BY DEF SwitchInv, FeedInv
<1>2. \A c \in casts' : c.item = c.as
  BY <1>1 DEF Switch!ClearQueue, Switch!Cast
<1>3. QED
  BY <1>2, KeepsTypes

LEMMA InvOfTask ==
  ASSUME SwitchInv, Switch!SwitchAssumption,
         \/ Switch!TaskStarts \/ Switch!TaskConnects \/ Switch!OpenChannel \/ Switch!EnqueueJob
         \/ Switch!LoseConnection
         \/ Switch!TaskCloses \/ Switch!TaskForgets
  PROVE  FeedInv' /\ CreateInv' /\ Switch!ItemsKeepType'
<1> USE DEF Switch!TaskUnchanged, Switch!KeepQueue, Switch!connVars
<1>0. /\ SwitchType /\ Switch!TypeOK /\ FeedInv /\ task \in SwitchTaskType
      /\ QUEUE_SIZE \in Nat \ {0}
      /\ coord = "idle" \/ task.pc = "dead"
      /\ inUse \in Switch!Pools /\ NULL # "EXT"
  BY DEF SwitchInv, SwitchType, Switch!TypeOK, SwitchTaskType, Switch!SwitchAssumption, FeedInv,
     Switch!Kinds
<1>a. Switch!TaskUnchanged
  BY DEF Switch!TaskStarts, Switch!TaskConnects, Switch!OpenChannel, Switch!EnqueueJob,
     Switch!LoseConnection, Switch!TaskCloses, Switch!TaskForgets
<1>1. CreateInv' /\ config' = config /\ Sent' = Sent
  BY <1>a DEF SwitchInv, CreateInv, Sent
<1>2. CASE Switch!TaskStarts
  <2>1. /\ task'.kind = task.kind /\ task'.pc = "top" /\ freeFn' = task.kind
        /\ connType' \in {connType, NULL}
        /\ UNCHANGED <<coord, protocol, inUse, queue>> /\ task.pc = "start"
    BY <1>0, <1>2 DEF Switch!TaskStarts, SwitchTaskType
  <2>2. FeedInv'
    BY <1>0, <1>1, <2>1 DEF FeedInv
  <2>3. QED
    BY <1>1, <1>2, <2>2, KeepsTypes DEF Switch!TaskStarts
<1>3. CASE Switch!TaskConnects
  <2>1. /\ task'.kind = task.kind /\ task'.pc # "start" /\ connType' \in {connType, NULL}
        /\ UNCHANGED <<freeFn, coord, protocol, inUse>> /\ task.pc # "session" /\ task.pc # "dead"
        /\ task.pc # "start"
    BY <1>0, <1>3 DEF Switch!TaskConnects, SwitchTaskType
  <2>2. queue' = <<>>
    BY <1>0, <1>3, <2>1 DEF Switch!TaskConnects, Switch!ClearQueue, FeedInv
  <2>3. FeedInv'
    BY <1>0, <1>1, <2>1, <2>2, EmptySeq DEF FeedInv
  <2>4. Switch!ItemsKeepType'
    BY <1>1, <1>3, ClearKeepsTypes, KeepsTypes DEF Switch!TaskConnects
  <2>5. QED
    BY <1>1, <2>3, <2>4
<1>4. CASE Switch!OpenChannel
  <2>1. task'.kind = task.kind /\ task'.pc = "session" /\ connType' = task.kind
        /\ UNCHANGED <<freeFn, coord, protocol, inUse, queue>> /\ task.pc = "handshake"
    BY <1>0, <1>4 DEF Switch!OpenChannel, SwitchTaskType
  <2>2. task.kind \in Sent
    BY <1>0, <2>1 DEF FeedInv, Sent
  <2>3. FeedInv'
    BY <1>0, <1>1, <2>1, <2>2 DEF FeedInv
  <2>4. QED
    BY <1>1, <1>4, <2>3, KeepsTypes DEF Switch!OpenChannel
<1>5. CASE Switch!EnqueueJob
  <2>1. queue \in Seq(Switch!Kinds) /\ task.kind \in Switch!Kinds /\ task.pc = "session"
    BY <1>0, <1>5 DEF Switch!EnqueueJob, SwitchTaskType, Switch!TypeOK
  <2>2. \A q \in Seq(Switch!Kinds) : (\A i \in DOMAIN q : q[i] = task.kind) =>
          \A i \in DOMAIN Append(q, task.kind) : Append(q, task.kind)[i] = task.kind
    BY <2>1, AppendProperties
  <2>3. queue # <<>> => /\ Tail(queue) \in Seq(Switch!Kinds) /\ Head(queue) = task.kind
                        /\ \A i \in DOMAIN Tail(queue) : Tail(queue)[i] = task.kind
    <3>1. queue # <<>> => /\ 1 \in DOMAIN queue /\ Head(queue) = queue[1]
                          /\ Tail(queue) \in Seq(Switch!Kinds)
                          /\ \A i \in DOMAIN Tail(queue) :
                                i + 1 \in DOMAIN queue /\ Tail(queue)[i] = queue[i + 1]
      BY <2>1, EmptySeq, HeadTailProperties
    <3>2. QED
      BY <1>0, <3>1 DEF FeedInv
  <2>4. Len(queue) = QUEUE_SIZE => queue # <<>>
    BY <1>0, QueueTypes
  <2>5. /\ \A i \in DOMAIN queue' : queue'[i] = task.kind
        /\ \A c \in casts' : c.item = c.as
    <3>1. \A i \in DOMAIN queue : queue[i] = task.kind
      BY <1>0 DEF FeedInv
    <3>2. CASE Len(queue) = QUEUE_SIZE
      <4>1. queue' = Append(Tail(queue), task.kind)
            /\ casts' = {Switch!Cast(Head(queue), task.kind, "free")}
        BY <1>5, <3>2 DEF Switch!EnqueueJob
      <4>2. QED
        BY <2>2, <2>3, <2>4, <3>2, <4>1 DEF Switch!Cast
    <3>3. CASE Len(queue) # QUEUE_SIZE
      <4>1. queue' = Append(queue, task.kind) /\ casts' = {}
        BY <1>5, <3>3 DEF Switch!EnqueueJob
      <4>2. QED
        BY <2>1, <2>2, <3>1, <4>1
    <3>4. QED
      BY <3>2, <3>3
  <2>6. FeedInv'
    BY <1>0, <1>1, <1>5, <2>1, <2>5 DEF Switch!EnqueueJob, FeedInv
  <2>7. QED
    BY <1>1, <2>5, <2>6, KeepsTypes
<1>6. CASE Switch!LoseConnection \/ Switch!TaskCloses
  <2>1. /\ task'.kind = task.kind /\ task'.pc # "start"
        /\ UNCHANGED <<freeFn, coord, protocol, inUse, connType>> /\ Switch!ClearQueue
        /\ task.pc # "dead" /\ task.pc # "start"
    BY <1>0, <1>6 DEF Switch!LoseConnection, Switch!TaskCloses, SwitchTaskType
  <2>2. FeedInv'
    BY <1>0, <1>1, <2>1, EmptySeq DEF FeedInv, Switch!ClearQueue
  <2>3. QED
    BY <1>1, <2>1, <2>2, ClearKeepsTypes
<1>7. CASE Switch!TaskForgets
  <2>1. /\ task'.kind = task.kind /\ task'.pc = "dead" /\ task.pc = "forget"
        /\ UNCHANGED <<freeFn, coord, protocol, inUse, connType, queue>>
    BY <1>0, <1>7 DEF Switch!TaskForgets, SwitchTaskType
  <2>2. FeedInv'
    BY <1>0, <1>1, <2>1 DEF FeedInv
  <2>3. QED
    BY <1>1, <1>7, <2>2, KeepsTypes DEF Switch!TaskForgets
<1>8. QED
  BY <1>2, <1>3, <1>4, <1>5, <1>6, <1>7

LEMMA InvOfCoord ==
  ASSUME SwitchInv, Switch!SwitchAssumption, PromptLoop = TRUE,
     Switch!SwitchClears \/ Switch!SwitchSets \/ Switch!SwitchStarts
  PROVE  FeedInv' /\ CreateInv' /\ Switch!ItemsKeepType'
<1> USE DEF Switch!CoordUnchanged, Switch!KeepQueue, Switch!connVars
<1>0. SwitchType /\ FeedInv /\ CreateInv /\ inUse \in Switch!Pools
  BY DEF SwitchInv, SwitchType, Switch!TypeOK
<1>1. config' = config /\ Sent' = Sent /\ jobs' = jobs
  BY DEF Switch!SwitchClears, Switch!SwitchSets, Switch!SwitchStarts, Sent
<1>2. CASE Switch!SwitchClears
  <2>1. FeedInv'
    BY <1>0, <1>1, <1>2, EmptySeq DEF Switch!SwitchClears, FeedInv, Switch!ClearQueue
  <2>2. CreateInv'
    BY <1>0, <1>1, <1>2 DEF Switch!SwitchClears, CreateInv
  <2>3. QED
    BY <1>1, <1>2, <2>1, <2>2, ClearKeepsTypes DEF Switch!SwitchClears
<1>3. CASE Switch!SwitchSets
  <2>1. task.pc = "dead" /\ jobs.proto = protocol
    BY <1>0, <1>3 DEF Switch!SwitchSets, FeedInv, CreateInv
  <2>2. FeedInv'
    BY <1>0, <1>1, <1>3, <2>1 DEF Switch!SwitchSets, FeedInv
  <2>3. CreateInv'
    BY <1>0, <1>1, <1>3, <2>1 DEF Switch!SwitchSets, CreateInv
  <2>4. QED
    BY <1>1, <1>3, <2>2, <2>3, KeepsTypes DEF Switch!SwitchSets
<1>4. CASE Switch!SwitchStarts
  <2>1. /\ queue = <<>> /\ coord' = "idle"
        /\ task' = [pc |-> "start", kind |-> config[inUse], conn |-> NULL]
    BY <1>0, <1>4 DEF Switch!SwitchStarts, FeedInv
  <2>2. FeedInv'
    BY <1>0, <1>1, <1>4, <2>1, EmptySeq DEF Switch!SwitchStarts, FeedInv
  <2>3. CreateInv'
    BY <1>0, <1>1, <1>4 DEF Switch!SwitchStarts, CreateInv
  <2>4. QED
    BY <1>1, <1>4, <2>2, <2>3, KeepsTypes DEF Switch!SwitchStarts
<1>5. QED
  BY <1>2, <1>3, <1>4

LEMMA SwitchInvStep ==
  ASSUME SwitchInv, Switch!SwitchAssumption, SameChannels, PromptLoop = TRUE,
     [Switch!Next]_Switch!vars
  PROVE  SwitchInv' /\ SameChannels'
<1>1. SwitchType'
  BY SwitchTypeStep DEF SwitchInv
<1>2. CASE UNCHANGED Switch!vars
  BY <1>1, <1>2 DEF Switch!vars, Switch!connVars, SwitchInv, FeedInv, CreateInv,
     Switch!ItemsKeepType, Switch!NoWildPointer, Switch!FreedAsCreatedIfStandard,
     Switch!FreedAsCreated, Sent, SameChannels
<1>3. CASE Switch!Next
  <2>1. config' = config
    BY <1>3 DEF Switch!Next, Switch!LoopTop, Switch!DequeueGets, Switch!DequeueTimesOut,
       Switch!DiscardItem, Switch!TakeItem, Switch!FinalCheck, Switch!Generate,
       Switch!FinishBuilding, Switch!JobsUnchanged, Switch!TaskStarts, Switch!TaskConnects,
       Switch!OpenChannel, Switch!EnqueueJob, Switch!LoseConnection, Switch!TaskCloses,
       Switch!TaskForgets, Switch!TaskUnchanged, Switch!SwitchClears, Switch!SwitchSets,
       Switch!SwitchStarts, Switch!CoordUnchanged
  <2>2. QED
    BY <1>1, <1>3, <2>1, InvOfJobs, InvOfTask, InvOfCoord DEF Switch!Next, SwitchInv, SameChannels
<1>4. QED
  BY <1>2, <1>3

\* create_jobs_task.c:29,154: across every switch of the protocol, whatever the queue
\* holds and wherever create_jobs_task stands, no item is read or freed as a mining_notify
\* or an sv2_ext_job_t that is not one; and each is freed as what it was enqueued as when
\* no pool opens an extended channel.  Assumes the two pools do not mix the channels,
\* and one iteration of create_jobs_task between two switches.
THEOREM ItemsStayTyped ==
  ASSUME Switch!SwitchAssumption, PromptLoop = TRUE
  PROVE  Switch!Spec /\ SameChannels => []Switch!ItemsKeepType
<1>1. Switch!Init /\ SameChannels => SwitchInv /\ SameChannels
  BY SwitchTypeInit, FeedInit DEF SwitchInv
<1>2. (SwitchInv /\ SameChannels) /\ [Switch!Next]_Switch!vars => (SwitchInv /\ SameChannels)'
  BY SwitchInvStep
<1>3. SwitchInv => Switch!ItemsKeepType
  BY DEF SwitchInv
<1>4. QED
  BY <1>1, <1>2, <1>3, PTL DEF Switch!Spec
=============================================================================
