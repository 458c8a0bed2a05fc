-------------------------- MODULE JobTable_proofs --------------------------
(***************************************************************************)
(* Proofs about JobTable, for every table size, step, job bound and chip   *)
(* layout: the tables own exactly the live jobs; with the locking of       *)
(* BM1366, BM1368, BM1370 and BM1397 no freed job is ever dereferenced;    *)
(* and in every driver a nonce is credited to its job, or to one a whole   *)
(* round of the ids later, and a clean-jobs notification leaves at most    *)
(* the one stale job that send_work had begun.                             *)
(***************************************************************************)
EXTENDS JobTable, Integers, SequenceTheorems, FiniteSetTheorems, TLAPS

\* Types, and that the driver only loads from a slot whose flag it has tested.
TypeInv == TypeOK /\ (result.pc = "load" => result.slot \in Slots)

\* A job is in at most one slot; the sender's new job is in none until stored.
Distinct ==
  /\ \A s, u \in Slots : active[s] = active[u] /\ active[s] # NULL => s = u
  /\ sender.pc \in {"lock", "free", "store"} =>
        sender.job \in Jobs /\ \A s \in Slots : active[s] # sender.job

OwnInv == TypeInv /\ Distinct /\ TableOwnsJobs

\* Who holds valid_jobs_lock, in the drivers that take it.
LockInv == /\ lock = "create_jobs" <=> sender.pc \in {"free", "store", "mark"}
           /\ lock = "result" <=> result.pc \in {"load", "deref", "copy"}

\* While the result task is inside, its slot is filled and its pointer fresh.
PtrInv == /\ result.pc \in {"load", "deref", "copy"} =>
                result.slot \in Slots /\ active[result.slot] \in Jobs
          /\ result.pc \in {"deref", "copy"} => result.ptr = active[result.slot]

IInv == OwnInv /\ LockInv /\ PtrInv

AllLocked == \A c \in Chips : c.locked = TRUE
-----------------------------------------------------------------------------
(* Ownership: needs no lock, since only one task sends. *)

LEMMA NextIdType == ASSUME TypeOK PROVE NextId \in Slots
<1>1. chip.step \in Nat /\ id \in Nat
  BY TableAssumption DEF TypeOK, ChipRecord, Slots
<1>2. id + chip.step \in Nat
  BY <1>1
<1>3. QED
  BY <1>2, TableAssumption DEF NextId, Slots

LEMMA NullNotJob == NULL \notin Jobs
  BY TableAssumption DEF Jobs

\* The response codec stays within the naturals.
LEMMA CodecType ==
  ASSUME TypeOK
  PROVE  /\ \A s \in Slots, core \in {0, chip.cores - 1} : WireByte(s, core) \in Nat
         /\ \A byte \in Nat : DecodedSlot(byte) \in Nat
<1>1. chip.cores \in Nat \ {0} /\ chip.scale \in Nat \ {0}
  BY TableAssumption DEF TypeOK, ChipRecord
<1>2. \A a \in Nat, b \in Nat \ {0} : a \div b \in Nat /\ a * b \in Nat
  OBVIOUS
<1>3. \A s \in Slots, core \in {0, chip.cores - 1} : WireByte(s, core) \in Nat
  BY <1>1, <1>2 DEF WireByte, Slots
<1>4. \A byte \in Nat : DecodedSlot(byte) \in Nat
  BY <1>1, <1>2 DEF DecodedSlot
<1>5. QED
  BY <1>3, <1>4

LEMMA TypeInit == Init => TypeInv
  BY TableAssumption DEF Init, TypeInv, TypeOK, Slots

LEMMA TypeStep == ASSUME TypeInv, [Next]_vars PROVE TypeInv'
<1> DEFINE Response == [byte : Nat, job : Jobs]
<1> USE DEF TypeInv, TypeOK, chipVars, ghosts
<1>1. CASE SendBegin
  BY <1>1, NextIdType DEF SendBegin
<1>2. CASE SendLock
  BY <1>2 DEF SendLock
<1>3. CASE SendFreeOld
  BY <1>3 DEF SendFreeOld
<1>4. CASE SendStore
  BY <1>4 DEF SendStore
<1>5. CASE SendMarkValid
  BY <1>5 DEF SendMarkValid
<1>6. CASE SendTransmit
  BY <1>6 DEF SendTransmit
<1>7. CASE ChipFindsNonce
  <2>1. PICK s \in Slots, core \in {0, chip.cores - 1} :
          /\ onChip[s] # NULL
          /\ uart' = Append(uart, [byte |-> WireByte(s, core), job |-> onChip[s]])
    BY <1>7 DEF ChipFindsNonce
  <2>2. [byte |-> WireByte(s, core), job |-> onChip[s]] \in Response
    BY <2>1, CodecType
  <2>3. uart' \in Seq(Response)
    BY <2>1, <2>2, AppendProperties
  <2>4. QED
    BY <1>7, <2>3 DEF ChipFindsNonce
<1>8. CASE Receive
  <2>1. uart # <<>> /\ uart \in Seq(Response)
    BY <1>8 DEF Receive
  <2>2. Head(uart) \in Response /\ Tail(uart) \in Seq(Response)
    BY <2>1, HeadTailProperties
  <2>3. DecodedSlot(Head(uart).byte) \in Nat
    BY <2>2, CodecType
  <2>4. QED
    BY <1>8, <2>2, <2>3 DEF Receive
<1>9. CASE Lookup
  <2>1. CASE result.slot \in valid /\ (chip.locked => active[result.slot] # NULL)
    BY <1>9, <2>1 DEF Lookup
  <2>2. CASE ~(result.slot \in valid /\ (chip.locked => active[result.slot] # NULL))
    BY <1>9, <2>2 DEF Lookup, Dropped
  <2>3. QED
    BY <2>1, <2>2
<1>10. CASE Load
  <2>1. active[result.slot] \in Jobs \cup {NULL}
    BY <1>10 DEF Load
  <2>2. QED
    BY <1>10, <2>1 DEF Load
<1>11. CASE Deref
  BY <1>11 DEF Deref
<1>12. CASE Snapshot
  <2>1. CASE result.slot \in valid /\ active[result.slot] # NULL
    <3>1. active[result.slot] \in Jobs \cup {NULL}
      BY <2>1
    <3>2. result' = [result EXCEPT !.pc = "copy", !.ptr = active[result.slot]]
          /\ lock' = "result"
          /\ UNCHANGED <<chip, active, valid, heap, id, sender, chipVars, ghosts>>
      BY <1>12, <2>1 DEF Snapshot
    <3>3. result' \in [pc : {"receive", "lookup", "load", "deref", "snapshot", "copy", "share"},
                       slot : Nat, ptr : Jobs \cup {NULL}, found : Jobs \cup {NULL}]
          /\ result'.pc = "copy"
      BY <3>1, <3>2
    <3>4. QED
      BY <3>2, <3>3
  <2>2. CASE ~(result.slot \in valid /\ active[result.slot] # NULL)
    BY <1>12, <2>2 DEF Snapshot, Dropped
  <2>3. QED
    BY <2>1, <2>2
<1>13. CASE Copy
  BY <1>13 DEF Copy
<1>14. CASE FinishShare
  BY <1>14 DEF FinishShare, Dropped
<1>15. CASE CleanJobs
  BY <1>15, TableAssumption DEF CleanJobs
<1>16. CASE UNCHANGED vars
  BY <1>16 DEF vars
<1>17. QED
  BY <1>1, <1>2, <1>3, <1>4, <1>5, <1>6, <1>7, <1>8, <1>9, <1>10, <1>11, <1>12,
     <1>13, <1>14, <1>15, <1>16 DEF Next, SenderSteps, ResultSteps

\* Every variable keeps its type; ids stay inside the tables.
THEOREM TypeCorrect == Spec => []TypeOK
<1>1. TypeInv => TypeOK
  BY DEF TypeInv
<1>2. QED
  BY <1>1, TypeInit, TypeStep, PTL DEF Spec

LEMMA OwnInit == Init => OwnInv
  BY NullNotJob, TypeInit, TableAssumption DEF Init, OwnInv, Distinct, TableOwnsJobs

\* Steps that leave the tables, the heap, the id and the sender alone.
LEMMA OwnSame == ASSUME OwnInv, UNCHANGED <<chip, active, heap, id, sender>>, TypeInv'
                 PROVE  OwnInv'
  BY DEF OwnInv, Distinct, TableOwnsJobs

LEMMA OwnBegin == ASSUME OwnInv, SendBegin PROVE OwnInv'
<1> USE NullNotJob DEF OwnInv
<1>1. PICK j \in Jobs : /\ heap[j] = "unborn"
                        /\ heap' = [heap EXCEPT ![j] = "live"]
                        /\ sender' = [pc |-> "lock", job |-> j]
  BY DEF SendBegin
<1>2. id' \in Slots /\ active' = active /\ valid' = valid /\ chip' = chip /\ sender.pc = "idle"
  BY NextIdType DEF SendBegin, TypeInv
<1>3. TypeInv'
  BY TypeStep DEF Next, SenderSteps
<1>4. \A s \in Slots : active[s] # j
  BY <1>1, <1>2 DEF TableOwnsJobs, TypeInv, TypeOK
<1>5. Distinct'
  BY <1>1, <1>2, <1>4 DEF Distinct
<1>6. TableOwnsJobs'
  BY <1>1, <1>2, <1>4 DEF TableOwnsJobs, TypeInv, TypeOK
<1>7. QED
  BY <1>3, <1>5, <1>6

LEMMA OwnFree == ASSUME OwnInv, SendFreeOld PROVE OwnInv'
<1> USE NullNotJob DEF OwnInv
<1>1. /\ sender.pc = "free" /\ sender' = [sender EXCEPT !.pc = "store"]
      /\ heap' = [j \in Jobs |-> IF j = active[id] THEN "freed" ELSE heap[j]]
      /\ UNCHANGED <<chip, active, valid, id>>
  BY DEF SendFreeOld
<1>2. TypeInv'
  BY TypeStep DEF Next, SenderSteps
<1>3. Distinct'
  BY <1>1 DEF Distinct, TypeInv, TypeOK
<1>4. TableOwnsJobs'
  BY <1>1 DEF TableOwnsJobs, TypeInv, TypeOK, Distinct
<1>5. QED
  BY <1>2, <1>3, <1>4

LEMMA OwnStore == ASSUME OwnInv, SendStore PROVE OwnInv'
<1> USE NullNotJob DEF OwnInv
<1>1. /\ sender.pc = "store" /\ sender' = [sender EXCEPT !.pc = "mark"]
      /\ active' = [active EXCEPT ![id] = sender.job]
      /\ UNCHANGED <<chip, heap, valid, id>>
  BY DEF SendStore
<1>2. TypeInv'
  BY TypeStep DEF Next, SenderSteps
<1>3. Distinct'
  BY <1>1 DEF Distinct, TypeInv, TypeOK
<1>4. TableOwnsJobs'
  BY <1>1 DEF TableOwnsJobs, TypeInv, TypeOK, Distinct
<1>5. QED
  BY <1>2, <1>3, <1>4

LEMMA OwnStep == ASSUME OwnInv, [Next]_vars PROVE OwnInv'
<1>0. TypeInv'
  BY TypeStep DEF OwnInv
<1>1. CASE SendBegin
  BY <1>1, OwnBegin
<1>2. CASE SendLock
  BY <1>0, <1>2, SMTT(30) DEF SendLock, OwnInv, TypeInv, TypeOK, Distinct, TableOwnsJobs
<1>3. CASE SendFreeOld
  BY <1>3, OwnFree
<1>4. CASE SendStore
  BY <1>4, OwnStore
<1>5. CASE SendMarkValid
  BY <1>0, <1>5, SMTT(30) DEF SendMarkValid, OwnInv, TypeInv, TypeOK, Distinct, TableOwnsJobs
<1>6. CASE SendTransmit
  BY <1>0, <1>6, NullNotJob DEF SendTransmit, OwnInv, TypeInv, TypeOK, Distinct, TableOwnsJobs
<1>7. CASE ChipFindsNonce \/ ResultSteps \/ CleanJobs \/ UNCHANGED vars
  <2>1. UNCHANGED <<chip, active, heap, id, sender>>
    BY <1>7 DEF ChipFindsNonce, ResultSteps, Receive, Lookup, Load, Deref, Snapshot,
       Copy, FinishShare, CleanJobs, vars
  <2>2. QED
    BY <1>0, <2>1, OwnSame
<1>8. QED
  BY <1>1, <1>2, <1>3, <1>4, <1>5, <1>6, <1>7 DEF Next, SenderSteps

\* Every bm_job is freed exactly when its slot is reused, in every driver,
\* locked or not: no double free and no leak, for any step and table size.
THEOREM TablesOwnTheJobs == Spec => []TableOwnsJobs
<1>1. Init => OwnInv
  BY OwnInit
<1>2. OwnInv /\ [Next]_vars => OwnInv'
  BY OwnStep
<1>3. OwnInv => TableOwnsJobs
  BY DEF OwnInv
<1>4. QED
  BY <1>1, <1>2, <1>3, PTL DEF Spec
-----------------------------------------------------------------------------
(* Use after free: needs the lock. *)

LEMMA LockInit == Init => LockInv /\ PtrInv
  BY TableAssumption DEF Init, LockInv, PtrInv

LEMMA LockStep ==
  ASSUME IInv, AllLocked, [Next]_vars
  PROVE  LockInv' /\ PtrInv'
<1> USE DEF IInv, LockInv, PtrInv
<1>0. chip.locked = TRUE
  BY DEF OwnInv, TypeInv, TypeOK, AllLocked
<1>1. CASE SendBegin
  BY <1>1 DEF SendBegin
<1>2. CASE SendLock
  BY <1>0, <1>2, TableAssumption DEF SendLock, OwnInv, TypeInv, TypeOK
<1>3. CASE SendFreeOld
  BY <1>3 DEF SendFreeOld, OwnInv, TypeInv, TypeOK
<1>4. CASE SendStore
  BY <1>4 DEF SendStore, OwnInv, TypeInv, TypeOK
<1>5. CASE SendMarkValid
  BY <1>0, <1>5, TableAssumption DEF SendMarkValid, OwnInv, TypeInv, TypeOK
<1>6. CASE SendTransmit
  BY <1>6 DEF SendTransmit, OwnInv, TypeInv, TypeOK
<1>7. CASE ChipFindsNonce
  BY <1>7 DEF ChipFindsNonce
<1>8. CASE Receive
  BY <1>8 DEF Receive
<1>9. CASE Lookup
  BY <1>0, <1>9, NullNotJob, TableAssumption DEF Lookup, Dropped, OwnInv, TypeInv, TypeOK
<1>10. CASE Load
  BY <1>10 DEF Load
<1>11. CASE Deref
  BY <1>0, <1>11, TableAssumption DEF Deref
<1>12. CASE Snapshot
  <2>1. lock = NULL /\ UNCHANGED <<active, sender>>
    BY <1>12 DEF Snapshot
  <2>2. CASE result.slot \in valid /\ active[result.slot] # NULL
    <3>1. result.slot \in Slots /\ active[result.slot] \in Jobs
      BY <2>2 DEF OwnInv, TypeInv, TypeOK
    <3>2. lock' = "result" /\ result' = [result EXCEPT !.pc = "copy", !.ptr = active[result.slot]]
      BY <1>12, <2>2 DEF Snapshot
    <3>3. result'.pc = "copy" /\ result'.slot = result.slot /\ result'.ptr = active[result.slot]
      BY <3>2 DEF OwnInv, TypeInv, TypeOK
    <3>4. QED
      BY <2>1, <3>1, <3>2, <3>3, TableAssumption
  <2>3. CASE ~(result.slot \in valid /\ active[result.slot] # NULL)
    BY <1>12, <2>1, <2>3, TableAssumption DEF Snapshot, Dropped
  <2>4. QED
    BY <2>2, <2>3
<1>13. CASE Copy
  BY <1>13, TableAssumption DEF Copy
<1>14. CASE FinishShare
  BY <1>14 DEF FinishShare, Dropped
<1>15. CASE CleanJobs
  BY <1>15 DEF CleanJobs
<1>16. CASE UNCHANGED vars
  BY <1>16 DEF vars
<1>17. QED
  BY <1>1, <1>2, <1>3, <1>4, <1>5, <1>6, <1>7, <1>8, <1>9, <1>10, <1>11, <1>12,
     <1>13, <1>14, <1>15, <1>16 DEF Next, SenderSteps, ResultSteps

\* While the result task is inside the critical section the sender is not
\* between freeing and storing, so the slot's job is live.
LEMMA InsideMeansLive == IInv => SafeDeref
<1> SUFFICES ASSUME IInv, result.pc \in {"deref", "copy"}
             PROVE  result.ptr \in Jobs /\ heap[result.ptr] = "live"
  BY DEF SafeDeref
<1>1. lock = "result" /\ sender.pc # "store"
  BY DEF IInv, LockInv
<1>2. result.slot \in Slots /\ active[result.slot] \in Jobs /\ result.ptr = active[result.slot]
  BY DEF IInv, PtrInv
<1>3. QED
  BY <1>1, <1>2 DEF IInv, OwnInv, TableOwnsJobs

\* With valid_jobs_lock held across free and store (every driver but BM1373)
\* neither process_work nor the result task's copy follows a freed pointer.
THEOREM NoUseAfterFree ==
  ASSUME AllLocked
  PROVE  Spec => []SafeDeref
<1>1. Init => IInv
  BY OwnInit, LockInit DEF IInv
<1>2. IInv /\ [Next]_vars => IInv'
  BY OwnStep, LockStep DEF IInv
<1>3. IInv => SafeDeref
  BY InsideMeansLive
<1>4. QED
  BY <1>1, <1>2, <1>3, PTL DEF Spec

-----------------------------------------------------------------------------
(* Remainders. *)

LEMMA Division ==
  ASSUME NEW a \in Nat, NEW m \in Nat \ {0}
  PROVE  /\ a % m \in 0 .. m - 1 /\ a \div m \in Nat
         /\ a = m * (a \div m) + (a % m)
<1> DEFINE d == a \div m
           r == a % m
           x == m * d
<1>1. r \in 0 .. m - 1 /\ d \in Nat
  OBVIOUS
<1>2. r = a - x
  OBVIOUS
<1>3. x \in Nat
  BY <1>1
<1> HIDE DEF x, r
<1>4. a = x + r
  BY <1>1, <1>2, <1>3
<1>5. a = m * (a \div m) + (a % m)
  BY <1>4 DEF x, r
<1>6. QED
  BY <1>5

LEMMA UniqueQuotient ==
  ASSUME NEW m \in Nat \ {0}, NEW q \in Int, NEW p \in Int, NEW r \in 0 .. m - 1,
         NEW s \in 0 .. m - 1, m * q + r = m * p + s
  PROVE  q = p
<1>1. CASE q < p
  <2>1. p - q \in Nat \ {0}
    BY <1>1
  <2>2. m * (p - q) >= m
    BY <2>1
  <2>3. m * p - m * q = m * (p - q)
    OBVIOUS
  <2>4. QED
    BY <2>2, <2>3
<1>2. CASE q > p
  <2>1. q - p \in Nat \ {0}
    BY <1>2
  <2>2. m * (q - p) >= m
    BY <2>1
  <2>3. m * q - m * p = m * (q - p)
    OBVIOUS
  <2>4. QED
    BY <2>2, <2>3
<1>3. QED
  BY <1>1, <1>2

LEMMA Remainder ==
  ASSUME NEW m \in Nat \ {0}, NEW q \in Nat, NEW r \in 0 .. m - 1
  PROVE  (m * q + r) % m = r /\ (m * q + r) \div m = q
<1> DEFINE a == m * q + r
<1>1. a \in Nat
  OBVIOUS
<1>2. a % m \in 0 .. m - 1 /\ a \div m \in Nat /\ a = m * (a \div m) + (a % m)
  BY <1>1, Division
<1>3. a \div m = q
  BY <1>2, UniqueQuotient
<1>4. QED
  BY <1>2, <1>3

\* Adding a multiple of the modulus changes no remainder.
LEMMA AddMultiple ==
  ASSUME NEW m \in Nat \ {0}, NEW q \in Nat, NEW x \in Nat
  PROVE  (m * q + x) % m = x % m
<1> DEFINE p == x \div m
           r == x % m
<1>1. p \in Nat /\ r \in 0 .. m - 1 /\ x = m * p + r
  BY Division
<1> HIDE DEF p, r
<1>2. m * q + x = m * (q + p) + r /\ q + p \in Nat
  BY <1>1
<1>3. (m * (q + p) + r) % m = r
  BY <1>1, <1>2, Remainder
<1>4. QED
  BY <1>2, <1>3 DEF r

\* A remainder taken early changes no sum.
LEMMA AddRemainder ==
  ASSUME NEW m \in Nat \ {0}, NEW x \in Nat, NEW y \in Nat
  PROVE  ((x % m) + y) % m = (x + y) % m
<1> DEFINE p == x \div m
           r == x % m
<1>1. p \in Nat /\ r \in 0 .. m - 1 /\ x = m * p + r
  BY Division
<1> HIDE DEF p, r
<1>2. x + y = m * p + (r + y) /\ r + y \in Nat
  BY <1>1
<1>3. (m * p + (r + y)) % m = (r + y) % m
  BY <1>1, <1>2, AddMultiple
<1>4. QED
  BY <1>2, <1>3 DEF r

\* A divisor of the factor divides the product.
LEMMA MultipleDivides ==
  ASSUME NEW d \in Nat \ {0}, NEW a \in Nat, a % d = 0, NEW k \in Nat
  PROVE  (a * k) % d = 0 /\ (k * a) % d = 0
<1> DEFINE q == a \div d
<1>1. q \in Nat /\ a = d * q
  BY Division
<1> HIDE DEF q
<1>2. q * k \in Nat /\ 0 \in 0 .. d - 1
  BY <1>1
<1>3. (d * (q * k) + 0) % d = 0
  BY <1>2, Remainder
<1>4. a * k = d * (q * k) + 0 /\ k * a = d * (q * k) + 0
  BY <1>1, <1>2
<1>5. QED
  BY <1>3, <1>4

\* A divisor of the modulus divides the remainder of what it divides.
LEMMA RemainderDivides ==
  ASSUME NEW d \in Nat \ {0}, NEW m \in Nat \ {0}, NEW a \in Nat, NEW x \in Nat,
         (a * m) % d = 0, (a * x) % d = 0
  PROVE  (a * (x % m)) % d = 0
<1> DEFINE p == x \div m
           r == x % m
           w == (a * m) \div d
<1>1. p \in Nat /\ r \in 0 .. m - 1 /\ x = m * p + r
  BY Division
<1>2. a * m \in Nat
  OBVIOUS
<1>3. w \in Nat /\ a * m = d * w
  BY <1>2, Division
<1> HIDE DEF p, r, w
<1>4. a * x = (a * m) * p + a * r
  BY <1>1
<1>5. (a * m) * p = d * (w * p) /\ w * p \in Nat /\ a * r \in Nat
  BY <1>1, <1>3
<1>6. (d * (w * p) + a * r) % d = (a * r) % d
  BY <1>5, AddMultiple
<1>7. QED
  BY <1>4, <1>5, <1>6 DEF r

\* Equal remainders: the difference is a multiple.
LEMMA EqualRemainders ==
  ASSUME NEW m \in Nat \ {0}, NEW x \in Nat, NEW y \in Nat, x <= y, x % m = y % m
  PROVE  (y - x) % m = 0
<1> DEFINE p == x \div m
           q == y \div m
           r == x % m
<1>1. p \in Nat /\ r \in 0 .. m - 1 /\ x = m * p + r
  BY Division
<1>2. q \in Nat /\ y = m * q + r
  BY Division
<1> HIDE DEF p, q, r
<1>3. p <= q
  <2> SUFFICES ASSUME p > q PROVE FALSE
    BY <1>1, <1>2
  <2>1. p - q \in Nat \ {0} /\ m * p - m * q = m * (p - q)
    BY <1>1, <1>2
  <2>2. m * (p - q) >= m
    BY <2>1
  <2>3. QED
    BY <1>1, <1>2, <2>1, <2>2
<1>4. q - p \in Nat /\ y - x = m * (q - p) + 0 /\ 0 \in 0 .. m - 1
  BY <1>1, <1>2, <1>3
<1>5. (m * (q - p) + 0) % m = 0
  BY <1>4, Remainder
<1>6. QED
  BY <1>4, <1>5
-----------------------------------------------------------------------------
(* Ids: on the chip c the job n is sent under SlotOf(c, n). *)

SlotOf(c, n) == (n * c.step) % MAX_ASIC_JOBS
ByteOf(c, s, core) == s * c.scale + core

LEMMA ChipType ==
  ASSUME TypeOK
  PROVE  /\ chip.step \in Nat \ {0} /\ chip.cores \in Nat \ {0} /\ chip.scale \in Nat \ {0}
         /\ MAX_ASIC_JOBS \in Nat \ {0} /\ CLEAN_STRIDE \in Nat \ {0}
         /\ chip.step % CLEAN_STRIDE = 0 /\ MAX_ASIC_JOBS % CLEAN_STRIDE = 0
         /\ (chip.scale * chip.step) % chip.cores = 0
         /\ (chip.scale * MAX_ASIC_JOBS) % chip.cores = 0
<1>1. chip \in Chips /\ chip \in ChipRecord
  BY TableAssumption DEF TypeOK
<1>2. chip.step \in Nat \ {0} /\ chip.cores \in Nat \ {0} /\ chip.scale \in Nat \ {0}
  BY <1>1 DEF ChipRecord
<1>3. QED
  BY <1>1, <1>2, TableAssumption, LayoutAssumption

LEMMA SlotType == ASSUME TypeOK, NEW n \in Nat PROVE SlotOf(chip, n) \in Slots
<1> DEFINE p == n * chip.step
<1>1. p \in Nat /\ MAX_ASIC_JOBS \in Nat \ {0}
  BY ChipType
<1> HIDE DEF p
<1>2. p % MAX_ASIC_JOBS \in 0 .. MAX_ASIC_JOBS - 1
  BY <1>1, Division
<1>3. QED
  BY <1>2 DEF SlotOf, Slots, p

\* The driver's running id counts the jobs.
LEMMA NextSlot ==
  ASSUME TypeOK, NEW n \in Nat, id = SlotOf(chip, n)
  PROVE  NextId = SlotOf(chip, n + 1)
<1> DEFINE c == chip.step
           p == n * c
<1>0. c \in Nat /\ MAX_ASIC_JOBS \in Nat \ {0}
  BY ChipType
<1> HIDE DEF c
<1>1. p \in Nat
  BY <1>0
<1>2. (n + 1) * c = p + c
  BY <1>0
<1> HIDE DEF p
<1>3. ((p % MAX_ASIC_JOBS) + c) % MAX_ASIC_JOBS = (p + c) % MAX_ASIC_JOBS
  BY <1>0, <1>1, AddRemainder
<1>4. NextId = ((p % MAX_ASIC_JOBS) + c) % MAX_ASIC_JOBS
  BY DEF NextId, SlotOf, p, c
<1>5. SlotOf(chip, n + 1) = (p + c) % MAX_ASIC_JOBS
  BY <1>2 DEF SlotOf, c
<1>6. QED
  BY <1>3, <1>4, <1>5

\* The clearing loop reaches every id.
LEMMA SlotCleaned ==
  ASSUME TypeOK, NEW n \in Nat
  PROVE  SlotOf(chip, n) \in CleanedSlots
<1> DEFINE c == chip.step
           p == n * c
           r == p % MAX_ASIC_JOBS
<1>0. c \in Nat /\ CLEAN_STRIDE \in Nat \ {0} /\ MAX_ASIC_JOBS \in Nat \ {0}
      /\ c % CLEAN_STRIDE = 0 /\ MAX_ASIC_JOBS % CLEAN_STRIDE = 0
  BY ChipType
<1> HIDE DEF c
<1>1. p \in Nat /\ p % CLEAN_STRIDE = 0
  <2>1. c \in Nat /\ n \in Nat /\ CLEAN_STRIDE \in Nat \ {0} /\ c % CLEAN_STRIDE = 0
    BY <1>0
  <2>2. (n * c) % CLEAN_STRIDE = 0
    BY <2>1, MultipleDivides, Zenon
  <2>3. QED
    BY <2>1, <2>2
<1>2. r \in 0 .. MAX_ASIC_JOBS - 1
  BY <1>0, <1>1, Division
<1> HIDE DEF p
<1>3. PICK a \in Nat : a = 1
  OBVIOUS
<1>4. a * p = p /\ a * MAX_ASIC_JOBS = MAX_ASIC_JOBS /\ a * r = r
  BY <1>0, <1>1, <1>2, <1>3
<1>5. (a * p) % CLEAN_STRIDE = 0 /\ (a * MAX_ASIC_JOBS) % CLEAN_STRIDE = 0
  BY <1>0, <1>1, <1>4
<1>6. r % CLEAN_STRIDE = 0
  <2>1. (a * (p % MAX_ASIC_JOBS)) % CLEAN_STRIDE = 0
    BY <1>0, <1>1, <1>5, RemainderDivides, Zenon
  <2>2. QED
    BY <2>1, <1>4
<1> HIDE DEF r
<1>7. QED
  BY <1>2, <1>6 DEF SlotOf, r, p, c, CleanedSlots, Slots

\* The masks and shifts of the driver undo the chip's encoding.
LEMMA DecodeEncoded ==
  ASSUME TypeOK, NEW n \in Nat, NEW core \in 0 .. chip.cores - 1
  PROVE  DecodedSlot(ByteOf(chip, SlotOf(chip, n), core)) = SlotOf(chip, n)
<1> DEFINE s == SlotOf(chip, n)
           a == chip.scale
           c == chip.cores
           p == n * chip.step
           k == (a * s) \div c
<1>1. a \in Nat \ {0} /\ c \in Nat \ {0} /\ chip.step \in Nat /\ MAX_ASIC_JOBS \in Nat \ {0}
  BY ChipType
<1>2. s \in Nat
  BY SlotType DEF Slots
<1>3. p \in Nat /\ a * chip.step \in Nat
  BY <1>1
<1>4. ((a * chip.step) * n) % c = 0
  BY <1>1, <1>3, ChipType, MultipleDivides
<1>5. (a * chip.step) * n = a * p
  BY <1>1
<1>6. s = p % MAX_ASIC_JOBS
  BY DEF SlotOf
<1>7. (a * MAX_ASIC_JOBS) % c = 0
  BY ChipType
<1> HIDE DEF s, a, c, p
<1>8. (a * p) % c = 0
  BY <1>4, <1>5
<1>9. (a * s) % c = 0
  BY <1>1, <1>3, <1>6, <1>7, <1>8, RemainderDivides
<1>10. a * s \in Nat
  BY <1>1, <1>2
<1>11. k \in Nat /\ a * s = c * k + 0
  BY <1>1, <1>9, <1>10, Division
<1> HIDE DEF k
<1>12. core \in 0 .. c - 1
  BY DEF c
<1>13. ByteOf(chip, s, core) = c * k + core
  BY <1>1, <1>2, <1>11, <1>12 DEF ByteOf, a
<1>14. ByteOf(chip, s, core) \div c = k
  BY <1>1, <1>11, <1>12, <1>13, Remainder
<1>15. (ByteOf(chip, s, core) \div c) * c = a * s + 0
  BY <1>1, <1>2, <1>10, <1>11, <1>14
<1>16. (a * s + 0) \div a = s
  <2>1. 0 \in 0 .. a - 1
    BY <1>1
  <2>2. QED
    BY <1>1, <1>2, <2>1, Remainder
<1>17. QED
  BY <1>15, <1>16 DEF DecodedSlot, s, a, c

\* Two jobs with one id are at least a round of the ids apart.
LEMMA RoundApart ==
  ASSUME TypeOK, NEW f \in Nat, NEW p \in Nat, f < p, SlotOf(chip, f) = SlotOf(chip, p)
  PROVE  p >= f + IdsInUse
<1> DEFINE m == MAX_ASIC_JOBS
           c == chip.step
           d == p - f
           Rests == {(r * c) % m : r \in 0 .. d - 1}
           rest == [r \in 0 .. d - 1 |-> (r * c) % m]
           Used == {(k * c) % m : k \in 1 .. m}
<1>1. m \in Nat \ {0} /\ c \in Nat \ {0} /\ d \in Nat \ {0}
  BY ChipType
<1>2. (d * c) % m = 0
  <2>1. f * c \in Nat /\ p * c \in Nat /\ p * c - f * c = d * c /\ f * c <= p * c
    BY <1>1
  <2>2. (f * c) % m = (p * c) % m
    BY DEF SlotOf
  <2> HIDE DEF m, c, d
  <2>3. (p * c - f * c) % m = 0
    BY <1>1, <2>1, <2>2, EqualRemainders
  <2>4. QED
    BY <2>1, <2>3
<1> HIDE DEF m, c, d
<1>3. ASSUME NEW k \in 1 .. m PROVE (k * c) % m \in Rests
  <2> DEFINE q == k \div d
             r == k % d
             w == (d * c) \div m
  <2>0. k \in Nat
    BY <1>1
  <2>1. q \in Nat /\ r \in 0 .. d - 1 /\ k = d * q + r
    BY <1>1, <2>0, Division
  <2>2. d * c \in Nat
    BY <1>1
  <2>3. w \in Nat /\ d * c = m * w + 0
    BY <1>1, <1>2, <2>2, Division
  <2> HIDE DEF q, r, w
  <2>4. k * c = (d * c) * q + r * c
    BY <1>1, <2>1
  <2>5. k * c = m * (w * q) + r * c /\ w * q \in Nat /\ r * c \in Nat
    BY <1>1, <2>1, <2>3, <2>4
  <2>6. (m * (w * q) + r * c) % m = (r * c) % m
    BY <1>1, <2>5, AddMultiple
  <2>7. QED
    BY <2>1, <2>5, <2>6
<1>4. Used \in SUBSET Rests
  BY <1>3
<1>5. IsFiniteSet(0 .. d - 1) /\ Cardinality(0 .. d - 1) = d
  <2>1. 0 \in Int /\ d - 1 \in Int /\ ~(0 > d - 1) /\ d - 1 - 0 + 1 = d
    BY <1>1
  <2>2. QED
    BY <2>1, FS_Interval
<1>6. rest \in Surjection(0 .. d - 1, Rests)
  BY DEF Surjection
<1>7. IsFiniteSet(Rests) /\ Cardinality(Rests) <= d
  BY <1>5, <1>6, FS_Surjection
<1>8. IsFiniteSet(Used) /\ Cardinality(Used) <= Cardinality(Rests)
  BY <1>4, <1>7, FS_Subset
<1>9. IdsInUse = Cardinality(Used)
  BY DEF IdsInUse, m, c
<1>10. Cardinality(Used) \in Nat /\ Cardinality(Rests) \in Nat
  BY <1>7, <1>8, FS_CardinalityType
<1>11. Cardinality(Used) <= d
  BY <1>1, <1>7, <1>8, <1>10
<1>12. QED
  BY <1>9, <1>10, <1>11 DEF d

-----------------------------------------------------------------------------
(* Every nonce is credited to its job or to one a round of the ids later. *)

\* The jobs so far are 1 .. n, and the id is that of the last.
Issued(n) == /\ \A j \in Jobs : heap[j] # "unborn" <=> j <= n
             /\ id = SlotOf(chip, n)
             /\ sender.pc # "idle" => n \in Jobs /\ sender.job = n
CountInv == \E n \in 0 .. MaxJobs : Issued(n)

\* A slot holds a job of its id; a valid one, and that of a job just stored, are filled.
TableInv ==
  /\ \A s \in Slots : active[s] \in Jobs =>
        SlotOf(chip, active[s]) = s /\ heap[active[s]] # "unborn"
  /\ \A s \in valid : active[s] \in Jobs
  /\ sender.pc \in {"mark", "transmit"} => active[id] = sender.job

\* A slot never goes back to an earlier job.
NotBefore(s, j) == s \in Slots /\ active[s] \in Jobs /\ active[s] >= j

ChipInv == \A s \in Slots : onChip[s] \in Jobs =>
              s = SlotOf(chip, onChip[s]) /\ NotBefore(s, onChip[s])

WireInv == \A i \in 1 .. Len(uart) :
             /\ \E core \in 0 .. chip.cores - 1 :
                   uart[i].byte = ByteOf(chip, SlotOf(chip, uart[i].job), core)
             /\ NotBefore(SlotOf(chip, uart[i].job), uart[i].job)

FoundInv ==
  /\ result.pc # "receive" =>
        /\ result.found \in Jobs /\ result.slot = SlotOf(chip, result.found)
        /\ NotBefore(result.slot, result.found)
  /\ result.pc \in {"copy", "share"} =>
        /\ result.ptr \in Jobs /\ result.ptr >= result.found
        /\ SlotOf(chip, result.ptr) = SlotOf(chip, result.found)

CreditInv == TypeInv /\ CountInv /\ TableInv /\ ChipInv /\ WireInv /\ FoundInv

\* What every step does to the table.
Grows == /\ chip' = chip
         /\ \A s \in Slots : active[s] \in Jobs =>
               active'[s] \in Jobs /\ active'[s] >= active[s]

LEMMA JobsAreNat == Jobs \subseteq Nat \ {0} /\ Jobs = 1 .. MaxJobs /\ MaxJobs \in Nat
  BY TableAssumption DEF Jobs

LEMMA CreditInit == Init => CreditInv
<1> SUFFICES ASSUME Init PROVE CreditInv
  OBVIOUS
<1>1. TypeInv
  BY TypeInit
<1>2. SlotOf(chip, 0) = 0
  <2>1. chip.step \in Nat /\ MAX_ASIC_JOBS \in Nat \ {0}
    BY <1>1, ChipType DEF TypeInv
  <2>2. 0 * chip.step = 0 /\ 0 % MAX_ASIC_JOBS = 0
    BY <2>1
  <2>3. QED
    BY <2>2 DEF SlotOf
<1>3. CountInv
  <2>1. Issued(0)
    BY <1>2, JobsAreNat DEF Init, Issued
  <2>2. QED
    BY <2>1, JobsAreNat DEF CountInv
<1>4. TableInv /\ ChipInv /\ WireInv /\ FoundInv
  BY NullNotJob DEF Init, TableInv, ChipInv, WireInv, FoundInv
<1>5. QED
  BY <1>1, <1>3, <1>4 DEF CreditInv

LEMMA CountStep ==
  ASSUME CreditInv, [Next]_vars PROVE CountInv'
<1> USE DEF CreditInv, TypeInv, TypeOK
<1>1. PICK n \in 0 .. MaxJobs : Issued(n)
  BY DEF CountInv
<1>2. CASE SendBegin
  <2>1. PICK j \in Jobs :
          /\ heap[j] = "unborn" /\ \A k \in Jobs : k < j => heap[k] # "unborn"
          /\ heap' = [heap EXCEPT ![j] = "live"]
          /\ sender' = [pc |-> "lock", job |-> j]
    BY <1>2 DEF SendBegin
  <2>2. j = n + 1
    <3>1. ~(j <= n)
      BY <1>1, <2>1 DEF Issued
    <3>2. CASE n + 1 < j
      <4>1. n + 1 \in Jobs /\ heap[n + 1] # "unborn"
        BY <2>1, <3>2, JobsAreNat
      <4>2. n + 1 <= n
        BY <1>1, <4>1 DEF Issued
      <4>3. QED
        BY <4>2
    <3>3. QED
      BY <3>1, <3>2, JobsAreNat
  <2>3. id' = SlotOf(chip, n + 1) /\ chip' = chip
    BY <1>1, <1>2, NextSlot DEF Issued, SendBegin
  <2>4. \A k \in Jobs : heap'[k] # "unborn" <=> k <= n + 1
    BY <1>1, <2>1, <2>2, JobsAreNat DEF Issued
  <2>5. Issued(n + 1)'
    BY <2>1, <2>2, <2>3, <2>4 DEF Issued
  <2>6. n + 1 \in 0 .. MaxJobs
    BY <2>2, JobsAreNat
  <2>7. QED
    BY <2>5, <2>6 DEF CountInv
<1>3. CASE SendFreeOld
  <2>1. \A k \in Jobs : heap'[k] # "unborn" <=> k <= n
    BY <1>1, <1>3 DEF SendFreeOld, Issued, CreditInv, TableInv
  <2>2. Issued(n)'
    BY <1>1, <1>3, <2>1 DEF SendFreeOld, Issued
  <2>3. QED
    BY <2>2 DEF CountInv
<1>4. CASE SendLock \/ SendStore \/ SendMarkValid \/ SendTransmit
  <2>1. Issued(n)'
    BY <1>1, <1>4 DEF SendLock, SendStore, SendMarkValid, SendTransmit, Issued
  <2>2. QED
    BY <2>1 DEF CountInv
<1>5. CASE ChipFindsNonce \/ ResultSteps \/ CleanJobs \/ UNCHANGED vars
  <2>1. UNCHANGED <<chip, heap, id, sender>>
    BY <1>5 DEF ChipFindsNonce, ResultSteps, Receive, Lookup, Load, Deref, Snapshot,
       Copy, FinishShare, CleanJobs, vars
  <2>2. Issued(n)'
    BY <1>1, <2>1 DEF Issued
  <2>3. QED
    BY <2>2 DEF CountInv
<1>6. QED
  BY <1>2, <1>3, <1>4, <1>5 DEF Next, SenderSteps

LEMMA TableStep ==
  ASSUME CreditInv, [Next]_vars PROVE TableInv' /\ Grows
<1> USE DEF CreditInv, TypeInv, TypeOK
<1>1. PICK n \in 0 .. MaxJobs : Issued(n)
  BY DEF CountInv
<1>2. CASE SendBegin
  BY <1>2, JobsAreNat DEF SendBegin, TableInv, Grows
<1>3. CASE SendLock
  BY <1>3, JobsAreNat DEF SendLock, TableInv, Grows
<1>4. CASE SendFreeOld
  BY <1>4, JobsAreNat DEF SendFreeOld, TableInv, Grows
<1>5. CASE SendStore
  <2>1. /\ sender.pc = "store" /\ sender' = [sender EXCEPT !.pc = "mark"]
        /\ active' = [active EXCEPT ![id] = sender.job]
        /\ UNCHANGED <<chip, heap, valid, id>>
    BY <1>5 DEF SendStore
  <2>2. sender.job = n /\ n \in Jobs /\ SlotOf(chip, n) = id /\ heap[n] # "unborn"
    BY <1>1, <2>1 DEF Issued
  <2>3. \A s \in Slots : active[s] \in Jobs => active[s] <= n
    BY <1>1 DEF Issued, TableInv
  <2>4. TableInv'
    BY <2>1, <2>2 DEF TableInv
  <2>5. Grows
    BY <2>1, <2>2, <2>3, JobsAreNat DEF Grows
  <2>6. QED
    BY <2>4, <2>5
<1>6. CASE SendMarkValid
  <2>1. /\ sender.pc = "mark" /\ sender' = [sender EXCEPT !.pc = "transmit"]
        /\ valid' = valid \cup {id} /\ UNCHANGED <<chip, heap, active, id>>
    BY <1>6 DEF SendMarkValid
  <2>2. active[id] \in Jobs
    BY <1>1, <2>1 DEF Issued, TableInv
  <2>3. QED
    BY <2>1, <2>2, JobsAreNat DEF TableInv, Grows
<1>7. CASE SendTransmit
  BY <1>7, JobsAreNat DEF SendTransmit, TableInv, Grows
<1>8. CASE ChipFindsNonce \/ ResultSteps \/ CleanJobs \/ UNCHANGED vars
  <2>1. UNCHANGED <<chip, active, heap, id, sender>> /\ valid' \subseteq valid
    BY <1>8 DEF ChipFindsNonce, ResultSteps, Receive, Lookup, Load, Deref, Snapshot,
       Copy, FinishShare, CleanJobs, vars
  <2>2. QED
    BY <2>1, JobsAreNat DEF TableInv, Grows
<1>9. QED
  BY <1>2, <1>3, <1>4, <1>5, <1>6, <1>7, <1>8 DEF Next, SenderSteps

\* What a slot held, it holds or has replaced by a later job.
LEMMA StillNotBefore ==
  ASSUME Grows, NEW s, NEW j \in Jobs, NotBefore(s, j)
  PROVE  NotBefore(s, j)'
  BY JobsAreNat DEF Grows, NotBefore

LEMMA ChipStep ==
  ASSUME CreditInv, [Next]_vars PROVE ChipInv'
<1> USE DEF CreditInv, TypeInv, TypeOK
<1>0. TableInv' /\ Grows
  BY TableStep
<1>1. PICK n \in 0 .. MaxJobs : Issued(n)
  BY DEF CountInv
<1>2. CASE SendTransmit
  <2>1. /\ sender.pc = "transmit" /\ onChip' = [onChip EXCEPT ![id] = sender.job]
        /\ UNCHANGED <<chip, active>>
    BY <1>2 DEF SendTransmit
  <2>2. sender.job \in Jobs /\ id = SlotOf(chip, sender.job) /\ active[id] = sender.job
    BY <1>1, <2>1 DEF Issued, TableInv
  <2>3. QED
    BY <2>1, <2>2, JobsAreNat DEF ChipInv, NotBefore
<1>3. CASE onChip' = onChip
  BY <1>0, <1>3, StillNotBefore DEF ChipInv, Grows
<1>4. QED
  BY <1>2, <1>3 DEF Next, SenderSteps, ResultSteps, SendBegin, SendLock, SendFreeOld, SendStore,
     SendMarkValid, ChipFindsNonce, Receive, Lookup, Load, Deref, Snapshot, Copy, FinishShare,
     CleanJobs, vars, chipVars

LEMMA WireStep ==
  ASSUME CreditInv, [Next]_vars PROVE WireInv'
<1> DEFINE Response == [byte : Nat, job : Jobs]
<1> USE DEF CreditInv, TypeInv, TypeOK
<1>0. Grows
  BY TableStep
<1>1. CASE ChipFindsNonce
  <2>1. PICK s \in Slots, core \in {0, chip.cores - 1} :
          /\ onChip[s] # NULL
          /\ uart' = Append(uart, [byte |-> WireByte(s, core), job |-> onChip[s]])
    BY <1>1 DEF ChipFindsNonce
  <2> DEFINE e == [byte |-> WireByte(s, core), job |-> onChip[s]]
  <2>2. core \in 0 .. chip.cores - 1
    BY ChipType
  <2>3. e \in Response
    BY <2>1, CodecType
  <2>4. onChip[s] \in Jobs /\ s = SlotOf(chip, onChip[s]) /\ NotBefore(s, onChip[s])
    BY <2>1 DEF ChipInv
  <2>5. e.byte = ByteOf(chip, SlotOf(chip, e.job), core) /\ NotBefore(SlotOf(chip, e.job), e.job)
    BY <2>4 DEF WireByte, ByteOf
  <2> HIDE DEF e
  <2>6. /\ uart' = Append(uart, e) /\ Len(uart') = Len(uart) + 1 /\ uart'[Len(uart) + 1] = e
        /\ \A i \in 1 .. Len(uart) : uart'[i] = uart[i]
        /\ Len(uart) \in Nat
    BY <2>1, <2>3, AppendProperties DEF e
  <2>7. UNCHANGED <<chip, active>>
    BY <1>1 DEF ChipFindsNonce
  <2>8. SUFFICES ASSUME NEW i \in 1 .. Len(uart')
                 PROVE  /\ \E k \in 0 .. chip.cores - 1 :
                             uart'[i].byte = ByteOf(chip, SlotOf(chip, uart'[i].job), k)
                        /\ NotBefore(SlotOf(chip, uart'[i].job), uart'[i].job)
    BY <2>7 DEF WireInv, NotBefore
  <2>9. CASE i = Len(uart) + 1
    BY <2>2, <2>5, <2>6, <2>9
  <2>10. CASE i # Len(uart) + 1
    <3>1. i \in 1 .. Len(uart) /\ uart'[i] = uart[i]
      BY <2>6, <2>10
    <3>2. QED
      BY <3>1 DEF WireInv
  <2>11. QED
    BY <2>9, <2>10
<1>2. CASE Receive
  <2>1. uart # <<>> /\ uart \in Seq(Response) /\ uart' = Tail(uart) /\ UNCHANGED <<chip, active>>
    BY <1>2 DEF Receive
  <2>2. /\ Len(uart) \in Nat \ {0} /\ Len(uart') = Len(uart) - 1
        /\ \A i \in 1 .. Len(uart') : uart'[i] = uart[i + 1]
    BY <2>1, HeadTailProperties, EmptySeq, LenProperties
  <2>3. \A i \in 1 .. Len(uart') : i + 1 \in 1 .. Len(uart) /\ uart'[i] = uart[i + 1]
    BY <2>2
  <2>4. SUFFICES ASSUME NEW i \in 1 .. Len(uart')
                 PROVE  /\ \E k \in 0 .. chip.cores - 1 :
                             uart'[i].byte = ByteOf(chip, SlotOf(chip, uart'[i].job), k)
                        /\ NotBefore(SlotOf(chip, uart'[i].job), uart'[i].job)
    BY <2>1 DEF WireInv, NotBefore
  <2>5. /\ \E k \in 0 .. chip.cores - 1 :
             uart[i + 1].byte = ByteOf(chip, SlotOf(chip, uart[i + 1].job), k)
        /\ NotBefore(SlotOf(chip, uart[i + 1].job), uart[i + 1].job)
    BY <2>3 DEF WireInv
  <2>6. QED
    BY <2>3, <2>5
<1>3. CASE uart' = uart
  <2>1. \A i \in 1 .. Len(uart) : uart[i].job \in Jobs
    <3>1. \A i \in 1 .. Len(uart) : uart[i] \in Response
      BY ElementOfSeq
    <3>2. QED
      BY <3>1
  <2>2. QED
    BY <1>0, <1>3, <2>1, StillNotBefore DEF WireInv, Grows
<1>4. QED
  BY <1>1, <1>2, <1>3 DEF Next, SenderSteps, ResultSteps, SendBegin, SendLock, SendFreeOld,
     SendStore, SendMarkValid, SendTransmit, Lookup, Load, Deref, Snapshot, Copy, FinishShare,
     CleanJobs, vars, chipVars

LEMMA FoundStep ==
  ASSUME CreditInv, [Next]_vars PROVE FoundInv'
<1> DEFINE Response == [byte : Nat, job : Jobs]
<1> USE DEF CreditInv, TypeInv, TypeOK
<1>0. TableInv' /\ Grows
  BY TableStep
<1>1. CASE Receive
  <2>1. /\ uart # <<>> /\ uart \in Seq(Response) /\ UNCHANGED <<chip, active>>
        /\ result' = [pc |-> "lookup", slot |-> DecodedSlot(Head(uart).byte),
                      ptr |-> NULL, found |-> Head(uart).job]
    BY <1>1 DEF Receive
  <2>2. Head(uart) \in Response /\ Head(uart) = uart[1] /\ 1 \in 1 .. Len(uart)
    <3>0. Head(uart) = uart[1]
      BY <2>1
    <3>1. Head(uart) \in Response
      BY <2>1, HeadTailProperties
    <3>2. Len(uart) \in Nat /\ Len(uart) # 0
      BY <2>1, EmptySeq, LenProperties
    <3>3. QED
      BY <3>0, <3>1, <3>2
  <2>3. PICK core \in 0 .. chip.cores - 1 :
          Head(uart).byte = ByteOf(chip, SlotOf(chip, Head(uart).job), core)
    BY <2>2 DEF WireInv
  <2>4. Head(uart).job \in Nat /\ Head(uart).job \in Jobs
    BY <2>2, JobsAreNat
  <2>5. DecodedSlot(Head(uart).byte) = SlotOf(chip, Head(uart).job)
    BY <2>3, <2>4, DecodeEncoded
  <2>6. NotBefore(SlotOf(chip, Head(uart).job), Head(uart).job)
    BY <2>2 DEF WireInv
  <2>7. QED
    BY <2>1, <2>4, <2>5, <2>6 DEF FoundInv, NotBefore
<1>2. CASE Snapshot
  <2>1. result.pc = "snapshot" /\ UNCHANGED <<chip, active>>
    BY <1>2 DEF Snapshot
  <2>2. CASE result.slot \in valid /\ active[result.slot] # NULL
    <3>1. result' = [result EXCEPT !.pc = "copy", !.ptr = active[result.slot]]
      BY <1>2, <2>2 DEF Snapshot
    <3>2. result.found \in Jobs /\ result.slot = SlotOf(chip, result.found)
          /\ NotBefore(result.slot, result.found)
      BY <2>1 DEF FoundInv
    <3>3. SlotOf(chip, active[result.slot]) = result.slot
      BY <3>2 DEF TableInv, NotBefore
    <3>4. QED
      BY <2>1, <3>1, <3>2, <3>3 DEF FoundInv, NotBefore
  <2>3. CASE ~(result.slot \in valid /\ active[result.slot] # NULL)
    BY <1>2, <2>3 DEF Snapshot, Dropped, FoundInv
  <2>4. QED
    BY <2>2, <2>3
<1>3. CASE Lookup
  <2>1. UNCHANGED <<chip, active>> /\ result.pc = "lookup"
        /\ (result' = [result EXCEPT !.pc = "load"] \/ result' = Dropped)
    BY <1>3 DEF Lookup
  <2>2. CASE result' = [result EXCEPT !.pc = "load"]
    <3>1. result'.pc = "load" /\ result'.slot = result.slot /\ result'.found = result.found
      BY <2>2
    <3>2. result.found \in Jobs /\ result.slot = SlotOf(chip, result.found)
          /\ NotBefore(result.slot, result.found)
      BY <2>1 DEF FoundInv
    <3>3. QED
      BY <2>1, <3>1, <3>2 DEF FoundInv, NotBefore
  <2>3. CASE result' = Dropped
    BY <2>3 DEF Dropped, FoundInv
  <2>4. QED
    BY <2>1, <2>2, <2>3
<1>4. CASE Load \/ Deref \/ Copy
  BY <1>4 DEF Load, Deref, Copy, FoundInv, NotBefore
<1>5. CASE FinishShare
  BY <1>5 DEF FinishShare, Dropped, FoundInv
<1>6. CASE result' = result
  BY <1>0, <1>6, StillNotBefore DEF FoundInv, Grows
<1>7. QED
  BY <1>1, <1>2, <1>3, <1>4, <1>5, <1>6 DEF Next, SenderSteps, ResultSteps, SendBegin, SendLock,
     SendFreeOld, SendStore, SendMarkValid, SendTransmit, ChipFindsNonce, CleanJobs, vars

LEMMA CreditStep == CreditInv /\ [Next]_vars => CreditInv'
<1> SUFFICES ASSUME CreditInv, [Next]_vars PROVE CreditInv'
  OBVIOUS
<1>1. TypeInv'
  BY TypeStep DEF CreditInv
<1>2. QED
  BY <1>1, CountStep, TableStep, ChipStep, WireStep, FoundStep DEF CreditInv

LEMMA CreditImplies == CreditInv => CreditedToItsJob
<1> SUFFICES ASSUME CreditInv, result.pc = "share", result.ptr # result.found
             PROVE  result.ptr >= result.found + IdsInUse
  BY DEF CreditedToItsJob
<1> DEFINE f == result.found
           p == result.ptr
<1>1. f \in Jobs /\ p \in Jobs /\ p >= f /\ SlotOf(chip, p) = SlotOf(chip, f)
  BY DEF CreditInv, FoundInv
<1> HIDE DEF f, p
<1>2. f \in Nat /\ p \in Nat
  BY <1>1, JobsAreNat
<1>3. f < p
  BY <1>1, <1>2 DEF f, p
<1>4. TypeOK
  BY DEF CreditInv, TypeInv
<1>5. p >= f + IdsInUse
  BY <1>1, <1>2, <1>3, <1>4, RoundApart
<1>6. QED
  BY <1>5 DEF f, p
-----------------------------------------------------------------------------
(* A clean-jobs notification clears every flag, and after it the sender can bring back *)
(* no more than the one job it was sending.                                            *)

Outdated(j) == j \in Jobs /\ bornAt[j] < cleans

StaleInv ==
  /\ sender.pc \in {"lock", "free", "store", "mark"} /\ Outdated(sender.job) => valid = {}
  /\ \A s, u \in valid : Outdated(active[s]) /\ Outdated(active[u]) => s = u

LEMMA StaleInit == Init => StaleInv
  BY DEF Init, StaleInv

LEMMA StaleStep ==
  ASSUME CreditInv, StaleInv, [Next]_vars PROVE StaleInv'
<1> USE DEF CreditInv, TypeInv, TypeOK
<1>1. PICK n \in 0 .. MaxJobs : Issued(n)
  BY DEF CountInv
<1>2. CASE SendBegin
  <2>1. PICK j \in Jobs : /\ heap[j] = "unborn"
                          /\ bornAt' = [bornAt EXCEPT ![j] = cleans]
                          /\ sender' = [pc |-> "lock", job |-> j]
    BY <1>2 DEF SendBegin
  <2>2. UNCHANGED <<active, valid, cleans>>
    BY <1>2 DEF SendBegin
  <2>3. \A s \in valid : active[s] # j
    BY <2>1 DEF TableInv
  <2>4. ~Outdated(j)'
    BY <2>1, <2>2, TableAssumption DEF Outdated
  <2>5. \A s \in valid : Outdated(active[s])' => Outdated(active[s])
    BY <2>1, <2>2, <2>3 DEF Outdated
  <2>6. QED
    BY <2>1, <2>2, <2>4, <2>5 DEF StaleInv
<1>3. CASE SendLock \/ SendFreeOld \/ SendTransmit
  <2>1. UNCHANGED <<active, valid, cleans, bornAt>>
        /\ (sender' = [pc |-> "idle", job |-> NULL]
            \/ /\ sender.pc \in {"lock", "free"} /\ sender'.job = sender.job)
    BY <1>3 DEF SendLock, SendFreeOld, SendTransmit, ghosts
  <2>2. QED
    BY <2>1 DEF StaleInv, Outdated
<1>4. CASE SendStore
  <2>1. /\ sender.pc = "store" /\ sender' = [sender EXCEPT !.pc = "mark"]
        /\ active' = [active EXCEPT ![id] = sender.job]
        /\ UNCHANGED <<valid, cleans, bornAt>>
    BY <1>4 DEF SendStore, ghosts
  <2>2. \A s \in valid : ~Outdated(sender.job) =>
           (Outdated(active'[s]) => Outdated(active[s]))
    BY <2>1
  <2>3. QED
    BY <2>1, <2>2 DEF StaleInv, Outdated
<1>5. CASE SendMarkValid
  <2>1. /\ sender.pc = "mark" /\ sender' = [sender EXCEPT !.pc = "transmit"]
        /\ valid' = valid \cup {id} /\ UNCHANGED <<active, cleans, bornAt>>
    BY <1>5 DEF SendMarkValid, ghosts
  <2>2. active[id] = sender.job
    BY <2>1 DEF TableInv
  <2>3. QED
    BY <2>1, <2>2 DEF StaleInv, Outdated
<1>6. CASE CleanJobs
  <2>1. \A s \in valid : s \in CleanedSlots
    <3> SUFFICES ASSUME NEW s \in valid PROVE s \in CleanedSlots
      OBVIOUS
    <3>1. active[s] \in Jobs /\ SlotOf(chip, active[s]) = s
      BY DEF TableInv
    <3>2. QED
      BY <3>1, SlotCleaned, JobsAreNat
  <2>2. valid' = {} /\ UNCHANGED sender
    BY <1>6, <2>1 DEF CleanJobs
  <2>3. QED
    BY <2>2 DEF StaleInv
<1>7. CASE ChipFindsNonce \/ ResultSteps \/ UNCHANGED vars
  <2>1. UNCHANGED <<active, valid, cleans, bornAt, sender>>
    BY <1>7 DEF ChipFindsNonce, ResultSteps, Receive, Lookup, Load, Deref, Snapshot,
       Copy, FinishShare, vars, ghosts
  <2>2. QED
    BY <2>1 DEF StaleInv, Outdated
<1>8. QED
  BY <1>2, <1>3, <1>4, <1>5, <1>6, <1>7 DEF Next, SenderSteps

LEMMA StaleImplies == CreditInv /\ StaleInv => AtMostOneStale
<1> SUFFICES ASSUME CreditInv, StaleInv PROVE AtMostOneStale
  OBVIOUS
<1> DEFINE Stale == {s \in valid : active[s] \in Jobs /\ bornAt[active[s]] < cleans}
<1>1. \A s, u \in Stale : s = u
  BY DEF StaleInv, Outdated
<1> HIDE DEF Stale
<1>2. CASE Stale = {}
  BY <1>2, FS_EmptySet DEF AtMostOneStale, Stale
<1>3. CASE Stale # {}
  <2>1. PICK s : s \in Stale
    BY <1>3
  <2>2. Stale = {s}
    BY <1>1, <2>1
  <2>3. Cardinality(Stale) = 1
    BY <2>2, FS_Singleton
  <2>4. QED
    BY <2>3 DEF AtMostOneStale, Stale
<1>4. QED
  BY <1>2, <1>3

\* In every driver, locked or not: a nonce is credited to the job it was found for or to
\* one a whole round of the ids later, and after a clean-jobs notification no valid slot
\* names an older job but the one that send_work had begun.
THEOREM NoncesReachTheirJobs == Spec => []ResultsOfTheirJob
<1>1. Init => CreditInv /\ StaleInv
  BY CreditInit, StaleInit
<1>2. CreditInv /\ StaleInv /\ [Next]_vars => (CreditInv /\ StaleInv)'
  BY CreditStep, StaleStep
<1>3. CreditInv /\ StaleInv => ResultsOfTheirJob
  BY CreditImplies, StaleImplies DEF ResultsOfTheirJob
<1>4. QED
  BY <1>1, <1>2, <1>3, PTL DEF Spec
=============================================================================
