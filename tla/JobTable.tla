------------------------------ MODULE JobTable ------------------------------
(***************************************************************************)
(* The job tables active_jobs[] and valid_jobs[] between create_jobs_task, *)
(* the mining chip and ASIC_result_task (components/asic/bm13xx.c,         *)
(* main/tasks/asic_result_task.c, SYSTEM_clean_jobs_queue in system.c).    *)
(*                                                                         *)
(* send_work gives the next job the next job id, frees the job that the id *)
(* named before, stores the new one, marks it valid and transmits it.  The *)
(* chip answers later with the id (and the core that found the nonce), the *)
(* driver's process_work looks the job up for its version, and the result  *)
(* task looks it up again to copy it.  A clean-jobs notification clears    *)
(* the valid flags at any moment.  valid_jobs_lock orders all of this in   *)
(* four drivers; BM1373_send_work takes it only around the valid flag and  *)
(* BM1373_process_work not at all, which is the field "locked".            *)
(*                                                                         *)
(* The two tasks are single-threaded, so a program counter each.  heap is  *)
(* the allocator's view of each bm_job; onChip and uart are the chip.      *)
(***************************************************************************)
EXTENDS Naturals, Sequences, FiniteSets

CONSTANTS MAX_ASIC_JOBS,  \* slots of both tables, 128 in the firmware
          Chips,          \* the chip families an instance covers
          CLEAN_STRIDE,   \* the step of the clearing loop, 4 in system.c
          MaxJobs,        \* bound: jobs ever generated
          MaxCleans,      \* bound: clean-jobs notifications
          UartDepth,      \* bound: chip responses waiting in the UART buffer
          NULL            \* no job; no lock holder

(* step: what a send adds to the id.  A response byte is scale * id with the *)
(* number of one of the chip's small cores, below cores, in its low bits.   *)
ChipRecord == [step : Nat \ {0}, cores : Nat \ {0}, scale : Nat \ {0}, locked : BOOLEAN]

BM1366 == [step |-> 8,  cores |-> 8,  scale |-> 1, locked |-> TRUE]
BM1368 == [step |-> 24, cores |-> 16, scale |-> 2, locked |-> TRUE]
BM1370 == [step |-> 24, cores |-> 16, scale |-> 2, locked |-> TRUE]
BM1373 == [step |-> 24, cores |-> 16, scale |-> 2, locked |-> FALSE]
BM1397 == [step |-> 4,  cores |-> 4,  scale |-> 1, locked |-> TRUE]

LockedDrivers == {BM1366, BM1368, BM1370, BM1397}

ASSUME TableAssumption == /\ MAX_ASIC_JOBS \in Nat \ {0}
                          /\ CLEAN_STRIDE \in Nat \ {0}
                          /\ MaxJobs \in Nat /\ MaxCleans \in Nat
                          /\ Chips \subseteq ChipRecord
                          /\ NULL \notin Nat /\ NULL \notin {"create_jobs", "result"}

\* True of every driver: the ids are multiples of the clearing loop's step, and an id
\* leaves the low bits of a response byte to the number of the core.
ASSUME LayoutAssumption ==
  \A c \in Chips : /\ c.step % CLEAN_STRIDE = 0 /\ MAX_ASIC_JOBS % CLEAN_STRIDE = 0
                   /\ (c.scale * c.step) % c.cores = 0
                   /\ (c.scale * MAX_ASIC_JOBS) % c.cores = 0

Slots == 0 .. MAX_ASIC_JOBS - 1
Jobs == 1 .. MaxJobs

VARIABLES chip,      \* the family on this board
          active,    \* ASIC_TASK_MODULE.active_jobs
          valid,     \* valid_jobs, as a set of slots
          lock,      \* holder of valid_jobs_lock
          heap,      \* "unborn", "live" or "freed" for every bm_job
          id,        \* the driver's static job id
          sender,    \* create_jobs_task: [pc, job]
          result,    \* ASIC_result_task: [pc, slot, ptr, found]
          onChip,    \* what the chip hashes under each id
          uart,      \* responses on their way: [byte, job]
          cleans,    \* clean-jobs notifications so far
          bornAt     \* the value of cleans when a job was generated

chipVars == <<onChip, uart>>
ghosts == <<cleans, bornAt>>
vars == <<chip, active, valid, lock, heap, id, sender, result, onChip, uart, cleans, bornAt>>

Init == /\ chip \in Chips
        /\ active = [s \in Slots |-> NULL] /\ valid = {}
        /\ lock = NULL
        /\ heap = [j \in Jobs |-> "unborn"]
        /\ id = 0
        /\ sender = [pc |-> "idle", job |-> NULL]
        /\ result = [pc |-> "receive", slot |-> 0, ptr |-> NULL, found |-> NULL]
        /\ onChip = [s \in Slots |-> NULL] /\ uart = <<>>
        /\ cleans = 0 /\ bornAt = [j \in Jobs |-> 0]
-----------------------------------------------------------------------------
(* create_jobs_task: generate_work and the driver's send_work. *)

\* A job is built; the driver picks its id and, in the locked drivers, enters
\* the critical section before touching the slot.
\* What if: the id does not wrap.
NextId_NoWrap == id + chip.step
NextId == (id + chip.step) % MAX_ASIC_JOBS

SendBegin ==
  /\ sender.pc = "idle"
  /\ \E j \in Jobs :
       /\ heap[j] = "unborn" /\ \A k \in Jobs : k < j => heap[k] # "unborn"
       /\ heap' = [heap EXCEPT ![j] = "live"]
       /\ bornAt' = [bornAt EXCEPT ![j] = cleans]
       /\ sender' = [pc |-> "lock", job |-> j]
  /\ id' = NextId
  /\ UNCHANGED <<chip, active, valid, lock, result, chipVars, cleans>>

\* What if: the sender does not take the lock.
SendLock_Unlocked ==
  /\ sender.pc = "lock"
  /\ sender' = [sender EXCEPT !.pc = "free"]
  /\ UNCHANGED <<chip, active, valid, lock, heap, id, result, chipVars, ghosts>>

SendLock ==
  /\ sender.pc = "lock"
  /\ IF chip.locked THEN lock = NULL /\ lock' = "create_jobs" ELSE UNCHANGED lock
  /\ sender' = [sender EXCEPT !.pc = "free"]
  /\ UNCHANGED <<chip, active, valid, heap, id, result, chipVars, ghosts>>

\* What if: only a job that is still valid is freed.
SendFreeOld_OnlyValid ==
  /\ sender.pc = "free"
  /\ heap' = [j \in Jobs |-> IF j = active[id] /\ id \in valid THEN "freed" ELSE heap[j]]
  /\ sender' = [sender EXCEPT !.pc = "store"]
  /\ UNCHANGED <<chip, active, valid, lock, id, result, chipVars, ghosts>>

SendFreeOld ==
  /\ sender.pc = "free"
  /\ heap' = [j \in Jobs |-> IF j = active[id] THEN "freed" ELSE heap[j]]
  /\ sender' = [sender EXCEPT !.pc = "store"]
  /\ UNCHANGED <<chip, active, valid, lock, id, result, chipVars, ghosts>>

SendStore ==
  /\ sender.pc = "store"
  /\ active' = [active EXCEPT ![id] = sender.job]
  /\ sender' = [sender EXCEPT !.pc = "mark"]
  /\ UNCHANGED <<chip, valid, lock, heap, id, result, chipVars, ghosts>>

\* valid_jobs[id] = 1; the unlocked driver takes the lock just for this.
SendMarkValid ==
  /\ sender.pc = "mark"
  /\ ~chip.locked => lock = NULL
  /\ valid' = valid \cup {id}
  /\ lock' = NULL
  /\ sender' = [sender EXCEPT !.pc = "transmit"]
  /\ UNCHANGED <<chip, active, heap, id, result, chipVars, ghosts>>

SendTransmit ==
  /\ sender.pc = "transmit"
  /\ onChip' = [onChip EXCEPT ![id] = sender.job]
  /\ sender' = [pc |-> "idle", job |-> NULL]
  /\ UNCHANGED <<chip, active, valid, lock, heap, id, result, uart, ghosts>>
-----------------------------------------------------------------------------
(* The chip: any core may report a nonce for any job it was sent. *)

WireByte(s, core) == s * chip.scale + core

\* What if: the mask drops one bit too many.
DecodedSlot_WideMask(byte) == ((byte \div (2 * chip.cores)) * 2 * chip.cores) \div chip.scale

\* The drivers' masks and shifts, e.g. (id & 0xf0) >> 1.
DecodedSlot(byte) == ((byte \div chip.cores) * chip.cores) \div chip.scale

ChipFindsNonce ==
  /\ Len(uart) < UartDepth
  /\ \E s \in Slots, core \in {0, chip.cores - 1} :
       /\ onChip[s] # NULL
       /\ uart' = Append(uart, [byte |-> WireByte(s, core), job |-> onChip[s]])
  /\ UNCHANGED <<chip, active, valid, lock, heap, id, sender, result, onChip, ghosts>>
-----------------------------------------------------------------------------
(* ASIC_result_task: the driver's process_work, then the task's snapshot. *)

Receive ==
  /\ result.pc = "receive" /\ uart # <<>>
  /\ uart' = Tail(uart)
  /\ result' = [pc |-> "lookup", slot |-> DecodedSlot(Head(uart).byte),
                ptr |-> NULL, found |-> Head(uart).job]
  /\ UNCHANGED <<chip, active, valid, lock, heap, id, sender, onChip, ghosts>>

Dropped == [pc |-> "receive", slot |-> 0, ptr |-> NULL, found |-> NULL]

\* process_work tests the valid flag (and, in the locked drivers, the pointer).
Lookup ==
  /\ result.pc = "lookup"
  /\ chip.locked => lock = NULL
  /\ IF result.slot \in valid /\ (chip.locked => active[result.slot] # NULL)
     THEN /\ result' = [result EXCEPT !.pc = "load"]
          /\ lock' = IF chip.locked THEN "result" ELSE lock
     ELSE result' = Dropped /\ UNCHANGED lock
  /\ UNCHANGED <<chip, active, valid, heap, id, sender, chipVars, ghosts>>

Load ==
  /\ result.pc = "load"
  /\ result' = [result EXCEPT !.pc = "deref", !.ptr = active[result.slot]]
  /\ UNCHANGED <<chip, active, valid, lock, heap, id, sender, chipVars, ghosts>>

\* active_jobs[job_id]->version is read here; then the driver returns.
Deref ==
  /\ result.pc = "deref"
  /\ result' = [result EXCEPT !.pc = "snapshot", !.ptr = NULL]
  /\ lock' = IF chip.locked THEN NULL ELSE lock
  /\ UNCHANGED <<chip, active, valid, heap, id, sender, chipVars, ghosts>>

\* The result task locks in every build, and tests flag and pointer again.
Snapshot ==
  /\ result.pc = "snapshot"
  /\ lock = NULL
  /\ IF result.slot \in valid /\ active[result.slot] # NULL
     THEN /\ result' = [result EXCEPT !.pc = "copy", !.ptr = active[result.slot]]
          /\ lock' = "result"
     ELSE result' = Dropped /\ UNCHANGED lock
  /\ UNCHANGED <<chip, active, valid, heap, id, sender, chipVars, ghosts>>

\* *active_jobs[job_id] and its two strings are copied; unlock.
Copy ==
  /\ result.pc = "copy"
  /\ result' = [result EXCEPT !.pc = "share"]
  /\ lock' = NULL
  /\ UNCHANGED <<chip, active, valid, heap, id, sender, chipVars, ghosts>>

\* The share is judged and submitted from the copy.
FinishShare ==
  /\ result.pc = "share"
  /\ result' = Dropped
  /\ UNCHANGED <<chip, active, valid, lock, heap, id, sender, chipVars, ghosts>>
-----------------------------------------------------------------------------
\* What if: the clearing loop takes steps of twice the size.
CleanedSlots_DoubleStride == {s \in Slots : s % (2 * CLEAN_STRIDE) = 0}

\* SYSTEM_clean_jobs_queue: every CLEAN_STRIDE-th flag is cleared, under the lock.
CleanedSlots == {s \in Slots : s % CLEAN_STRIDE = 0}
CleanJobs ==
  /\ cleans < MaxCleans
  /\ lock = NULL
  /\ valid' = valid \ CleanedSlots
  /\ cleans' = cleans + 1
  /\ UNCHANGED <<chip, active, lock, heap, id, sender, result, chipVars, bornAt>>

SenderSteps == \/ SendBegin \/ SendLock \/ SendFreeOld \/ SendStore
               \/ SendMarkValid \/ SendTransmit
ResultSteps == Receive \/ Lookup \/ Load \/ Deref \/ Snapshot \/ Copy \/ FinishShare
Next == SenderSteps \/ ChipFindsNonce \/ ResultSteps \/ CleanJobs

Spec == Init /\ [][Next]_vars
-----------------------------------------------------------------------------
TypeOK ==
  /\ chip \in Chips
  /\ active \in [Slots -> Jobs \cup {NULL}] /\ valid \in SUBSET Slots
  /\ lock \in {NULL, "create_jobs", "result"}
  /\ heap \in [Jobs -> {"unborn", "live", "freed"}]
  /\ id \in Slots
  /\ sender \in [pc : {"idle", "lock", "free", "store", "mark", "transmit"},
                 job : Jobs \cup {NULL}]
  /\ result \in [pc : {"receive", "lookup", "load", "deref", "snapshot", "copy", "share"},
                 slot : Nat, ptr : Jobs \cup {NULL}, found : Jobs \cup {NULL}]
  /\ onChip \in [Slots -> Jobs \cup {NULL}]
  /\ uart \in Seq([byte : Nat, job : Jobs])
  /\ cleans \in 0 .. MaxCleans /\ bornAt \in [Jobs -> 0 .. MaxCleans]

\* No use after free: at the two places where the result task follows a pointer
\* it took from active_jobs (process_work's ->version, the snapshot's struct
\* copy) the job behind it has not been freed by a concurrent send_work.
SafeDeref == result.pc \in {"deref", "copy"} =>
                result.ptr \in Jobs /\ heap[result.ptr] = "live"

\* Exactly the jobs that a slot or the sender owns are live: send_work's free of
\* the slot's previous job frees each job once, and no job is lost.
TableOwnsJobs ==
  \A j \in Jobs : heap[j] = "live" <=>
     \/ \E s \in Slots : active[s] = j /\ ~(sender.pc = "store" /\ s = id)
     \/ sender.job = j /\ sender.pc \in {"lock", "free", "store"}

\* After a clean-jobs notification at most one slot can name a job generated
\* before it: the one send_work had already begun.  In particular the strided
\* clearing loop reaches every id that a driver's step can produce.
AtMostOneStale ==
  Cardinality({s \in valid : active[s] \in Jobs /\ bornAt[active[s]] < cleans}) <= 1

\* How many ids a family uses before it repeats one.
IdsInUse == Cardinality({(k * chip.step) % MAX_ASIC_JOBS : k \in 1 .. MAX_ASIC_JOBS})

\* A nonce is credited to the job the chip was hashing, unless the id has gone
\* all the way round while the response sat in the UART buffer: the decoding of
\* the response byte and the step of the ids agree.
CreditedToItsJob ==
  result.pc = "share" => \/ result.ptr = result.found
                         \/ result.ptr >= result.found + IdsInUse

\* What a nonce is credited to: the job it was found for, and after a clean-jobs
\* notification no job of before it but the one send_work had already begun.
ResultsOfTheirJob == CreditedToItsJob /\ AtMostOneStale
=============================================================================
