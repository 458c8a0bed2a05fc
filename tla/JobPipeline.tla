----------------------------- MODULE JobPipeline -----------------------------
(***************************************************************************)
(* From a pool's notification to the work the chip hashes:                 *)
(* the handlers of the protocol task (main/tasks/stratum_v1_task.c,        *)
(* stratum_v2_task.c), create_jobs_task and the power cycles of the ASIC.  *)
(*                                                                         *)
(* Work items travel through stratum_queue, taken here as the atomic FIFO  *)
(* WorkQueue implements.  Settings (pool difficulty, version mask,         *)
(* extranonce) travel through global variables, each with a flag raised    *)
(* after the value was written; every such write, test and clear is a step *)
(* of its own.  Jobs are numbered in the order of their announcement, and  *)
(* settings by how often they changed.                                     *)
(***************************************************************************)
EXTENDS Integers, Sequences, FiniteSets

CONSTANTS Kind,        \* "V1", or the V2 channel: "STD" or "EXT"
          QUEUE_SIZE,  \* capacity of stratum_queue
          SLOTS,       \* jobs a chip works on before it reuses a slot
          EN2_SPACE,   \* values of extranonce_2: 256 ^ extranonce_2_len
          Exhausts,    \* bound: whether a job may use all of them
          MaxJobs, MaxSettings, MaxExtranonces, MaxCycles \* bounds

ASSUME PipelineAssumption ==
  /\ Kind \in {"V1", "STD", "EXT"}
  /\ QUEUE_SIZE \in Nat \ {0} /\ SLOTS \in Nat \ {0}
  /\ MaxJobs \in Nat /\ MaxSettings \in Nat /\ MaxExtranonces \in Nat
  /\ MaxCycles \in Nat /\ EN2_SPACE \in Nat \ {0} /\ Exhausts \in BOOLEAN

Settings == {"diff", "mask"}
DEFAULT == 0 \* version_mask before the pool chose one: STRATUM_DEFAULT_VERSION_MASK

Work == [job : 1 .. MaxJobs, en1 : 0 .. MaxExtranonces, en2 : 0 .. EN2_SPACE - 1]
NoWork == [job |-> 0, en1 |-> 0, en2 |-> 0]

VARIABLES announced, \* number of jobs the pool announced
          cleanAt,   \* the last one announced with clean_jobs in this connection
          pool,      \* pool_difficulty, version_mask and extranonce
          handler,   \* the flag the protocol task is about to raise, or "idle"
          flags,     \* new_set_mining_difficulty_msg, new_stratum_version_rolling_msg,
                     \* reset_extranonce2
          queue,     \* stratum_queue
          slots,     \* the works whose results are accepted (valid_jobs)
          chip,      \* [state, diff, mask, work]
          cycles,    \* power cycles so far
          jobs,      \* create_jobs_task: [pc, cur, en2]
          sent,      \* every work ever given to the chip
          read,      \* the value create_jobs_task has read and is giving to the chip
          missed     \* history: settings of which the chip may lack the last value with
                     \* no flag left to ask for it
vars == <<announced, cleanAt, pool, handler, flags, queue, slots, chip, cycles, jobs, sent,
          read, missed>>

poolVars == <<announced, cleanAt, pool>>
applyVars == <<read, missed>>

Init == /\ announced = 0 /\ cleanAt = 0
        /\ pool = [diff |-> 0, mask |-> DEFAULT, en1 |-> 0]
        /\ handler = "idle" /\ flags = {}
        /\ queue = <<>> /\ slots = <<>> /\ cycles = 0
        /\ chip = [state |-> "on", diff |-> 0, mask |-> DEFAULT, work |-> NoWork]
        /\ jobs = [pc |-> "top", cur |-> 0, en2 |-> 0]
        /\ sent = {} /\ read = 0 /\ missed = {}
-----------------------------------------------------------------------------
(* The protocol task. *)

\* A V1 session that receives a line while the ASIC is down is closed instead.
Handles == handler = "idle" /\ (Kind = "V1" => chip.state = "on")

\* What if: a full queue grows.
Enqueue_NoDrop(q, item) == Append(q, item)

\* A full queue loses its oldest item.
Enqueue(q, item) == Append(IF Len(q) = QUEUE_SIZE THEN Tail(q) ELSE q, item)

\* What if: the queue is purged after the new job went in.
Notify_PurgesLast(clean) ==
  /\ Handles /\ announced < MaxJobs
  /\ announced' = announced + 1
  /\ cleanAt' = IF clean THEN announced' ELSE cleanAt
  /\ queue' = IF clean THEN <<>> ELSE Enqueue(queue, [job |-> announced', clean |-> clean])
  /\ slots' = IF clean THEN <<>> ELSE slots
  /\ UNCHANGED <<pool, handler, flags, chip, cycles, jobs, sent, applyVars>>

\* What if: a clean job jumps the queue instead of purging it.
Notify_Jumps(clean) ==
  /\ Handles /\ announced < MaxJobs
  /\ Kind # "V1" => clean
  /\ announced' = announced + 1
  /\ cleanAt' = IF clean THEN announced' ELSE cleanAt
  /\ LET item == [job |-> announced', clean |-> clean]
     IN queue' = IF clean /\ Len(queue) < QUEUE_SIZE THEN <<item>> \o queue ELSE Enqueue(queue, item)
  /\ UNCHANGED <<pool, handler, flags, slots, chip, cycles, jobs, sent, applyVars>>

\* mining.notify or a V2 job; V2 enqueues every job as clean.  A clean job
\* purges the queue and the slots, if there is anything in the queue.
Notify(clean) ==
  /\ Handles /\ announced < MaxJobs
  /\ Kind # "V1" => clean
  /\ announced' = announced + 1
  /\ cleanAt' = IF clean THEN announced' ELSE cleanAt
  /\ LET purge == clean /\ queue # <<>>
     IN /\ queue' = Enqueue(IF purge THEN <<>> ELSE queue, [job |-> announced', clean |-> clean])
        /\ slots' = IF purge THEN <<>> ELSE slots
  /\ UNCHANGED <<pool, handler, flags, chip, cycles, jobs, sent, applyVars>>

\* mining.set_difficulty, SetTarget, mining.set_version_mask or the configure
\* result (V1 only): the value is written; the flag follows.
Change(s) ==
  /\ Handles /\ pool.diff + pool.mask < MaxSettings
  /\ s = "mask" => Kind = "V1"
  /\ pool' = [pool EXCEPT ![s] = @ + 1]
  /\ handler' = s
  /\ UNCHANGED <<announced, cleanAt, flags, queue, slots, chip, cycles, jobs, sent, applyVars>>

\* mining.set_extranonce or the subscribe result, after a reconnect that purged.
ChangeExtranonce ==
  /\ Handles /\ Kind # "STD" /\ pool.en1 < MaxExtranonces
  /\ pool' = [pool EXCEPT !.en1 = @ + 1]
  /\ handler' = "en2"
  /\ \/ Kind = "V1" /\ UNCHANGED <<cleanAt, queue, slots>>
     \/ cleanAt' = 0 /\ queue' = <<>> /\ slots' = <<>>
  /\ UNCHANGED <<announced, flags, chip, cycles, jobs, sent, applyVars>>

RaiseFlag ==
  /\ handler # "idle"
  /\ flags' = flags \cup {handler} /\ handler' = "idle"
  /\ UNCHANGED <<poolVars, queue, slots, chip, cycles, jobs, sent, applyVars>>
-----------------------------------------------------------------------------
(* Power management. *)

\* mining_stop.
PowerOff ==
  /\ chip.state = "on" /\ cycles < MaxCycles
  /\ chip' = [chip EXCEPT !.state = "off", !.work = NoWork]
  /\ cycles' = cycles + 1
  /\ UNCHANGED <<poolVars, handler, flags, queue, slots, jobs, sent, applyVars>>

\* What if: ASIC_init programs the family's default difficulty.
ChipInit_DefaultDifficulty ==
  /\ chip.state = "off"
  /\ chip' = [chip EXCEPT !.state = "init", !.diff = DEFAULT, !.mask = DEFAULT]
  /\ missed' = (missed \ {"diff"}) \cup {"mask"}
  /\ UNCHANGED <<poolVars, handler, flags, queue, slots, cycles, jobs, sent, read>>

\* ASIC_init programs the default version mask, and the ticket mask from the pool's
\* difficulty of the moment (BM1366, BM1370); nobody asks for the pool's mask again.
ChipInit ==
  /\ chip.state = "off"
  /\ chip' = [chip EXCEPT !.state = "init", !.diff = pool.diff, !.mask = DEFAULT]
  /\ missed' = (missed \ {"diff"}) \cup {"mask"}
  /\ UNCHANGED <<poolVars, handler, flags, queue, slots, cycles, jobs, sent, read>>

\* The rest of asic_initialize: baud rates, then ASIC_initalized.
ChipReady ==
  /\ chip.state = "init"
  /\ chip' = [chip EXCEPT !.state = "on"]
  /\ UNCHANGED <<poolVars, handler, flags, queue, slots, cycles, jobs, sent, applyVars>>
-----------------------------------------------------------------------------
(* create_jobs_task. *)

Goto(pc) == jobs' = [jobs EXCEPT !.pc = pc]
JobsUnchanged == UNCHANGED <<poolVars, handler, cycles>>

\* The extranonce is reset if asked for; settings wait until the ASIC is up.
LoopTop ==
  /\ jobs.pc = "top"
  /\ jobs' = [jobs EXCEPT !.pc = IF chip.state = "on" THEN "diff" ELSE "dequeue",
                          !.en2 = IF "en2" \in flags THEN 0 ELSE @]
  /\ flags' = flags \ {"en2"}
  /\ UNCHANGED <<queue, slots, chip, sent, applyVars>> /\ JobsUnchanged

After(s) == IF s = "diff" THEN "mask" ELSE "dequeue"
Clearing(s) == IF s = "diff" THEN "clear diff" ELSE "clear mask"

\* The value is read and written to the chip (a chip without power loses it) ...
ApplySetting(s) ==
  /\ jobs.pc = s
  /\ IF s \in flags
     THEN /\ read' = pool[s] /\ Goto(Clearing(s))
          /\ IF chip.state = "off" THEN UNCHANGED <<chip, missed>>
             ELSE chip' = [chip EXCEPT ![s] = pool[s]] /\ missed' = missed \ {s}
     ELSE UNCHANGED <<chip, applyVars>> /\ Goto(After(s))
  /\ UNCHANGED <<flags, queue, slots, sent>> /\ JobsUnchanged

\* What if: one clear serves both settings.
ClearFlag_Both(s) ==
  /\ jobs.pc = Clearing(s)
  /\ flags' = flags \ Settings /\ Goto(After(s))
  /\ missed' = IF pool[s] = read \/ handler = s THEN missed ELSE missed \cup {s}
  /\ read' = 0
  /\ UNCHANGED <<chip, queue, slots, sent>> /\ JobsUnchanged

\* ... and then the flag is cleared: a change whose flag was raised in between is
\* missed.
ClearFlag(s) ==
  /\ jobs.pc = Clearing(s)
  /\ flags' = flags \ {s} /\ Goto(After(s))
  /\ missed' = IF pool[s] = read \/ handler = s THEN missed ELSE missed \cup {s}
  /\ read' = 0
  /\ UNCHANGED <<chip, queue, slots, sent>> /\ JobsUnchanged

\* A new item becomes the current work with a fresh extranonce_2 (its job id is
\* always new); a clean one goes to the chip at once.
TakeItem ==
  /\ jobs.pc = "dequeue" /\ queue # <<>>
  /\ queue' = Tail(queue)
  /\ jobs' = [pc |-> IF Head(queue).clean THEN "generate" ELSE "top",
              cur |-> Head(queue).job, en2 |-> 0]
  /\ UNCHANGED <<flags, chip, slots, sent, applyVars>> /\ JobsUnchanged

\* On a timeout the current work is used again, except on a standard channel.
DequeueTimesOut ==
  /\ jobs.pc = "dequeue" /\ queue = <<>>
  /\ Goto(IF jobs.cur = 0 \/ Kind = "STD" THEN "top" ELSE "generate")
  /\ UNCHANGED <<flags, queue, chip, slots, sent, applyVars>> /\ JobsUnchanged

NextWork == [job |-> jobs.cur, en1 |-> pool.en1, en2 |-> jobs.en2]

Push(s, w) == Append(IF Len(s) = SLOTS THEN Tail(s) ELSE s, w)

\* What if: extranonce_2 stays.
Generate_KeepsEn2 ==
  /\ jobs.pc = "generate"
  /\ Exhausts \/ Kind = "STD" \/ jobs.en2 + 1 < EN2_SPACE
  /\ Goto("top")
  /\ IF chip.state = "on"
     THEN /\ chip' = [chip EXCEPT !.work = NextWork]
          /\ slots' = Push(slots, NextWork)
          /\ sent' = sent \cup {NextWork}
     ELSE UNCHANGED <<chip, slots, sent>>
  /\ UNCHANGED <<flags, queue, applyVars>> /\ JobsUnchanged

\* A work is built from the extranonce of the moment; it is thrown away if the
\* ASIC is down.  extranonce_2 advances in either case, and of the counter only
\* the bytes that fit are used.
Generate ==
  /\ jobs.pc = "generate"
  /\ Exhausts \/ Kind = "STD" \/ jobs.en2 + 1 < EN2_SPACE
  /\ jobs' = [jobs EXCEPT !.pc = "top",
                          !.en2 = IF Kind = "STD" THEN @ ELSE (@ + 1) % EN2_SPACE]
  /\ IF chip.state = "on"
     THEN /\ chip' = [chip EXCEPT !.work = NextWork]
          /\ slots' = Push(slots, NextWork)
          /\ sent' = sent \cup {NextWork}
     ELSE UNCHANGED <<chip, slots, sent>>
  /\ UNCHANGED <<flags, queue, applyVars>> /\ JobsUnchanged
-----------------------------------------------------------------------------
Loop == \/ LoopTop \/ TakeItem \/ DequeueTimesOut \/ Generate
        \/ \E s \in Settings : ApplySetting(s) \/ ClearFlag(s)
Power == PowerOff \/ ChipInit \/ ChipReady
Protocol == \/ \E clean \in BOOLEAN : Notify(clean)
            \/ \E s \in Settings : Change(s)
            \/ ChangeExtranonce \/ RaiseFlag

Next == Loop \/ Power \/ Protocol
Spec == Init /\ [][Next]_vars
\* create_jobs_task has the highest priority but power management's start and
\* the handlers, once begun, go on as well.
FairSpec == Spec /\ WF_vars(Loop) /\ WF_vars(ChipInit \/ ChipReady) /\ WF_vars(RaiseFlag)
-----------------------------------------------------------------------------
Item == [job : 1 .. MaxJobs, clean : BOOLEAN]

\* Every variable has its type.
TypeOK ==
  /\ announced \in 0 .. MaxJobs /\ cleanAt \in 0 .. MaxJobs
  /\ pool \in [diff : 0 .. MaxSettings, mask : 0 .. MaxSettings, en1 : 0 .. MaxExtranonces]
  /\ handler \in Settings \cup {"en2", "idle"} /\ flags \subseteq Settings \cup {"en2"}
  /\ queue \in Seq(Item) /\ Len(queue) <= QUEUE_SIZE
  /\ slots \in Seq(Work) /\ Len(slots) <= SLOTS
  /\ chip \in [state : {"on", "off", "init"}, diff : 0 .. MaxSettings, mask : 0 .. MaxSettings,
               work : Work \cup {NoWork}]
  /\ cycles \in 0 .. MaxCycles
  /\ jobs \in [pc : {"top", "diff", "clear diff", "mask", "clear mask", "dequeue", "generate"},
               cur : 0 .. MaxJobs, en2 : 0 .. EN2_SPACE - 1]
  /\ sent \subseteq Work
  /\ read \in 0 .. MaxSettings /\ missed \subseteq Settings

\* create_jobs_task.c:222: "extranonce_2 gives unique work each time", and a
\* standard channel is only sent new jobs: the chip never gets a work twice.
NoRepeatedWork == [][chip'.work \in {chip.work, NoWork} \/ chip'.work \notin sent]_vars

\* Through drops, purges and power cycles the chip never returns to a job older
\* than one it has worked on.
JobsNeverGoBack ==
  [][chip'.work # NoWork => \A w \in sent : w.job <= chip'.work.job]_vars

\* create_jobs_task.c:106: "Keep the chip's ticket mask (register 0x14) in step
\* with the pool".  However often the pool changes its settings, while the chip or the
\* task restarts or is busy: the chip in use has the last value, or it is on its way, or
\* the chip missed it in one of two ways.  A change flagged between the read of an
\* earlier one and the clear of its flag is lost (:104-110), and a power cycle forgets
\* the version mask; both last until the next change is applied.
SettingsInStep ==
  chip.state = "on" =>
    \A s \in Settings : handler = s \/ s \in flags \/ s \in missed \/ chip[s] = pool[s]

\* A clean job reaches the chip, or a newer one does, unless the ASIC goes down or
\* the connection is lost.
NewBlockReachesChip ==
  \A n \in 1 .. MaxJobs :
    (cleanAt = n /\ chip.state = "on")
      ~> (chip.work.job >= n \/ chip.state # "on" \/ cleanAt < n)

\* docs/PHASE1_SIMULATION_REPORT.md:116: "all queue items and active slots with
\* older epochs are immediately purged and marked stale" when a clean job arrives.
\* The code does not keep this: an empty queue leaves the slots alone (README).
OldWorkIsRetired ==
  [][cleanAt' > cleanAt => \A i \in DOMAIN slots' : slots'[i].job >= cleanAt']_vars
=============================================================================
