------------------------------ MODULE Counters ------------------------------
(***************************************************************************)
(* The lifetime counters (SYSTEM_noinit_update and SYSTEM_init_system in   *)
(* main/system.c): the uptime and the 128-bit number of hashes live in     *)
(* memory that a soft restart keeps and a power cycle clears, and once per *)
(* interval they are handed to the settings store, as three settings that  *)
(* reach flash one by one.                                                 *)
(*                                                                         *)
(* One tick of the clock is one second with one hash; WORD is the range of *)
(* the low half of the number of hashes.  MaxTicks and MaxRestarts bound   *)
(* the exploration.                                                        *)
(***************************************************************************)
EXTENDS Integers, Sequences, SequencesExt, FiniteSetsExt

CONSTANTS WORD, NVS_COUNTER_UPDATE_INTERVAL, MaxTicks, MaxRestarts

VARIABLES noinit,     \* noinit_state: total_uptime and the halves of the hashes
          uptime,     \* seconds since the start of this boot
          atStart,    \* total_uptime_at_system_start
          sinceWrite, \* the time since last_nvs_write_time_ms
          flash, queue,
          age,        \* seconds the device has run, and hashes it has done
          loss,       \* the seconds that power cycles have cost
          torn,       \* a restart came between the three writes
          restarts
vars == <<noinit, uptime, atStart, sinceWrite, flash, queue, age, loss, torn, restarts>>

Keys == {"uptime", "high", "low"}
TypeOK == /\ noinit \in [Keys -> Nat] /\ flash \in [Keys -> Nat] /\ noinit["low"] < WORD
          /\ uptime \in Nat /\ atStart \in Nat /\ sinceWrite \in 0 .. NVS_COUNTER_UPDATE_INTERVAL
          /\ \A w \in ToSet(queue) : w.key \in Keys /\ w.value \in Nat
          /\ age \in 0 .. MaxTicks /\ loss \in 0 .. age /\ torn \in BOOLEAN
          /\ restarts \in 0 .. MaxRestarts
-----------------------------------------------------------------------------
Zero == [k \in Keys |-> 0]
Hashes(c) == c["high"] * WORD + c["low"]

\* Every hash counts: the low half carries into the high one.
AddHash(c) == IF c["low"] + 1 = WORD
              THEN [c EXCEPT !["low"] = 0, !["high"] = @ + 1] ELSE [c EXCEPT !["low"] = @ + 1]

Counted == [AddHash(noinit) EXCEPT !["uptime"] = atStart + uptime']
Writes(c) == << [key |-> "uptime", value |-> c["uptime"]],
                [key |-> "high", value |-> c["high"]], [key |-> "low", value |-> c["low"]] >>

SYSTEM_noinit_update ==
  /\ age < MaxTicks /\ age' = age + 1 /\ uptime' = uptime + 1
  /\ noinit' = Counted
  /\ IF sinceWrite + 1 >= NVS_COUNTER_UPDATE_INTERVAL
       THEN sinceWrite' = 0 /\ queue' = queue \o Writes(noinit')
       ELSE sinceWrite' = sinceWrite + 1 /\ UNCHANGED queue
  /\ UNCHANGED <<atStart, flash, loss, torn, restarts>>

\* nvs_task.
Write == /\ queue # <<>> /\ queue' = Tail(queue)
         /\ flash' = [flash EXCEPT ![Head(queue).key] = Head(queue).value]
         /\ UNCHANGED <<noinit, uptime, atStart, sinceWrite, age, loss, torn, restarts>>

\* A mutant: what is stored replaces what is in memory.
Restored_Stored(c) == flash

\* SYSTEM_init_system: the larger of what memory and flash hold.
Restored(c) ==
  [uptime |-> Max({c["uptime"], flash["uptime"]}),
   high |-> Max({c["high"], flash["high"]}),
   low |-> IF flash["high"] > c["high"] THEN flash["low"]
           ELSE IF flash["high"] = c["high"] THEN Max({c["low"], flash["low"]}) ELSE c["low"]]

Torn == queue # <<>> /\ Head(queue).key # "uptime"
Boot(c) == /\ restarts < MaxRestarts /\ restarts' = restarts + 1
           /\ noinit' = Restored(c) /\ atStart' = noinit'["uptime"]
           /\ uptime' = 0 /\ sinceWrite' = 0 /\ queue' = <<>> /\ torn' = (torn \/ Torn)
           /\ UNCHANGED <<flash, age>>
SoftRestart == Boot(noinit) /\ UNCHANGED loss
PowerCycle == Boot(Zero) /\ loss' = loss + noinit["uptime"] - flash["uptime"]

Init == /\ noinit = Zero /\ uptime = 0 /\ atStart = 0 /\ sinceWrite = 0 /\ flash = Zero
        /\ queue = <<>> /\ age = 0 /\ loss = 0 /\ torn = FALSE /\ restarts = 0

Next == SYSTEM_noinit_update \/ Write \/ SoftRestart \/ PowerCycle
Spec == Init /\ [][Next]_vars
-----------------------------------------------------------------------------
\* system.c:220: the uptime counts no second twice and loses none but those a power
\* cycle finds unstored, and the hashes keep in step with it unless a restart falls
\* between the writes of the three settings.
CountersHold == /\ noinit["uptime"] + loss = age /\ flash["uptime"] <= noinit["uptime"]
                /\ ~torn => Hashes(noinit) = noinit["uptime"]
=============================================================================
