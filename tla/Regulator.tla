------------------------------- MODULE Regulator -------------------------------
(***************************************************************************)
(* The core voltage: main/power/vcore.c and the TPS546 driver              *)
(* main/power/TPS546.c, as the power management task uses them, and the    *)
(* power fault they report.                                                *)
(*                                                                         *)
(* The task ignores what VCORE_set_voltage returns, and the driver most of *)
(* its own reads and writes, so a transfer on the bus that fails leaves    *)
(* the regulator half set.  A voltage is one of a few; 0 switches off.     *)
(***************************************************************************)
EXTENDS Integers

CONSTANTS Voltages,  \* settings one may ask for
          VOUT_MIN, VOUT_MAX,
          GRACE,     \* TPS546_POWER_GOOD_GRACE_MS in ticks
          Plans      \* bound: [rise, failures, faults, stops, edits], and rise the
                     \* ticks the output takes to come up

\* What an instance must satisfy; the theorems assume it by name.  The settings are in
\* range, and an output that comes up in its time does so within the grace.
RegulatorAssumption ==
  /\ GRACE \in Nat /\ {VOUT_MIN, VOUT_MAX} \subseteq Int
  /\ Voltages \subseteq {x \in Nat \ {0} : VOUT_MIN <= x /\ x <= VOUT_MAX}
  /\ Plans \subseteq [rise : 0 .. GRACE, failures : Nat, faults : Nat, stops : Nat, edits : Nat]

VARIABLES reg,    \* the regulator: [found, operation, command, rising, hard, pin]
          grace,  \* what is left of tps546_power_good_grace_until
          task,   \* "boot", "degraded", "top", "voltage", "check" or "paused"
          last,   \* last_core_voltage
          setting,\* the stored voltage
          power_fault,
          real,   \* a fault, a slow start or a failed transfer has happened
          left
vars == <<reg, grace, task, last, setting, power_fault, real, left>>

Off == 0
Unknown == -1

Init == /\ left \in Plans
        /\ reg = [found |-> FALSE, operation |-> Off, command |-> Off, rising |-> 0,
                  hard |-> FALSE, pin |-> FALSE]
        /\ grace = 0 /\ task = "boot" /\ last = 0 /\ setting \in Voltages
        /\ power_fault = FALSE /\ real = FALSE

\* The registers of the configuration are written one by one, the output stays off
\* until a voltage is set.
WriteConfig == /\ task = "boot" /\ task' = "top"
               /\ reg' = [reg EXCEPT !.found = TRUE, !.pin = TRUE]
               /\ UNCHANGED <<grace, last, setting, power_fault, real, left>>
\* A regulator that is not found, or does not answer at the end, ends the start of
\* the board.
NotFound == /\ task = "boot" /\ left.failures > 0 /\ task' = "degraded"
            /\ left' = [left EXCEPT !.failures = @ - 1] /\ real' = TRUE
            /\ UNCHANGED <<reg, grace, last, setting, power_fault>>

\* A transfer that fails: which one is left undone.
Outcomes == {"done"} \cup (IF left.failures > 0 THEN {"mode", "command", "limits", "operation"}
                                                ELSE {})
Spends(outcome) ==
  /\ left' = IF outcome = "done" THEN left ELSE [left EXCEPT !.failures = @ - 1]
  /\ real' = (real \/ outcome # "done")

\* Switching on what is off lets the output rise; a fault of before is over.
SwitchedOn(r) == IF r.operation = Off
                   THEN [r EXCEPT !.operation = 1, !.rising = left.rise, !.hard = FALSE]
                   ELSE r
InRange(v) == VOUT_MIN <= v /\ v <= VOUT_MAX

\* A mutant: the output that rises gets no time.
GraceAfter_None == 0
GraceAfter == GRACE

\* TPS546_set_vout: the exponent of the command comes from VOUT_MODE; when that is
\* not read, it is whatever the stack held.
SetVoltage(v, outcome) ==
  LET on == [reg EXCEPT !.pin = v # Off]
  IN  CASE v = Off /\ outcome # "operation" ->
             reg' = [on EXCEPT !.operation = Off, !.rising = 0] /\ grace' = 0
        [] v # Off /\ InRange(v) /\ outcome \in {"done", "mode"} ->
             /\ \E c \in IF outcome = "mode" THEN Voltages \cup {Unknown} ELSE {v} :
                  reg' = SwitchedOn([on EXCEPT !.command = c])
             /\ grace' = GraceAfter
        [] v # Off /\ InRange(v) /\ outcome \in {"limits", "operation"} ->
             reg' = [on EXCEPT !.command = v] /\ UNCHANGED grace
        [] OTHER -> reg' = on /\ UNCHANGED grace

\* mining_stop, for a pause or for cooling down.
Stop == /\ task = "top" /\ left.stops > 0
        /\ \E o \in {"done"} \cup (Outcomes \cap {"operation"}) :
             /\ SetVoltage(Off, o) /\ real' = (real \/ o # "done")
             /\ left' = [left EXCEPT !.stops = @ - 1,
                                     !.failures = IF o = "done" THEN @ ELSE @ - 1]
        /\ task' = "paused"
        /\ UNCHANGED <<last, setting, power_fault>>

\* mining_start writes the stored voltage; the task remembers another one.
Start == /\ task = "paused"
         /\ \E o \in Outcomes : SetVoltage(setting, o) /\ Spends(o)
         /\ task' = "voltage"
         /\ UNCHANGED <<last, setting, power_fault>>

Runs == /\ task = "top" /\ task' = "voltage"
        /\ UNCHANGED <<reg, grace, last, setting, power_fault, real, left>>

\* What was asked for counts as set, whatever came of it.
Follow == /\ task = "voltage" /\ task' = "check"
          /\ last' = setting
          /\ IF setting = last THEN UNCHANGED <<reg, grace, real, left>>
                               ELSE \E o \in Outcomes : SetVoltage(setting, o) /\ Spends(o)
          /\ UNCHANGED <<setting, power_fault>>

\* STATUS_WORD: the output is off, also while it rises.
StatusOff == reg.operation = Off \/ reg.rising > 0 \/ reg.hard
Forgiven == grace > 0 /\ ~reg.hard /\ reg.operation # Off

\* A mutant: an alarm stays.
Cleared_Kept == power_fault
Cleared == FALSE

\* TPS546_check_status, with the status word and the details of a fault read.
CheckStatus ==
  /\ task = "check" /\ task' = "top"
  /\ power_fault' = CASE StatusOff /\ Forgiven -> power_fault
                      [] StatusOff /\ ~Forgiven -> TRUE
                      [] OTHER -> Cleared
  /\ UNCHANGED <<reg, grace, last, setting, real, left>>
\* One that cannot be read leaves the alarm as it was; the next round asks again.
StatusUnread == /\ task = "check" /\ task' = "top"
                /\ left.failures > 0 /\ Spends("command")
                /\ UNCHANGED <<reg, grace, last, setting, power_fault>>

\* Time passes; the output is up when it has risen.
Tick == /\ grace > 0 \/ reg.rising > 0
        /\ grace' = IF grace > 0 THEN grace - 1 ELSE 0
        /\ reg' = [reg EXCEPT !.rising = IF @ > 0 THEN @ - 1 ELSE 0]
        /\ real' = (real \/ grace = 0)
        /\ UNCHANGED <<task, last, setting, power_fault, left>>

\* The regulator shuts down for a voltage, a current or a temperature; the fault is
\* held until the output is switched off and on.
HardFault == /\ reg.operation # Off /\ ~reg.hard /\ left.faults > 0
             /\ reg' = [reg EXCEPT !.hard = TRUE] /\ real' = TRUE
             /\ left' = [left EXCEPT !.faults = @ - 1]
             /\ UNCHANGED <<grace, task, last, setting, power_fault>>

Edit == /\ left.edits > 0 /\ left' = [left EXCEPT !.edits = @ - 1]
        /\ setting' \in Voltages
        /\ UNCHANGED <<reg, grace, task, last, power_fault, real>>

Task == WriteConfig \/ NotFound \/ Runs \/ Start \/ Follow \/ CheckStatus \/ StatusUnread
Next == Task \/ Stop \/ Tick \/ HardFault \/ Edit
\* The task is scheduled, every pause ends, and time passes.
Fairness == WF_vars(Task) /\ WF_vars(Tick)
Spec == Init /\ [][Next]_vars /\ Fairness
-----------------------------------------------------------------------------
\* Every variable has its type.
TypeOK == /\ reg.operation \in {Off, 1} /\ reg.command \in Voltages \cup {Off, Unknown}
          /\ reg.rising \in 0 .. left.rise /\ reg.hard \in BOOLEAN /\ reg.pin \in BOOLEAN
          /\ grace \in 0 .. GRACE /\ last \in Voltages \cup {0} /\ setting \in Voltages
          /\ task \in {"boot", "degraded", "top", "voltage", "check", "paused"}
          /\ power_fault \in BOOLEAN /\ real \in BOOLEAN

\* TPS546.c:990: an output that comes up in its time never raises a power fault,
\* however starts, pauses and changes of the voltage follow each other; nor does
\* one that is switched off for a pause.  (With settings in range: one out of range
\* leaves the output off.)
NoFalseAlarm == power_fault => real

\* TPS546.c:1003: a fault shows, unless mining stops first, and an alarm ends
\* when the output is up again: a status that could not be read is read again.
Runs_ == task \in {"top", "voltage", "check"}
Faulty == Runs_ /\ reg.hard /\ ~power_fault
Alarmed == Runs_ /\ ~StatusOff /\ power_fault
Shows == Faulty ~> ~Faulty
Ends == Alarmed ~> ~Alarmed
=============================================================================
