----------------------------- MODULE FanController -----------------------------
(***************************************************************************)
(* The fan: main/tasks/fan_controller_task.c with its PID controller       *)
(* (main/thermal/PID.c) and the fan chips behind main/thermal/thermal.c.   *)
(*                                                                         *)
(* Temperatures are degrees above cold and speeds steps up to FULL, the    *)
(* gains scaled with them; the filter moves a degree towards the reading   *)
(* where the code moves a fifth of the way.                                *)
(***************************************************************************)
EXTENDS Integers

CONSTANTS FULL,      \* 100 %
          STARTUP, IDLE, \* the speeds of "Startup" and of a stopped device
          MAX_TEMP, TARGET,
          KP, KI, KD,
          Plans      \* bound: [changes, failures, min, manual]

\* What an instance must satisfy; the theorems assume it by name.
FanAssumption == /\ FULL \in Nat /\ MAX_TEMP \in Nat /\ {STARTUP, IDLE} \subseteq 0 .. FULL
                 /\ {TARGET, KP, KI, KD} \subseteq Int
                 /\ Plans \subseteq [changes : Nat, failures : Nat, min : 0 .. FULL,
                                     manual : 0 .. FULL]

VARIABLES mode,   \* "overheat", "stopped", "auto" or "manual": the settings and flags read
          temp,   \* the hotter chip sensor, NoReading while a reading is not above 0
          filtered,
          pid,    \* [live, sum, last, out]
          fan,    \* fan_perc, the speed last asked for
          pwm,    \* the fan chip's register
          fault,  \* hardware_fault
          left
vars == <<mode, temp, filtered, pid, fan, pwm, fault, left>>

NoReading == -1

\* The fan chip keeps its register over a restart of the ESP, which asks for nothing yet.
Init == /\ left \in Plans
        /\ mode \in {"auto", "manual"} /\ temp = NoReading /\ filtered = NoReading
        /\ pid = [live |-> FALSE, sum |-> 0, last |-> 0, out |-> 0]
        /\ fan = 0 /\ pwm \in {0, FULL} /\ fault = FALSE

Between(x, lo, hi) == IF x > hi THEN hi ELSE IF x < lo THEN lo ELSE x

\* Proportional on error, in reverse: hotter than the target makes the output grow.
Error(input) == input - TARGET

\* A mutant: the integral does not grow.
Sum_Still(p, input) == Between(p.sum, left.min, FULL)
Sum(p, input) == Between(p.sum + KI * Error(input), left.min, FULL)
Output(p, input) == KP * Error(input) + Sum(p, input) + KD * (input - p.last)

\* An output beyond a limit is cut and takes what is cut from the integral.
Computed(p, input) ==
  LET sum == Sum(p, input)
      raw == Output(p, input)
      out == Between(raw, left.min, FULL) IN
  [p EXCEPT !.sum = sum + (out - raw), !.last = input, !.out = out]
\* The first valid reading starts the controller, bumplessly.
Live(p, input) == IF p.live THEN p
                  ELSE [p EXCEPT !.live = TRUE, !.last = input,
                                 !.sum = Between(p.out, left.min, FULL)]

\* A mutant: the filter stays where the first reading was.
Filter_Still(f, t) == IF f < 0 THEN t ELSE f
Filter(f, t) == IF f < 0 THEN t ELSE IF t > f THEN f + 1 ELSE IF t < f THEN f - 1 ELSE f

\* Only a speed that changes is written, and a write that fails is not repeated: it stops
\* the device instead.
\* A mutant: a write that fails goes unnoticed.
Written_Quiet(speed) ==
  /\ fan' = speed
  /\ \/ /\ pwm' = IF speed # fan THEN speed ELSE pwm
        /\ UNCHANGED <<fault, left>>
     \/ /\ speed # fan /\ left.failures > 0
        /\ left' = [left EXCEPT !.failures = @ - 1]
        /\ UNCHANGED <<pwm, fault>>
Written(speed) ==
  /\ fan' = speed
  /\ \/ /\ pwm' = IF speed # fan THEN speed ELSE pwm
        /\ UNCHANGED <<fault, left>>
     \/ /\ speed # fan /\ left.failures > 0
        /\ left' = [left EXCEPT !.failures = @ - 1]
        /\ fault' = TRUE /\ UNCHANGED pwm

Regulated == LET f == Filter(filtered, temp) IN
             /\ filtered' = f
             /\ pid' = Computed(Live(pid, f), f)
             /\ Written(pid'.out)

\* One round of the task's loop.
Poll == /\ CASE mode = "overheat" -> Written(FULL) /\ UNCHANGED <<filtered, pid>>
             [] mode = "stopped" -> Written(IDLE) /\ UNCHANGED <<filtered, pid>>
             [] mode = "manual" -> Written(left.manual) /\ UNCHANGED <<filtered, pid>>
             [] OTHER -> IF temp = NoReading
                           THEN Written(STARTUP) /\ UNCHANGED <<filtered, pid>>
                           ELSE Regulated
        /\ UNCHANGED <<mode, temp>>

\* The chips warm up or cool down, or cannot be read.
Changes == /\ left.changes > 0 /\ left' = [left EXCEPT !.changes = @ - 1]
           /\ temp' \in ({NoReading} \cup 1 .. MAX_TEMP) \ {temp}
           /\ UNCHANGED <<mode, filtered, pid, fan, pwm, fault>>
\* The user edits the settings, the overheat mode begins or ends, mining stops or starts.
Edits == /\ left.changes > 0 /\ left' = [left EXCEPT !.changes = @ - 1]
         /\ mode' \in {"overheat", "stopped", "auto", "manual"} \ {mode}
         /\ UNCHANGED <<temp, filtered, pid, fan, pwm, fault>>

Next == Poll \/ Changes \/ Edits

\* vTaskDelayUntil wakes the task every 100 ms.
Spec == Init /\ [][Next]_vars /\ WF_vars(Poll)

\* Every variable has its type.
TypeOK == /\ mode \in {"overheat", "stopped", "auto", "manual"}
          /\ temp \in -1 .. MAX_TEMP /\ filtered \in -1 .. MAX_TEMP
          /\ pid.live \in BOOLEAN /\ pid.out \in 0 .. FULL /\ pid.sum \in Int
          /\ fan \in 0 .. FULL /\ pwm \in 0 .. FULL /\ fault \in BOOLEAN

\* The fan turns at the speed the status page shows, or the fault that stops the chips is
\* raised; at the start nothing has been asked for.
FanIsKnown == fan = pwm \/ fault \/ fan = 0

\* Chips that stay hotter than the target bring the automatic fan to full speed, chips
\* that stay cooler to the least, through the filter, the integral and its limits, and
\* whatever mode was in force before; an overheated device gets all the air there is.
Hot == mode = "auto" /\ temp > TARGET
Full == ~Hot \/ fan = FULL \/ fault
Cool == mode = "auto" /\ temp \in 1 .. TARGET - 1
Least == ~Cool \/ fan = left.min \/ fault
Overheated == mode = "overheat"
AllAir == ~Overheated \/ pwm = FULL \/ fault
FanSettles == /\ Hot ~> Full
              /\ Cool ~> Least
              /\ Overheated ~> AllAir
================================================================================
