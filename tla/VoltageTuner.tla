---------------------------- MODULE VoltageTuner -----------------------------
(***************************************************************************)
(* The V/F tuner of main/power/vf_tuner.c: at a fixed frequency it lowers  *)
(* the core voltage step by step, judges each step once it has settled,    *)
(* and goes back to the last voltage that passed.                          *)
(***************************************************************************)
EXTENDS ThermalPolicy

CONSTANTS
  SETTLE,       \* settle_s: ticks before a step is judged
  MAX_ATTEMPTS  \* max_attempts

ASSUME TunerAssumption == SETTLE \in Nat \ {0} /\ MAX_ATTEMPTS \in Nat

MAX_TUNE_TEMP == 65
TUNE_STEP == 25

TunerStates == [volt : Nat, proven : Nat, pending : BOOLEAN, age : 0..SETTLE, attempts : Nat,
                finished : BOOLEAN]

\* vf_init: the search starts at a voltage taken as proven.
TunerAt(volt) ==
  [volt |-> volt, proven |-> volt, pending |-> FALSE, age |-> 0, attempts |-> 0, finished |-> FALSE]

TunerOlder(vf, d) == [vf EXCEPT !.age = IF vf.pending THEN Older(SETTLE, @, d) ELSE @]

Lower(vf) ==
  [vf EXCEPT !.volt = @ - TUNE_STEP, !.pending = TRUE, !.age = 0, !.attempts = @ + 1]
Finish(vf, volt) == [vf EXCEPT !.volt = volt, !.pending = FALSE, !.finished = TRUE]
UnderFloor(vf) == vf.volt - TUNE_STEP < VOLT_FLOOR

\* What if: a rejected step is final but not undone.
Rejected_Keeps(vf) == [act |-> "raise", vf |-> Finish(vf, vf.volt)]

\* A settled step: rejected, back to the proven voltage; accepted, proven and followed by the next.
Rejected(vf) ==
  IF vf.proven <= VOLT_FLOOR THEN [act |-> "baseline", vf |-> Finish(vf, VOLT_FLOOR)]
  ELSE [act |-> "raise", vf |-> Finish(vf, vf.proven)]
Accepted(vf) ==
  LET proven == [vf EXCEPT !.proven = vf.volt]
  IN IF UnderFloor(vf) THEN [act |-> "baseline", vf |-> Finish(proven, VOLT_FLOOR)]
     ELSE IF vf.attempts >= MAX_ATTEMPTS
     THEN [act |-> "exhausted", vf |-> Finish(proven, vf.volt)]
     ELSE [act |-> "lower", vf |-> Lower(proven)]

\* No step in flight.  An overheated chip aborts without finishing the search.
Begin(vf, chip, accepted) ==
  IF vf.attempts >= MAX_ATTEMPTS THEN [act |-> "exhausted", vf |-> Finish(vf, vf.volt)]
  ELSE IF chip >= MAX_TUNE_TEMP THEN [act |-> "abort", vf |-> vf]
  ELSE IF ~accepted THEN [act |-> "none", vf |-> vf]
  ELSE IF UnderFloor(vf) THEN [act |-> "baseline", vf |-> Finish(vf, vf.volt)]
  ELSE [act |-> "lower", vf |-> Lower(vf)]

\* acceptance_passed is "accepted": hashrate and errors are within bounds, and known.
vf_step(vf, chip, accepted) ==
  IF vf.finished \/ (vf.pending /\ vf.age < SETTLE) THEN [act |-> "none", vf |-> vf]
  ELSE IF ~vf.pending THEN Begin(vf, chip, accepted)
  ELSE IF accepted THEN Accepted(vf) ELSE Rejected(vf)

\* The actions after which the task switches the autotuning off.
Over(act) == act \in {"baseline", "exhausted", "abort"}
=============================================================================
