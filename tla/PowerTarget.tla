----------------------------- MODULE PowerTarget -----------------------------
(***************************************************************************)
(* The power budget of main/power/power_target.c: one call of pt_step      *)
(* sheds or reclaims a step of the budget, judged by the measured power.   *)
(***************************************************************************)
EXTENDS VoltageTuner

CONSTANTS
  TARGET_MW, MIN_MW, MAX_MW,  \* the budget asked for and its envelope, in steps of PT_STEP_MW
  PT_SETTLE                   \* PT_SETTLE_S, which includes PT_MIN_HOLD_S

ASSUME TargetAssumption ==
  /\ MIN_MW \in Nat \ {0} /\ TARGET_MW \in MIN_MW..MAX_MW /\ MAX_MW \in Nat
  /\ PT_SETTLE \in Nat \ {0}

BudgetStates == [mw : MIN_MW..MAX_MW, age : 0..PT_SETTLE, finished : BOOLEAN]

\* pt_init.
FullBudget == [mw |-> TARGET_MW, age |-> PT_SETTLE, finished |-> FALSE]
TargetOlder(pt, d) == [pt EXCEPT !.age = Older(PT_SETTLE, @, d)]

\* What the measured power says: nothing usable, over or under the target by more than the
\* tolerance, or within it.
PowerReadings == {"none", "over", "under", "within"}

\* What if: only the upper end of the envelope is checked.
Clamped_NoFloor(mw) == AtMost(MAX_MW, mw)

\* clamp_budget.
Clamped(mw) == AtLeast(MIN_MW, AtMost(MAX_MW, mw))

MoveTo(pt, mw) == IF mw = pt.mw THEN pt ELSE [pt EXCEPT !.mw = mw, !.age = 0]

pt_step(pt, power) ==
  IF pt.finished \/ power = "none" \/ pt.age < PT_SETTLE THEN pt
  ELSE IF power = "over" THEN MoveTo(pt, Clamped(pt.mw - 1))
  ELSE IF power = "under"
  THEN IF pt.mw < TARGET_MW THEN pt ELSE MoveTo(pt, Clamped(pt.mw + 1))
  ELSE [pt EXCEPT !.finished = pt.mw >= TARGET_MW /\ MAX_MW <= TARGET_MW]

\* What if: a budget above the target buys a frequency above the ceiling.
ScaledTo_NoCeiling(ceiling, mw) == AtLeast(FREQ_MIN, (ceiling * mw) \div TARGET_MW)

\* The frequency a budget allows below a ceiling.
ScaledTo(ceiling, mw) == AtMost(ceiling, AtLeast(FREQ_MIN, (ceiling * mw) \div TARGET_MW))
=============================================================================
