---------------------------- MODULE ThermalPolicy ----------------------------
(***************************************************************************)
(* The advanced thermal management of main/thermal/atm_policy.c: one call  *)
(* of atm_step sheds or gives back one step of frequency and voltage below *)
(* the pair the user configured, or latches a shutdown.  A time stamp of   *)
(* the code is the age of what it stamps, in ticks and capped where the    *)
(* code stops to tell ages apart; a stamp of 0 ("never") is an old one.    *)
(***************************************************************************)
EXTENDS Integers, Sequences

CONSTANTS
  HOLD,     \* ATM_MIN_HOLD_S: ticks between two changes
  WINDOW,   \* ATM_STABILITY_WINDOW_S: ticks of a steady temperature before a climb
  STARTUP   \* ATM_STARTUP_WINDOW_S: ticks after boot in which the derate is drastic

ASSUME TicksAssumption == HOLD \in Nat \ {0} /\ WINDOW \in Nat \ {0} /\ STARTUP \in Nat

HOT_TEMP == 68
SHUTDOWN_TEMP == 75
VR_HOT_TEMP == 100
VR_SHUTDOWN_TEMP == 105
BUFFER_TEMP == 8
RECHECK_MARGIN == 4
STABILITY_BAND == 2
FAN_RELIEF == 20
STARTUP_PERCENT == 66
FREQ_MIN == 400
FREQ_STEP == 25
VOLT_FLOOR == 1000
VOLT_STEP == 25

AtLeast(low, x) == IF x < low THEN low ELSE x
AtMost(high, x) == IF x > high THEN high ELSE x

NoWindow == <<>>
Windows == {NoWindow} \cup (0..WINDOW) \X Int \X Int
AtmStates == [freq : Nat, volt : Nat, age : 0..HOLD, down : BOOLEAN, fan : Nat,
              window : Windows, latch : BOOLEAN]

\* atm_state_t without a history: what atm_init and atm_set_baseline make of a pair.
Baseline(pair) ==
  [freq |-> pair.freq, volt |-> pair.volt, age |-> HOLD, down |-> FALSE, fan |-> 0,
   window |-> NoWindow, latch |-> FALSE]

\* atm_clear_shutdown.
Unlatched(atm) == [atm EXCEPT !.latch = FALSE]

\* The stamps grow older by d ticks.
Older(limit, age, d) == AtMost(limit, age + d)
WindowOlder(w, d) == IF w = NoWindow THEN w ELSE <<Older(WINDOW, w[1], d), w[2], w[3]>>
AtmOlder(atm, d) == [atm EXCEPT !.age = Older(HOLD, @, d), !.window = WindowOlder(@, d)]

-----------------------------------------------------------------------------
(* in = [chip, vr, fan, healthy, uptime]: the inputs of one call; ceiling = [freq, volt].
   A window is <<age, lowest, highest>> of the temperatures observed in it. *)

Critical(in) == in.chip >= SHUTDOWN_TEMP \/ in.vr >= VR_SHUTDOWN_TEMP
Hot(in) == in.chip >= HOT_TEMP \/ in.vr >= VR_HOT_TEMP
Holding(atm) == atm.age < HOLD

StartupTarget(ceiling) == AtLeast(FREQ_MIN, (ceiling.freq * STARTUP_PERCENT) \div 100)
StartsHot(atm, ceiling, in) ==
  /\ in.uptime < STARTUP /\ in.chip >= HOT_TEMP
  /\ atm.freq > FREQ_MIN /\ StartupTarget(ceiling) < atm.freq

\* What if: every step down starts from the ceiling.
StepDown_FromCeiling(atm, ceiling, in) ==
  [atm EXCEPT !.freq = AtLeast(FREQ_MIN, ceiling.freq - FREQ_STEP),
              !.volt = AtLeast(VOLT_FLOOR, ceiling.volt - VOLT_STEP),
              !.age = 0, !.down = TRUE, !.fan = in.fan]

\* Frequency and voltage go down together, to the ends of their ranges.
StepDown(atm, ceiling, in) ==
  [atm EXCEPT !.freq = AtLeast(FREQ_MIN, @ - FREQ_STEP),
              !.volt = AtMost(ceiling.volt, AtLeast(VOLT_FLOOR, @ - VOLT_STEP)),
              !.age = 0, !.down = TRUE, !.fan = in.fan]

\* The stability gate: a window still open goes on observing; a complete one that was not steady
\* starts again.
Complete(atm) == atm.window # NoWindow /\ atm.window[1] >= WINDOW
Steady(atm) == atm.window[3] - atm.window[2] <= STABILITY_BAND
OpenWindow(in) == <<0, in.chip, in.chip>>
Observe(atm, in) ==
  [atm EXCEPT !.window = IF @ = NoWindow THEN OpenWindow(in)
                         ELSE <<@[1], AtMost(in.chip, @[2]), AtLeast(in.chip, @[3])>>]

\* After a derate more headroom is asked for, unless the fan runs harder than it did then.
Headroom(atm) == BUFFER_TEMP + IF atm.down THEN RECHECK_MARGIN ELSE 0
FanRelief(atm, in) == atm.down /\ atm.fan > 0 /\ in.fan - atm.fan >= FAN_RELIEF
\* What if: the harder fan is asked for as well.
MayClimb_NeedsRelief(atm, in) ==
  /\ FanRelief(atm, in)
  /\ in.chip + Headroom(atm) <= HOT_TEMP /\ in.vr + Headroom(atm) <= VR_HOT_TEMP
  /\ in.healthy

MayClimb(atm, in) ==
  /\ \/ FanRelief(atm, in)
     \/ in.chip + Headroom(atm) <= HOT_TEMP /\ in.vr + Headroom(atm) <= VR_HOT_TEMP
  /\ in.healthy

AtCeiling(atm, ceiling) == atm.freq >= ceiling.freq /\ atm.volt >= ceiling.volt
ClimbVoltage(atm, ceiling) ==
  IF atm.down /\ atm.volt < ceiling.volt
  THEN [atm EXCEPT !.volt = AtMost(ceiling.volt, @ + VOLT_STEP), !.age = 0]
  ELSE atm
\* What if: a climb is not held at the ceiling.
ClimbBoth_NoCeiling(atm, ceiling) ==
  LET pair == [freq |-> atm.freq + FREQ_STEP, volt |-> atm.volt + VOLT_STEP]
  IN [atm EXCEPT !.freq = pair.freq, !.volt = pair.volt, !.age = 0,
                 !.down = @ /\ ~AtCeiling(pair, ceiling)]

ClimbBoth(atm, ceiling) ==
  LET pair == [freq |-> AtMost(ceiling.freq, atm.freq + FREQ_STEP),
               volt |-> AtLeast(VOLT_FLOOR, AtMost(ceiling.volt, atm.volt + VOLT_STEP))]
  IN [atm EXCEPT !.freq = pair.freq, !.volt = pair.volt, !.age = 0,
                 !.down = @ /\ ~AtCeiling(pair, ceiling)]
Climb(atm, ceiling) ==
  IF atm.freq >= ceiling.freq THEN ClimbVoltage(atm, ceiling) ELSE ClimbBoth(atm, ceiling)

\* The calm half of atm_step: nothing is hot, so the policy may give back what it shed.
Recover(atm, ceiling, in) ==
  IF Holding(atm) THEN atm
  ELSE IF ~Complete(atm) THEN Observe(atm, in)
  ELSE IF ~Steady(atm) THEN [atm EXCEPT !.window = OpenWindow(in)]
  ELSE LET fresh == [atm EXCEPT !.window = NoWindow]
       IN IF MayClimb(atm, in) THEN Climb(fresh, ceiling) ELSE fresh

Shed(atm, ceiling, in) ==
  IF StartsHot(atm, ceiling, in) THEN [atm EXCEPT !.freq = StartupTarget(ceiling), !.age = 0]
  ELSE IF ~Hot(in) \/ Holding(atm) THEN atm
  ELSE StepDown(atm, ceiling, in)

atm_step(atm, ceiling, in) ==
  IF Critical(in) THEN [atm EXCEPT !.latch = TRUE]
  ELSE IF atm.latch THEN atm
  ELSE IF Hot(in) THEN Shed(atm, ceiling, in)
  ELSE Recover(atm, ceiling, in)
=============================================================================
