----------------------- MODULE PowerManagement_proofs ------------------------
(***************************************************************************)
(* The power management task keeps its types, has the ASIC off whenever    *)
(* mining is stopped, never takes the regulator under its floor, never     *)
(* raises the settings above the user's, and keeps a derate in force and   *)
(* below the ceiling: for all readings, settings and window lengths, and   *)
(* any number of overheats.                                                *)
(***************************************************************************)
EXTENDS PowerManagement, WellFoundedInduction, TLAPS

-----------------------------------------------------------------------------
(* The three policies, one call at a time. *)

Inputs == [chip : Int, vr : Int, fan : Nat, healthy : BOOLEAN, uptime : Nat]

\* atm_step keeps the types of its state (atm_policy.c:69-272).
LEMMA AtmKeeps ==
  ASSUME NEW a \in AtmStates, NEW c \in Pairs, NEW in \in Inputs
  PROVE  atm_step(a, c, in) \in AtmStates
PROOF
<1> USE TicksAssumption
<1>n. /\ c.freq \in Nat /\ c.volt \in Nat /\ in.fan \in Nat
      /\ \A b \in AtmStates : b.freq \in Nat /\ b.volt \in Nat /\ b.down \in BOOLEAN
  BY DEF AtmStates, Pairs, Inputs
<1>r. /\ 0 \in 0..HOLD
      /\ AtmStates = [freq : Nat, volt : Nat, age : 0..HOLD, down : BOOLEAN, fan : Nat,
                      window : Windows, latch : BOOLEAN]
  BY DEF AtmStates
<1>v. ASSUME NEW b \in AtmStates, NEW volt \in Nat
      PROVE  [b EXCEPT !.volt = volt, !.age = 0] \in AtmStates
  BY <1>r
<1>f. ASSUME NEW b \in AtmStates, NEW freq \in Nat
      PROVE  [b EXCEPT !.freq = freq, !.age = 0] \in AtmStates
  BY <1>r
<1>p. ASSUME NEW b \in AtmStates, NEW freq \in Nat, NEW volt \in Nat, NEW down \in BOOLEAN
      PROVE  [b EXCEPT !.freq = freq, !.volt = volt, !.age = 0, !.down = down] \in AtmStates
  BY <1>r
<1>d. ASSUME NEW freq \in Nat, NEW volt \in Nat, NEW fan \in Nat
      PROVE  [a EXCEPT !.freq = freq, !.volt = volt, !.age = 0, !.down = TRUE, !.fan = fan]
               \in AtmStates
  BY <1>r
<1>1. ASSUME NEW b \in AtmStates PROVE Climb(b, c) \in AtmStates
  <2> DEFINE freq == AtMost(c.freq, b.freq + FREQ_STEP)
             volt == AtLeast(VOLT_FLOOR, AtMost(c.volt, b.volt + VOLT_STEP))
             up == AtMost(c.volt, b.volt + VOLT_STEP)
  <2>1. freq \in Nat /\ volt \in Nat /\ up \in Nat
    BY <1>n DEF AtMost, AtLeast, FREQ_STEP, VOLT_STEP, VOLT_FLOOR
  <2>2. ClimbVoltage(b, c) \in AtmStates
    BY <1>v, <2>1 DEF ClimbVoltage
  <2>3. (b.down /\ ~AtCeiling([freq |-> freq, volt |-> volt], c)) \in BOOLEAN
    BY <1>n
  <2>4. ClimbBoth(b, c) \in AtmStates
    <3> HIDE DEF freq, volt
    <3>1. [b EXCEPT !.freq = freq, !.volt = volt, !.age = 0,
             !.down = b.down /\ ~AtCeiling([freq |-> freq, volt |-> volt], c)] \in AtmStates
      BY <1>p, <2>1, <2>3
    <3> QED BY <3>1 DEF ClimbBoth, freq, volt
  <2> QED BY <2>2, <2>4 DEF Climb
<1>2. /\ OpenWindow(in) \in Windows /\ NoWindow \in Windows
      /\ \A w \in Windows : w # NoWindow =>
           <<w[1], AtMost(in.chip, w[2]), AtLeast(in.chip, w[3])>> \in Windows
  BY DEF OpenWindow, Windows, Inputs, AtMost, AtLeast
<1>3. Recover(a, c, in) \in AtmStates
  <2>1. ASSUME NEW w \in Windows PROVE [a EXCEPT !.window = w] \in AtmStates
    BY <2>1 DEF AtmStates
  <2>2. a.window \in Windows
    BY DEF AtmStates
  <2>3. Observe(a, in) \in AtmStates
    BY <1>2, <2>1, <2>2 DEF Observe
  <2> QED BY <1>1, <1>2, <2>1, <2>3 DEF Recover
<1>4. Shed(a, c, in) \in AtmStates
  <2>1. StartupTarget(c) \in Nat
    BY <1>n DEF StartupTarget, AtLeast, FREQ_MIN, STARTUP_PERCENT
  <2>2. /\ AtLeast(FREQ_MIN, a.freq - FREQ_STEP) \in Nat
        /\ AtMost(c.volt, AtLeast(VOLT_FLOOR, a.volt - VOLT_STEP)) \in Nat
    BY <1>n DEF AtLeast, AtMost, FREQ_MIN, FREQ_STEP, VOLT_FLOOR, VOLT_STEP
  <2>3. StepDown(a, c, in) \in AtmStates
    BY <1>d, <1>n, <2>2 DEF StepDown
  <2> QED BY <1>f, <2>1, <2>3 DEF Shed
<1>5. [a EXCEPT !.latch = TRUE] \in AtmStates
  BY DEF AtmStates
<1> QED BY <1>3, <1>4, <1>5 DEF atm_step

\* No derate goes under the regulator's floor (atm_policy.c:133).
LEMMA AtmFloor ==
  ASSUME NEW a \in AtmStates, NEW c \in Pairs, NEW in \in Inputs,
         a.volt >= VOLT_FLOOR, c.volt >= VOLT_FLOOR
  PROVE  atm_step(a, c, in).volt >= VOLT_FLOOR
PROOF
<1>1. ASSUME NEW b \in AtmStates, b.volt >= VOLT_FLOOR PROVE Climb(b, c).volt >= VOLT_FLOOR
  BY <1>1 DEF Climb, ClimbVoltage, ClimbBoth, AtCeiling, AtMost, AtLeast, AtmStates, Pairs,
    VOLT_STEP, FREQ_STEP, VOLT_FLOOR
<1>2. [a EXCEPT !.window = NoWindow] \in AtmStates
  BY DEF AtmStates, Windows
<1>3. Recover(a, c, in).volt >= VOLT_FLOOR
  BY <1>1, <1>2 DEF Recover, Observe, AtmStates
<1>4. Shed(a, c, in).volt >= VOLT_FLOOR
  BY DEF Shed, StepDown, StartsHot, StartupTarget, AtLeast, AtMost, AtmStates, Pairs, Inputs,
    FREQ_MIN, FREQ_STEP, VOLT_FLOOR, VOLT_STEP, STARTUP_PERCENT
<1> QED BY <1>3, <1>4 DEF atm_step, AtmStates

\* vf_step keeps the types of its state (vf_tuner.c:52-119).
LEMMA TunerKeeps ==
  ASSUME NEW v \in TunerStates, NEW t \in Int, NEW ok \in BOOLEAN
  PROVE  vf_step(v, t, ok).vf \in TunerStates
PROOF
<1>1. ASSUME NEW w \in TunerStates, NEW volt \in Nat PROVE Finish(w, volt) \in TunerStates
  BY <1>1 DEF Finish, TunerStates
<1>2. ASSUME NEW w \in TunerStates, ~UnderFloor(w) PROVE Lower(w) \in TunerStates
  <2>1. w.volt - TUNE_STEP \in Nat /\ w.attempts + 1 \in Nat
    BY <1>2 DEF UnderFloor, TunerStates, TUNE_STEP, VOLT_FLOOR
  <2>2. 0 \in 0..SETTLE
    BY TunerAssumption
  <2> QED BY <2>1, <2>2 DEF Lower, TunerStates
<1>3. v.volt \in Nat /\ v.proven \in Nat /\ VOLT_FLOOR \in Nat
  BY DEF TunerStates, VOLT_FLOOR
<1>4. [v EXCEPT !.proven = v.volt] \in TunerStates
  BY DEF TunerStates
<1>5. Begin(v, t, ok).vf \in TunerStates
  BY <1>1, <1>2, <1>3 DEF Begin
<1>6. Accepted(v).vf \in TunerStates
  BY <1>1, <1>2, <1>3, <1>4 DEF Accepted, UnderFloor, TunerStates
<1>7. Rejected(v).vf \in TunerStates
  BY <1>1, <1>3 DEF Rejected
<1> QED BY <1>5, <1>6, <1>7 DEF vf_step

\* The search does not go under the floor (vf_tuner.c:76).
LEMMA TunerFloor ==
  ASSUME NEW v \in TunerStates, NEW t \in Int, NEW ok \in BOOLEAN,
         v.volt >= VOLT_FLOOR, v.proven >= VOLT_FLOOR
  PROVE  /\ vf_step(v, t, ok).vf.volt >= VOLT_FLOOR
         /\ vf_step(v, t, ok).vf.proven >= VOLT_FLOOR
PROOF
  BY TunerAssumption DEF vf_step, Begin, Accepted, Rejected, Lower, Finish, UnderFloor, TunerStates,
    TUNE_STEP, VOLT_FLOOR, MAX_TUNE_TEMP

\* The search never asks for more than it has proven.
LEMMA TunerLowers ==
  ASSUME NEW v \in TunerStates, NEW t \in Int, NEW ok \in BOOLEAN,
         NEW m \in Nat, m >= VOLT_FLOOR, v.volt <= m, v.proven <= m
  PROVE  vf_step(v, t, ok).vf.volt <= m /\ vf_step(v, t, ok).vf.proven <= m
PROOF
  BY TunerAssumption DEF vf_step, Begin, Accepted, Rejected, Lower, Finish, UnderFloor, TunerStates,
    TUNE_STEP, VOLT_FLOOR, MAX_TUNE_TEMP

\* pt_step stays inside the envelope (power_target.c:40-111).
LEMMA BudgetKeeps ==
  ASSUME NEW p \in BudgetStates, NEW power \in PowerReadings
  PROVE  pt_step(p, power) \in BudgetStates
PROOF
<1>1. ASSUME NEW mw \in Int PROVE MoveTo(p, Clamped(mw)) \in BudgetStates
  <2>1. Clamped(mw) \in MIN_MW..MAX_MW
    BY TargetAssumption DEF Clamped, AtLeast, AtMost
  <2>2. 0 \in 0..PT_SETTLE
    BY TargetAssumption
  <2> QED BY <2>1, <2>2 DEF MoveTo, BudgetStates
<1>2. p.mw - 1 \in Int /\ p.mw + 1 \in Int
  BY TargetAssumption DEF BudgetStates
<1>3. [p EXCEPT !.finished = p.mw >= TARGET_MW /\ MAX_MW <= TARGET_MW] \in BudgetStates
  <2>1. (p.mw >= TARGET_MW /\ MAX_MW <= TARGET_MW) \in BOOLEAN
    OBVIOUS
  <2> QED BY <2>1 DEF BudgetStates
<1> QED BY <1>1, <1>2, <1>3 DEF pt_step

\* A budget never buys more than its ceiling.
LEMMA ScaledBounds ==
  ASSUME NEW c \in Nat, NEW mw \in MIN_MW..MAX_MW
  PROVE  ScaledTo(c, mw) \in Nat /\ ScaledTo(c, mw) <= c
PROOF
<1>1. (c * mw) \div TARGET_MW \in Int
  BY TargetAssumption
<1> QED BY <1>1 DEF ScaledTo, AtMost, AtLeast, FREQ_MIN

\* Time stamps grow older within their ranges.
LEMMA AgeKeeps ==
  ASSUME NEW d \in 0..1, NEW a \in AtmStates, NEW v \in TunerStates, NEW p \in BudgetStates
  PROVE  /\ AtmOlder(a, d) \in AtmStates /\ AtmOlder(a, d).volt = a.volt
         /\ TunerOlder(v, d) \in TunerStates
         /\ TunerOlder(v, d).volt = v.volt /\ TunerOlder(v, d).proven = v.proven
         /\ TargetOlder(p, d) \in BudgetStates
PROOF
<1> USE TicksAssumption, TunerAssumption, TargetAssumption DEF Older, AtMost
<1>1. ASSUME NEW w \in Windows PROVE WindowOlder(w, d) \in Windows
  BY <1>1 DEF Windows, WindowOlder
<1>2. AtmOlder(a, d) \in AtmStates /\ AtmOlder(a, d).volt = a.volt
  <2>1. WindowOlder(a.window, d) \in Windows /\ Older(HOLD, a.age, d) \in 0..HOLD
    BY <1>1 DEF AtmStates
  <2> QED BY <2>1 DEF AtmOlder, AtmStates
<1>3. TunerOlder(v, d) \in TunerStates /\ TunerOlder(v, d).volt = v.volt
      /\ TunerOlder(v, d).proven = v.proven
  BY DEF TunerOlder, TunerStates
<1>4. TargetOlder(p, d) \in BudgetStates
  BY DEF TargetOlder, BudgetStates
<1> QED BY <1>2, <1>3, <1>4
-----------------------------------------------------------------------------
(* Types. *)

Shown == [t1 : Int, t2 : Int, vr : Int, fan : Nat, tel : {"none", "good", "poor"},
          power : PowerReadings]

\* A reading with or without the chip's sensors is one that can be shown.
LEMMA ReadType == ASSUME NEW r \in Readings PROVE r \in Shown /\ Read(r) \in Shown
PROOF
<1>1. r \in Shown
  BY LoopAssumption DEF Shown
<1>2. [r EXCEPT !.t1 = NoSensor, !.t2 = NoSensor] \in Shown
  <2>1. NoSensor \in Int
    BY DEF NoSensor
  <2> QED BY <1>1, <2>1 DEF Shown
<1> QED BY <1>1, <1>2 DEF Read

\* The settings a user chooses, the reduction after an overheat and a policy's baseline are pairs.
LEMMA PairTypes ==
  /\ \A s \in Settings : s.freq \in Nat /\ s.volt \in Nat
  /\ \A c \in Configs : /\ c.set \in Settings /\ c.edits \in Nat /\ c.pauses \in Nat
                        /\ c.autotune \in BOOLEAN /\ c.target \in BOOLEAN
  /\ \A p \in Pairs : Reduced(p) \in Pairs /\ p.freq \in Nat /\ p.volt \in Nat
  /\ \A p \in Pairs : Baseline(p) \in AtmStates /\ Unlatched(Baseline(p)) \in AtmStates
  /\ \A v \in Nat : TunerAt(v) \in TunerStates
PROOF
<1>1. /\ \A s \in Settings : s.freq \in Nat /\ s.volt \in Nat
      /\ \A c \in Configs : /\ c.set \in Settings /\ c.edits \in Nat /\ c.pauses \in Nat
                            /\ c.autotune \in BOOLEAN /\ c.target \in BOOLEAN
  BY LoopAssumption
<1>2. \A p \in Pairs : Reduced(p) \in Pairs /\ p.freq \in Nat /\ p.volt \in Nat
  BY DEF Pairs, Reduced, AtLeast, FREQ_MIN, VOLT_FLOOR, ASIC_REDUCTION
<1>3. HOLD \in 0..HOLD /\ NoWindow \in Windows
  BY TicksAssumption DEF Windows
<1>4. \A p \in Pairs : Baseline(p) \in AtmStates
  BY <1>2, <1>3 DEF Baseline, AtmStates
<1>5. \A p \in Pairs : Unlatched(Baseline(p)) \in AtmStates
  BY <1>4 DEF Unlatched, AtmStates
<1>6. \A v \in Nat : TunerAt(v) \in TunerStates
  BY TunerAssumption DEF TunerAt, TunerStates
<1> QED BY <1>1, <1>2, <1>4, <1>5, <1>6

\* What the actions read is of its type.
LEMMA StateTypes ==
  ASSUME TypeOK
  PROVE  /\ nvs.freq \in Nat /\ nvs.volt \in Nat /\ Pair(nvs) \in Pairs
         /\ UserCeiling(nvs) \in Pairs /\ Baseline(UserCeiling(nvs)) \in AtmStates
         /\ OperatingPoint \in Pairs
         /\ task.known \in Pairs /\ task.known.freq \in Nat /\ task.cycles \in Nat
         /\ task.volt \in Nat /\ task.freq \in Nat
         /\ chip.volt \in Nat /\ chip.init \in BOOLEAN
         /\ BudgetCeiling \in Nat
         /\ atm \in AtmStates /\ vf \in TunerStates /\ pt \in BudgetStates /\ ceiling \in Pairs
         /\ seen.t1 \in Int
PROOF
<1>1. nvs.freq \in Nat /\ nvs.volt \in Nat
  BY DEF TypeOK, SettingsOK
<1>2. Pair(nvs) \in Pairs /\ UserCeiling(nvs) \in Pairs
  BY <1>1 DEF Pair, UserCeiling, Pairs, AtLeast, VOLT_FLOOR
<1>3. /\ task.known \in Pairs /\ task.volt \in Nat /\ task.freq \in Nat /\ seen.t1 \in Int
      /\ task.cycles \in Nat
  BY LoopAssumption DEF TypeOK, TaskOK
<1>4. chip.volt \in Nat /\ chip.init \in BOOLEAN
  BY DEF TypeOK, SettingsOK
<1>5. atm \in AtmStates /\ vf \in TunerStates /\ pt \in BudgetStates /\ ceiling \in Pairs
  BY DEF TypeOK, PoliciesOK
<1>6. Pair(atm) \in Pairs
  BY <1>5 DEF Pair, Pairs, AtmStates
<1>7. OperatingPoint \in Pairs
  BY <1>2, <1>6 DEF OperatingPoint
<1>8. task.known.freq \in Nat /\ BudgetCeiling \in Nat
  BY <1>3, <1>5, PairTypes DEF BudgetCeiling
<1> QED BY <1>1, <1>2, <1>3, <1>4, <1>5, <1>7, <1>8, PairTypes
\* What ThermalStep passes to the policy is of its type.
LEMMA InputTypes == ASSUME TypeOK PROVE PolicyInputs \in Inputs
PROOF
<1>1. seen \in Shown /\ uptime \in Nat
  BY LoopAssumption, TicksAssumption DEF TypeOK, TaskOK, Shown
<1>2. ChipTemp \in Int
  BY <1>1 DEF ChipTemp, NoSensor, Shown
<1>3. (seen.tel # "poor") \in BOOLEAN /\ seen.vr \in Int /\ seen.fan \in Nat
  BY <1>1 DEF Shown
<1> QED BY <1>1, <1>2, <1>3 DEF PolicyInputs, Inputs

TaskStates == [pc : Phases, paused : BOOLEAN, volt : Nat, freq : Nat, bad : 0..BAD_READING_MAX,
               known : Pairs, cycles : 0..MIN_COOLING]

\* Every step keeps the type invariant.
LEMMA TypeStep == ASSUME TypeOK, [Next]_vars PROVE TypeOK'
PROOF
<1> USE DEF At, Goto, env, policies
<1>sys. ASSUME NEW b \in BOOLEAN
        PROVE  /\ [sys EXCEPT !.stop = b] \in [stop : BOOLEAN, fault : BOOLEAN, boot : BootPhases]
               /\ [sys EXCEPT !.fault = b] \in [stop : BOOLEAN, fault : BOOLEAN, boot : BootPhases]
  BY DEF TypeOK, SettingsOK
<1>task. ASSUME NEW pc \in Phases
         PROVE  [task EXCEPT !.pc = pc] \in TaskStates
  BY DEF TypeOK, TaskOK, TaskStates
<1>cycle. asks \in Nat /\ asks + 1 \in Nat /\ overheats + 1 \in Nat
  BY DEF TypeOK, TaskOK
<1>o. Off \in [init : BOOLEAN, volt : Nat, freq : Nat, late : BOOLEAN]
      /\ \A found \in BOOLEAN : Started(nvs, found \/ chip.init) \in [init : BOOLEAN, volt : Nat, freq : Nat, late : BOOLEAN]
  BY StateTypes DEF Off, Started
<1>age. ASSUME NEW d \in 0..1, Age(d)
        PROVE  /\ atm' \in AtmStates /\ vf' \in TunerStates /\ pt' \in BudgetStates
               /\ uptime' \in 0..STARTUP
  <2>1. atm' \in AtmStates /\ vf' \in TunerStates /\ pt' \in BudgetStates
    BY <1>age, StateTypes, AgeKeeps DEF Age
  <2> QED BY <1>age, <2>1, TicksAssumption DEF Age, Older, AtMost, TypeOK, TaskOK
<1>1. ASSUME NEW s \in Settings, NEW bap \in BOOLEAN, EditFrequency(s, bap) PROVE TypeOK'
  BY <1>1, PairTypes DEF EditFrequency, TypeOK, SettingsOK, TaskOK, PoliciesOK
<1>2. ASSUME NEW s \in Settings, EditVoltage(s) PROVE TypeOK'
  BY <1>2, PairTypes DEF EditVoltage, TypeOK, SettingsOK, TaskOK, PoliciesOK
<1>3. CASE TogglePause
  <2>1. SettingsOK'
    BY <1>3, <1>sys DEF TogglePause, TypeOK, SettingsOK
  <2> QED BY <1>3, <1>cycle, <2>1 DEF TogglePause, TypeOK, TaskOK, PoliciesOK
<1>4. CASE FanFault
  <2>1. SettingsOK'
    BY <1>4, <1>sys DEF FanFault, TypeOK, SettingsOK
  <2> QED BY <1>4, <1>cycle, <2>1 DEF FanFault, TypeOK, TaskOK, PoliciesOK
<1>5. CASE Boot
  <2>1. SettingsOK'
    BY <1>5 DEF Boot, BootBegins, BootProbes, BootEnds, TypeOK, SettingsOK, BootPhases
  <2> QED BY <1>5, <2>1 DEF Boot, BootBegins, BootProbes, BootEnds, TypeOK, TaskOK, PoliciesOK
<1>6. ASSUME NEW r \in Readings, StopMining(r) PROVE TypeOK'
  BY <1>6, <1>o, ReadType DEF StopMining, Sense, TypeOK, SettingsOK, TaskOK, PoliciesOK, Shown, Phases
<1>7. ASSUME NEW r \in Readings, NEW found \in BOOLEAN, StartMining(r, found) PROVE TypeOK'
  BY <1>7, <1>o, ReadType DEF StartMining, Sense, TypeOK, SettingsOK, TaskOK, PoliciesOK, Shown, Phases
<1>8. ASSUME NEW r \in Readings, StayPaused(r) PROVE TypeOK'
  BY <1>8, ReadType DEF StayPaused, Sense, TypeOK, SettingsOK, TaskOK, PoliciesOK, Shown, Phases
<1>9. ASSUME NEW r \in Readings, Proceed(r) PROVE TypeOK'
  BY <1>9, ReadType DEF Proceed, Sense, TypeOK, SettingsOK, TaskOK, PoliciesOK, Shown, Phases
<1>10. CASE ThermalStep
  <2>1. ceiling' \in Pairs
    BY <1>10, StateTypes DEF ThermalStep
  <2>2. PolicyInputs \in Inputs
    BY InputTypes
  <2>3. Rebased \in AtmStates
    BY StateTypes DEF Rebased
  <2>4. atm' \in AtmStates
    BY <1>10, <2>1, <2>2, <2>3, AtmKeeps DEF ThermalStep
  <2>5. TaskOK'
    <3>1. BadReadings \in 0..BAD_READING_MAX
      BY LoopAssumption DEF BadReadings, AtMost, TypeOK, TaskOK
    <3>2. ASSUME NEW pc \in Phases PROVE [task EXCEPT !.bad = BadReadings, !.pc = pc] \in TaskStates
      BY <3>1 DEF TypeOK, TaskOK, TaskStates
    <3>3. task' \in TaskStates
      BY <1>10, <3>2 DEF ThermalStep, Phases
    <3> QED BY <1>10, <3>3 DEF ThermalStep, TypeOK, TaskOK, TaskStates
  <2> QED BY <1>10, <2>1, <2>4, <2>5 DEF ThermalStep, TypeOK, SettingsOK, PoliciesOK
<1>11. CASE Overheat
  <2>1. [task EXCEPT !.pc = "cool", !.known = Pair(nvs), !.cycles = 0] \in TaskStates
    <3>1. 0 \in 0..MIN_COOLING
      BY LoopAssumption
    <3> QED BY <3>1, StateTypes DEF TypeOK, TaskOK, TaskStates, Phases
  <2>2. TaskOK'
    BY <1>11, <1>cycle, <2>1 DEF Overheat, TypeOK, TaskOK, TaskStates
  <2> QED BY <1>11, <1>o, <2>2 DEF Overheat, TypeOK, SettingsOK, PoliciesOK
<1>12. ASSUME NEW r \in Readings, NEW d \in 0..1, Cool(r, d) PROVE TypeOK'
  <2> DEFINE cycles == AtMost(MIN_COOLING, task.cycles + 1)
             pc == IF cycles >= MIN_COOLING /\ r.vr <= TPS546_THROTTLE_TEMP - 10
                   THEN "restart" ELSE "cool"
  <2>1. cycles \in 0..MIN_COOLING
    BY LoopAssumption DEF TypeOK, TaskOK, AtMost
  <2>2. pc \in Phases
    BY DEF Phases
  <2>3. task' = [task EXCEPT !.cycles = cycles, !.pc = pc]
    BY <1>12 DEF Cool
  <2> HIDE DEF cycles, pc
  <2>4. task' \in TaskStates
    BY <2>1, <2>2, <2>3 DEF TypeOK, TaskOK, TaskStates
  <2>5. seen' \in Shown
    BY <1>12, LoopAssumption DEF Cool, TypeOK, TaskOK, Shown
  <2>6. /\ Age(d)
        /\ UNCHANGED <<config, asks, nvs, sys, chip, ceiling, overheats>>
    BY <1>12 DEF Cool
  <2> QED BY <1>age, <2>4, <2>5, <2>6 DEF TypeOK, SettingsOK, TaskOK, PoliciesOK, TaskStates, Shown
<1>13. CASE Reduce
  BY <1>13, StateTypes, PairTypes DEF Reduce, TypeOK, SettingsOK, TaskOK, PoliciesOK, Phases
<1>14. ASSUME NEW found \in BOOLEAN, Restart(found) PROVE TypeOK'
  BY <1>14, <1>o, StateTypes, PairTypes DEF Restart, TypeOK, SettingsOK, TaskOK, PoliciesOK, Phases
<1>15. CASE Apply
  BY <1>15, StateTypes, PairTypes, SMTT(20), ZenonT(20) DEF Apply, TypeOK, SettingsOK, TaskOK, PoliciesOK, Phases
<1>16. CASE Tune
  <2>1. CASE TuneVoltage
    <3> DEFINE step == vf_step(vf, seen.t1, seen.tel = "good")
               moves == step.act # "none" /\ step.vf.volt # task.volt
    <3>1. step.vf \in TunerStates /\ step.vf.volt \in Nat
      BY StateTypes, TunerKeeps DEF TunerStates
    <3>2. /\ vf' = step.vf
          /\ chip' = [chip EXCEPT !.volt = IF moves THEN step.vf.volt ELSE @]
          /\ nvs' = [nvs EXCEPT !.volt = IF moves THEN step.vf.volt ELSE @,
                                !.autotune = ~Over(step.act)]
          /\ task' = [task EXCEPT !.volt = IF moves THEN step.vf.volt ELSE @, !.pc = "target"]
      BY <2>1 DEF TuneVoltage
    <3>3. (~Over(step.act)) \in BOOLEAN
      BY DEF Over
    <3> HIDE DEF step, moves
    <3>4. chip' \in [init : BOOLEAN, volt : Nat, freq : Nat, late : BOOLEAN]
      BY <3>1, <3>2 DEF TypeOK, SettingsOK
    <3>5. nvs' \in [freq : Nat, volt : Nat, overheat : BOOLEAN, autotune : BOOLEAN,
                    autofan : BOOLEAN]
      BY <3>1, <3>2, <3>3 DEF TypeOK, SettingsOK
    <3>6. task' \in TaskStates
      BY <3>1, <3>2 DEF TypeOK, TaskOK, TaskStates, Phases
    <3> QED BY <1>16, <3>1, <3>2, <3>4, <3>5, <3>6
      DEF Tune, TypeOK, SettingsOK, TaskOK, PoliciesOK, TaskStates
  <2>2. CASE Goto("target") /\ UNCHANGED <<nvs, chip, vf>>
    <3>1. task' \in TaskStates
      BY <1>task, <2>2 DEF Phases
    <3> QED BY <1>16, <2>2, <3>1 DEF Tune, TypeOK, SettingsOK, TaskOK, PoliciesOK, TaskStates
  <2> QED BY <1>16, <2>1, <2>2 DEF Tune
<1>17. CASE Target
  <2>1. task' \in TaskStates
    BY <1>17, <1>task DEF Target, Phases
  <2>2. seen.power \in PowerReadings
    BY DEF TypeOK, TaskOK
  <2>3. pt' \in BudgetStates
    BY <1>17, <2>2, StateTypes, BudgetKeeps DEF Target
  <2>4. ScaledTo(BudgetCeiling, pt_step(pt, seen.power).mw) \in Nat
    <3>1. pt_step(pt, seen.power).mw \in MIN_MW..MAX_MW
      BY <2>2, StateTypes, BudgetKeeps DEF BudgetStates
    <3> QED BY <3>1, StateTypes, ScaledBounds
  <2>5. nvs' \in [freq : Nat, volt : Nat, overheat : BOOLEAN, autotune : BOOLEAN,
                  autofan : BOOLEAN]
    BY <1>17, <2>4 DEF Target, TypeOK, SettingsOK
  <2> QED BY <1>17, <2>1, <2>3, <2>5 DEF Target, TypeOK, SettingsOK, TaskOK, PoliciesOK, TaskStates
<1>18. ASSUME NEW d \in 0..1, Wake(d) PROVE TypeOK'
  <2>1. task' \in TaskStates
    BY <1>18, <1>task DEF Wake, Phases
  <2> QED BY <1>18, <1>age, <2>1 DEF Wake, TypeOK, SettingsOK, TaskOK, PoliciesOK, TaskStates
<1>19. CASE UNCHANGED vars
  BY <1>19 DEF vars, TypeOK, SettingsOK, TaskOK, PoliciesOK
<1> QED
  BY <1>1, <1>2, <1>3, <1>4, <1>5, <1>6, <1>7, <1>8, <1>9, <1>10, <1>11, <1>12, <1>13, <1>14,
     <1>15, <1>16, <1>17, <1>18, <1>19 DEF Next, Cycle
\* Init establishes it.
LEMMA TypeInit == Init => TypeOK
PROOF
<1> SUFFICES ASSUME Init PROVE TypeOK
  OBVIOUS
<1>1. /\ config.set \in Settings /\ config.set.freq \in Nat /\ config.set.volt \in Nat
      /\ config.autotune \in BOOLEAN
  BY PairTypes DEF Init
<1>2. SettingsOK
  BY <1>1 DEF Init, SettingsOK, Started, BootPhases
<1>3. TaskOK
  <2>1. 0 \in 0..BAD_READING_MAX /\ 0 \in 0..MIN_COOLING /\ 0 \in 0..STARTUP
    BY LoopAssumption, TicksAssumption
  <2>2. [freq |-> 0, volt |-> 0] \in Pairs
    BY DEF Pairs
  <2>3. task \in TaskStates
    BY <1>1, <2>1, <2>2 DEF Init, TaskStates, Phases
  <2>4. seen \in Shown
    BY ReadType DEF Init
  <2> QED BY <2>1, <2>3, <2>4 DEF Init, TaskOK, TaskStates, Shown
<1>4. PoliciesOK
  <2>1. ceiling \in Pairs /\ ceiling.volt \in Nat
    BY <1>1 DEF Init, UserCeiling, Pairs, AtLeast, VOLT_FLOOR
  <2>2. pt \in BudgetStates
    BY TargetAssumption DEF Init, FullBudget, BudgetStates
  <2> QED BY <2>1, <2>2, PairTypes DEF Init, PoliciesOK
<1> QED BY <1>2, <1>3, <1>4 DEF TypeOK

\* The types of the power management task and its policies.
THEOREM TypeCorrect == Spec => []TypeOK
PROOF
<1> QED BY TypeInit, TypeStep, PTL DEF Spec

-----------------------------------------------------------------------------
(* A stopped ASIC is off: the task remembers the stop only between its own  *)
(* cycles, and only StartMining and Restart, which leave those phases, and  *)
(* the tuner and Apply, which run in other phases, give the ASIC power.     *)

StopInv == StoppedIsOff /\ (task.paused => task.pc \in {"sense", "sleep"})

\* Every step keeps the ASIC off while mining is stopped.
LEMMA StopStep == ASSUME TypeOK, StopInv, [Next]_vars PROVE StopInv'
PROOF
<1> USE DEF StopInv, StoppedIsOff, At, Goto
<1>t. task \in TaskStates
  BY DEF TypeOK, TaskOK, TaskStates
<1>c. chip.volt \in Nat /\ chip.init \in BOOLEAN /\ chip \in [init : BOOLEAN, volt : Nat, freq : Nat, late : BOOLEAN]
  BY DEF TypeOK, SettingsOK
<1>1. ASSUME NEW s \in Settings, NEW bap \in BOOLEAN, EditFrequency(s, bap) PROVE StopInv'
  BY <1>1 DEF EditFrequency
<1>2. ASSUME NEW s \in Settings, EditVoltage(s) PROVE StopInv'
  BY <1>2 DEF EditVoltage
<1>3. CASE TogglePause
  BY <1>3 DEF TogglePause
<1>4. CASE FanFault
  BY <1>4 DEF FanFault
<1>5. CASE Boot
  BY <1>5, <1>c DEF Boot, BootBegins, BootProbes, BootEnds
<1>6. ASSUME NEW r \in Readings, StopMining(r) PROVE StopInv'
  BY <1>6, <1>t DEF StopMining, Off, TaskStates
<1>7. ASSUME NEW r \in Readings, NEW found \in BOOLEAN, StartMining(r, found) PROVE StopInv'
  BY <1>7, <1>t DEF StartMining, TaskStates
<1>8. ASSUME NEW r \in Readings, StayPaused(r) PROVE StopInv'
  BY <1>8, <1>t DEF StayPaused, TaskStates
<1>9. ASSUME NEW r \in Readings, Proceed(r) PROVE StopInv'
  BY <1>9, <1>t DEF Proceed, TaskStates
<1>10. CASE ThermalStep
  BY <1>10, <1>t DEF ThermalStep, TaskStates
<1>11. CASE Overheat
  BY <1>11, <1>t DEF Overheat, Off, TaskStates
<1>12. ASSUME NEW r \in Readings, NEW d \in 0..1, Cool(r, d) PROVE StopInv'
  BY <1>12, <1>t DEF Cool, TaskStates
<1>13. CASE Reduce
  BY <1>13, <1>t DEF Reduce, TaskStates
<1>14. ASSUME NEW found \in BOOLEAN, Restart(found) PROVE StopInv'
  BY <1>14, <1>t DEF Restart, TaskStates
<1>15. CASE Apply
  BY <1>15, <1>t DEF Apply, TaskStates
<1>16. CASE Tune
  BY <1>16, <1>t DEF Tune, TuneVoltage, TaskStates
<1>17. CASE Target
  BY <1>17, <1>t DEF Target, TaskStates
<1>18. ASSUME NEW d \in 0..1, Wake(d) PROVE StopInv'
  BY <1>18, <1>t DEF Wake, TaskStates
<1>19. CASE UNCHANGED vars
  BY <1>19 DEF vars
<1> QED
  BY <1>1, <1>2, <1>3, <1>4, <1>5, <1>6, <1>7, <1>8, <1>9, <1>10, <1>11, <1>12, <1>13, <1>14,
     <1>15, <1>16, <1>17, <1>18, <1>19 DEF Next, Cycle

\* Whoever stops mining, in whatever order of pauses, faults and overheats and wherever in main's
\* bring-up: while it is stopped the ASIC has no power, and no driver that believes it runs, unless
\* main had found the chips before and declares them initialised during the stop (128-156, 309-322,
\* 454, main.c:228).
THEOREM StoppedMeansOff == Spec => []StoppedIsOff
PROOF
<1>1. Init => StopInv
  BY DEF Init, StopInv, StoppedIsOff
<1>2. TypeOK /\ StopInv /\ [Next]_vars => StopInv'
  BY StopStep
<1>3. StopInv => StoppedIsOff
  BY DEF StopInv
<1> QED BY <1>1, <1>2, <1>3, TypeCorrect, PTL DEF Spec
-----------------------------------------------------------------------------
(* The regulator's floor: every place a voltage is kept in holds at least   *)
(* the floor, the user's settings by the premise and the rest by the        *)
(* policies' clamps.                                                        *)

Floored == \A s \in Settings : s.volt >= VOLT_FLOOR

FloorInv ==
  /\ chip.volt = 0 \/ chip.volt >= VOLT_FLOOR
  /\ nvs.volt >= VOLT_FLOOR
  /\ atm.volt >= VOLT_FLOOR /\ ceiling.volt >= VOLT_FLOOR
  /\ vf.volt >= VOLT_FLOOR /\ vf.proven >= VOLT_FLOOR

\* Every step keeps all voltages at or above the floor.
LEMMA FloorStep == ASSUME TypeOK, TypeOK', Floored, FloorInv, [Next]_vars PROVE FloorInv'
PROOF
<1> USE DEF At, Goto, env, policies, FloorInv
<1>t. /\ chip \in [init : BOOLEAN, volt : Nat, freq : Nat, late : BOOLEAN]
      /\ nvs \in [freq : Nat, volt : Nat, overheat : BOOLEAN, autotune : BOOLEAN, autofan : BOOLEAN]
  BY DEF TypeOK, SettingsOK
<1>u. UserCeiling(nvs).volt >= VOLT_FLOOR
  BY StateTypes DEF UserCeiling, AtLeast, VOLT_FLOOR
<1>p. OperatingPoint.volt >= VOLT_FLOOR /\ OperatingPoint.volt \in Nat
  BY StateTypes DEF OperatingPoint, Pair, Pairs
<1>age. ASSUME NEW d \in 0..1, Age(d)
        PROVE  /\ atm'.volt >= VOLT_FLOOR /\ vf'.volt >= VOLT_FLOOR /\ vf'.proven >= VOLT_FLOOR
  BY <1>age, StateTypes, AgeKeeps DEF Age
<1>1. ASSUME NEW s \in Settings, NEW bap \in BOOLEAN, EditFrequency(s, bap) PROVE FloorInv'
  BY <1>1, <1>t DEF EditFrequency
<1>2. ASSUME NEW s \in Settings, EditVoltage(s) PROVE FloorInv'
  BY <1>2, <1>t DEF EditVoltage, Floored
<1>3. CASE TogglePause
  BY <1>3 DEF TogglePause
<1>4. CASE FanFault
  BY <1>4 DEF FanFault
<1>5. CASE Boot
  BY <1>5, <1>t DEF Boot, BootBegins, BootProbes, BootEnds
<1>6. ASSUME NEW r \in Readings, StopMining(r) PROVE FloorInv'
  BY <1>6 DEF StopMining, Sense, Off
<1>7. ASSUME NEW r \in Readings, NEW found \in BOOLEAN, StartMining(r, found) PROVE FloorInv'
  BY <1>7 DEF StartMining, Sense, Started
<1>8. ASSUME NEW r \in Readings, StayPaused(r) PROVE FloorInv'
  BY <1>8 DEF StayPaused, Sense
<1>9. ASSUME NEW r \in Readings, Proceed(r) PROVE FloorInv'
  BY <1>9 DEF Proceed, Sense
<1>10. CASE ThermalStep
  <2>1. ceiling' \in Pairs /\ ceiling'.volt >= VOLT_FLOOR
    BY <1>10, <1>u, StateTypes DEF ThermalStep
  <2>2. Rebased \in AtmStates /\ Rebased.volt >= VOLT_FLOOR
    BY <1>u, StateTypes DEF Rebased, Baseline
  <2>3. PolicyInputs \in Inputs
    BY InputTypes
  <2>4. atm'.volt >= VOLT_FLOOR
    BY <1>10, <2>1, <2>2, <2>3, AtmFloor DEF ThermalStep
  <2> QED BY <1>10, <2>1, <2>4 DEF ThermalStep
<1>11. CASE Overheat
  BY <1>11, <1>t DEF Overheat, Off
<1>12. ASSUME NEW r \in Readings, NEW d \in 0..1, Cool(r, d) PROVE FloorInv'
  BY <1>12, <1>age DEF Cool
<1>13. CASE Reduce
  <2>1. Reduced(task.known).volt >= VOLT_FLOOR
    <3>1. task.known.volt \in Nat
      BY StateTypes DEF Pairs
    <3> QED BY <3>1 DEF Reduced, AtLeast, VOLT_FLOOR, ASIC_REDUCTION
  <2> QED BY <1>13, <1>t, <2>1 DEF Reduce
<1>14. ASSUME NEW found \in BOOLEAN, Restart(found) PROVE FloorInv'
  BY <1>14, <1>t, <1>u, StateTypes, PairTypes DEF Restart, Started, Unlatched, Baseline
<1>15. CASE Apply
  BY <1>15, <1>t, <1>p DEF Apply, TunerAt
<1>16. CASE Tune
  <2>1. CASE TuneVoltage
    <3>1. /\ vf_step(vf, seen.t1, seen.tel = "good").vf.volt >= VOLT_FLOOR
          /\ vf_step(vf, seen.t1, seen.tel = "good").vf.proven >= VOLT_FLOOR
      BY StateTypes, TunerFloor
    <3> QED BY <1>16, <1>t, <2>1, <3>1 DEF Tune, TuneVoltage
  <2> QED BY <1>16, <2>1 DEF Tune
<1>17. CASE Target
  BY <1>17, <1>t DEF Target
<1>18. ASSUME NEW d \in 0..1, Wake(d) PROVE FloorInv'
  BY <1>18, <1>age DEF Wake
<1>19. CASE UNCHANGED vars
  BY <1>19 DEF vars
<1> QED
  BY <1>1, <1>2, <1>3, <1>4, <1>5, <1>6, <1>7, <1>8, <1>9, <1>10, <1>11, <1>12, <1>13, <1>14,
     <1>15, <1>16, <1>17, <1>18, <1>19 DEF Next, Cycle

\* No chain of derates, overheats and tuner steps takes the regulator below its floor, for any number
\* of them, as long as the user's settings are not below it (98-100, 491-500, vf_tuner.c:76).
THEOREM FloorHolds == Spec => []RegulatorFloor
PROOF
<1>1. Init /\ Floored => FloorInv
  <2> SUFFICES ASSUME Init, Floored PROVE FloorInv
    OBVIOUS
  <2>1. config.set.volt \in Nat /\ config.set.volt >= VOLT_FLOOR
    BY PairTypes DEF Init, Floored
  <2> QED BY <2>1 DEF Init, FloorInv, Started, UserCeiling, AtLeast, Baseline, TunerAt, VOLT_FLOOR
<1>2. TypeOK /\ TypeOK' /\ (Floored => FloorInv) /\ [Next]_vars => (Floored => FloorInv)'
  BY FloorStep DEF Floored
<1>3. (Floored => FloorInv) => RegulatorFloor
  BY DEF Floored, FloorInv, RegulatorFloor
<1>4. Init => (Floored => FloorInv)
  BY <1>1
<1> QED BY <1>2, <1>3, <1>4, TypeCorrect, PTL DEF Spec

-----------------------------------------------------------------------------
(* The settings are never raised: without edits, every pair derived from    *)
(* them (remembered before a cooldown, the ceiling, the tuner's) is at or   *)
(* below the one the user chose.                                            *)

Below(p) == p.freq <= config.set.freq /\ p.volt <= config.set.volt
SettingsInv ==
  /\ Below(nvs) /\ Below(task.known) /\ Below(ceiling)
  /\ vf.volt <= config.set.volt /\ vf.proven <= config.set.volt
Undisturbed == Regular /\ config.edits = 0

\* Every step but an edit keeps them there.
LEMMA SettingsStep ==
  ASSUME TypeOK, TypeOK', Undisturbed, SettingsInv, [Next]_vars PROVE SettingsInv'
PROOF
<1> USE DEF At, Goto, env, policies, SettingsInv, Below
<1>t. /\ task \in TaskStates
      /\ nvs \in [freq : Nat, volt : Nat, overheat : BOOLEAN, autotune : BOOLEAN, autofan : BOOLEAN]
      /\ asks \in Nat
  BY DEF TypeOK, SettingsOK, TaskOK, TaskStates
<1>s. /\ config.set.freq \in Nat /\ config.set.volt \in Nat
      /\ config.set.freq >= FREQ_MIN /\ config.set.volt >= VOLT_FLOOR
  BY PairTypes DEF TypeOK, SettingsOK, Undisturbed, Regular
<1>u. Below(UserCeiling(nvs))
  BY <1>s, StateTypes DEF UserCeiling, AtLeast, VOLT_FLOOR
<1>age. ASSUME NEW d \in 0..1, Age(d) PROVE vf'.volt = vf.volt /\ vf'.proven = vf.proven
  BY <1>age, StateTypes, AgeKeeps DEF Age
<1>1. ASSUME NEW s \in Settings, NEW bap \in BOOLEAN, EditFrequency(s, bap) PROVE SettingsInv'
  BY <1>1, <1>t DEF EditFrequency, Undisturbed
<1>2. ASSUME NEW s \in Settings, EditVoltage(s) PROVE SettingsInv'
  BY <1>2, <1>t DEF EditVoltage, Undisturbed
<1>3. CASE TogglePause
  BY <1>3 DEF TogglePause
<1>4. CASE FanFault
  BY <1>4 DEF FanFault
<1>5. CASE Boot
  BY <1>5 DEF Boot, BootBegins, BootProbes, BootEnds
<1>6. ASSUME NEW r \in Readings, StopMining(r) PROVE SettingsInv'
  BY <1>6, <1>t DEF StopMining, Sense, TaskStates
<1>7. ASSUME NEW r \in Readings, NEW found \in BOOLEAN, StartMining(r, found) PROVE SettingsInv'
  BY <1>7, <1>t DEF StartMining, Sense, TaskStates
<1>8. ASSUME NEW r \in Readings, StayPaused(r) PROVE SettingsInv'
  BY <1>8, <1>t DEF StayPaused, Sense, TaskStates
<1>9. ASSUME NEW r \in Readings, Proceed(r) PROVE SettingsInv'
  BY <1>9, <1>t DEF Proceed, Sense, TaskStates
<1>10. CASE ThermalStep
  BY <1>10, <1>t, <1>u DEF ThermalStep, TaskStates
<1>11. CASE Overheat
  BY <1>11, <1>t DEF Overheat, Pair, TaskStates
<1>12. ASSUME NEW r \in Readings, NEW d \in 0..1, Cool(r, d) PROVE SettingsInv'
  BY <1>12, <1>t, <1>age DEF Cool, TaskStates
<1>13. CASE Reduce
  <2>1. Below(Reduced(task.known))
    <3>1. task.known.freq \in Nat /\ task.known.volt \in Nat
      BY StateTypes DEF Pairs
    <3> QED BY <1>s, <3>1 DEF Reduced, AtLeast, VOLT_FLOOR, FREQ_MIN, ASIC_REDUCTION
  <2> QED BY <1>13, <1>t, <2>1 DEF Reduce, TaskStates
<1>14. ASSUME NEW found \in BOOLEAN, Restart(found) PROVE SettingsInv'
  BY <1>14, <1>t DEF Restart, TaskStates
<1>15. CASE Apply
  BY <1>15, <1>t DEF Apply, TunerAt, TaskStates, OperatingPoint, Pair
<1>16. CASE Tune
  <2>1. CASE TuneVoltage
    <3>1. /\ vf_step(vf, seen.t1, seen.tel = "good").vf.volt <= config.set.volt
          /\ vf_step(vf, seen.t1, seen.tel = "good").vf.proven <= config.set.volt
      BY <1>s, StateTypes, TunerLowers
    <3> QED BY <1>16, <1>t, <2>1, <3>1 DEF Tune, TuneVoltage, TaskStates
  <2> QED BY <1>16, <1>t, <2>1 DEF Tune, TaskStates
<1>17. CASE Target
  <2>1. pt_step(pt, seen.power).mw \in MIN_MW..MAX_MW
    BY StateTypes, BudgetKeeps DEF BudgetStates, TypeOK, TaskOK
  <2>2. ScaledTo(BudgetCeiling, pt_step(pt, seen.power).mw) <= BudgetCeiling
    BY <2>1, StateTypes, ScaledBounds
  <2>3. BudgetCeiling <= config.set.freq
    BY DEF BudgetCeiling
  <2>4. ScaledTo(BudgetCeiling, pt_step(pt, seen.power).mw) \in Nat
    BY <2>1, StateTypes, ScaledBounds
  <2>5. ScaledTo(BudgetCeiling, pt_step(pt, seen.power).mw) <= config.set.freq
    BY <1>s, <2>2, <2>3, <2>4, StateTypes
  <2> QED BY <1>17, <1>t, <2>5 DEF Target, TaskStates
<1>18. ASSUME NEW d \in 0..1, Wake(d) PROVE SettingsInv'
  BY <1>18, <1>t, <1>age DEF Wake, TaskStates
<1>19. CASE UNCHANGED vars
  BY <1>19 DEF vars
<1> QED
  BY <1>1, <1>2, <1>3, <1>4, <1>5, <1>6, <1>7, <1>8, <1>9, <1>10, <1>11, <1>12, <1>13, <1>14,
     <1>15, <1>16, <1>17, <1>18, <1>19 DEF Next, Cycle

\* Without edits nothing the task does leaves the settings above the user's: not the tuner, not the
\* power target, and no sequence of overheats (488-503, 599-603, 651-664).
THEOREM NeverRaised == Spec => []SettingsNeverRaised
PROOF
<1>1. Init => (Undisturbed => SettingsInv)
  <2> SUFFICES ASSUME Init, Undisturbed PROVE SettingsInv
    OBVIOUS
  <2>1. /\ config.set.freq \in Nat /\ config.set.volt \in Nat
        /\ config.set.freq >= FREQ_MIN /\ config.set.volt >= VOLT_FLOOR
    BY PairTypes DEF Init, Undisturbed, Regular
  <2> QED BY <2>1 DEF Init, SettingsInv, Below, UserCeiling, AtLeast, TunerAt, VOLT_FLOOR
<1>2. TypeOK /\ TypeOK' /\ (Undisturbed => SettingsInv) /\ [Next]_vars
        => (Undisturbed => SettingsInv)'
  <2>1. TypeOK /\ [Next]_vars => UNCHANGED config
    BY DEF Next, Cycle, vars, env, policies, EditFrequency, EditVoltage, TogglePause, FanFault,
      Boot, BootBegins, BootProbes, BootEnds, StopMining, StartMining, StayPaused, Proceed, Sense, ThermalStep, Overheat, Cool,
      Reduce, Restart, Apply, Tune, Target, Wake
  <2> QED BY <2>1, SettingsStep DEF Undisturbed
<1>3. (Undisturbed => SettingsInv) => SettingsNeverRaised
  BY DEF Undisturbed, SettingsInv, Below, SettingsNeverRaised
<1> QED BY <1>1, <1>2, <1>3, TypeCorrect, PTL DEF Spec

-----------------------------------------------------------------------------
(* What a derate makes the ASIC run at, while nobody edits the settings.    *)

\* A step of the policy leaves its pair at or below the ceiling (atm_policy.c:102-155, 240-272).
LEMMA AtmBelow ==
  ASSUME NEW a \in AtmStates, NEW c \in Pairs, NEW in \in Inputs,
         c.freq >= FREQ_MIN, c.volt >= VOLT_FLOOR, a.freq <= c.freq, a.volt <= c.volt
  PROVE  atm_step(a, c, in).freq <= c.freq /\ atm_step(a, c, in).volt <= c.volt
PROOF
<1>1. ASSUME NEW b \in AtmStates, b.freq <= c.freq, b.volt <= c.volt
      PROVE  Climb(b, c).freq <= c.freq /\ Climb(b, c).volt <= c.volt
  BY <1>1 DEF Climb, ClimbVoltage, ClimbBoth, AtCeiling, AtMost, AtLeast, AtmStates, Pairs,
    VOLT_STEP, FREQ_STEP, VOLT_FLOOR
<1>2. [a EXCEPT !.window = NoWindow] \in AtmStates
  BY DEF AtmStates, Windows
<1>3. Recover(a, c, in).freq <= c.freq /\ Recover(a, c, in).volt <= c.volt
  BY <1>1, <1>2 DEF Recover, Observe, AtmStates
<1>4. Shed(a, c, in).freq <= c.freq /\ Shed(a, c, in).volt <= c.volt
  <2>1. StartupTarget(c) <= c.freq
    BY DEF StartupTarget, AtLeast, Pairs, FREQ_MIN, STARTUP_PERCENT
  <2>2. StepDown(a, c, in).freq <= c.freq /\ StepDown(a, c, in).volt <= c.volt
    BY DEF StepDown, AtLeast, AtMost, AtmStates, Pairs, FREQ_MIN, FREQ_STEP, VOLT_FLOOR, VOLT_STEP
  <2> QED BY <2>1, <2>2 DEF Shed, AtmStates
<1> QED BY <1>3, <1>4 DEF atm_step, AtmStates

Unedited == config.edits = 0
Untuned == Unedited /\ ~config.autotune
\* The phases in which the ASIC runs, if it was not paused.
Running == ~task.paused /\ task.pc \notin {"cool", "restart", "start"}

\* Policy and ceiling stay in the regulator's range whatever the settings are, and what Apply
\* programs is this cycle's pair.
ForceInv ==
  /\ atm.volt >= VOLT_FLOOR /\ ceiling.volt >= VOLT_FLOOR
  /\ At("tune") => Pair(task) = OperatingPoint

\* Every step keeps it.
LEMMA ForceStep == ASSUME TypeOK, TypeOK', ForceInv, Unedited, [Next]_vars PROVE ForceInv'
PROOF
<1> USE DEF At, Goto, env, policies, ForceInv
<1>t. task \in TaskStates /\ asks \in Nat
  BY DEF TypeOK, TaskOK, TaskStates
<1>u. UserCeiling(nvs).volt >= VOLT_FLOOR
  BY StateTypes DEF UserCeiling, AtLeast, VOLT_FLOOR
<1>age. ASSUME NEW d \in 0..1, Age(d) PROVE atm'.volt >= VOLT_FLOOR
  BY <1>age, StateTypes, AgeKeeps DEF Age
<1>1. ASSUME NEW s \in Settings, NEW bap \in BOOLEAN, EditFrequency(s, bap) PROVE ForceInv'
  BY <1>1, <1>t DEF EditFrequency, Unedited
<1>2. ASSUME NEW s \in Settings, EditVoltage(s) PROVE ForceInv'
  BY <1>2, <1>t DEF EditVoltage, Unedited
<1>3. CASE TogglePause \/ FanFault \/ Boot
  BY <1>3 DEF TogglePause, FanFault, Boot, BootBegins, BootProbes, BootEnds, OperatingPoint, Pair
<1>4. ASSUME NEW r \in Readings, Sense(r), task'.pc # "tune" PROVE ForceInv'
  BY <1>4 DEF Sense
<1>5. CASE \E r \in Readings : StopMining(r) \/ StayPaused(r) \/ Proceed(r)
  BY <1>4, <1>5, <1>t DEF StopMining, StayPaused, Proceed, Sense, TaskStates
<1>6. CASE \E r \in Readings, found \in BOOLEAN : StartMining(r, found)
  BY <1>4, <1>6, <1>t DEF StartMining, Sense, TaskStates
<1>7. CASE ThermalStep
  <2>1. ceiling' \in Pairs /\ ceiling'.volt >= VOLT_FLOOR
    BY <1>7, <1>u, StateTypes DEF ThermalStep
  <2>2. Rebased \in AtmStates /\ Rebased.volt >= VOLT_FLOOR
    BY <1>u, StateTypes DEF Rebased, Baseline
  <2>3. atm'.volt >= VOLT_FLOOR
    BY <1>7, <2>1, <2>2, InputTypes, AtmFloor DEF ThermalStep
  <2> QED BY <1>7, <1>t, <2>1, <2>3 DEF ThermalStep, TaskStates
<1>8. CASE Overheat
  BY <1>8, <1>t DEF Overheat, TaskStates
<1>9. ASSUME NEW r \in Readings, NEW d \in 0..1, Cool(r, d) PROVE ForceInv'
  BY <1>9, <1>t, <1>age DEF Cool, TaskStates
<1>10. CASE Reduce
  BY <1>10, <1>t DEF Reduce, TaskStates
<1>11. ASSUME NEW found \in BOOLEAN, Restart(found) PROVE ForceInv'
  BY <1>11, <1>t, <1>u DEF Restart, Unlatched, Baseline, TaskStates
<1>12. CASE Apply
  <2>1. task'.volt = OperatingPoint.volt /\ task'.freq = OperatingPoint.freq
        /\ nvs' = nvs /\ atm' = atm /\ ceiling' = ceiling
    BY <1>12, <1>t DEF Apply, TaskStates
  <2>2. OperatingPoint = Pair(OperatingPoint)
    BY DEF OperatingPoint, Pair
  <2> QED BY <2>1, <2>2 DEF Pair, OperatingPoint
<1>13. CASE Tune
  BY <1>13, <1>t DEF Tune, TuneVoltage, TaskStates
<1>14. CASE Target
  BY <1>14, <1>t DEF Target, TaskStates
<1>15. ASSUME NEW d \in 0..1, Wake(d) PROVE ForceInv'
  BY <1>15, <1>t, <1>age DEF Wake, TaskStates
<1>16. CASE UNCHANGED vars
  BY <1>16 DEF vars, OperatingPoint
<1> QED
  BY <1>1, <1>2, <1>3, <1>5, <1>6, <1>7, <1>8, <1>9, <1>10, <1>11, <1>12, <1>13, <1>14, <1>15, <1>16
     DEF Next, Cycle

\* What growing older leaves alone.
LEMMA AgeLeaves ==
  ASSUME TypeOK, NEW d \in 0..1, Age(d)
  PROVE  atm'.freq = atm.freq /\ atm'.volt = atm.volt /\ atm'.down = atm.down
PROOF
<1>1. atm \in AtmStates
  BY StateTypes
<1> QED BY <1>1 DEF Age, AtmOlder, AtmStates

\* Without pauses and edits the ASIC runs at what the task programmed last, until a start, or the
\* boot, whose settings the task has not programmed, comes in between.
Quiet == Unedited /\ config.pauses = 0
QuietInv ==
  /\ ~task.paused /\ ~sys.stop /\ ~sys.fault
  /\ Running =>
       /\ chip.freq = task.freq \/ (At("apply") /\ ~atm.down /\ chip.freq = nvs.freq)
       /\ \/ chip.volt = task.volt
          \/ At("apply") /\ ~atm.down /\ chip.volt = nvs.volt
          \/ task.pc \in {"sense", "policy", "overheat", "apply"} /\ task.volt = 0
             /\ chip.volt = nvs.volt
  /\ At("tune") => Pair(chip) = Pair(task)

\* Every step keeps it.
LEMMA QuietStep ==
  ASSUME TypeOK, ForceInv, QuietInv, Quiet, [Next]_vars PROVE QuietInv'
PROOF
<1> USE DEF At, Goto, env, policies, QuietInv, Running, Pair
<1>t. /\ task \in TaskStates /\ asks \in Nat /\ chip \in [init : BOOLEAN, volt : Nat, freq : Nat, late : BOOLEAN]
      /\ sys \in [stop : BOOLEAN, fault : BOOLEAN, boot : BootPhases]
  BY DEF TypeOK, TaskOK, SettingsOK, TaskStates
<1>1. CASE \E s \in Settings : EditVoltage(s) \/ \E bap \in BOOLEAN : EditFrequency(s, bap)
  BY <1>1, <1>t DEF EditFrequency, EditVoltage, Quiet, Unedited
<1>2. CASE TogglePause \/ FanFault
  BY <1>2, <1>t DEF TogglePause, FanFault, Quiet
<1>3. CASE Boot
  BY <1>3, <1>t DEF Boot, BootBegins, BootProbes, BootEnds
<1>4. CASE \E r \in Readings : StopMining(r) \/ StayPaused(r) \/ \E found \in BOOLEAN : StartMining(r, found)
  BY <1>4 DEF StopMining, StayPaused, StartMining, WantsStop
<1>5. CASE \E r \in Readings : Proceed(r)
  BY <1>5, <1>t DEF Proceed, Sense, TaskStates
<1>6. CASE ThermalStep
  BY <1>6, <1>t DEF ThermalStep, TaskStates
<1>7. CASE Overheat \/ Reduce
  BY <1>7, <1>t DEF Overheat, Reduce, TaskStates
<1>8. CASE \E r \in Readings, d \in 0..1 : Cool(r, d)
  <2>1. task'.pc \in {"cool", "restart"} /\ ~task'.paused /\ sys' = sys
    BY <1>8, <1>t DEF Cool, TaskStates
  <2> QED BY <2>1
<1>9. ASSUME NEW found \in BOOLEAN, Restart(found) PROVE QuietInv'
  <2>1. /\ task'.pc = "apply" /\ ~task'.paused /\ sys' = sys /\ nvs'.volt = nvs.volt
        /\ nvs'.freq = nvs.freq /\ chip'.volt = nvs.volt /\ chip'.freq = nvs.freq
    BY <1>9, <1>t DEF Restart, Started, TaskStates, TypeOK, SettingsOK
  <2>2. ~atm'.down
    BY <1>9 DEF Restart, Unlatched, Baseline
  <2> QED BY <2>1, <2>2
<1>10. CASE Apply
  <2>1. /\ task'.pc = "tune" /\ ~task'.paused /\ sys' = sys
        /\ task'.volt = OperatingPoint.volt /\ task'.freq = OperatingPoint.freq
        /\ chip'.volt = (IF OperatingPoint.volt = task.volt THEN chip.volt ELSE OperatingPoint.volt)
        /\ chip'.freq = (IF OperatingPoint.freq = task.freq THEN chip.freq ELSE OperatingPoint.freq)
    BY <1>10, <1>t DEF Apply, TaskStates
  <2>2. /\ ~atm.down => OperatingPoint.volt = nvs.volt /\ OperatingPoint.freq = nvs.freq
        /\ atm.down => OperatingPoint.volt # 0
    BY StateTypes DEF OperatingPoint, ForceInv, VOLT_FLOOR
  <2>3. chip'.volt = task'.volt /\ chip'.freq = task'.freq
    BY <1>10, <2>1, <2>2 DEF Apply
  <2> QED BY <2>1, <2>3
<1>11. CASE Tune
  <2>1. task.pc = "tune" /\ chip.volt = task.volt /\ chip.freq = task.freq /\ sys' = sys
    BY <1>11 DEF Tune
  <2>2. CASE TuneVoltage
    <3> DEFINE step == vf_step(vf, seen.t1, seen.tel = "good")
               moves == step.act # "none" /\ step.vf.volt # task.volt
               volt(old) == IF moves THEN step.vf.volt ELSE old
    <3>1. /\ chip' = [chip EXCEPT !.volt = volt(@)]
          /\ task' = [task EXCEPT !.volt = volt(@), !.pc = "target"]
      BY <2>2 DEF TuneVoltage
    <3>2. volt(chip.volt) = volt(task.volt)
      BY <2>1
    <3> HIDE DEF volt
    <3>3. /\ chip'.volt = task'.volt /\ chip'.freq = task'.freq
          /\ task'.pc = "target" /\ ~task'.paused
      BY <1>t, <2>1, <3>1, <3>2 DEF TaskStates
    <3> QED BY <2>1, <3>3
  <2>3. CASE ~TuneVoltage
    BY <1>11, <1>t, <2>1, <2>3 DEF Tune, TaskStates
  <2> QED BY <2>2, <2>3
<1>12. CASE Target
  BY <1>12, <1>t DEF Target, TaskStates
<1>13. CASE \E d \in 0..1 : Wake(d)
  BY <1>13, <1>t DEF Wake, TaskStates
<1>14. CASE UNCHANGED vars
  BY <1>14 DEF vars
<1> QED
  BY <1>1, <1>2, <1>3, <1>4, <1>5, <1>6, <1>7, <1>8, <1>9, <1>10, <1>11, <1>12, <1>13, <1>14
     DEF Next, Cycle

\* The environment stays, and ForceInv and QuietInv hold at boot.
LEMMA ConfigStays == [Next]_vars => UNCHANGED config
  BY DEF Next, Cycle, vars, env, policies, EditFrequency, EditVoltage, TogglePause, FanFault,
     Boot, BootBegins, BootProbes, BootEnds, StopMining, StartMining, StayPaused, Proceed, Sense, ThermalStep, Overheat, Cool,
     Reduce, Restart, Apply, Tune, Target, Wake

LEMMA ForceInit == Init => ForceInv /\ QuietInv
PROOF
<1> SUFFICES ASSUME Init PROVE ForceInv /\ QuietInv
  OBVIOUS
<1>1. config.set.freq \in Nat /\ config.set.volt \in Nat
  BY PairTypes DEF Init
<1>2. ceiling.volt >= VOLT_FLOOR /\ atm.volt >= VOLT_FLOOR
  BY <1>1 DEF Init, UserCeiling, Baseline, AtLeast, VOLT_FLOOR
<1> QED BY <1>1, <1>2 DEF Init, ForceInv, QuietInv, Running, At, Started

\* Without pauses and edits, after every cycle and through overheats, failed restarts, tuner and
\* power target, the ASIC runs at the policy's pair or the user's, and the task knows it (534-557).
THEOREM DerateStaysInForce == Spec => []DerateInForce
PROOF
<1> DEFINE Inv == /\ Unedited => ForceInv
                  /\ Quiet => QuietInv
<1>1. Init => Inv
  BY ForceInit
<1>2. TypeOK /\ TypeOK' /\ Inv /\ [Next]_vars => Inv'
  BY ConfigStays, ForceStep, QuietStep DEF Unedited, Quiet
<1>3. Inv => DerateInForce
  BY DEF Unedited, Quiet, ForceInv, QuietInv, DerateInForce, InForce
<1> HIDE DEF Inv
<1> QED BY <1>1, <1>2, <1>3, TypeCorrect, PTL DEF Spec

\* Without the tuner, and through pauses: the settings follow each ceiling down, so both the
\* policy's pair and the one a start takes from them are at or below it while a derate lasts.
Whole == ceiling.freq >= FREQ_MIN
LowerInv ==
  /\ ~nvs.autotune /\ nvs.volt <= ceiling.volt
  /\ Whole => atm.freq <= ceiling.freq /\ atm.volt <= ceiling.volt
  /\ Whole /\ (atm.down \/ task.pc \in {"overheat", "cool", "restart", "start"})
       => nvs.freq <= ceiling.freq
  /\ task.pc \in {"cool", "restart"} => task.known = Pair(nvs)
  /\ Running => chip.freq \in {task.freq, nvs.freq} /\ chip.volt \in {task.volt, nvs.volt}
  /\ Running /\ ~atm.down /\ task.pc \in {"tune", "target"} => chip.freq = task.freq

\* Every step keeps it.
LEMMA LowerStep ==
  ASSUME TypeOK, StopInv, ForceInv, LowerInv, Untuned, [Next]_vars PROVE LowerInv'
PROOF
<1> USE DEF At, Goto, env, policies, LowerInv, Running, Whole
<1>t. /\ task \in TaskStates /\ asks \in Nat /\ chip \in [init : BOOLEAN, volt : Nat, freq : Nat, late : BOOLEAN]
      /\ nvs \in [freq : Nat, volt : Nat, overheat : BOOLEAN, autotune : BOOLEAN, autofan : BOOLEAN]
  BY DEF TypeOK, TaskOK, SettingsOK, TaskStates
<1>n. /\ ceiling.freq \in Nat /\ ceiling.volt \in Nat /\ atm.freq \in Nat /\ atm.volt \in Nat
      /\ ceiling.volt >= VOLT_FLOOR
  BY StateTypes DEF Pairs, AtmStates, ForceInv
<1>1. CASE \E s \in Settings : EditVoltage(s) \/ \E bap \in BOOLEAN : EditFrequency(s, bap)
  BY <1>1, <1>t DEF EditFrequency, EditVoltage, Untuned, Unedited
<1>2. CASE TogglePause \/ FanFault \/ Boot
  BY <1>2, <1>t DEF TogglePause, FanFault, Boot, BootBegins, BootProbes, BootEnds
<1>3. CASE \E r \in Readings : StopMining(r) \/ StayPaused(r) \/ Proceed(r)
  BY <1>3, <1>t DEF StopMining, StayPaused, Proceed, Sense, TaskStates
<1>4. CASE \E r \in Readings, found \in BOOLEAN : StartMining(r, found)
  BY <1>4, <1>t DEF StartMining, Sense, Started, TaskStates
<1>5. CASE ThermalStep
  <2>1. /\ ceiling' \in Pairs /\ Rebased \in AtmStates /\ PolicyInputs \in Inputs
        /\ ceiling' = (IF atm.down THEN ceiling ELSE UserCeiling(nvs))
        /\ atm' = atm_step(Rebased, ceiling', PolicyInputs)
    BY <1>5, StateTypes, InputTypes DEF ThermalStep, Rebased
  <2>2. /\ UserCeiling(nvs).volt >= VOLT_FLOOR /\ nvs.volt <= UserCeiling(nvs).volt
        /\ UserCeiling(nvs).freq = nvs.freq
    BY StateTypes DEF UserCeiling, AtLeast, VOLT_FLOOR
  <2>3. ceiling'.volt >= VOLT_FLOOR /\ nvs.volt <= ceiling'.volt
    BY <1>n, <2>1, <2>2
  <2>4. Whole' => Rebased.freq <= ceiling'.freq /\ Rebased.volt <= ceiling'.volt
    <3>1. CASE ~atm.down /\ UserCeiling(nvs) # ceiling
      BY <2>1, <3>1 DEF Rebased, Baseline, Pairs
    <3>2. CASE atm.down \/ UserCeiling(nvs) = ceiling
      BY <2>1, <3>2 DEF Rebased
    <3> QED BY <3>1, <3>2
  <2>5. Whole' => atm'.freq <= ceiling'.freq /\ atm'.volt <= ceiling'.volt
    BY <2>1, <2>3, <2>4, AtmBelow
  <2>6. Whole' => nvs.freq <= ceiling'.freq
    BY <1>n, <1>t, <2>1, <2>2
  <2>7. /\ nvs' = nvs /\ chip' = chip /\ task'.pc \in {"overheat", "apply"}
        /\ task'.volt = task.volt /\ task'.freq = task.freq /\ task'.paused = task.paused
        /\ task.pc = "policy"
    BY <1>5, <1>t DEF ThermalStep, TaskStates
  <2> QED BY <2>3, <2>5, <2>6, <2>7
<1>6. CASE Overheat
  BY <1>6, <1>t DEF Overheat, Off, TaskStates, Pair
<1>7. CASE \E r \in Readings, d \in 0..1 : Cool(r, d)
  BY <1>7, <1>t, AgeLeaves DEF Cool, TaskStates
<1>8. CASE Reduce
  <2>1. task.known = Pair(nvs) /\ task.known.freq = nvs.freq /\ task.known.volt = nvs.volt
    BY <1>8 DEF Reduce, Pair
  <2>2. /\ Reduced(task.known).volt <= ceiling.volt
        /\ Whole => Reduced(task.known).freq <= ceiling.freq
    BY <1>8, <1>n, <1>t, <2>1 DEF Reduce, Reduced, AtLeast, FREQ_MIN, VOLT_FLOOR, ASIC_REDUCTION
  <2>3. /\ nvs'.volt = Reduced(task.known).volt /\ nvs'.freq = Reduced(task.known).freq
        /\ ~nvs'.autotune /\ task'.pc = "start" /\ atm' = atm /\ ceiling' = ceiling
    BY <1>8, <1>t DEF Reduce, TaskStates
  <2> QED BY <2>2, <2>3
<1>9. ASSUME NEW found \in BOOLEAN, Restart(found) PROVE LowerInv'
  <2>1. /\ atm'.volt = AtLeast(VOLT_FLOOR, nvs.volt) /\ atm'.freq = nvs.freq /\ ~atm'.down
        /\ ceiling' = ceiling
    BY <1>9 DEF Restart, Unlatched, Baseline, UserCeiling
  <2>2. Whole => atm'.freq <= ceiling.freq /\ atm'.volt <= ceiling.volt
    BY <1>9, <1>n, <2>1 DEF Restart, AtLeast
  <2>3. /\ task'.pc = "apply" /\ nvs'.volt = nvs.volt /\ nvs'.freq = nvs.freq /\ ~nvs'.autotune
        /\ chip'.volt = nvs.volt /\ chip'.freq = nvs.freq
    BY <1>9, <1>t DEF Restart, Started, TaskStates
  <2> QED BY <2>1, <2>2, <2>3
<1>10. CASE Apply
  <2>1. /\ task'.pc = "tune" /\ task'.paused = task.paused /\ task.pc = "apply"
        /\ task'.volt = OperatingPoint.volt /\ task'.freq = OperatingPoint.freq
        /\ chip'.volt = (IF OperatingPoint.volt = task.volt THEN chip.volt ELSE OperatingPoint.volt)
        /\ chip'.freq = (IF OperatingPoint.freq = task.freq THEN chip.freq ELSE OperatingPoint.freq)
        /\ nvs' = nvs /\ atm' = atm /\ ceiling' = ceiling
    BY <1>10, <1>t DEF Apply, TaskStates
  <2>2. ~atm.down => OperatingPoint.volt = nvs.volt /\ OperatingPoint.freq = nvs.freq
    BY DEF OperatingPoint, Pair
  <2> QED BY <2>1, <2>2
<1>11. CASE Tune
  BY <1>11, <1>t DEF Tune, TaskStates
<1>12. CASE Target
  <2>1. task'.pc = "sleep" /\ task.pc = "target" /\ task'.paused = task.paused
        /\ task'.freq = task.freq /\ task'.volt = task.volt
        /\ chip' = chip /\ ceiling' = ceiling /\ atm' = atm
    BY <1>12, <1>t DEF Target, TaskStates
  <2>2. nvs'.volt = nvs.volt /\ ~nvs'.autotune
    BY <1>12, <1>t DEF Target
  <2>3. atm.down => nvs' = nvs
    BY <1>12 DEF Target
  <2> QED BY <2>1, <2>2, <2>3
<1>13. CASE \E d \in 0..1 : Wake(d)
  BY <1>13, <1>t, AgeLeaves DEF Wake, TaskStates
<1>14. CASE UNCHANGED vars
  BY <1>14 DEF vars
<1> QED
  BY <1>1, <1>2, <1>3, <1>4, <1>5, <1>6, <1>7, <1>8, <1>9, <1>10, <1>11, <1>12, <1>13, <1>14
     DEF Next, Cycle

\* Without the tuner a derate never has the ASIC run above the ceiling of 400 MHz or more, through
\* any pauses and overheats (226-228, atm_policy.c:130-155).
THEOREM DerateOnlyLowers == Spec => [](~config.autotune => DerateLowers)
PROOF
<1> DEFINE Inv == /\ StopInv
                  /\ Unedited => ForceInv
                  /\ Untuned => LowerInv
<1>1. Init => Inv
  <2> SUFFICES ASSUME Init PROVE Inv
    OBVIOUS
  <2>1. config.set.freq \in Nat /\ config.set.volt \in Nat
    BY PairTypes DEF Init
  <2>2. StopInv
    BY DEF Init, StopInv, StoppedIsOff
  <2>3. ForceInv
    BY ForceInit
  <2>4. Untuned => LowerInv
    BY <2>1 DEF Init, Untuned, LowerInv, Running, Started, UserCeiling, Baseline, AtLeast, VOLT_FLOOR
  <2> QED BY <2>2, <2>3, <2>4
<1>2. TypeOK /\ TypeOK' /\ Inv /\ [Next]_vars => Inv'
  BY ConfigStays, StopStep, ForceStep, LowerStep DEF Unedited, Untuned
<1>3. TypeOK /\ Inv => (~config.autotune => DerateLowers)
  <2> SUFFICES ASSUME TypeOK, StopInv, ForceInv, LowerInv, Whole,
                      At("tune"), chip.init, atm.down
               PROVE  chip.freq <= ceiling.freq /\ chip.volt <= ceiling.volt
    BY DEF Unedited, Untuned, Whole, DerateLowers, NeverOverclocks
  <2>1. Running
    BY DEF StopInv, Running, At
  <2>2. task.freq = atm.freq /\ task.volt = atm.volt
    BY DEF ForceInv, OperatingPoint, Pair
  <2>3. chip.freq \in {atm.freq, nvs.freq} /\ chip.volt \in {atm.volt, nvs.volt}
    BY <2>1, <2>2 DEF LowerInv
  <2> QED BY <2>3 DEF LowerInv
<1> HIDE DEF Inv
<1> QED BY <1>1, <1>2, <1>3, TypeCorrect, PTL DEF Spec

-----------------------------------------------------------------------------
(* What the overheats cost. *)

\* Every non-empty set of numbers has a least one.
LEMMA Least == ASSUME NEW T \in SUBSET Nat, T # {} PROVE \E m \in T : \A k \in T : m <= k
<1>1. PICK m \in T : \A k \in T : ~ (<<k, m>> \in OpToRel(<, Nat))
  BY NatLessThanWellFounded, WFMin, Zenon
<1>2. ASSUME NEW k \in T, k < m PROVE <<k, m>> \in OpToRel(<, Nat)
  BY <1>2 DEF OpToRel
<1>3. \A k \in T : ~(k < m)
  BY <1>1, <1>2, Zenon
<1>4. QED
  BY <1>3

\* What k overheats leave of the settings is what one more takes from what k - 1 left.
LEMMA ReducedTimesStep ==
  ASSUME NEW set
  PROVE  /\ ReducedTimes(set)[0] = Pair(set)
         /\ \A k \in 1..MaxOverheats : ReducedTimes(set)[k] = Reduced(ReducedTimes(set)[k - 1])
<1> DEFINE Chain(g, n) == g = [k \in 0..n |-> IF k = 0 THEN Pair(set) ELSE Reduced(g[k - 1])]
           NoChain == {n \in Nat : ~\E g : Chain(g, n)}
<1>1. NoChain = {}
  <2> SUFFICES ASSUME NoChain # {} PROVE FALSE
    OBVIOUS
  <2>1. PICK m \in NoChain : \A k \in NoChain : m <= k
    <3>1. NoChain \in SUBSET Nat
      OBVIOUS
    <3> HIDE DEF NoChain
    <3> QED BY <3>1, Least
  <2>2. m \in Nat /\ ~\E g : Chain(g, m)
    OBVIOUS
  <2>3. m # 0
    <3>1. Chain([k \in 0..0 |-> Pair(set)], 0)
      OBVIOUS
    <3> QED BY <2>2, <3>1
  <2>4. m - 1 \in Nat /\ m - 1 \notin NoChain
    <3>1. m - 1 \in Nat /\ ~(m <= m - 1)
      BY <2>2, <2>3
    <3> HIDE DEF NoChain
    <3> QED BY <2>1, <3>1
  <2>5. PICK g : Chain(g, m - 1)
    BY <2>4
  <2> DEFINE h == [k \in 0..m |-> IF k = m THEN Reduced(g[m - 1]) ELSE g[k]]
  <2>6. ASSUME NEW k \in 0..m PROVE h[k] = IF k = 0 THEN Pair(set) ELSE Reduced(h[k - 1])
    <3>1. CASE k = m
      <4>1. k - 1 \in 0..m /\ k - 1 # m
        BY <2>2, <2>3, <3>1
      <4> QED BY <2>3, <3>1, <4>1
    <3>2. CASE k # m
      <4>1. k \in 0..(m - 1)
        BY <2>2, <3>2
      <4>2. g[k] = IF k = 0 THEN Pair(set) ELSE Reduced(g[k - 1])
        BY <2>5, <4>1
      <4>3. CASE k = 0
        BY <3>2, <4>2, <4>3
      <4>4. CASE k # 0
        <5>1. k - 1 \in 0..m /\ k - 1 # m
          BY <2>2, <4>1, <4>4
        <5> QED BY <3>2, <4>2, <4>4, <5>1
      <4> QED BY <4>3, <4>4
    <3> QED BY <3>1, <3>2
  <2>7. Chain(h, m)
    <3> HIDE DEF h
    <3>1. h = [k \in 0..m |-> h[k]]
      BY DEF h
    <3> QED BY <2>6, <3>1
  <2> QED BY <2>2, <2>7
<1>2. \E g : Chain(g, MaxOverheats)
  BY <1>1, LoopAssumption
<1>3. Chain(ReducedTimes(set), MaxOverheats)
  BY <1>2 DEF ReducedTimes
<1>4. 0 \in 0..MaxOverheats /\ \A k \in 1..MaxOverheats : k \in 0..MaxOverheats /\ k # 0
  BY LoopAssumption
<1> QED BY <1>3, <1>4

\* The settings are as often reduced as overheats were completed.
Frugal == Unedited /\ ~config.autotune /\ ~config.target
Completed == overheats - (IF task.pc \in {"cool", "restart"} THEN 1 ELSE 0)
CostInv ==
  /\ overheats <= MaxOverheats
  /\ At("policy") /\ Overheating(seen) => overheats < MaxOverheats
  /\ At("overheat") => overheats < MaxOverheats
  /\ task.pc \in {"cool", "restart"} => overheats > 0 /\ task.known = Pair(nvs)
  /\ ~nvs.autotune
  /\ Pair(nvs) = ReducedTimes(config.set)[Completed]

LEMMA CostInit == Init => (Frugal => CostInv)
PROOF
<1> SUFFICES ASSUME Init, Frugal PROVE CostInv
  OBVIOUS
<1>1. Pair(nvs) = Pair(config.set) /\ overheats = 0 /\ task.pc = "sense"
  BY DEF Init, Pair
<1>2. Pair(nvs) = ReducedTimes(config.set)[Completed]
  BY <1>1, ReducedTimesStep DEF Completed
<1> QED BY <1>1, <1>2, LoopAssumption DEF Init, Frugal, CostInv, At

\* Every step keeps it.
LEMMA CostStep ==
  ASSUME TypeOK, CostInv, Frugal, UNCHANGED config, [Next]_vars PROVE CostInv'
PROOF
<1> USE DEF At, Goto, env, policies
<1>t. /\ task \in TaskStates /\ asks \in Nat /\ overheats \in Nat /\ MaxOverheats \in Nat
      /\ nvs \in [freq : Nat, volt : Nat, overheat : BOOLEAN, autotune : BOOLEAN, autofan : BOOLEAN]
  BY LoopAssumption DEF TypeOK, TaskOK, SettingsOK, TaskStates
<1>same. ASSUME UNCHANGED <<nvs, overheats>>, task'.pc \notin {"policy", "overheat"},
                task'.pc \in {"cool", "restart"} <=> task.pc \in {"cool", "restart"},
                task'.known = task.known
         PROVE  CostInv'
  BY <1>same DEF CostInv, Completed, Pair
<1>1. CASE \E s \in Settings : EditVoltage(s) \/ \E bap \in BOOLEAN : EditFrequency(s, bap)
  BY <1>1, <1>t DEF EditFrequency, EditVoltage, Frugal, Unedited
<1>2. CASE TogglePause \/ FanFault \/ Boot
  BY <1>2 DEF TogglePause, FanFault, Boot, BootBegins, BootProbes, BootEnds, CostInv, Completed
<1>3. CASE \E r \in Readings : StopMining(r) \/ StayPaused(r)
  BY <1>3, <1>t, <1>same DEF StopMining, StayPaused, Sense, TaskStates
<1>4. ASSUME NEW r \in Readings, Sense(r), task'.pc = "policy", task'.known = task.known
      PROVE  CostInv'
  <2>1. At("sense") /\ UNCHANGED <<nvs, overheats>> /\ (Overheating(seen') => overheats < MaxOverheats)
    BY <1>4 DEF Sense, WithinBounds
  <2>2. Overheating(seen)' = Overheating(seen')
    BY DEF Overheating
  <2> QED BY <1>4, <2>1, <2>2 DEF CostInv, Completed
<1>5. CASE \E r \in Readings : Proceed(r)
  BY <1>4, <1>5, <1>t DEF Proceed, TaskStates
<1>6. CASE \E r \in Readings, found \in BOOLEAN : StartMining(r, found)
  BY <1>4, <1>6, <1>t DEF StartMining, TaskStates
<1>7. CASE ThermalStep
  BY <1>7, <1>t DEF ThermalStep, CostInv, Completed, TaskStates
<1>8. CASE Overheat
  <2>1. /\ task'.pc = "cool" /\ task'.known = Pair(nvs) /\ overheats' = overheats + 1
        /\ nvs'.freq = nvs.freq /\ nvs'.volt = nvs.volt /\ nvs'.autotune = nvs.autotune
        /\ overheats < MaxOverheats
    BY <1>8, <1>t DEF Overheat, CostInv, TaskStates
  <2>2. Pair(nvs') = Pair(nvs) /\ Completed' = overheats /\ Completed = overheats
    BY <1>8, <1>t, <2>1 DEF Pair, Completed, Overheat
  <2> QED BY <1>t, <2>1, <2>2 DEF CostInv
<1>9. ASSUME NEW r \in Readings, NEW d \in 0..1, Cool(r, d) PROVE CostInv'
  <2>1. /\ task.pc = "cool" /\ task'.pc \in {"cool", "restart"} /\ task'.known = task.known
        /\ UNCHANGED <<nvs, overheats>>
    BY <1>9, <1>t DEF Cool, TaskStates
  <2> QED BY <1>same, <2>1
<1>10. CASE Reduce
  <2> DEFINE s == Reduced(task.known)
  <2>1. /\ task.pc = "restart" /\ task'.pc = "start" /\ overheats' = overheats
        /\ nvs'.freq = s.freq /\ nvs'.volt = s.volt /\ ~nvs'.autotune
    BY <1>10, <1>t DEF Reduce, CostInv, TaskStates
  <2>2. overheats \in 1..MaxOverheats /\ task.known = ReducedTimes(config.set)[overheats - 1]
    BY <1>t, <2>1 DEF CostInv, Completed
  <2>3. s = ReducedTimes(config.set)[overheats]
    BY <2>2, ReducedTimesStep
  <2>4. Pair(nvs') = s
    BY <2>1 DEF Pair, Reduced
  <2>5. Completed' = overheats
    BY <1>t, <2>1 DEF Completed
  <2> QED BY <1>t, <2>1, <2>2, <2>3, <2>4, <2>5 DEF CostInv
<1>11. ASSUME NEW found \in BOOLEAN, Restart(found) PROVE CostInv'
  <2>1. /\ task.pc = "start" /\ task'.pc = "apply" /\ overheats' = overheats
        /\ nvs'.freq = nvs.freq /\ nvs'.volt = nvs.volt /\ nvs'.autotune = nvs.autotune
    BY <1>11, <1>t DEF Restart, TaskStates
  <2> QED BY <2>1 DEF CostInv, Completed, Pair
<1>12. CASE Apply
  BY <1>12, <1>t, <1>same DEF Apply, TaskStates
<1>13. CASE Tune
  BY <1>13, <1>t, <1>same DEF Tune, CostInv, TaskStates
<1>14. CASE Target
  BY <1>14, <1>t, <1>same DEF Target, Frugal, TaskStates
<1>15. CASE \E d \in 0..1 : Wake(d)
  BY <1>15, <1>t, <1>same DEF Wake, TaskStates
<1>16. CASE UNCHANGED vars
  BY <1>16 DEF vars, CostInv, Completed
<1> QED
  BY <1>1, <1>2, <1>3, <1>5, <1>6, <1>7, <1>8, <1>9, <1>10, <1>11, <1>12, <1>13, <1>14, <1>15, <1>16
     DEF Next, Cycle
-----------------------------------------------------------------------------
(* What a derate makes the ASIC run at beside the tuner, without pauses.      *)

\* A step of the policy leaves its frequency at or below the ceiling, and its voltage, while a
\* derate is outstanding, as well (atm_policy.c:119-160, 240-272).
LEMMA AtmDerated ==
  ASSUME NEW a \in AtmStates, NEW c \in Pairs, NEW in \in Inputs, c.volt >= VOLT_FLOOR
  PROVE  /\ c.freq >= FREQ_MIN /\ a.freq <= c.freq => atm_step(a, c, in).freq <= c.freq
         /\ (a.down => a.volt <= c.volt)
              => (atm_step(a, c, in).down => atm_step(a, c, in).volt <= c.volt)
PROOF
<1> DEFINE Good(b) == b.down => b.volt <= c.volt
<1>1. ASSUME NEW b \in AtmStates
      PROVE  /\ b.freq <= c.freq => Climb(b, c).freq <= c.freq
             /\ Good(b) => Good(Climb(b, c))
  BY <1>1 DEF Climb, ClimbVoltage, ClimbBoth, AtCeiling, AtMost, AtLeast, AtmStates, Pairs,
    VOLT_STEP, FREQ_STEP, VOLT_FLOOR
<1>2. [a EXCEPT !.window = NoWindow] \in AtmStates
  BY DEF AtmStates, Windows
<1>3. /\ a.freq <= c.freq => Recover(a, c, in).freq <= c.freq
      /\ Good(a) => Good(Recover(a, c, in))
  BY <1>1, <1>2 DEF Recover, Observe, AtmStates
<1>4. /\ c.freq >= FREQ_MIN /\ a.freq <= c.freq => Shed(a, c, in).freq <= c.freq
      /\ Good(a) => Good(Shed(a, c, in))
  <2>1. c.freq >= FREQ_MIN => StartupTarget(c) <= c.freq
    BY DEF StartupTarget, AtLeast, Pairs, FREQ_MIN, STARTUP_PERCENT
  <2>2. /\ c.freq >= FREQ_MIN /\ a.freq <= c.freq => StepDown(a, c, in).freq <= c.freq
        /\ StepDown(a, c, in).volt <= c.volt
    BY DEF StepDown, AtLeast, AtMost, AtmStates, Pairs, FREQ_MIN, FREQ_STEP, VOLT_FLOOR, VOLT_STEP
  <2> QED BY <2>1, <2>2 DEF Shed, AtmStates
<1> QED BY <1>3, <1>4 DEF atm_step, AtmStates

\* A derate begins at the settings' frequency, which nothing raises until it has ended.
CalmInv ==
  /\ Whole => atm.freq <= ceiling.freq
  /\ atm.down => atm.volt <= ceiling.volt
  /\ Whole /\ (atm.down \/ task.pc \in {"overheat", "cool", "restart", "start"})
       => nvs.freq <= ceiling.freq
  /\ task.pc \in {"cool", "restart"} => task.known = Pair(nvs)

\* Every step keeps it.
LEMMA CalmStep ==
  ASSUME TypeOK, ForceInv, CalmInv, Unedited, [Next]_vars PROVE CalmInv'
PROOF
<1> USE DEF At, Goto, env, policies, CalmInv, Whole
<1>t. /\ task \in TaskStates /\ asks \in Nat
      /\ nvs \in [freq : Nat, volt : Nat, overheat : BOOLEAN, autotune : BOOLEAN, autofan : BOOLEAN]
  BY DEF TypeOK, TaskOK, SettingsOK, TaskStates
<1>n. /\ ceiling.freq \in Nat /\ ceiling.volt \in Nat /\ atm.freq \in Nat /\ atm.volt \in Nat
      /\ ceiling.volt >= VOLT_FLOOR
  BY StateTypes DEF Pairs, AtmStates, ForceInv
<1>same. ASSUME UNCHANGED <<atm, ceiling>>, nvs'.freq = nvs.freq,
                task'.pc \notin {"overheat", "cool", "restart", "start"}
         PROVE  CalmInv'
  BY <1>same
<1>1. CASE \E s \in Settings : EditVoltage(s) \/ \E bap \in BOOLEAN : EditFrequency(s, bap)
  BY <1>1, <1>t DEF EditFrequency, EditVoltage, Unedited
<1>2. CASE TogglePause \/ FanFault \/ Boot
  BY <1>2 DEF TogglePause, FanFault, Boot, BootBegins, BootProbes, BootEnds
<1>3. CASE \E r \in Readings : StopMining(r) \/ StayPaused(r) \/ Proceed(r)
  BY <1>3, <1>t, <1>same DEF StopMining, StayPaused, Proceed, Sense, TaskStates
<1>4. CASE \E r \in Readings, found \in BOOLEAN : StartMining(r, found)
  BY <1>4, <1>t, <1>same DEF StartMining, Sense, TaskStates
<1>5. CASE ThermalStep
  <2>1. /\ ceiling' \in Pairs /\ Rebased \in AtmStates /\ PolicyInputs \in Inputs
        /\ ceiling' = (IF atm.down THEN ceiling ELSE UserCeiling(nvs))
        /\ atm' = atm_step(Rebased, ceiling', PolicyInputs)
    BY <1>5, StateTypes, InputTypes DEF ThermalStep, Rebased
  <2>2. UserCeiling(nvs).volt >= VOLT_FLOOR /\ UserCeiling(nvs).freq = nvs.freq
    BY StateTypes DEF UserCeiling, AtLeast, VOLT_FLOOR
  <2>3. ceiling'.volt >= VOLT_FLOOR
    BY <1>n, <2>1, <2>2
  <2>4. (Whole' => Rebased.freq <= ceiling'.freq) /\ (Rebased.down => Rebased.volt <= ceiling'.volt)
    <3>1. CASE ~atm.down /\ UserCeiling(nvs) # ceiling
      BY <2>1, <3>1 DEF Rebased, Baseline, Pairs
    <3>2. CASE atm.down \/ UserCeiling(nvs) = ceiling
      BY <2>1, <3>2 DEF Rebased
    <3> QED BY <3>1, <3>2
  <2>5. (Whole' => atm'.freq <= ceiling'.freq) /\ (atm'.down => atm'.volt <= ceiling'.volt)
    BY <2>1, <2>3, <2>4, AtmDerated
  <2>6. Whole' => nvs.freq <= ceiling'.freq
    BY <1>n, <1>t, <2>1, <2>2
  <2>7. nvs' = nvs /\ task'.pc \in {"overheat", "apply"}
    BY <1>5, <1>t DEF ThermalStep, TaskStates
  <2> QED BY <2>5, <2>6, <2>7
<1>6. CASE Overheat
  <2>1. /\ task'.pc = "cool" /\ task'.known = Pair(nvs) /\ UNCHANGED <<atm, ceiling>>
        /\ nvs'.freq = nvs.freq /\ nvs'.volt = nvs.volt /\ task.pc = "overheat"
    BY <1>6, <1>t DEF Overheat, TaskStates
  <2> QED BY <2>1 DEF Pair
<1>7. CASE \E r \in Readings, d \in 0..1 : Cool(r, d)
  BY <1>7, <1>t, AgeLeaves DEF Cool, TaskStates
<1>8. CASE Reduce
  <2>1. task.known.freq = nvs.freq /\ task.pc = "restart"
    BY <1>8 DEF Reduce, Pair
  <2>2. Whole => Reduced(task.known).freq <= ceiling.freq
    BY <1>8, <1>n, <1>t, <2>1 DEF Reduce, Reduced, AtLeast, FREQ_MIN, VOLT_FLOOR, ASIC_REDUCTION
  <2>3. /\ nvs'.freq = Reduced(task.known).freq
        /\ task'.pc = "start" /\ atm' = atm /\ ceiling' = ceiling
    BY <1>8, <1>t DEF Reduce, TaskStates
  <2> QED BY <2>2, <2>3
<1>9. ASSUME NEW found \in BOOLEAN, Restart(found) PROVE CalmInv'
  <2>1. /\ atm'.freq = nvs.freq /\ ~atm'.down /\ ceiling' = ceiling /\ task'.pc = "apply"
        /\ task.pc = "start"
    BY <1>9, <1>t DEF Restart, Unlatched, Baseline, UserCeiling, TaskStates
  <2> QED BY <2>1
<1>10. CASE Apply
  BY <1>10, <1>t, <1>same DEF Apply, TaskStates
<1>11. CASE Tune
  BY <1>11, <1>t, <1>same, SMTT(20), ZenonT(20) DEF Tune, TuneVoltage, TaskStates
<1>12. CASE Target
  <2>1. task'.pc = "sleep" /\ task.pc = "target" /\ ceiling' = ceiling /\ atm' = atm
    BY <1>12, <1>t DEF Target, TaskStates
  <2>2. atm.down => nvs' = nvs
    BY <1>12 DEF Target
  <2> QED BY <2>1, <2>2
<1>13. CASE \E d \in 0..1 : Wake(d)
  BY <1>13, <1>t, AgeLeaves DEF Wake, TaskStates
<1>14. CASE UNCHANGED vars
  BY <1>14 DEF vars
<1> QED
  BY <1>1, <1>2, <1>3, <1>4, <1>5, <1>6, <1>7, <1>8, <1>9, <1>10, <1>11, <1>12, <1>13, <1>14
     DEF Next, Cycle

LEMMA CalmInit == Init => CalmInv
PROOF
<1> SUFFICES ASSUME Init PROVE CalmInv
  OBVIOUS
<1>1. config.set.freq \in Nat /\ config.set.volt \in Nat
  BY PairTypes DEF Init
<1> QED BY <1>1 DEF Init, CalmInv, UserCeiling, Baseline, Whole
-----------------------------------------------------------------------------
(* Where the tuner ends. *)

IsWhole(v) == (v - VOLT_FLOOR) % TUNE_STEP = 0

\* Whole steps stay whole, and a search with no step in flight is at a proven voltage.
Search(v) == /\ IsWhole(v.volt) /\ IsWhole(v.proven)
             /\ v.pending => v.volt >= VOLT_FLOOR /\ v.proven >= VOLT_FLOOR
             /\ ~v.pending => v.volt = v.proven
             /\ v.finished => ~v.pending
LEMMA SearchStep ==
  ASSUME NEW v \in TunerStates, Search(v), NEW t \in Int, NEW ok \in BOOLEAN
  PROVE  Search(vf_step(v, t, ok).vf)
PROOF
<1> USE DEF Search, IsWhole, TunerStates, TUNE_STEP, VOLT_FLOOR
<1>1. CASE v.finished \/ (v.pending /\ v.age < SETTLE)
  BY <1>1 DEF vf_step
<1>2. CASE ~v.finished /\ ~v.pending
  <2>1. Search(Begin(v, t, ok).vf)
    BY <1>2 DEF Begin, Finish, Lower, UnderFloor
  <2> QED BY <1>2, <2>1 DEF vf_step
<1>3. CASE ~v.finished /\ v.pending
  <2>1. Search(Rejected(v).vf)
    BY <1>3 DEF Rejected, Finish
  <2>2. UnderFloor(v) => v.volt = VOLT_FLOOR
    BY <1>3 DEF UnderFloor
  <2>3. Search(Accepted(v).vf)
    BY <1>3, <2>2 DEF Accepted, Finish, Lower, UnderFloor
  <2> QED BY <1>1, <1>3, <2>1, <2>3 DEF vf_step
<1> QED BY <1>1, <1>2, <1>3

TunerInv == Search(vf) /\ IsWhole(nvs.volt) /\ IsWhole(task.known.volt)

\* Every step keeps it, edits of the settings included.
LEMMA TunerStep ==
  ASSUME TypeOK, TunerInv, WholeSteps, [Next]_vars PROVE TunerInv'
PROOF
<1> USE DEF At, Goto, env, policies, TunerInv
<1>t. /\ task \in TaskStates
      /\ nvs \in [freq : Nat, volt : Nat, overheat : BOOLEAN, autotune : BOOLEAN, autofan : BOOLEAN]
      /\ vf \in TunerStates
  BY StateTypes DEF TypeOK, TaskOK, SettingsOK, TaskStates
<1>same. ASSUME vf' = vf, nvs'.volt = nvs.volt, task'.known = task.known PROVE TunerInv'
  BY <1>same
<1>age. ASSUME NEW d \in 0..1, Age(d) PROVE Search(vf)'
  <2>1. /\ vf'.volt = vf.volt /\ vf'.proven = vf.proven /\ vf'.pending = vf.pending
        /\ vf'.finished = vf.finished
    BY <1>t, <1>age DEF Age, TunerOlder, TunerStates
  <2> QED BY <2>1 DEF Search
<1>1. ASSUME NEW s \in Settings, EditVoltage(s) PROVE TunerInv'
  <2>1. nvs'.volt = s.volt /\ vf' = vf /\ task' = task
    BY <1>1, <1>t DEF EditVoltage
  <2> QED BY <2>1 DEF WholeSteps, IsWhole
<1>2. CASE \/ \E s \in Settings, bap \in BOOLEAN : EditFrequency(s, bap)
           \/ TogglePause \/ FanFault \/ Boot
  BY <1>2, <1>t, <1>same DEF EditFrequency, TogglePause, FanFault, Boot, BootBegins, BootProbes, BootEnds
<1>3. CASE \E r \in Readings : StopMining(r) \/ StayPaused(r) \/ Proceed(r)
  BY <1>3, <1>t, <1>same DEF StopMining, StayPaused, Proceed, Sense, TaskStates
<1>4. CASE \E r \in Readings, found \in BOOLEAN : StartMining(r, found)
  BY <1>4, <1>t, <1>same DEF StartMining, Sense, TaskStates
<1>5. CASE ThermalStep
  BY <1>5, <1>t, <1>same DEF ThermalStep, TaskStates
<1>6. CASE Overheat
  <2>1. nvs'.volt = nvs.volt /\ task'.known.volt = nvs.volt /\ vf' = vf
    BY <1>6, <1>t DEF Overheat, TaskStates, Pair
  <2> QED BY <2>1
<1>7. ASSUME NEW r \in Readings, NEW d \in 0..1, Cool(r, d) PROVE TunerInv'
  <2>1. nvs'.volt = nvs.volt /\ task'.known = task.known
    BY <1>7, <1>t DEF Cool, TaskStates
  <2> QED BY <1>7, <1>age, <2>1 DEF Cool
<1>8. CASE Reduce
  <2>1. nvs'.volt = Reduced(task.known).volt /\ vf' = vf /\ task'.known = task.known
    BY <1>8, <1>t DEF Reduce, TaskStates
  <2>2. IsWhole(Reduced(task.known).volt)
    <3> DEFINE v == task.known.volt
    <3>1. v \in Nat /\ IsWhole(v)
      BY StateTypes, PairTypes
    <3>2. Reduced(task.known).volt = AtLeast(VOLT_FLOOR, IF v > 100 THEN v - 100 ELSE VOLT_FLOOR)
      BY DEF Reduced, ASIC_REDUCTION
    <3> HIDE DEF v
    <3>3. IsWhole(v - 100) /\ IsWhole(VOLT_FLOOR)
      BY <3>1 DEF IsWhole, VOLT_FLOOR, TUNE_STEP
    <3>4. Reduced(task.known).volt \in {v - 100, VOLT_FLOOR}
      BY <3>1, <3>2 DEF AtLeast, VOLT_FLOOR
    <3> QED BY <3>3, <3>4
  <2> QED BY <2>1, <2>2
<1>9. CASE \E found \in BOOLEAN : Restart(found)
  BY <1>9, <1>t, <1>same DEF Restart, TaskStates
<1>10. CASE Apply
  <2>1. nvs' = nvs /\ task'.known = task.known
        /\ (vf' = vf \/ (~atm.down /\ vf' = TunerAt(OperatingPoint.volt)))
    BY <1>10, <1>t DEF Apply, TaskStates
  <2>2. ~atm.down => OperatingPoint.volt = nvs.volt
    BY DEF OperatingPoint, Pair
  <2>3. Search(TunerAt(nvs.volt))
    BY DEF Search, TunerAt
  <2> QED BY <2>1, <2>2, <2>3
<1>11. CASE Tune
  <2>1. CASE TuneVoltage
    <3> DEFINE v == vf_step(vf, seen.t1, seen.tel = "good").vf
    <3>1. Search(v)
      BY <1>t, StateTypes, SearchStep
    <3>2. vf' = v /\ nvs'.volt \in {nvs.volt, v.volt} /\ task'.known = task.known
      BY <1>t, <2>1 DEF TuneVoltage, TaskStates
    <3> HIDE DEF v
    <3> QED BY <3>1, <3>2 DEF Search
  <2>2. CASE Goto("target") /\ UNCHANGED <<nvs, chip, vf>>
    BY <1>t, <1>same, <2>2 DEF TaskStates
  <2> QED BY <1>11, <2>1, <2>2 DEF Tune
<1>12. CASE Target
  BY <1>12, <1>t, <1>same DEF Target, TaskStates
<1>13. ASSUME NEW d \in 0..1, Wake(d) PROVE TunerInv'
  BY <1>13, <1>t, <1>age DEF Wake, TaskStates
<1>14. CASE UNCHANGED vars
  BY <1>14, <1>same DEF vars
<1> QED
  BY <1>1, <1>2, <1>3, <1>4, <1>5, <1>6, <1>7, <1>8, <1>9, <1>10, <1>11, <1>12, <1>13, <1>14
     DEF Next, Cycle

LEMMA TunerInit == Init => (WholeSteps => TunerInv)
PROOF
<1> SUFFICES ASSUME Init, WholeSteps PROVE TunerInv
  OBVIOUS
<1>1. config.set \in Settings /\ config.set.volt \in Nat /\ IsWhole(config.set.volt)
  BY PairTypes DEF Init, WholeSteps, IsWhole
<1>2. IsWhole(0) /\ IsWhole(ceiling.volt)
  BY <1>1 DEF Init, IsWhole, UserCeiling, AtLeast, VOLT_FLOOR, TUNE_STEP
<1> QED BY <1>1, <1>2 DEF Init, TunerInv, Search, TunerAt

\* Overheats, derates and the tuner compose, for all readings, settings and environments: only
\* completed overheats cost, once each, a derate is in force and lowers, with the tuner and through
\* overheats, and the tuner leaves the ASIC at a voltage that passed its gate.
THEOREM EverythingComposes == Spec => []PoliciesCompose
PROOF
<1> DEFINE Inv == /\ Unedited => ForceInv
                  /\ Quiet => QuietInv
                  /\ Unedited => CalmInv
                  /\ Frugal => CostInv
                  /\ WholeSteps => TunerInv
<1>1. Init => Inv
  BY ForceInit, CalmInit, CostInit, TunerInit
<1>2. TypeOK /\ TypeOK' /\ Inv /\ [Next]_vars => Inv'
  BY ConfigStays, ForceStep, QuietStep, CalmStep, CostStep, TunerStep
     DEF Unedited, Quiet, Frugal, WholeSteps
<1>3. Inv => OnlyOverheatsCost
  BY DEF Unedited, Frugal, CostInv, Completed, OnlyOverheatsCost
<1>4. Inv => TunerEndsProven
  BY DEF TunerInv, Search, TunerEndsProven
<1>5. TypeOK /\ Inv => (config.pauses = 0 => DerateLowers)
  <2> SUFFICES ASSUME TypeOK, ForceInv, QuietInv, CalmInv, Whole,
                      At("tune"), chip.init, atm.down
               PROVE  chip.freq <= ceiling.freq /\ chip.volt <= ceiling.volt
    BY DEF Unedited, Quiet, Whole, DerateLowers, NeverOverclocks
  <2>1. chip.freq = atm.freq /\ chip.volt = atm.volt
    BY DEF ForceInv, QuietInv, OperatingPoint, Pair
  <2> QED BY <2>1 DEF CalmInv
<1>6. (config.pauses = 0 => DerateLowers) /\ (~config.autotune => DerateLowers) => DerateLowers
  BY DEF DerateLowers
<1> HIDE DEF Inv
<1>7. OnlyOverheatsCost /\ DerateInForce /\ DerateLowers /\ TunerEndsProven => PoliciesCompose
  BY DEF PoliciesCompose
<1> QED BY <1>1, <1>2, <1>3, <1>4, <1>5, <1>6, <1>7, TypeCorrect, DerateStaysInForce,
           DerateOnlyLowers, PTL DEF Spec
=============================================================================
