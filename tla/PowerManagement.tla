--------------------------- MODULE PowerManagement ---------------------------
(***************************************************************************)
(* The loop of POWER_MANAGEMENT_task (main/tasks/power_management_task.c): *)
(* it reads the sensors, stops and starts the ASIC, and lets the thermal   *)
(* policy, the overheat backstop, the voltage tuner and the power target   *)
(* choose what the ASIC runs at, while the user edits the settings and     *)
(* pools, user and fan ask for pauses.                                     *)
(***************************************************************************)
EXTENDS PowerTarget

CONSTANTS
  Readings,         \* what the sensors may show in one cycle: [t1, t2, vr, fan, tel, power]
  Configs,          \* the environments: [set, autotune, target] and bounds [edits, pauses]
  Settings,         \* the pairs [freq, volt] a user may choose
  BAD_READING_MAX,  \* cycles without a plausible chip sensor before the regulator stands in
  MIN_COOLING,      \* MIN_COOLING_CYCLES
  MaxOverheats  \* bound of the model

ASSUME LoopAssumption ==
  /\ BAD_READING_MAX \in Nat \ {0} /\ MIN_COOLING \in Nat \ {0}
  /\ MaxOverheats \in Nat
  /\ Settings \subseteq [freq : Nat \ {0}, volt : Nat]
  /\ Readings \subseteq [t1 : Int, t2 : Int, vr : Int, fan : Nat,
                         tel : {"none", "good", "poor"}, power : PowerReadings]
  /\ Configs \subseteq [set : Settings, edits : Nat, pauses : Nat,
                        autotune : BOOLEAN, target : BOOLEAN]

VARIABLES
  config,   \* the environment, fixed
  nvs,      \* the settings in NVS: [freq, volt, overheat, autotune, autofan]
  sys,      \* SYSTEM_MODULE: [stop (paused or pools unavailable), fault], and main's bring-up: boot
  chip,     \* the hardware: [init (ASIC_initalized), volt (0: off), freq], and as history late:
            \* main declared it initialised after its power was cut
  task,     \* the locals: [pc, paused, volt, freq (last programmed), bad, known, cycles]
  ceiling,  \* atm_cfg's ceilings: [freq, volt]
  atm, vf, pt,  \* the states of the three policies
  seen,     \* the readings of this cycle
  uptime,   \* ticks since boot, up to STARTUP
  asks, overheats  \* how often settings were edited or pauses toggled, and the backstop fired

env == <<config, asks>>
policies == <<ceiling, atm, vf, pt>>
vars == <<config, nvs, sys, chip, task, policies, seen, uptime, asks, overheats>>

NoSensor == -1
IMPLAUSIBLE == -64
TPS546_THROTTLE_TEMP == 105
ASIC_REDUCTION == 100

Pair(r) == [freq |-> r.freq, volt |-> r.volt]
At(pc) == task.pc = pc
Goto(pc) == task' = [task EXCEPT !.pc = pc]

\* atm_ceiling_frequency and atm_ceiling_voltage.
UserCeiling(s) == [freq |-> s.freq, volt |-> AtLeast(VOLT_FLOOR, s.volt)]

\* mining_stop and mining_start: a start takes the pair from NVS; if it finds no chip, it leaves
\* ASIC_initalized as it was.
Off == [init |-> FALSE, volt |-> 0, freq |-> 50, late |-> FALSE]
Started(settings, found) ==
  [init |-> found, volt |-> settings.volt, freq |-> settings.freq, late |-> FALSE]

\* The chip's sensors read -1 while the ASIC is not initialised.
Read(r) == IF chip.init THEN r ELSE [r EXCEPT !.t1 = NoSensor, !.t2 = NoSensor]

\* asic_overheat, or the regulator's own limit.  The input voltage is always above 1000 mV.
Overheating(r) == r.vr > TPS546_THROTTLE_TEMP \/ r.t1 > SHUTDOWN_TEMP \/ r.t2 > SHUTDOWN_TEMP

WithinBounds(r) == Overheating(r) => overheats < MaxOverheats

Init ==
  /\ config \in Configs
  /\ nvs = [freq |-> config.set.freq, volt |-> config.set.volt, overheat |-> FALSE,
            autotune |-> config.autotune, autofan |-> TRUE]
  /\ sys = [stop |-> FALSE, fault |-> FALSE, boot |-> "waiting"]
  /\ chip = Started(config.set, FALSE)
  /\ task = [pc |-> "sense", paused |-> FALSE, volt |-> 0, freq |-> config.set.freq, bad |-> 0,
             known |-> [freq |-> 0, volt |-> 0], cycles |-> 0]
  /\ ceiling = UserCeiling(config.set)
  /\ atm = Baseline(ceiling)
  /\ vf = TunerAt(ceiling.volt)
  /\ pt = FullBudget
  /\ seen \in {Read(r) : r \in {x \in Readings : ~Overheating(x)}}
  /\ uptime = 0 /\ asks = 0 /\ overheats = 0

-----------------------------------------------------------------------------
(* The environment: AxeOS and BAP edit the settings, the coordinator and the user pause, and the
   fan controller reports a fault that is never taken back. *)

\* The frequency; BAP gives it to the chip as well.
EditFrequency(s, bap) ==
  /\ asks < config.edits /\ s.freq # nvs.freq
  /\ nvs' = [nvs EXCEPT !.freq = s.freq]
  /\ chip' = IF bap /\ chip.init THEN [chip EXCEPT !.freq = s.freq] ELSE chip
  /\ asks' = asks + 1
  /\ UNCHANGED <<config, sys, task, policies, seen, uptime, overheats>>

\* The voltage, which AxeOS writes after the frequency and as a setting of its own.
EditVoltage(s) ==
  /\ asks < config.edits /\ s.volt # nvs.volt
  /\ nvs' = [nvs EXCEPT !.volt = s.volt]
  /\ asks' = asks + 1
  /\ UNCHANGED <<config, sys, chip, task, policies, seen, uptime, overheats>>

TogglePause ==
  /\ asks < config.pauses
  /\ sys' = [sys EXCEPT !.stop = ~@]
  /\ asks' = asks + 1
  /\ UNCHANGED <<config, nvs, chip, task, policies, seen, uptime, overheats>>

FanFault ==
  /\ ~sys.fault /\ asks < config.pauses
  /\ sys' = [sys EXCEPT !.fault = TRUE]
  /\ asks' = asks + 1
  /\ UNCHANGED <<config, nvs, chip, task, policies, seen, uptime, overheats>>

\* main initialises the ASIC once, when Wi-Fi is up and the loop has been running for a while.  It
\* takes seconds, beside the loop: main resets and probes the chips, which answer only if they have
\* power, ramps their frequency, and at the end declares them initialised without another look.
BootBegins ==
  /\ sys.boot = "waiting" /\ sys' = [sys EXCEPT !.boot = "probing"]
  /\ UNCHANGED <<env, nvs, chip, task, policies, seen, uptime, overheats>>

BootProbes(found) ==
  /\ sys.boot = "probing" /\ (found => chip.volt > 0)
  /\ sys' = [sys EXCEPT !.boot = IF found THEN "found" ELSE "done"]
  /\ UNCHANGED <<env, nvs, chip, task, policies, seen, uptime, overheats>>

BootEnds ==
  /\ sys.boot = "found" /\ sys' = [sys EXCEPT !.boot = "done"]
  /\ chip' = [chip EXCEPT !.init = TRUE, !.late = chip.volt = 0]
  /\ UNCHANGED <<env, nvs, task, policies, seen, uptime, overheats>>

Boot == BootBegins \/ BootEnds \/ \E found \in BOOLEAN : BootProbes(found)

-----------------------------------------------------------------------------
(* The loop. *)

WantsStop == sys.stop \/ sys.fault

Sense(r) ==
  /\ At("sense") /\ WithinBounds(Read(r))
  /\ seen' = Read(r)
  /\ UNCHANGED <<env, nvs, sys, policies, uptime, overheats>>

\* What if: the loop goes on after stopping.
StopMining_NoContinue(r) ==
  /\ Sense(r) /\ WantsStop /\ ~task.paused
  /\ chip' = Off /\ task' = [task EXCEPT !.pc = "policy", !.paused = TRUE]

StopMining(r) ==
  /\ Sense(r) /\ WantsStop /\ ~task.paused
  /\ chip' = Off /\ task' = [task EXCEPT !.pc = "sleep", !.paused = TRUE]

StartMining(r, found) ==
  /\ Sense(r) /\ ~WantsStop /\ task.paused
  /\ chip' = Started(nvs, found \/ chip.init) /\ task' = [task EXCEPT !.pc = "policy", !.paused = FALSE]

StayPaused(r) == Sense(r) /\ WantsStop /\ task.paused /\ Goto("sleep") /\ UNCHANGED chip
Proceed(r) == Sense(r) /\ ~WantsStop /\ ~task.paused /\ Goto("policy") /\ UNCHANGED chip

\* The sensor quorum: the first plausible chip sensor; after enough cycles without one the
\* regulator stands in for one cycle; otherwise -1.
Plausible(t) == t >= -40 /\ t <= 150
Blind(r) == ~Plausible(r.t1) /\ ~Plausible(r.t2)
StandIn == task.bad + 1 >= BAD_READING_MAX /\ Plausible(seen.vr)
ChipTemp ==
  IF Plausible(seen.t1) THEN seen.t1
  ELSE IF Plausible(seen.t2) THEN seen.t2
  ELSE IF StandIn THEN seen.vr ELSE NoSensor
BadReadings == IF ~Blind(seen) \/ StandIn THEN 0 ELSE AtMost(BAD_READING_MAX, task.bad + 1)

PolicyInputs ==
  [chip |-> ChipTemp, vr |-> seen.vr, fan |-> seen.fan, healthy |-> seen.tel # "poor",
   uptime |-> uptime]

\* While no derate is outstanding the policy's baseline follows the user's settings.
Rebased == IF ~atm.down /\ UserCeiling(nvs) # ceiling THEN Baseline(UserCeiling(nvs)) ELSE atm

ThermalStep ==
  /\ At("policy")
  /\ ceiling' = IF atm.down THEN ceiling ELSE UserCeiling(nvs)
  /\ atm' = atm_step(Rebased, ceiling', PolicyInputs)
  /\ task' = [task EXCEPT !.bad = BadReadings,
                          !.pc = IF Overheating(seen) THEN "overheat" ELSE "apply"]
  /\ UNCHANGED <<env, nvs, sys, chip, vf, pt, seen, uptime, overheats>>

\* What if: the pair in force is remembered instead of the settings.
Overheat_RemembersApplied ==
  /\ At("overheat")
  /\ nvs' = [nvs EXCEPT !.overheat = TRUE, !.autofan = FALSE]
  /\ chip' = Off
  /\ task' = [task EXCEPT !.pc = "cool", !.cycles = 0,
                          !.known = [freq |-> task.freq, volt |-> task.volt]]
  /\ overheats' = overheats + 1
  /\ UNCHANGED <<env, sys, policies, seen, uptime>>

\* The backstop: remember the settings, fan to 100 %, stop, and cool down.
Overheat ==
  /\ At("overheat")
  /\ nvs' = [nvs EXCEPT !.overheat = TRUE, !.autofan = FALSE]
  /\ chip' = Off
  /\ task' = [task EXCEPT !.pc = "cool", !.known = Pair(nvs), !.cycles = 0]
  /\ overheats' = overheats + 1
  /\ UNCHANGED <<env, sys, policies, seen, uptime>>

Age(d) ==
  /\ atm' = AtmOlder(atm, d) /\ vf' = TunerOlder(vf, d) /\ pt' = TargetOlder(pt, d)
  /\ uptime' = Older(STARTUP, uptime, d)

Cool(r, d) ==
  /\ At("cool")
  /\ seen' = [seen EXCEPT !.vr = r.vr]
  /\ LET cycles == AtMost(MIN_COOLING, task.cycles + 1)
         cooled == cycles >= MIN_COOLING /\ r.vr <= TPS546_THROTTLE_TEMP - 10
     IN task' = [task EXCEPT !.cycles = cycles, !.pc = IF cooled THEN "restart" ELSE "cool"]
  /\ Age(d)
  /\ UNCHANGED <<env, nvs, sys, chip, ceiling, overheats>>

\* What if: a flat reduction.
Reduced_NoFloor(s) ==
  [freq |-> IF s.freq > ASIC_REDUCTION THEN s.freq - ASIC_REDUCTION ELSE FREQ_MIN,
   volt |-> IF s.volt > ASIC_REDUCTION THEN s.volt - ASIC_REDUCTION ELSE VOLT_FLOOR]

\* What the settings remembered before the cooldown are reduced to.
Reduced(s) ==
  [freq |-> IF s.freq > ASIC_REDUCTION THEN s.freq - ASIC_REDUCTION ELSE FREQ_MIN,
   volt |-> AtLeast(VOLT_FLOOR, IF s.volt > ASIC_REDUCTION THEN s.volt - ASIC_REDUCTION
                                ELSE VOLT_FLOOR)]

Reduce ==
  /\ At("restart")
  /\ LET s == Reduced(task.known)
     IN nvs' = [nvs EXCEPT !.freq = s.freq, !.volt = s.volt]
  /\ Goto("start")
  /\ UNCHANGED <<env, sys, chip, policies, seen, uptime, overheats>>

Restart(found) ==
  /\ At("start")
  /\ chip' = Started(nvs, found \/ chip.init)
  /\ nvs' = [nvs EXCEPT !.overheat = ~found]
  /\ atm' = Unlatched(Baseline(UserCeiling(nvs)))
  /\ Goto("apply")
  /\ UNCHANGED <<env, sys, ceiling, vf, pt, seen, uptime, overheats>>

\* The pair this cycle runs at: the policy's while a derate is outstanding, else the user's.
OperatingPoint == IF atm.down THEN Pair(atm) ELSE Pair(nvs)

Apply ==
  /\ At("apply")
  /\ LET p == OperatingPoint
     IN /\ chip' = [chip EXCEPT !.volt = IF p.volt = task.volt THEN @ ELSE p.volt,
                                !.freq = IF p.freq = task.freq THEN @ ELSE p.freq]
        /\ task' = [task EXCEPT !.volt = p.volt, !.freq = p.freq, !.pc = "tune"]
        /\ vf' = IF p.freq # task.freq /\ ~atm.down THEN TunerAt(p.volt) ELSE vf
  /\ UNCHANGED <<env, nvs, sys, ceiling, atm, pt, seen, uptime, overheats>>

\* What if: last_core_voltage is not told of the tuner's voltage.
TuneVoltage_LastStale ==
  LET step == vf_step(vf, seen.t1, seen.tel = "good")
      moves == step.act # "none" /\ step.vf.volt # task.volt
      volt(old) == IF moves THEN step.vf.volt ELSE old
  IN /\ vf' = step.vf
     /\ chip' = [chip EXCEPT !.volt = volt(@)]
     /\ nvs' = [nvs EXCEPT !.volt = volt(@), !.autotune = ~Over(step.act)]
     /\ task' = [task EXCEPT !.pc = "target"]

\* The tuner writes what it decides to the regulator and to NVS.
TuneVoltage ==
  LET step == vf_step(vf, seen.t1, seen.tel = "good")
      moves == step.act # "none" /\ step.vf.volt # task.volt
      volt(old) == IF moves THEN step.vf.volt ELSE old
  IN /\ vf' = step.vf
     /\ chip' = [chip EXCEPT !.volt = volt(@)]
     /\ nvs' = [nvs EXCEPT !.volt = volt(@), !.autotune = ~Over(step.act)]
     /\ task' = [task EXCEPT !.volt = volt(@), !.pc = "target"]

Tune ==
  /\ At("tune")
  /\ IF nvs.autotune /\ chip.init /\ ~sys.fault THEN TuneVoltage
     ELSE Goto("target") /\ UNCHANGED <<nvs, chip, vf>>
  /\ UNCHANGED <<env, sys, ceiling, atm, pt, seen, uptime, overheats>>

\* The power target writes the frequency its budget allows to NVS.
BudgetCeiling == IF task.known.freq > 0 THEN task.known.freq ELSE ceiling.freq
Differs(f) == f - task.freq > 1 \/ task.freq - f > 1

Target ==
  /\ At("target")
  /\ IF config.target /\ chip.init /\ ~sys.fault /\ ~atm.down
     THEN LET next == pt_step(pt, seen.power)
              freq == ScaledTo(BudgetCeiling, next.mw)
          IN /\ pt' = next
             /\ nvs' = IF next.mw # pt.mw /\ Differs(freq) THEN [nvs EXCEPT !.freq = freq] ELSE nvs
     ELSE UNCHANGED <<pt, nvs>>
  /\ Goto("sleep")
  /\ UNCHANGED <<env, sys, chip, ceiling, atm, vf, seen, uptime, overheats>>

Wake(d) ==
  /\ At("sleep") /\ Goto("sense") /\ Age(d)
  /\ UNCHANGED <<env, nvs, sys, chip, ceiling, seen, overheats>>

Cycle ==
  \/ \E r \in Readings : StopMining(r) \/ StayPaused(r) \/ Proceed(r)
  \/ \E r \in Readings, found \in BOOLEAN : StartMining(r, found)
  \/ ThermalStep \/ Overheat \/ Reduce \/ Apply \/ Tune \/ Target
  \/ \E r \in Readings, d \in 0..1 : Cool(r, d)
  \/ \E found \in BOOLEAN : Restart(found)
  \/ \E d \in 0..1 : Wake(d)

Next ==
  \/ Cycle
  \/ Boot
  \/ \E s \in Settings : EditVoltage(s) \/ \E bap \in BOOLEAN : EditFrequency(s, bap)
  \/ TogglePause \/ FanFault

Spec == Init /\ [][Next]_vars

\* The task runs (priority 10), and so does main; the task's cycles take time: ticks go by.
FairSpec == Spec /\ WF_vars(Cycle) /\ SF_vars(Wake(1)) /\ WF_vars(Boot)

-----------------------------------------------------------------------------
(* Properties. *)

Phases == {"sense", "policy", "overheat", "cool", "restart", "start", "apply", "tune", "target", "sleep"}
BootPhases == {"waiting", "probing", "found", "done"}
Pairs == [freq : Nat, volt : Nat]
SettingsOK ==
  /\ config \in Configs
  /\ nvs \in [freq : Nat, volt : Nat, overheat : BOOLEAN, autotune : BOOLEAN, autofan : BOOLEAN]
  /\ sys \in [stop : BOOLEAN, fault : BOOLEAN, boot : BootPhases]
  /\ chip \in [init : BOOLEAN, volt : Nat, freq : Nat, late : BOOLEAN]
TaskOK ==
  /\ task \in [pc : Phases, paused : BOOLEAN, volt : Nat, freq : Nat, bad : 0..BAD_READING_MAX,
               known : Pairs, cycles : 0..MIN_COOLING]
  /\ seen \in [t1 : Int, t2 : Int, vr : Int, fan : Nat, tel : {"none", "good", "poor"},
               power : PowerReadings]
  /\ uptime \in 0..STARTUP /\ asks \in Nat /\ overheats \in Nat
PoliciesOK ==
  /\ ceiling \in Pairs
  /\ atm \in AtmStates /\ vf \in TunerStates /\ pt \in BudgetStates

\* The type invariant of the power management task and its three policies.
TypeOK == SettingsOK /\ TaskOK /\ PoliciesOK

\* Whoever stopped mining (the user, the pools, a fan fault or the backstop), before, during or
\* after main's bring-up, the ASIC has no power until mining_start (128-156, 309-322, 454), and no
\* driver believes that it is running: 145, "Mark uninitialized immediately so tasks stop issuing
\* UART commands".  Except when main had found the chips before that stop and declares them
\* initialised in the middle of it (main.c:228, asic_init.c:98; README).
StoppedIsOff ==
  task.paused \/ task.pc \in {"cool", "restart", "start"} =>
    chip.volt = 0 /\ (chip.init => chip.late)

\* No chain of derates, overheats and tuner steps takes the regulator under its floor, which it
\* answers with a false power fault (98-100, 491-500, vf_tuner.c:76, atm_policy.c:133), unless the
\* user asked for less: neither AxeOS nor BAP nor the loop refuses that.
RegulatorFloor ==
  (\A s \in Settings : s.volt >= VOLT_FLOOR) =>
    /\ chip.volt = 0 \/ chip.volt >= VOLT_FLOOR
    /\ nvs.volt >= VOLT_FLOOR

Regular == \A s \in Settings : s.freq >= FREQ_MIN /\ s.volt >= VOLT_FLOOR
\* Whatever the tuner, the power target and the overheats do to the settings, they never leave
\* them above what the user chose, unless that is below what the policies go down to (488-503,
\* 599-603, 651-664).
SettingsNeverRaised ==
  Regular /\ config.edits = 0 => nvs.freq <= config.set.freq /\ nvs.volt <= config.set.volt

\* A thermal event that ATM survives costs nothing permanent: without tuner and power target, only
\* completed overheats have reduced the settings, once each (425-430, 501-502).
ReducedTimes(set) ==
  LET times[k \in 0..MaxOverheats] == IF k = 0 THEN Pair(set) ELSE Reduced(times[k - 1])
  IN times
OnlyOverheatsCost ==
  LET completed == overheats - (IF task.pc \in {"cool", "restart"} THEN 1 ELSE 0)
  IN config.edits = 0 /\ ~config.autotune /\ ~config.target
       => Pair(nvs) = ReducedTimes(config.set)[completed]

\* What the task programmed and what it believes to have programmed agree: after every cycle the
\* ASIC runs at the policy's pair while a derate is outstanding, and at the user's otherwise, also
\* after overheats and failed restarts (534-557).  Not after a pause during a derate (README).
InForce == At("tune") /\ chip.init => Pair(chip) = OperatingPoint
DerateInForce == config.pauses = 0 /\ config.edits = 0 => InForce

\* "ATM may only work below" the user's setting, "never above" (226-228): what a derate makes the
\* ASIC run at does not exceed the ceiling.  False of a user frequency below 400 MHz, and after a
\* pause while the tuner raised the voltage of the settings (README).
NeverOverclocks ==
  At("tune") /\ chip.init /\ atm.down =>
    chip.freq <= ceiling.freq /\ chip.volt <= ceiling.volt
DerateLowers ==
  /\ config.edits = 0 /\ ceiling.freq >= FREQ_MIN
  /\ config.pauses = 0 \/ ~config.autotune
  => NeverOverclocks

\* The search ends at the last voltage that passed the gate, if the settings are whole steps above
\* the floor (vf_tuner.c:63-87).
WholeSteps == \A s \in Settings : (s.volt - VOLT_FLOOR) % TUNE_STEP = 0
TunerEndsProven == WholeSteps /\ vf.finished => vf.volt = vf.proven

\* Overheats, derates and the tuner compose: only a completed overheat costs part of the settings,
\* a derate is in force and lowers, and the tuner leaves the ASIC at a voltage it has proven.
PoliciesCompose == OnlyOverheatsCost /\ DerateInForce /\ DerateLowers /\ TunerEndsProven

\* A derate ends: once the chip stays cool and healthy and nothing asks for a stop, the ASIC comes
\* back to the user's pair for good, whatever happened before (atm_policy.c:163-272).  The latch of
\* a shutdown nobody acts on, and a voltage range with more steps than the frequency range, are
\* excepted (README).
Calm ==
  /\ seen.t1 <= HOT_TEMP - BUFFER_TEMP - RECHECK_MARGIN /\ Plausible(seen.t1)
  /\ seen.vr <= VR_HOT_TEMP - BUFFER_TEMP - RECHECK_MARGIN
  /\ seen.tel # "poor" /\ ~WantsStop /\ ~atm.latch
Roomy ==
  /\ ceiling.freq > FREQ_MIN
  /\ (ceiling.freq - FREQ_MIN) * VOLT_STEP >= (ceiling.volt - VOLT_FLOOR) * FREQ_STEP
CoolRecovers ==
  config.edits = 0 /\ <>[](Calm /\ Roomy) => <>[](At("tune") /\ chip.init => Pair(chip) = Pair(nvs))

\* A chip that stays hot, but not hot enough for the backstop, is brought down to the lowest
\* frequency, unless pauses or edits undid the derate (atm_policy.c:119-160).
HotSheds ==
  config.pauses = 0 /\ config.edits = 0 /\ <>[](~atm.latch /\ seen.t1 >= HOT_TEMP /\ seen.t1 < SHUTDOWN_TEMP)
    => <>[](At("tune") => chip.freq <= FREQ_MIN)

\* atm_policy.c:119-238: both, whichever the chip is.
ThermalSettles == CoolRecovers /\ HotSheds

\* The comment at 534-538 says of every derate what CoolRecovers says of roomy settings.  False when
\* the frequency reaches the ceiling first (README).
DerateEnds == atm.down => ~AtCeiling(atm, ceiling)

\* What an overheat took from the voltage stays taken: "the previously proven voltage is no longer
\* a valid baseline for the tuner" once the frequency moved (561-567).
\* False when a derate had already brought the ASIC to the reduced frequency: no move is seen, and
\* the tuner goes back to the voltage from before the overheat (README).
ReductionHolds ==
  config.edits = 0 /\ overheats > 0 /\ task.pc \notin {"cool", "restart"}
    => nvs.volt <= Reduced(task.known).volt
=============================================================================
