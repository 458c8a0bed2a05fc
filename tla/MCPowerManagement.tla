-------------------------- MODULE MCPowerManagement --------------------------
(* Small sets of sensor readings, settings and environments for TLC. *)
EXTENDS PowerManagement

Reading(t1, t2, vr, fan, tel, power) ==
  [t1 |-> t1, t2 |-> t2, vr |-> vr, fan |-> fan, tel |-> tel, power |-> power]

Calm50 == Reading(50, NoSensor, 60, 50, "good", "over")
Warm == Reading(62, NoSensor, 90, 80, "none", "under")
HotChip == Reading(70, NoSensor, 80, 50, "poor", "within")
SecondTooHot == Reading(50, 80, 102, 50, "good", "none")
Blinded == Reading(IMPLAUSIBLE, IMPLAUSIBLE, 80, 50, "good", "none")
MCReadings == {Calm50, Warm, HotChip, SecondTooHot, Blinded}

Stock == [freq |-> 475, volt |-> 1050]
Eco == [freq |-> 425, volt |-> 1025]
MCSettings == {Stock, Eco}

Env(e, p, tune, budget) ==
  [set |-> Stock, edits |-> e, pauses |-> p, autotune |-> tune, target |-> budget]
Plain == Env(0, 0, FALSE, FALSE)
Paused == Env(0, 2, FALSE, FALSE)
Edited == Env(1, 0, FALSE, FALSE)
Tuned == Env(0, 0, TRUE, FALSE)
Budgeted == Env(0, 0, FALSE, TRUE)
MCConfigs == {Plain, Paused, Edited, Tuned, Budgeted}
=============================================================================
