------------------------------- MODULE SelfTest -------------------------------
(***************************************************************************)
(* The self-test: main/self_test/self_test.c as main/main.c starts it,     *)
(* beside the power management task (the monitor), which runs unchanged    *)
(* until it sees is_finished, and the result task, which reports nonces.   *)
(*                                                                         *)
(* Abstracted: each of the checks passes or fails; the temperature of the  *)
(* chips is cold, warm, hot (beyond the maximum of the test) or throttled  *)
(* (beyond the limit of the monitor), and cannot be read without power.    *)
(***************************************************************************)
EXTENDS Integers

CONSTANTS ENOUGH,  \* nonces that make the expected hashrate
          Plans    \* bound: [defects, nonces, overheats, presses, boots, calm], and calm
                   \* when the chips stay below the limit of the monitor

\* What an instance must satisfy; the theorems assume it by name.
TestAssumption == /\ ENOUGH \in Nat
                  /\ Plans \subseteq [defects : Nat, nonces : Nat, overheats : Nat, presses : Nat,
                                      boots : Nat, calm : BOOLEAN]

VARIABLES task,    \* what the self-test task does
          flag,    \* NVS_CONFIG_SELF_TEST of a device that never found a share
          factory, \* isFactoryTest
          verdict, \* the result of this boot: "none", "pass" or "fail"
          finished,\* is_finished
          nonces,  \* nonce_measurement: [active, accepted]
          pressed, \* longPressSemaphore
          power,   \* the core voltage is on
          chips,   \* ASIC_initalized, and not held in reset
          temp,
          monitor, \* "off", "polling", "cooling", "starting", "checking" or "gone"
          alarm,   \* the monitor reported the regulator that the test switched off
          seen,    \* nonces found while the test measured, to compare
          left
vars == <<task, flag, factory, verdict, finished, nonces, pressed, power, chips, temp, monitor,
          alarm, seen, left>>

Tasks == {"boot", "checks", "warmup", "measure", "verdict", "delay", "cut", "wait", "restart",
          "mining"}

Fresh == [active |-> FALSE, accepted |-> 0]
Init == /\ left \in Plans
        /\ task = "boot" /\ flag = TRUE /\ factory = FALSE
        /\ verdict = "none" /\ finished = FALSE /\ nonces = Fresh /\ pressed = FALSE
        /\ power = FALSE /\ chips = FALSE /\ temp = "cold" /\ monitor = "off" /\ alarm = FALSE
        /\ seen = 0

Spend(what) == left' = [left EXCEPT ![what] = @ - 1]
May(what) == left[what] > 0
Reads(t) == IF chips THEN t ELSE "invalid"

\* tests_done as it begins: results no longer count, the chips are held in reset; without a
\* regulator there is nothing to switch off.
Ends(v) == /\ verdict' = v /\ finished' = TRUE
           /\ nonces' = [nonces EXCEPT !.active = FALSE]
           /\ chips' = FALSE
           /\ task' = IF monitor = "off" /\ ~power THEN "wait" ELSE "delay"
Fails == Ends("fail") /\ UNCHANGED left

\* A factory test runs while the flag is set; the button held at the start asks for a test
\* by hand.  A board that does not come up is judged at once, without a monitor.
Boot == /\ task = "boot"
        /\ \/ /\ ~flag /\ task' = "mining"
              /\ UNCHANGED <<factory, power, chips, monitor, left>>
           \/ /\ factory' = flag /\ task' = "checks"
              /\ \/ power' = TRUE /\ chips' = TRUE /\ monitor' = "polling" /\ UNCHANGED left
                 \/ /\ May("defects") /\ Spend("defects") /\ UNCHANGED chips
                    /\ power' \in BOOLEAN
                    /\ monitor' \in IF power' THEN {"off", "polling"} ELSE {"off"}
        /\ UNCHANGED <<flag, verdict, finished, nonces, pressed, temp, alarm, seen>>

\* The memory, the input voltage, the regulator, the mock job.
Checks == /\ task = "checks"
          /\ \/ /\ chips /\ task' = "warmup"
                /\ UNCHANGED <<verdict, finished, nonces, chips, left>>
             \/ ~chips /\ Fails
             \/ May("defects") /\ Spend("defects") /\ Ends("fail")
          /\ UNCHANGED <<flag, factory, pressed, power, temp, monitor, alarm, seen>>

\* Wait until the chips are warm, for as long as that takes.
Warmup == /\ task = "warmup"
          /\ \/ Reads(temp) = "invalid" /\ Fails
             \/ /\ Reads(temp) \notin {"invalid", "cold"}
                /\ task' = "measure" /\ nonces' = [active |-> TRUE, accepted |-> 0]
                /\ UNCHANGED <<verdict, finished, chips, left>>
          /\ UNCHANGED <<flag, factory, pressed, power, temp, monitor, alarm, seen>>

\* Half a minute of measuring ends, or the chips turn too hot or unreadable before.
Measured(n) == [n EXCEPT !.active = FALSE]
Measure == /\ task = "measure"
           /\ \/ Reads(temp) \in {"invalid", "hot", "throttled"} /\ Fails
              \/ /\ Reads(temp) # "invalid"
                 /\ task' = "verdict" /\ nonces' = Measured(nonces)
                 /\ UNCHANGED <<verdict, finished, chips, left>>
           /\ UNCHANGED <<flag, factory, pressed, power, temp, monitor, alarm, seen>>
Verdict == /\ task = "verdict"
           /\ \/ nonces.accepted < ENOUGH /\ Fails
              \/ ~power /\ Fails
              \/ /\ nonces.accepted >= ENOUGH
                 /\ \/ power /\ Ends("pass") /\ UNCHANGED left
                    \/ May("defects") /\ Spend("defects") /\ Ends("fail")
           /\ UNCHANGED <<flag, factory, pressed, power, temp, monitor, alarm, seen>>

\* tests_done leaves the monitor, which polls every 100 ms, 150 ms to go.
\* A mutant: it leaves it no time.
Waited_Not == TRUE
Waited == monitor # "polling" /\ monitor # "checking"
Delay == /\ task = "delay" /\ Waited /\ task' = "cut"
         /\ UNCHANGED <<flag, factory, verdict, finished, nonces, pressed, power, chips, temp,
                        monitor, alarm, seen, left>>
Cut == /\ task = "cut" /\ power' = FALSE /\ task' = "wait"
       /\ UNCHANGED <<flag, factory, verdict, finished, nonces, pressed, chips, temp, monitor,
                      alarm, seen, left>>

\* A test that passed restarts the device by itself, and is not run again if it was the
\* factory's; one that failed waits for a long press, which gives it up.
\* A mutant: only a long press ends it.
Released_Held == pressed
Released == verdict = "pass" \/ pressed
Wait == /\ task = "wait" /\ Released
        /\ flag' = (flag /\ verdict = "pass" /\ ~factory)
        /\ pressed' = (pressed /\ verdict = "pass")
        /\ task' = "restart"
        /\ UNCHANGED <<factory, verdict, finished, nonces, power, chips, temp, monitor, alarm, seen,
                       left>>

\* The long press, at any time; a given semaphore stays given.
Press == /\ task \notin {"boot", "restart", "mining"} /\ May("presses") /\ Spend("presses")
         /\ pressed' = TRUE
         /\ UNCHANGED <<task, flag, factory, verdict, finished, nonces, power, chips, temp, monitor,
                        alarm, seen>>

\* esp_restart, and the reset button: all of it but the flag is lost.
Reboots == /\ task' = "boot" /\ factory' = FALSE /\ verdict' = "none" /\ finished' = FALSE
           /\ nonces' = Fresh /\ pressed' = FALSE /\ power' = FALSE /\ chips' = FALSE
           /\ temp' = "cold" /\ monitor' = "off" /\ alarm' = FALSE /\ seen' = 0
           /\ UNCHANGED flag
Restart == task = "restart" /\ Reboots /\ UNCHANGED left
Reset == task \notin {"boot", "mining"} /\ May("boots") /\ Spend("boots") /\ Reboots

\* The result task: a nonce counts while the test measures.
\* A mutant: it counts whatever the test does.
Recorded_Always(n) == [n EXCEPT !.accepted = @ + 1]
Recorded(n) == IF n.active THEN [n EXCEPT !.accepted = @ + 1] ELSE n
NonceFound == /\ chips /\ task \notin {"boot", "mining"} /\ May("nonces") /\ Spend("nonces")
              /\ nonces' = Recorded(nonces)
              /\ seen' = IF task = "measure" THEN seen + 1 ELSE seen
              /\ UNCHANGED <<task, flag, factory, verdict, finished, pressed, power, chips, temp,
                             monitor, alarm>>
Warms == /\ chips /\ temp = "cold" /\ temp' = "warm"
         /\ UNCHANGED <<task, flag, factory, verdict, finished, nonces, pressed, power, chips,
                        monitor, alarm, seen, left>>
Heats == /\ chips /\ May("overheats") /\ Spend("overheats")
         /\ temp' \in {"hot"} \cup IF left.calm THEN {} ELSE {"throttled"}
         /\ UNCHANGED <<task, flag, factory, verdict, finished, nonces, pressed, power, chips,
                        monitor, alarm, seen>>

\* The monitor: it goes when it sees the test finished; a chip beyond its own limit makes
\* it stop mining and cool for half a minute and start again, whatever has become of the
\* test meanwhile; it ends every round with a look at the regulator.
Polls == /\ monitor = "polling"
         /\ monitor' = IF finished THEN "gone"
                       ELSE IF Reads(temp) = "throttled" THEN "cooling" ELSE "checking"
         /\ power' = (power /\ monitor' # "cooling") /\ chips' = (chips /\ monitor' # "cooling")
         /\ UNCHANGED <<task, flag, factory, verdict, finished, nonces, pressed, temp, alarm, seen,
                        left>>
Cools == /\ monitor = "cooling" /\ monitor' = "starting"
         /\ power' = TRUE /\ temp' = "warm"
         /\ UNCHANGED <<task, flag, factory, verdict, finished, nonces, pressed, chips, alarm, seen,
                        left>>
Starts == /\ monitor = "starting" /\ monitor' = "checking" /\ chips' = TRUE
          /\ UNCHANGED <<task, flag, factory, verdict, finished, nonces, pressed, power, temp,
                         alarm, seen, left>>
\* A regulator that is off once its time to come up has passed counts as failed.
Looks == /\ monitor = "checking" /\ monitor' = "polling"
         /\ alarm' = (alarm \/ ~power)
         /\ UNCHANGED <<task, flag, factory, verdict, finished, nonces, pressed, power, chips, temp,
                        seen, left>>

Task == Boot \/ Checks \/ Warmup \/ Measure \/ Verdict \/ Delay \/ Cut \/ Wait \/ Restart
Monitor == Polls \/ Cools \/ Starts \/ Looks
Next == Task \/ Monitor \/ Press \/ Reset \/ NonceFound \/ Warms \/ Heats

\* Both tasks run, and chips that hash turn warm (nothing else ends the warm-up).
Spec == Init /\ [][Next]_vars /\ WF_vars(Task) /\ WF_vars(Monitor) /\ WF_vars(Warms)

\* Every variable has its type.
TypeOK ==
  /\ task \in Tasks /\ verdict \in {"none", "pass", "fail"}
  /\ monitor \in {"off", "polling", "cooling", "starting", "checking", "gone"}
  /\ temp \in {"cold", "warm", "hot", "throttled"}
  /\ {flag, factory, finished, pressed, power, chips, alarm, nonces.active} \subseteq BOOLEAN
  /\ nonces.accepted \in Nat /\ seen \in Nat

\* A test that passes has had its nonces while it measured: none found before, or after
\* the measurement and before the verdict, counts.
PassIsEarned == verdict = "pass" => seen >= ENOUGH

\* The power of the chips is cut by the end of a test only after the monitor has gone; a
\* monitor that is still there reports the regulator as failed, or switches it on again.
MonitorGoesFirst == task \in {"wait", "restart"} => monitor \in {"off", "gone"} /\ ~alarm
\* The code keeps this as long as the monitor itself does not begin to cool the chips.
CalmMonitorGoesFirst == left.calm => MonitorGoesFirst

\* A test that began comes to its verdict; one that passed, or is given up by a long press,
\* restarts the device.
Begun == task = "checks"
Judged == task \in {"wait", "boot"}
Over == task = "wait" /\ (verdict = "pass" \/ pressed)
Restarted == task = "boot"
TestEnds == /\ Begun ~> Judged
            /\ Over ~> Restarted
================================================================================
