------------------------------- MODULE Machine -------------------------------
(***************************************************************************)
(* The sessions with a pool, the chips and the board around them as one    *)
(* specification: the initial state chooses a component, and every         *)
(* behaviour is one of that component.  What the components call by the    *)
(* same name (the task, the queue, the chips) is one variable here; a      *)
(* variable the chosen component does not have is 0.                       *)
(***************************************************************************)
EXTENDS Integers, Sequences

CONSTANTS QUEUE_SIZE, MAX_RETRY_ATTEMPTS,
          Configs, Conns, MaxSwitches, PromptLoop, NULL,               \* ProtocolSwitch
          Jobs, MAX_REQUEST_IDS, MAX_ACTIVE_JOB_IDS, V1Budgets, V1Backlog, \* StratumSession
          SV2_PENDING_JOBS_SIZE, SV2_SUBMIT_TIMING_SLOTS, V2Budgets, V2Backlog, \* Sv2Session
          STEP, RESET, LOWEST, Settings, Attempts, ChipPlans,          \* ChipLink
          Voltages, VOUT_MIN, VOUT_MAX, GRACE, VcorePlans,             \* Regulator
          FULL, STARTUP, IDLE, MAX_TEMP, TARGET, KP, KI, KD, FanPlans, \* FanController
          SHORT, LONG, WAKE, TIMEOUT, DisplayPlans,                    \* Screens
          ENOUGH, TestPlans,                                           \* SelfTest
          CRITICAL_STREAK_TO_RESTART, MaxFailures, MaxBoots, MaxEpisodes \* Boot

VARIABLES
  part,
  \* of one component each
  config, inUse, freeFn, connType, connHeap, coord, switches, jobs, casts,
  uid, buffer, tracking, active, sharer, asic, count,
  noise, stamps, handed, sender, shares,
  host, line, value, actual, main, pm, bap, reader, spike, met, crossed,
  reg, grace, last, power_fault, real,
  mode, filtered, pid, fan, pwm, fault,
  ui, lit, st, identify,
  flag, factory, verdict, finished, nonces, pressed, power, alarm, seen,
  pc, is_active, ret, is_connected, screen, routes, failures, boots, memory,
  \* of several
  retry, transport, pool, task, queue, conn, setting, chips, monitor, temp, ready, tasks,
  protocol, left

switchVars == <<config, inUse, freeFn, connType, connHeap, coord, switches, jobs, casts>>
v1Vars == <<uid, buffer, tracking, active, sharer, asic, count>>
v2Vars == <<noise, stamps, handed, sender, shares>>
chipVars == <<host, line, value, actual, main, pm, bap, reader, spike, met, crossed>>
vcoreVars == <<reg, grace, last, power_fault, real>>
fanVars == <<mode, filtered, pid, fan, pwm, fault>>
displayVars == <<ui, lit, st, identify>>
testVars == <<flag, factory, verdict, finished, nonces, pressed, power, alarm, seen>>
bootVars == <<pc, is_active, ret, is_connected, screen, routes, failures, boots, memory>>
link == <<retry, transport, pool>>
v == <<switchVars, v1Vars, v2Vars, chipVars, vcoreVars, fanVars, displayVars, testVars, bootVars,
       link, task, queue, conn, setting, chips, monitor, temp, ready, tasks, protocol, left>>

\* What each component does not have.
notSwitch == <<v1Vars, v2Vars, chipVars, vcoreVars, fanVars, displayVars, testVars, bootVars,
               link, setting, chips, monitor, temp, ready, tasks, left>>
notV1 == <<switchVars, v2Vars, chipVars, vcoreVars, fanVars, displayVars, testVars, bootVars,
           conn, setting, chips, monitor, temp, ready, tasks, protocol>>
notV2 == <<switchVars, v1Vars, chipVars, vcoreVars, fanVars, displayVars, testVars, bootVars,
           setting, chips, monitor, temp, ready, tasks, protocol>>
notChips == <<switchVars, v1Vars, v2Vars, vcoreVars, fanVars, displayVars, testVars, bootVars,
              link, task, queue, conn, temp, protocol>>
notVcore == <<switchVars, v1Vars, v2Vars, chipVars, fanVars, displayVars, testVars, bootVars,
              link, queue, conn, chips, monitor, temp, ready, tasks, protocol>>
notFan == <<switchVars, v1Vars, v2Vars, chipVars, vcoreVars, displayVars, testVars, bootVars,
            link, task, queue, conn, setting, chips, monitor, ready, tasks, protocol>>
notDisplay == <<switchVars, v1Vars, v2Vars, chipVars, vcoreVars, fanVars, testVars, bootVars,
                link, task, queue, conn, setting, chips, monitor, temp, ready, tasks, protocol>>
notTest == <<switchVars, v1Vars, v2Vars, chipVars, vcoreVars, fanVars, displayVars, bootVars,
             link, queue, conn, setting, ready, tasks, protocol>>
notBoot == <<switchVars, v1Vars, v2Vars, chipVars, vcoreVars, fanVars, displayVars, testVars,
             link, task, queue, conn, setting, chips, monitor, temp, left>>

Switch == INSTANCE ProtocolSwitch
V1 == INSTANCE StratumSession WITH Budgets <- V1Budgets, Backlog <- V1Backlog
V2 == INSTANCE Sv2Session WITH Budgets <- V2Budgets, Backlog <- V2Backlog
Chips == INSTANCE ChipLink WITH Plans <- ChipPlans
Vcore == INSTANCE Regulator WITH Plans <- VcorePlans
Fan == INSTANCE FanController WITH Plans <- FanPlans
Display == INSTANCE Screens WITH Plans <- DisplayPlans
Test == INSTANCE SelfTest WITH Plans <- TestPlans
Start == INSTANCE Boot

ASSUME SwitchesAreSound == Switch!SwitchAssumption
ASSUME SessionsAreSound == V1!SessionAssumption /\ V2!V2Assumption
ASSUME LinkIsSound == Chips!LinkAssumption
ASSUME RegulatorIsSound == Vcore!RegulatorAssumption
ASSUME FanIsSound == Fan!FanAssumption
ASSUME ScreensAreSound == Display!ScreensAssumption
ASSUME TestIsSound == Test!TestAssumption
ASSUME BootIsSound == Start!BootAssumption
-----------------------------------------------------------------------------
\* Whether the chosen component is one of these.
Of(parts) == part \in parts

Init ==
  /\ part \in {"switch", "v1", "v2", "chips", "vcore", "fan", "display", "test", "boot"}
  /\ IF Of({"switch"}) THEN Switch!Init
     ELSE /\ config = 0 /\ inUse = 0 /\ freeFn = 0 /\ connType = 0 /\ connHeap = 0 /\ coord = 0
          /\ switches = 0 /\ jobs = 0 /\ casts = 0
  /\ IF Of({"v1"}) THEN V1!Init
     ELSE /\ uid = 0 /\ buffer = 0 /\ tracking = 0 /\ active = 0 /\ sharer = 0 /\ asic = 0
          /\ count = 0
  /\ IF Of({"v2"}) THEN V2!Init
     ELSE noise = 0 /\ stamps = 0 /\ handed = 0 /\ sender = 0 /\ shares = 0
  /\ IF Of({"chips"}) THEN Chips!Init
     ELSE /\ host = 0 /\ line = 0 /\ value = 0 /\ actual = 0 /\ main = 0 /\ pm = 0 /\ bap = 0
          /\ reader = 0 /\ spike = 0 /\ met = 0 /\ crossed = 0
  /\ IF Of({"vcore"}) THEN Vcore!Init
     ELSE reg = 0 /\ grace = 0 /\ last = 0 /\ power_fault = 0 /\ real = 0
  /\ IF Of({"fan"}) THEN Fan!Init
     ELSE mode = 0 /\ filtered = 0 /\ pid = 0 /\ fan = 0 /\ pwm = 0 /\ fault = 0
  /\ IF Of({"display"}) THEN Display!Init ELSE ui = 0 /\ lit = 0 /\ st = 0 /\ identify = 0
  /\ IF Of({"test"}) THEN Test!Init
     ELSE /\ flag = 0 /\ factory = 0 /\ verdict = 0 /\ finished = 0 /\ nonces = 0 /\ pressed = 0
          /\ power = 0 /\ alarm = 0 /\ seen = 0
  /\ IF Of({"boot"}) THEN Start!Init
     ELSE /\ pc = 0 /\ is_active = 0 /\ ret = 0 /\ is_connected = 0 /\ screen = 0 /\ routes = 0
          /\ failures = 0 /\ boots = 0 /\ memory = 0
  /\ IF Of({"v1", "v2"}) THEN TRUE ELSE retry = 0 /\ transport = 0 /\ pool = 0
  /\ IF Of({"switch", "v1", "v2", "vcore", "test"}) THEN TRUE ELSE task = 0
  /\ IF Of({"switch", "v1", "v2"}) THEN TRUE ELSE queue = 0
  /\ IF Of({"switch", "v2"}) THEN TRUE ELSE conn = 0
  /\ IF Of({"chips", "vcore"}) THEN TRUE ELSE setting = 0
  /\ IF Of({"chips", "test"}) THEN TRUE ELSE chips = 0 /\ monitor = 0
  /\ IF Of({"fan", "test"}) THEN TRUE ELSE temp = 0
  /\ IF Of({"chips", "boot"}) THEN TRUE ELSE ready = 0 /\ tasks = 0
  /\ IF Of({"switch", "boot"}) THEN TRUE ELSE protocol = 0
  /\ IF Of({"switch", "boot"}) THEN left = 0 ELSE TRUE

Next == /\ UNCHANGED part
        /\ \/ part = "switch" /\ Switch!Next /\ UNCHANGED notSwitch
           \/ part = "v1" /\ V1!Next /\ UNCHANGED notV1
           \/ part = "v2" /\ V2!Next /\ UNCHANGED notV2
           \/ part = "chips" /\ Chips!Next /\ UNCHANGED notChips
           \/ part = "vcore" /\ Vcore!Next /\ UNCHANGED notVcore
           \/ part = "fan" /\ Fan!Next /\ UNCHANGED notFan
           \/ part = "display" /\ Display!Next /\ UNCHANGED notDisplay
           \/ part = "test" /\ Test!Next /\ UNCHANGED notTest
           \/ part = "boot" /\ Start!Next /\ UNCHANGED notBoot

\* The variables of the chosen component.
chosen == CASE part = "switch" -> Switch!vars
            [] part = "v1" -> V1!vars
            [] part = "v2" -> V2!vars
            [] part = "chips" -> Chips!vars
            [] part = "vcore" -> Vcore!vars
            [] part = "fan" -> Fan!vars
            [] part = "display" -> Display!vars
            [] part = "test" -> Test!vars
            [] part = "boot" -> Start!vars

\* The fairness of each component (its own Fairness). The component never changes, so
\* one condition asks it of a task of each.
Fairness ==
  /\ WF_chosen(/\ UNCHANGED part
               /\ \/ part = "v1" /\ V1!Task
                  \/ part = "v2" /\ V2!Task
                  \/ part = "chips" /\ Chips!PowerTask
                  \/ part = "vcore" /\ Vcore!Task
                  \/ part = "fan" /\ Fan!Poll
                  \/ part = "display" /\ Display!Update
                  \/ part = "test" /\ Test!Task
                  \/ part = "boot" /\ Start!Boots /\ UNCHANGED memory)
  /\ WF_chosen(/\ UNCHANGED part
               /\ \/ part = "v1" /\ V1!Resume
                  \/ part = "chips" /\ Chips!Reads(Chips!Ends)
                  \/ part = "vcore" /\ Vcore!Tick
                  \/ part = "display" /\ Display!IdentifyEnds
                  \/ part = "test" /\ Test!Monitor
                  \/ part = "boot" /\ (Start!Sample \/ Start!GuardRestarts))
  /\ WF_chosen(/\ UNCHANGED part
               /\ \/ part = "v1" /\ ~pool.serves /\ V1!PoolCloses
                  \/ part = "chips" /\ Chips!Reads(Chips!Counts)
                  \/ part = "test" /\ Test!Warms)
  /\ WF_chosen(UNCHANGED part /\ part = "chips" /\ Chips!Reads(Chips!Monitor))
  /\ WF_chosen(UNCHANGED part /\ part = "chips" /\ Chips!MainTask)
Spec == Init /\ [][Next]_<<part, v>> /\ Fairness
-----------------------------------------------------------------------------
\* Every variable of the component has its type.
TypeOK == CASE part = "switch" -> Switch!TypeOK
            [] part = "v1" -> V1!TypeOK
            [] part = "v2" -> V2!TypeOK
            [] part = "chips" -> Chips!TypeOK
            [] part = "vcore" -> Vcore!TypeOK
            [] part = "fan" -> Fan!TypeOK
            [] part = "display" -> Display!TypeOK
            [] part = "test" -> Test!TypeOK
            [] part = "boot" -> Start!TypeOK

\* create_jobs_task.c:29,154: an item keeps the type it was enqueued with, through
\* every switch of the protocol (ProtocolSwitch!ItemsKeepType).
ItemsKeepType == part = "switch" => Switch!ItemsKeepType

\* stratum_api.c:41, stratum_v1_task.c:505, stratum_v2_task.c:542: through lost and
\* repeated connections no share is counted or timed twice, and the queue holds jobs
\* of the session once, on the block it knows (StratumSession!SessionsHold,
\* Sv2Session!SessionsHold).
SessionsHold == /\ part = "v1" => V1!SessionsHold
                /\ part = "v2" => V2!SessionsHold

\* bm1366.c:354: chips in use run at the clock and the rate the firmware thinks, and
\* search a space that fits (ChipLink!ChipsAreKnown).
ChipsAreKnown == part = "chips" => Chips!ChipsAreKnown

\* frequency_transition_bmXX.c:35: the clock of chips in use moves step by step
\* (ChipLink!RampsGently).
RampsGently == [][part = "chips" => Chips!GentleStep]_v

\* TPS546.c:990, fan_controller_task.c:40, screen.c:560, self_test.c:777, main.c:170: no
\* false power alarm, no fan at a speed nobody asked for, no deleted screen, no verdict
\* without its nonces and no power cut under the monitor, no task before what it uses
\* and no request for another's handler (Regulator!NoFalseAlarm,
\* FanController!FanIsKnown, Screens!LoadedScreensLive, SelfTest!PassIsEarned and
\* SelfTest!CalmMonitorGoesFirst, Boot!BootHolds).
BoardHolds == /\ part = "vcore" => Vcore!NoFalseAlarm
              /\ part = "fan" => Fan!FanIsKnown
              /\ part = "display" => Display!LoadedScreensLive
              /\ part = "test" => Test!PassIsEarned /\ Test!CalmMonitorGoesFirst
              /\ part = "boot" => Start!BootHolds

\* A dead pool is handed over, the chips come to rest, faults and urgent screens show,
\* the fan and the carousel get where they should, a test and a start end
\* (StratumSession!HandsOver, Sv2Session!HandsOver, ChipLink!Ended, Regulator!Shows and
\* Ends, FanController!FanSettles, Screens!UrgentIsSeen and CarouselTurns,
\* SelfTest!TestEnds, Boot!BootEnds and ShortageEnds), up to three of each component.
MachineSettles ==
  /\ (\/ part = "v1" /\ V1!Dead
      \/ part = "v2" /\ V2!Dead
      \/ part = "chips" /\ Chips!Busy
      \/ part = "vcore" /\ Vcore!Faulty
      \/ part = "fan" /\ Fan!Hot
      \/ part = "display" /\ Display!Waiting
      \/ part = "test" /\ Test!Begun)
     ~> (\/ part = "v1" /\ V1!Gone
         \/ part = "v2" /\ V2!Gone
         \/ part = "chips" /\ Chips!Settled
         \/ part = "vcore" /\ ~Vcore!Faulty
         \/ part = "fan" /\ Fan!Full
         \/ part = "display" /\ Display!Seen
         \/ part = "test" /\ Test!Judged)
  /\ (\/ part = "vcore" /\ Vcore!Alarmed
      \/ part = "boot" /\ Start!Free
      \/ part = "fan" /\ Fan!Cool
      \/ part = "display" /\ Display!Quiet
      \/ part = "test" /\ Test!Over)
     ~> (\/ part = "vcore" /\ ~Vcore!Alarmed
         \/ part = "boot" /\ (Start!Ended \/ ~Start!Free)
         \/ part = "fan" /\ Fan!Least
         \/ part = "display" /\ Display!Shown(8)
         \/ part = "test" /\ Test!Restarted)
  /\ (\/ part = "boot" /\ Start!Short
      \/ part = "fan" /\ Fan!Overheated
      \/ part = "display" /\ Display!Quiet)
     ~> (\/ part = "boot" /\ ~Start!Short
         \/ part = "fan" /\ Fan!AllAir
         \/ part = "display" /\ Display!Shown(11))
=============================================================================
