------------------------------ MODULE ChipLink ------------------------------
(***************************************************************************)
(* The chain of chips behind the UART: bringing it up and down             *)
(* (main/power/asic_init.c, mining_stop and mining_start of the power      *)
(* management task, the init functions of components/asic/bm13*.c), the    *)
(* clock ramp (frequency_transition_bmXX.c), and the two tasks that talk   *)
(* to the chips meanwhile: ASIC_result_task and the hashrate monitor.      *)
(*                                                                         *)
(* A frequency is a number of units, STEP of them one step of the ramp.    *)
(* The dividers reach every frequency from LOWEST up; the write of another *)
(* one is refused (pll.c).  A frame the chips cannot hear changes nothing. *)
(* When mining stops, and which settings apply, is PowerManagement's; here *)
(* both are choices.                                                       *)
(***************************************************************************)
EXTENDS Integers, FiniteSets

CONSTANTS STEP,      \* of the ramp
          RESET,     \* the clock after a reset, and before a stop
          LOWEST,    \* the lowest frequency the dividers reach
          Settings,  \* frequencies one may ask for
          Attempts,  \* init_retry_attempts of each driver
          Plans      \* bound: [driver, edits, stops, breaks, flatlines, accessory]

\* What an instance must satisfy; the theorems assume it by name.
Drivers == {"BM1366", "BM1368", "BM1370", "BM1373", "BM1397"}
LinkAssumption ==
  /\ STEP \in Nat \ {0} /\ LOWEST \in Nat \ {0} /\ RESET \in Nat /\ LOWEST <= RESET
  /\ Settings \subseteq Nat /\ Attempts \in [Drivers -> Nat \ {0}]
  /\ Plans \subseteq [driver : Drivers, edits : Nat, stops : Nat, breaks : Nat, flatlines : Nat,
                      accessory : Nat]

VARIABLES chips,  \* [on, baud, clock, sized, boots, again]: the clock their nonce space
                  \* fits, and whether they were initialised again without a reset
          host,   \* the rate of the UART
          line,   \* counter readings in its receive buffer: the boot they are of
          value, actual,   \* frequency_value, actual_frequency
          setting,         \* the stored frequency
          ready,           \* ASIC_initalized
          main,   \* the main task, which brings up: [pc, then, at, to, attempt, by]
          pm,     \* the power task, which brings up, stops and ramps: the same and last
          bap,    \* the accessory's handler: [pc, at, to]
          tasks,  \* the tasks of mining were created
          reader, \* ASIC_result_task waits for a frame
          monitor,\* [was, seen]: was_asic_initialized, the boot of the last reading or 0
          spike,  \* a rate was computed from readings of two boots
          met,    \* main and the power task were at work at the same time,
          crossed,\* or one of them and the accessory; both since the last start
                  \* that had chips for itself which nobody used
          left
readers == <<tasks, reader, monitor, spike>>
vars == <<chips, host, line, value, actual, setting, ready, main, pm, bap, readers, met, crossed,
          left>>

Driver == left.driver
Off == [on |-> FALSE, baud |-> "reset", clock |-> RESET, sized |-> 0, boots |-> 0,
        again |-> FALSE]

Init ==
  /\ left \in Plans /\ chips = [Off EXCEPT !.on = TRUE] /\ host = "reset" /\ line = {}
  /\ setting \in Settings /\ value = setting /\ actual = RESET
  /\ ready = FALSE /\ tasks = FALSE /\ reader = FALSE
  /\ main = [pc |-> "reset", then |-> "up", at |-> RESET, to |-> RESET, attempt |-> 1,
             by |-> "main"]
  /\ pm = [pc |-> "idle", then |-> "up", at |-> RESET, to |-> RESET, attempt |-> 1,
           by |-> "power", last |-> setting]
  /\ bap = [pc |-> "idle", at |-> 0, to |-> 0]
  /\ monitor = [was |-> FALSE, seen |-> 0] /\ spike = FALSE
  /\ met = FALSE /\ crossed = FALSE

\* The chips' start that begins anew what is known of them.
StartsAlone == pm.pc = "stopped" /\ pm'.pc = "reset" /\ ~ready
Meets == /\ met' = ((met /\ ~StartsAlone) \/ (main'.pc # "idle" /\ pm'.pc # "idle"))
         /\ crossed' = (\/ crossed /\ ~StartsAlone
                        \/ main'.pc # "idle" /\ pm'.pc # "idle"
                        \/ bap'.pc # "idle" /\ (main'.pc # "idle" \/ pm'.pc # "idle"))
-----------------------------------------------------------------------------
(* The clock. *)

Distance(a, b) == IF a > b THEN a - b ELSE b - a
\* A mutant: the ramp goes to its target at once.
NextClock_Jump(at, to) == to
\* The next clock of a ramp: the next multiple of STEP, the target at the end.
NextClock(at, to) ==
  LET up == STEP * ((at \div STEP) + 1)
      down == STEP * (((at + STEP - 1) \div STEP) - 1)
  IN CASE Distance(at, to) < STEP -> to
       [] Distance(at, to) >= STEP /\ at < to -> IF up <= to THEN up ELSE to
       [] OTHER -> IF down >= to THEN down ELSE to

Hears == chips.on /\ host = chips.baud
\* set_frequency_fn and what the ramp records of it.
Clocked(c, f) == IF f >= LOWEST /\ Hears THEN [c EXCEPT !.clock = f] ELSE c
Recorded(f) == IF f >= LOWEST THEN f ELSE 0

\* A task t, main or the power task, has returned; begins a ramp, goes on with it, ends it.
Rested(t) == [t EXCEPT !.pc = "idle", !.then = "up", !.at = RESET, !.to = RESET, !.attempt = 1]
Ramp(t, f, pc) == [t EXCEPT !.pc = "ramp", !.then = pc, !.at = actual, !.to = f]

RampStep(t, next) ==
  /\ t.pc = "ramp" /\ t.at # t.to
  /\ LET f == NextClock(t.at, t.to)
     IN /\ next = [t EXCEPT !.at = f]
        /\ chips' = Clocked(chips, f) /\ actual' = Recorded(f)
  /\ UNCHANGED <<host, line, value, setting, ready, bap, readers, left>>

RampEnds(t, next) ==
  /\ t.pc = "ramp" /\ t.at = t.to /\ next = [t EXCEPT !.pc = t.then]
  /\ UNCHANGED <<chips, host, line, value, actual, setting, ready, bap, readers, left>>

\* The others have a fixed nonce space, or none that one can set.
HasNonceSpace == Driver \in {"BM1366", "BM1368", "BM1370"}
WithSpace(c, f) == IF HasNonceSpace /\ Hears THEN [c EXCEPT !.sized = f] ELSE c
\* ASIC_set_nonce_space refuses without a clock.
Sized(c) == IF actual > 0 THEN WithSpace(c, actual) ELSE c
-----------------------------------------------------------------------------
(* Bringing up: asic_initialize, by main and by the power task. *)

\* asic_reset, and the rate the chips have after it.  They run if they have power.
Powered == pm.pc \notin {"flush", "stopped"}
ResetChips(t, next) ==
  /\ t.pc = "reset" /\ next = [t EXCEPT !.pc = "probe"]
  /\ chips' = [Off EXCEPT !.on = Powered, !.boots = chips.boots + 1]
  /\ host' = "reset" /\ line' = {}
  /\ UNCHANGED <<value, actual, setting, ready, bap, readers, left>>

Found == Hears /\ left.breaks # 1
\* The chain answers: its driver's init, up to the ramp.  BM1373 changes the rate
\* here, and ramps from RESET; BM1397 sets the rate of a reset.  Both do so also
\* when they are called without one.
Initialised(t) == [chips EXCEPT !.again = @ \/ t.then = "sized"]
RampsUp(t, next) == next = Ramp(t, value, t.then) /\ UNCHANGED <<host, actual>>
BM1366_init(t, next) == Driver = "BM1366" /\ RampsUp(t, next) /\ chips' = Initialised(t)
BM1368_init(t, next) == Driver = "BM1368" /\ RampsUp(t, next) /\ chips' = Initialised(t)
BM1370_init(t, next) == Driver = "BM1370" /\ RampsUp(t, next) /\ chips' = Initialised(t)
BM1397_init(t, next) == /\ Driver = "BM1397"
                        /\ RampsUp(t, next) /\ chips' = [Initialised(t) EXCEPT !.baud = "reset"]
BM1373_init(t, next) ==
  /\ Driver = "BM1373"
  /\ chips' = [Initialised(t) EXCEPT !.baud = "fast"] /\ host' = "fast" /\ actual' = RESET
  /\ next = [Ramp(t, value, t.then) EXCEPT !.at = RESET]
ChainFound(t, next) ==
  /\ t.pc = "probe" /\ Found
  /\ \/ BM1366_init(t, next) \/ BM1368_init(t, next) \/ BM1370_init(t, next)
     \/ BM1373_init(t, next) \/ BM1397_init(t, next)
  /\ UNCHANGED <<line, value, setting, ready, bap, readers, left>>

\* A mutant: the chain is awaited.
AfterFailure_Waits(t) == t
AfterFailure(t) == IF t.then = "up" /\ t.attempt < Attempts[Driver]
                     THEN [t EXCEPT !.pc = "reset", !.attempt = @ + 1]
                     ELSE Rested(t)
\* The chain is broken, or another task took an answer.
ChainNotFound(t, next) ==
  /\ t.pc = "probe" /\ (~Found \/ reader) /\ next = AfterFailure(t)
  /\ UNCHANGED <<chips, host, line, value, actual, setting, ready, bap, readers, left>>

\* The end of a driver's init: the nonce space, of the request when there is no
\* clock (BM1368 takes the request anyway).
InitSized == IF actual = 0 \/ Driver = "BM1368" THEN value ELSE actual
\* A mutant: the chips keep the rate of a reset.
FastRate_Kept == chips.baud
FastRate == "fast"

\* Nobody asks whether the chips are still there.
BroughtUp(t, next) ==
  /\ t.pc = "up" /\ next = Rested(t)
  /\ chips' = IF Hears THEN [WithSpace(chips, InitSized) EXCEPT !.baud = FastRate] ELSE chips
  /\ host' = "fast" /\ line' = {} /\ ready' = TRUE /\ tasks' = (tasks \/ t.by = "main")
  /\ UNCHANGED <<value, actual, setting, bap, reader, monitor, spike, left>>

BringsUp(t, next) == \/ ResetChips(t, next) \/ ChainFound(t, next) \/ ChainNotFound(t, next)
                     \/ RampStep(t, next) \/ RampEnds(t, next) \/ BroughtUp(t, next)

\* No accepted share for long: init again, without a reset.
Flatline ==
  /\ pm.pc = "idle" /\ ready /\ tasks /\ left.flatlines > 0
  /\ left' = [left EXCEPT !.flatlines = @ - 1]
  /\ pm' = [pm EXCEPT !.pc = "probe", !.then = "sized"]
  /\ UNCHANGED <<chips, host, line, value, actual, setting, ready, bap, readers>>

SizesAgain ==
  /\ pm.pc = "sized" /\ pm' = Rested(pm)
  /\ chips' = WithSpace(chips, InitSized)
  /\ UNCHANGED <<host, line, value, actual, setting, ready, bap, readers, left>>
-----------------------------------------------------------------------------
(* Stopping, starting and following the settings. *)

Stop ==
  /\ pm.pc = "idle" /\ left.stops > 0 /\ left' = [left EXCEPT !.stops = @ - 1]
  /\ value' = RESET /\ pm' = Ramp(pm, RESET, "cut")
  /\ UNCHANGED <<chips, host, line, actual, setting, ready, bap, readers>>

\* No power, reset held, nobody is to talk to the chips any more.
CutPower ==
  /\ pm.pc = "cut" /\ pm' = [pm EXCEPT !.pc = "flush"]
  /\ chips' = [Sized(chips) EXCEPT !.on = FALSE] /\ ready' = FALSE
  /\ UNCHANGED <<host, line, value, actual, setting, bap, readers, left>>

\* The driver's flush waits until a pending read has ended.
Flush == /\ pm.pc = "flush" /\ ~reader
         /\ line' = {} /\ pm' = [pm EXCEPT !.pc = "stopped"]
         /\ UNCHANGED <<chips, host, value, actual, setting, ready, bap, readers, left>>

\* A stop and a start take longer than the monitor's second.
MonitorLooked == monitor.was => ready
Start ==
  /\ pm.pc = "stopped" /\ MonitorLooked /\ value' = setting /\ actual' = RESET
  /\ pm' = [Rested(pm) EXCEPT !.pc = "reset"]
  /\ UNCHANGED <<chips, host, line, setting, ready, bap, readers, left>>

Edit == /\ left.edits > 0 /\ left' = [left EXCEPT !.edits = @ - 1]
        /\ setting' \in Settings \ {setting}
        /\ UNCHANGED <<chips, host, line, value, actual, ready, bap, readers>>

Follow == /\ pm.pc = "idle" /\ setting # pm.last
          /\ value' = setting /\ pm' = [Ramp(pm, setting, "resize") EXCEPT !.last = setting]
          /\ UNCHANGED <<chips, host, line, actual, setting, ready, bap, readers, left>>

\* A mutant: the nonce space stays as it was.
Resized_Not(c) == c
Resized(c) == Sized(c)
Resize == /\ pm.pc = "resize" /\ pm' = Rested(pm)
          /\ chips' = Resized(chips)
          /\ UNCHANGED <<host, line, value, actual, setting, ready, bap, readers, left>>

\* The connector of the chain: it breaks, and is mended (counts down from 2).
ChainChanges ==
  /\ left.breaks > 0 /\ left' = [left EXCEPT !.breaks = @ - 1]
  /\ UNCHANGED <<chips, host, line, value, actual, setting, ready, bap, readers>>
-----------------------------------------------------------------------------
(* The accessory sets a frequency from its own task, whatever the others do. *)

BapSets ==
  /\ bap.pc = "idle" /\ left.accessory > 0 /\ left' = [left EXCEPT !.accessory = @ - 1]
  /\ \E f \in Settings :
       f >= LOWEST /\ value' = f /\ bap' = [pc |-> "ramp", at |-> actual, to |-> f]
  /\ UNCHANGED <<chips, host, line, actual, setting, ready, readers>>

BapRamps ==
  /\ bap.pc = "ramp" /\ bap.at # bap.to
  /\ LET f == NextClock(bap.at, bap.to)
     IN bap' = [bap EXCEPT !.at = f] /\ chips' = Clocked(chips, f) /\ actual' = Recorded(f)
  /\ UNCHANGED <<host, line, value, setting, ready, readers, left>>

BapEnds ==
  /\ bap.pc = "ramp" /\ bap.at = bap.to /\ bap' = [bap EXCEPT !.pc = "idle", !.at = 0, !.to = 0]
  /\ chips' = Sized(chips) /\ setting' = bap.to
  /\ UNCHANGED <<host, line, value, actual, ready, readers, left>>
-----------------------------------------------------------------------------
(* The tasks that read. *)

Waits == /\ tasks /\ ready /\ ~reader /\ reader' = TRUE
         /\ UNCHANGED <<line, monitor, spike>>

\* A frame of a nonce, or none for ten seconds.
Ends == /\ reader /\ line = {} /\ reader' = FALSE
        /\ UNCHANGED <<line, monitor, spike>>

\* A counter is read: its rate is the difference to the reading before it.
Counts ==
  /\ reader /\ reader' = FALSE
  /\ \E boot \in line :
       /\ line' = line \ {boot} /\ monitor' = [monitor EXCEPT !.seen = boot]
       /\ spike' = (spike \/ (~met /\ monitor.seen \notin {0, boot}))

\* A mutant: the readings survive a stop.
Seen_Kept == monitor.seen
Seen == IF monitor.was /\ ~ready THEN 0 ELSE monitor.seen
\* Once a second.  A waiting reader has the higher priority: it has taken what
\* there is.
Monitor ==
  /\ tasks /\ ~(reader /\ line # {})
  /\ monitor' = [was |-> ready, seen |-> Seen]
  /\ line' = IF ready /\ Hears THEN line \cup {chips.boots} ELSE line
  /\ <<monitor, line>>' # <<monitor, line>>
  /\ UNCHANGED <<reader, spike>>

\* Who takes the steps.
MainTask == BringsUp(main, main') /\ UNCHANGED pm /\ Meets
PowerTask == /\ \/ BringsUp(pm, pm') \/ SizesAgain \/ CutPower \/ Flush \/ Start \/ Resize
             /\ UNCHANGED main /\ Meets
PowerActs == (Flatline \/ Stop \/ Follow) /\ UNCHANGED main /\ Meets
Others == (Edit \/ ChainChanges \/ BapSets \/ BapRamps \/ BapEnds) /\ UNCHANGED <<main, pm>> /\ Meets
Reads(step) == /\ step
               /\ UNCHANGED <<chips, host, value, actual, setting, ready, main, pm, bap, tasks,
                              met, crossed, left>>
Next == \/ MainTask \/ PowerTask \/ PowerActs \/ Others
        \/ Reads(Waits) \/ Reads(Ends) \/ Reads(Counts) \/ Reads(Monitor)
\* The tasks are scheduled; a read ends within ten seconds.
Fairness == /\ WF_vars(MainTask) /\ WF_vars(PowerTask)
            /\ WF_vars(Reads(Ends)) /\ WF_vars(Reads(Counts)) /\ WF_vars(Reads(Monitor))
Spec == Init /\ [][Next]_vars /\ Fairness
-----------------------------------------------------------------------------
\* Every variable has its type.
Places == {"reset", "probe", "up", "sized", "ramp", "cut", "flush", "stopped", "resize", "idle"}
TypeOK ==
  /\ chips.on \in BOOLEAN /\ chips.baud \in {"reset", "fast"} /\ chips.clock >= LOWEST
  /\ chips.sized \in Nat /\ chips.boots \in Nat /\ host \in {"reset", "fast"}
  /\ line \subseteq 1 .. chips.boots /\ value \in Settings \cup {RESET} /\ actual \in Nat
  /\ setting \in Settings
  /\ ready \in BOOLEAN /\ tasks \in BOOLEAN /\ reader \in BOOLEAN
  /\ main.pc \in {"reset", "probe", "ramp", "up", "idle"} /\ pm.pc \in Places
  /\ main.attempt \in 1 .. Attempts[Driver] /\ pm.attempt \in 1 .. Attempts[Driver]
  /\ bap.pc \in {"idle", "ramp"} /\ monitor.seen \in 0 .. chips.boots

\* The drivers that do not come back from being initialised again without a reset:
\* BM1397 tells the chips the rate of a reset (bm1397.c:243) and the UART stays at its
\* own, BM1373 takes the clock for that of a reset (bm1373.c:429).
Deaf == chips.again /\ Driver = "BM1397"
Misled == chips.again /\ Driver \in {"BM1373", "BM1397"}

\* bm1366.c:354: whenever the chips are in use, both ends of the line have the same
\* rate, after retries, stops, starts and ramps, and after a re-initialisation, except
\* on BM1397 (Deaf, until the next reset) and except after main brought the chips up
\* while the power task was at work on them (met).
BaudsAgree == ready /\ ~met /\ ~Deaf => host = chips.baud

\* frequency_transition_bmXX.c:41: the recorded clock is the one the chips run at: the
\* next ramp starts from the truth, except after main, the power task or the accessory
\* worked on the clock at the same time (crossed), and after a re-initialisation of
\* BM1373 and BM1397 (Misled).  A refused write leaves a record of 0 and the chips near
\* the lowest clock.
ClockIsKnown ==
  ready /\ ~crossed /\ ~Misled =>
    IF actual = 0 THEN chips.clock < LOWEST + STEP ELSE actual = chips.clock

\* bm1366.c:318: the nonce space fits the clock the chips run at, whenever they
\* mine, nobody is just changing it and no two did at the same time.
NonceSpaceFits ==
  HasNonceSpace /\ ready /\ ~crossed /\ pm.pc = "idle" /\ bap.pc = "idle" /\ actual # 0
    => chips.sized = chips.clock

\* hashrate_monitor_task.c:173: no rate is computed across a reset of the chips, which
\* would show as a spike, unless main and the power task met.
NoSpike == ~spike

ChipsAreKnown == BaudsAgree /\ ClockIsKnown /\ NonceSpaceFits /\ NoSpike

\* frequency_transition_bmXX.c:35: the clock of chips in use never changes by more
\* than a step, through ramps that follow each other, failures and stops, with the
\* exceptions of ClockIsKnown.
GentleStep == chips.on' /\ chips.boots' = chips.boots /\ ~crossed' /\ ~Misled'
                => Distance(chips.clock', chips.clock) <= STEP
RampsGently == [][GentleStep]_vars

\* asic_init.c:60: a bring-up, a stop or a ramp that was begun ends, also when the chain
\* is broken and when another task waits for the line; but a flush may wait for ever for
\* a reader that main let go on during the stop.
Busy == main.pc # "idle" \/ pm.pc # "idle"
Settled == ~Busy \/ (pm.pc = "flush" /\ ready)
Ended == Busy ~> Settled
=============================================================================
