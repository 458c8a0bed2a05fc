---------------------------- MODULE Machine_proofs ----------------------------
(***************************************************************************)
(* Proofs about Machine, for every value of its constants: what each of    *)
(* its components keeps, whatever is configured, fails or comes at a bad   *)
(* moment.  Sessions_proofs has the pools; here are the chips, the         *)
(* regulator, the fan, the display, the self-test and the start, and the   *)
(* theorems of the whole.                                                  *)
(*                                                                         *)
(* Each component has an invariant that implies its properties: a lemma    *)
(* for the initial states, one for a step, one for what it implies.        *)
(***************************************************************************)
EXTENDS Sessions_proofs

(* The chips. *)

Rates == {"reset", "fast"}
Thens == {"up", "sized", "cut", "resize"}
ChipPlaces == {"reset", "probe", "up", "sized", "ramp", "cut", "flush", "stopped", "resize", "idle"}
MainPlaces == {"reset", "probe", "ramp", "up", "idle"}
Chains == [on : BOOLEAN, baud : Rates, clock : Nat, sized : Nat, boots : Nat, again : BOOLEAN]
Ramps == [pc : {"idle", "ramp"}, at : Nat, to : Nat]
Mains == [pc : MainPlaces, then : {"up"}, at : Nat, to : Nat, attempt : Nat, by : {"main"}]
Powers == [pc : ChipPlaces, then : Thens, at : Nat, to : Nat, attempt : Nat, by : {"power"},
           last : Settings]
Looks == [was : BOOLEAN, seen : Nat]
Links == [driver : Chips!Drivers, edits : Nat, stops : Nat, breaks : Nat, flatlines : Nat,
          accessory : Nat]
ChipFlags == /\ ready \in BOOLEAN /\ tasks \in BOOLEAN /\ reader \in BOOLEAN
             /\ spike \in BOOLEAN /\ met \in BOOLEAN /\ crossed \in BOOLEAN
LinkType == left \in Links
ChipType ==
  /\ chips \in Chains /\ main \in Mains /\ pm \in Powers /\ bap \in Ramps
  /\ (bap.pc = "ramp" => bap.to \in Settings)
  /\ main.attempt \in 1 .. Attempts[left.driver] /\ pm.attempt \in 1 .. Attempts[left.driver]
  /\ monitor \in Looks /\ host \in Rates /\ actual \in Nat
  /\ setting \in Settings /\ value \in Settings \cup {RESET}

\* What holds whoever works at the same time: where the tasks are, what the clock may be.
TaskInv ==
  /\ pm.pc = "reset" => pm.then = "up"
  /\ pm.pc = "probe" => pm.then \in {"up", "sized"}
  /\ main.pc # "reset" => chips.boots > 0
  /\ main.pc # "idle" => tasks = FALSE
  /\ actual = 0 \/ actual >= LOWEST
  /\ chips.clock >= LOWEST

\* The readings that wait and the one that is kept: none before mining, none that the
\* monitor has not asked for, none after a flush.
SeenInv ==
  /\ line \subseteq 1 .. chips.boots /\ monitor.seen \in 0 .. chips.boots
  /\ tasks = FALSE => reader = FALSE /\ monitor.was = FALSE /\ line = {}
  /\ monitor.was = FALSE => /\ monitor.seen = 0 /\ (reader = FALSE \/ line = {})
                            /\ ready = TRUE => line = {}
  /\ pm.pc = "stopped" /\ ready = FALSE => line = {}
  /\ spike = FALSE

\* The task that works on the chips, while main and the power task do not meet.
Worker == IF main.pc # "idle" THEN main ELSE pm
MeetInv ==
  /\ met = FALSE => main.pc = "idle" \/ pm.pc = "idle"
  /\ crossed = FALSE => met = FALSE /\ (bap.pc = "idle" \/ Worker.pc = "idle")
Brings == \/ Worker.pc \in {"reset", "up"}
          \/ Worker.pc \in {"probe", "ramp"} /\ Worker.then = "up"

\* While they do not: chips on and heard until the power is cut, in use only when up,
\* and every reading of the present boot.
Unheard == chips.again = TRUE /\ left.driver = "BM1397"
AloneInv ==
  met = FALSE =>
    /\ Worker.pc \notin {"flush", "stopped", "reset"} => chips.on = TRUE
    /\ ~Unheard /\ Worker.pc # "reset" => host = chips.baud
    /\ Worker.pc = "probe" /\ Worker.then = "up" => host = "reset"
    /\ ready = TRUE => ~Brings /\ Worker.pc \notin {"flush", "stopped"}
    /\ line \subseteq {chips.boots} /\ monitor.seen \in {0, chips.boots}
    /\ Brings => monitor.was = FALSE

\* The clock: what is recorded is what the chips run at, and where a ramp goes on from,
\* as long as only one task changes it.
Astray == chips.again = TRUE /\ left.driver \in {"BM1373", "BM1397"}
Follows(at) == at = actual \/ (actual = 0 /\ at < LOWEST)
Known == IF actual = 0 THEN chips.clock < LOWEST + STEP ELSE actual = chips.clock
ClockInv ==
  crossed = FALSE =>
    /\ ~Astray /\ Worker.pc \notin {"reset", "flush", "stopped"} => Known
    /\ Worker.pc = "ramp" => Follows(Worker.at)
    /\ bap.pc = "ramp" => Follows(bap.at)
    /\ Worker.pc = "reset" \/ (Worker.pc = "probe" /\ Worker.then = "up") => actual = RESET

\* The nonce space: a driver sizes it for the frequency it was asked for, which its ramp
\* has reached, or for the recorded one.
Spaced == left.driver \in {"BM1366", "BM1368", "BM1370"}
SpaceInv ==
  crossed = FALSE =>
    /\ Worker.pc = "ramp" /\ Worker.then \in {"up", "sized"} => Worker.to = value
    /\ Worker.pc \in {"up", "sized"} => actual \in {0, value}
    /\ Spaced /\ ready = TRUE /\ Worker.pc \in {"idle", "probe"} /\ bap.pc = "idle" /\ actual # 0
       => chips.sized = chips.clock

ChipInv == /\ ChipFlags /\ LinkType /\ ChipType /\ TaskInv /\ SeenInv
           /\ MeetInv /\ AloneInv /\ ClockInv /\ SpaceInv

IsTask(t) == t \in Mains \/ t \in Powers
\* The ways a task's record changes; it stays the record of the same task.
Moves(t, next, p) == next = [t EXCEPT !.pc = p]
Same(t, next) == (t \in Mains => next \in Mains) /\ (t \in Powers => next \in Powers)
Returned(next) == /\ next.pc = "idle" /\ next.then = "up" /\ next.attempt = 1

LEMMA TaskFields ==
  ASSUME NEW t, IsTask(t)
  PROVE  /\ t.pc \in ChipPlaces /\ t.then \in Thens /\ t.at \in Nat /\ t.to \in Nat
         /\ t.attempt \in Nat /\ (t \in Mains => t.pc \in MainPlaces /\ t.then = "up")
         /\ (t \in Mains => t.by = "main") /\ (t \in Powers => t.by = "power")
  BY DEF IsTask, Mains, Powers, MainPlaces, ChipPlaces, Thens

LEMMA TaskMoved ==
  ASSUME NEW t, IsTask(t), NEW next, NEW p \in ChipPlaces, Moves(t, next, p),
         t \in Mains => p \in MainPlaces
  PROVE  /\ Same(t, next) /\ next.pc = p /\ next.then = t.then /\ next.at = t.at /\ next.to = t.to
         /\ next.attempt = t.attempt
<1>1. CASE t \in Mains
  BY <1>1 DEF Moves, Same, Mains, Powers
<1>2. CASE t \in Powers
  BY <1>2 DEF Moves, Same, Mains, Powers
<1>3. QED
  BY <1>1, <1>2 DEF IsTask

LEMMA TaskRested ==
  ASSUME NEW t, IsTask(t), RESET \in Nat
  PROVE  Same(t, Chips!Rested(t)) /\ Returned(Chips!Rested(t))
<1> DEFINE next == [t EXCEPT !.pc = "idle", !.then = "up", !.at = RESET, !.to = RESET,
                          !.attempt = 1]
<1>1. CASE t \in Mains
  <2>1. next \in Mains /\ Returned(next)
    BY <1>1 DEF Mains, MainPlaces, Returned
  <2>2. t \in Powers => next \in Powers
    BY DEF Powers, ChipPlaces, Thens
  <2>3. QED
    BY <2>1, <2>2 DEF Chips!Rested, Same
<1>2. CASE t \in Powers
  <2>1. next \in Powers /\ Returned(next)
    BY <1>2 DEF Powers, ChipPlaces, Thens, Returned
  <2>2. t \in Mains => next \in Mains
    BY DEF Mains, MainPlaces
  <2>3. QED
    BY <2>1, <2>2 DEF Chips!Rested, Same
<1>3. QED
  BY <1>1, <1>2 DEF IsTask

LEMMA ChipInit == ASSUME Chips!LinkAssumption, Chips!Init PROVE ChipInv
<1>1. /\ RESET \in Nat /\ LOWEST \in Nat \ {0} /\ STEP \in Nat \ {0} /\ LOWEST <= RESET
      /\ Settings \subseteq Nat
  BY DEF Chips!LinkAssumption
<1>2. LinkType
  BY DEF Chips!Init, Chips!LinkAssumption, LinkType, Links
<1>3. ChipFlags /\ tasks = FALSE /\ met = FALSE
  BY DEF Chips!Init, ChipFlags
<1>4. /\ chips \in Chains /\ chips.on = TRUE /\ chips.baud = "reset" /\ chips.clock = RESET
      /\ chips.sized = 0 /\ chips.boots = 0
  <2>1. chips = [on |-> TRUE, baud |-> "reset", clock |-> RESET, sized |-> 0, boots |-> 0,
                 again |-> FALSE]
    BY DEF Chips!Init, Chips!Off
  <2>2. QED
    BY <1>1, <2>1 DEF Chains, Rates
<1>5. /\ setting \in Settings /\ value = setting /\ actual = RESET /\ host = "reset" /\ line = {}
      /\ ready = FALSE /\ reader = FALSE /\ spike = FALSE
  BY DEF Chips!Init
<1>6. /\ main \in Mains /\ main.pc = "reset" /\ main.then = "up" /\ main.attempt = 1
  <2>1. main = [pc |-> "reset", then |-> "up", at |-> RESET, to |-> RESET, attempt |-> 1,
                by |-> "main"]
    BY DEF Chips!Init
  <2>2. QED
    BY <1>1, <2>1 DEF Mains, MainPlaces
<1>7. pm \in Powers /\ pm.pc = "idle" /\ pm.then = "up" /\ pm.attempt = 1
  <2>1. pm = [pc |-> "idle", then |-> "up", at |-> RESET, to |-> RESET, attempt |-> 1,
              by |-> "power", last |-> setting]
    BY DEF Chips!Init
  <2>2. QED
    BY <1>1, <1>5, <2>1 DEF Powers, ChipPlaces, Thens
<1>8. bap \in Ramps /\ bap.pc = "idle"
  BY DEF Chips!Init, Ramps
<1>9. monitor \in Looks /\ monitor.was = FALSE /\ monitor.seen = 0
  BY DEF Chips!Init, Looks
<1>10. 1 \in 1 .. Attempts[left.driver]
  <2>1. Attempts[left.driver] \in Nat \ {0}
    BY <1>2 DEF LinkType, Links, Chips!LinkAssumption
  <2>2. QED
    BY <2>1
<1>11. ChipType
  BY <1>4, <1>5, <1>6, <1>7, <1>8, <1>9, <1>10, <1>1 DEF ChipType, Rates
<1>12. TaskInv
  BY <1>1, <1>3, <1>4, <1>5, <1>6, <1>7 DEF TaskInv
<1>13. SeenInv
  BY <1>3, <1>4, <1>5, <1>7, <1>9 DEF SeenInv
<1>14. MeetInv
  BY <1>3, <1>7, <1>8 DEF MeetInv
<1>15. Worker = main
  BY <1>6 DEF Worker
<1>16. AloneInv
  BY <1>4, <1>5, <1>6, <1>9, <1>15 DEF AloneInv
<1>17. ClockInv
  BY <1>1, <1>4, <1>5, <1>6, <1>8, <1>15 DEF ClockInv
<1>18. SpaceInv
  BY <1>5, <1>6, <1>15 DEF SpaceInv
<1>19. QED
  BY <1>2, <1>3, <1>11, <1>12, <1>13, <1>14, <1>16, <1>17, <1>18 DEF ChipInv

(* The flags and the plan. *)

\* What a step of bringing up leaves alone.
LEMMA BringsUpRest ==
  ASSUME ChipFlags, NEW t, NEW next, Chips!BringsUp(t, next)
  PROVE  /\ UNCHANGED <<value, setting, bap, reader, monitor, spike, left>>
         /\ ready' \in BOOLEAN /\ tasks' \in BOOLEAN
<1>1. CASE Chips!ResetChips(t, next) \/ Chips!ChainFound(t, next) \/ Chips!ChainNotFound(t, next)
  BY <1>1 DEF Chips!ResetChips, Chips!ChainFound, Chips!ChainNotFound, Chips!readers, ChipFlags
<1>2. CASE Chips!RampStep(t, next) \/ Chips!RampEnds(t, next)
  BY <1>2 DEF Chips!RampStep, Chips!RampEnds, Chips!readers, ChipFlags
<1>3. CASE Chips!BroughtUp(t, next)
  BY <1>3 DEF Chips!BroughtUp, ChipFlags
<1>4. QED
  BY <1>1, <1>2, <1>3 DEF Chips!BringsUp

LEMMA MeetsFlags == ASSUME ChipFlags, Chips!Meets PROVE met' \in BOOLEAN /\ crossed' \in BOOLEAN
  BY DEF ChipFlags, Chips!Meets

LEMMA ChipFlagsKept == ASSUME ChipFlags, Chips!Next PROVE ChipFlags'
<1>1. CASE Chips!MainTask
  BY <1>1, BringsUpRest, MeetsFlags DEF ChipFlags, Chips!MainTask
<1>2. CASE Chips!PowerTask
  <2>1. CASE Chips!BringsUp(pm, pm')
    BY <1>2, <2>1, BringsUpRest, MeetsFlags DEF ChipFlags, Chips!PowerTask
  <2>2. CASE Chips!SizesAgain \/ Chips!CutPower \/ Chips!Flush
    BY <1>2, <2>2, MeetsFlags DEF ChipFlags, Chips!PowerTask, Chips!SizesAgain, Chips!CutPower,
                                  Chips!Flush, Chips!readers
  <2>3. CASE Chips!Start \/ Chips!Resize
    BY <1>2, <2>3, MeetsFlags DEF ChipFlags, Chips!PowerTask, Chips!Start, Chips!Resize,
                                  Chips!readers
  <2>4. QED
    BY <1>2, <2>1, <2>2, <2>3 DEF Chips!PowerTask
<1>3. CASE Chips!PowerActs
  BY <1>3, MeetsFlags DEF ChipFlags, Chips!PowerActs, Chips!Flatline, Chips!Stop, Chips!Follow,
                          Chips!readers
<1>4. CASE Chips!Others
  BY <1>4, MeetsFlags DEF ChipFlags, Chips!Others, Chips!Edit, Chips!ChainChanges, Chips!BapSets,
                          Chips!BapRamps, Chips!BapEnds, Chips!readers
<1>5. CASE Chips!Reads(Chips!Waits) \/ Chips!Reads(Chips!Ends) \/ Chips!Reads(Chips!Monitor)
  BY <1>5 DEF ChipFlags, Chips!Reads, Chips!Waits, Chips!Ends, Chips!Monitor
<1>6. CASE Chips!Reads(Chips!Counts)
  BY <1>6 DEF ChipFlags, Chips!Reads, Chips!Counts
<1>7. QED
  BY <1>1, <1>2, <1>3, <1>4, <1>5, <1>6 DEF Chips!Next

LEMMA LinkTypeKept ==
  ASSUME LinkType, ChipFlags, Chips!Next PROVE LinkType' /\ left'.driver = left.driver
<1>1. CASE left' = left
  BY <1>1 DEF LinkType
<1>2. CASE Chips!MainTask
  BY <1>1, <1>2, BringsUpRest DEF Chips!MainTask
<1>3. CASE Chips!PowerTask
  <2>1. CASE Chips!BringsUp(pm, pm')
    BY <1>1, <2>1, BringsUpRest
  <2>2. CASE \/ Chips!SizesAgain \/ Chips!CutPower \/ Chips!Flush \/ Chips!Start \/ Chips!Resize
    BY <1>1, <2>2 DEF Chips!SizesAgain, Chips!CutPower, Chips!Flush, Chips!Start, Chips!Resize
  <2>3. QED
    BY <1>3, <2>1, <2>2 DEF Chips!PowerTask
<1>4. CASE Chips!PowerActs
  <2>1. CASE Chips!Flatline \/ Chips!Stop
    BY <2>1 DEF LinkType, Links, Chips!Flatline, Chips!Stop
  <2>2. CASE Chips!Follow
    BY <1>1, <2>2 DEF Chips!Follow
  <2>3. QED
    BY <1>4, <2>1, <2>2 DEF Chips!PowerActs
<1>5. CASE Chips!Others
  <2>1. CASE Chips!Edit \/ Chips!ChainChanges \/ Chips!BapSets
    BY <2>1 DEF LinkType, Links, Chips!Edit, Chips!ChainChanges, Chips!BapSets
  <2>2. CASE Chips!BapRamps \/ Chips!BapEnds
    BY <1>1, <2>2 DEF Chips!BapRamps, Chips!BapEnds
  <2>3. QED
    BY <1>5, <2>1, <2>2 DEF Chips!Others
<1>6. CASE \/ Chips!Reads(Chips!Waits) \/ Chips!Reads(Chips!Ends)
           \/ Chips!Reads(Chips!Counts) \/ Chips!Reads(Chips!Monitor)
  BY <1>1, <1>6 DEF Chips!Reads
<1>7. QED
  BY <1>2, <1>3, <1>4, <1>5, <1>6 DEF Chips!Next

(* The next clock of a ramp is one step away at most. *)

LEMMA Divided == ASSUME NEW a \in Nat, NEW s \in Nat \ {0}
                 PROVE  \E q \in Nat, r \in 0 .. s - 1 : a = s * q + r /\ a \div s = q
<1>1. a \div s \in Nat /\ a % s \in 0 .. s - 1 /\ a = s * (a \div s) + (a % s)
  OBVIOUS
<1>2. QED
  BY <1>1

LEMMA NextClockIsNear ==
  ASSUME Chips!LinkAssumption, NEW at \in Nat, NEW to \in Nat
  PROVE  /\ Chips!NextClock(at, to) \in Nat
         /\ Chips!NextClock(at, to) - at <= STEP /\ at - Chips!NextClock(at, to) <= STEP
<1> DEFINE next == Chips!NextClock(at, to)
<1>1. STEP \in Nat \ {0}
  BY DEF Chips!LinkAssumption
<1>2. CASE Chips!Distance(at, to) < STEP
  <2>1. next = to
    <3>1. ~ Chips!Distance(at, to) >= STEP
      BY <1>1, <1>2 DEF Chips!Distance
    <3>2. QED
      BY <1>2, <3>1 DEF Chips!NextClock
  <2>2. QED
    BY <1>1, <1>2, <2>1 DEF Chips!Distance
<1>3. CASE Chips!Distance(at, to) >= STEP /\ at < to
  <2>1. PICK q \in Nat, r \in 0 .. STEP - 1 : at = STEP * q + r /\ at \div STEP = q
    BY <1>1, Divided
  <2>2. STEP * (q + 1) = STEP * q + STEP /\ STEP * q \in Nat
    BY <1>1, <2>1
  <2>3. next = IF STEP * (q + 1) <= to THEN STEP * (q + 1) ELSE to
    <3>1. ~ Chips!Distance(at, to) < STEP
      BY <1>1, <1>3 DEF Chips!Distance
    <3>2. QED
      BY <1>3, <2>1, <3>1 DEF Chips!NextClock
  <2>4. QED
    BY <1>1, <1>3, <2>1, <2>2, <2>3
<1>4. CASE Chips!Distance(at, to) >= STEP /\ ~ at < to
  <2>1. PICK q \in Nat, r \in 0 .. STEP - 1 :
          at + STEP - 1 = STEP * q + r /\ (at + STEP - 1) \div STEP = q
    <3>1. at + STEP - 1 \in Nat
      BY <1>1
    <3>2. QED
      BY <1>1, <3>1, Divided
  <2>2. STEP * (q - 1) = STEP * q - STEP /\ STEP * q \in Nat
    BY <1>1, <2>1
  <2>3. next = IF STEP * (q - 1) >= to THEN STEP * (q - 1) ELSE to
    <3>1. ~ Chips!Distance(at, to) < STEP
      BY <1>1, <1>4 DEF Chips!Distance
    <3>2. QED
      BY <1>4, <2>1, <3>1 DEF Chips!NextClock
  <2>4. at - to >= STEP
    BY <1>1, <1>4 DEF Chips!Distance
  <2>5. QED
    BY <1>1, <1>4, <2>1, <2>2, <2>3, <2>4
<1>5. Chips!Distance(at, to) < STEP \/ Chips!Distance(at, to) >= STEP
  BY <1>1 DEF Chips!Distance
<1>6. QED
  BY <1>2, <1>3, <1>4, <1>5

LEMMA ChipFacts ==
  ASSUME Chips!LinkAssumption, LinkType, ChipType
  PROVE  /\ RESET \in Nat /\ LOWEST \in Nat \ {0} /\ STEP \in Nat \ {0} /\ LOWEST <= RESET
         /\ Settings \subseteq Nat /\ value \in Nat /\ setting \in Nat /\ actual \in Nat
         /\ chips.clock \in Nat /\ chips.sized \in Nat /\ chips.boots \in Nat
         /\ bap.at \in Nat /\ bap.to \in Nat /\ Attempts[left.driver] \in Nat \ {0}
<1>1. /\ RESET \in Nat /\ LOWEST \in Nat \ {0} /\ STEP \in Nat \ {0} /\ LOWEST <= RESET
      /\ Settings \subseteq Nat
  BY DEF Chips!LinkAssumption
<1>2. Attempts[left.driver] \in Nat \ {0}
  BY DEF LinkType, Links, Chips!LinkAssumption
<1>3. value \in Nat /\ setting \in Nat /\ actual \in Nat
  BY <1>1 DEF ChipType
<1>4. /\ chips.clock \in Nat /\ chips.sized \in Nat /\ chips.boots \in Nat
      /\ bap.at \in Nat /\ bap.to \in Nat
  BY DEF ChipType, Chains, Ramps
<1>5. QED
  BY <1>1, <1>2, <1>3, <1>4

\* The worker, and what it is while main and the power task do not meet.
LEMMA WorkerIsTask == ASSUME ChipType PROVE IsTask(Worker) /\ IsTask(main) /\ IsTask(pm)
  BY DEF ChipType, Worker, IsTask

Becomes(next) == /\ met = FALSE /\ Worker'.pc = next.pc /\ (next.pc # "idle" => Worker' = next)
                 /\ crossed' = FALSE => crossed = FALSE

LEMMA MainAlone ==
  ASSUME ChipFlags, MeetInv, main.pc # "idle", pm' = pm, Chips!Meets, met' = FALSE
  PROVE  Worker = main /\ pm.pc = "idle" /\ Becomes(main')
<1>1. ~Chips!StartsAlone
  BY DEF Chips!StartsAlone
<1>2. met = FALSE /\ (crossed' = FALSE => crossed = FALSE)
  BY <1>1 DEF Chips!Meets, ChipFlags
<1>3. pm.pc = "idle" /\ Worker = main
  BY <1>2 DEF MeetInv, Worker
<1>4. QED
  BY <1>2, <1>3 DEF Worker, Becomes

LEMMA PowerAlone ==
  ASSUME ChipFlags, MeetInv, pm.pc # "idle" \/ pm'.pc # "idle", ~Chips!StartsAlone, main' = main,
         Chips!Meets, met' = FALSE
  PROVE  Worker = pm /\ Worker' = pm' /\ main.pc = "idle" /\ Becomes(pm')
<1>1. met = FALSE /\ (crossed' = FALSE => crossed = FALSE)
  BY DEF Chips!Meets, ChipFlags
<1>2. main.pc = "idle"
  BY <1>1 DEF MeetInv, Chips!Meets, ChipFlags
<1>3. Worker = pm /\ Worker' = pm'
  BY <1>2 DEF Worker
<1>4. QED
  BY <1>1, <1>2, <1>3 DEF Becomes

LEMMA MeetInvKept == ASSUME ChipFlags, MeetInv, Chips!Meets PROVE MeetInv'
<1>1. met' = FALSE => main'.pc = "idle" \/ pm'.pc = "idle"
  BY DEF Chips!Meets
<1>2. crossed' = FALSE => met' = FALSE
  BY DEF MeetInv, Chips!Meets, ChipFlags
<1>3. crossed' = FALSE => bap'.pc = "idle" \/ Worker'.pc = "idle"
  BY DEF Chips!Meets, Worker
<1>4. QED
  BY <1>1, <1>2, <1>3 DEF MeetInv

\* What a write of a frequency does, whether the chips hear it or not.
LEMMA ClockWritten ==
  ASSUME Chips!LinkAssumption, LinkType, ChipType, TaskInv, NEW f \in Nat,
         chips' = Chips!Clocked(chips, f), actual' = Chips!Recorded(f)
  PROVE  /\ chips' \in Chains /\ chips'.on = chips.on /\ chips'.baud = chips.baud
         /\ chips'.boots = chips.boots /\ chips'.sized = chips.sized /\ chips'.again = chips.again
         /\ actual' \in Nat /\ (actual' = 0 \/ actual' >= LOWEST) /\ chips'.clock >= LOWEST
         /\ f = actual' \/ (actual' = 0 /\ f < LOWEST)
<1>1. /\ LOWEST \in Nat \ {0} /\ chips \in Chains /\ chips.clock >= LOWEST
  BY ChipFacts DEF ChipType, TaskInv
<1>2. /\ actual' \in Nat /\ (actual' = 0 \/ actual' >= LOWEST)
      /\ f = actual' \/ (actual' = 0 /\ f < LOWEST)
  BY <1>1 DEF Chips!Recorded
<1>3. CASE f >= LOWEST /\ Chips!Hears
  <2>1. chips' = [chips EXCEPT !.clock = f]
    BY <1>3 DEF Chips!Clocked
  <2>2. QED
    BY <1>1, <1>2, <1>3, <2>1 DEF Chains
<1>4. CASE ~(f >= LOWEST /\ Chips!Hears)
  <2>1. chips' = chips
    BY <1>4 DEF Chips!Clocked
  <2>2. QED
    BY <1>1, <1>2, <2>1
<1>5. QED
  BY <1>3, <1>4

\* Chips that hear it, one step from where the ramp stands.
LEMMA ClockFollowed ==
  ASSUME Chips!LinkAssumption, LinkType, ChipType, TaskInv, Chips!Hears,
         NEW at \in Nat, NEW f \in Nat, f - at <= STEP, at - f <= STEP, Known, Follows(at),
         chips' = Chips!Clocked(chips, f), actual' = Chips!Recorded(f)
  PROVE  /\ IF actual' = 0 THEN chips'.clock < LOWEST + STEP ELSE actual' = chips'.clock
         /\ chips'.clock - chips.clock <= STEP /\ chips.clock - chips'.clock <= STEP
<1>1. /\ LOWEST \in Nat \ {0} /\ STEP \in Nat \ {0} /\ actual \in Nat /\ chips.clock \in Nat
  BY ChipFacts
<1>2. CASE f >= LOWEST
  <2>1. chips' = [chips EXCEPT !.clock = f] /\ actual' = f
    BY <1>2 DEF Chips!Clocked, Chips!Recorded
  <2>2. chips'.clock = f
    BY <2>1 DEF ChipType, Chains
  <2>3. QED
    BY <1>1, <1>2, <2>1, <2>2 DEF TaskInv, Known, Follows
<1>3. CASE ~ f >= LOWEST
  <2>1. chips' = chips /\ actual' = 0
    BY <1>3 DEF Chips!Clocked, Chips!Recorded
  <2>2. QED
    BY <1>1, <1>3, <2>1 DEF TaskInv, Known, Follows
<1>4. QED
  BY <1>2, <1>3

\* What sizing the nonce space does.
LEMMA SpaceWritten ==
  ASSUME ChipType, NEW f \in Nat
  PROVE  /\ Chips!WithSpace(chips, f) \in Chains
         /\ Chips!WithSpace(chips, f).on = chips.on /\ Chips!WithSpace(chips, f).baud = chips.baud
         /\ Chips!WithSpace(chips, f).clock = chips.clock
         /\ Chips!WithSpace(chips, f).boots = chips.boots
         /\ Chips!WithSpace(chips, f).again = chips.again
         /\ Spaced /\ Chips!Hears => Chips!WithSpace(chips, f).sized = f
<1>1. chips \in Chains
  BY DEF ChipType
<1>2. CASE Chips!HasNonceSpace /\ Chips!Hears
  <2>1. Chips!WithSpace(chips, f) = [chips EXCEPT !.sized = f]
    BY <1>2 DEF Chips!WithSpace
  <2>2. QED
    BY <1>1, <2>1 DEF Chains
<1>3. CASE ~(Chips!HasNonceSpace /\ Chips!Hears)
  <2>1. Chips!WithSpace(chips, f) = chips
    BY <1>3 DEF Chips!WithSpace
  <2>2. ~(Spaced /\ Chips!Hears)
    BY <1>3 DEF Spaced, Chips!HasNonceSpace, Chips!Driver
  <2>3. QED
    BY <1>1, <2>1, <2>2
<1>4. QED
  BY <1>2, <1>3

LEMMA ChipsSized ==
  ASSUME ChipType
  PROVE  /\ Chips!Sized(chips) \in Chains
         /\ Chips!Sized(chips).on = chips.on /\ Chips!Sized(chips).baud = chips.baud
         /\ Chips!Sized(chips).clock = chips.clock /\ Chips!Sized(chips).boots = chips.boots
         /\ Chips!Sized(chips).again = chips.again
         /\ Spaced /\ Chips!Hears /\ actual # 0 => Chips!Sized(chips).sized = actual
<1>1. chips \in Chains /\ actual \in Nat
  BY DEF ChipType
<1>2. CASE actual > 0
  <2>1. Chips!Sized(chips) = Chips!WithSpace(chips, actual)
    BY <1>2 DEF Chips!Sized
  <2>2. QED
    BY <1>1, <2>1, SpaceWritten
<1>3. CASE ~ actual > 0
  <2>1. Chips!Sized(chips) = chips
    BY <1>3 DEF Chips!Sized
  <2>2. QED
    BY <1>1, <1>3, <2>1
<1>4. QED
  BY <1>2, <1>3

\* What the drivers' init does: chips that are initialised again are marked.
LEMMA ChipsInitialised ==
  ASSUME ChipType, NEW t, NEW c, c = Chips!Initialised(t)
  PROVE  /\ c \in Chains /\ c.on = chips.on /\ c.baud = chips.baud /\ c.clock = chips.clock
         /\ c.sized = chips.sized /\ c.boots = chips.boots
         /\ (t.then = "sized" => c.again = TRUE) /\ (t.then # "sized" => c.again = chips.again)
<1>1. chips \in Chains /\ chips.again \in BOOLEAN
  BY DEF ChipType, Chains
<1>2. CASE t.then = "sized"
  <2>1. c = [chips EXCEPT !.again = TRUE]
    BY <1>1, <1>2 DEF Chips!Initialised
  <2>2. QED
    BY <1>1, <1>2, <2>1 DEF Chains
<1>3. CASE t.then # "sized"
  <2>1. (chips.again \/ t.then = "sized") = chips.again
    BY <1>1, <1>3
  <2>2. c = [chips EXCEPT !.again = chips.again]
    BY <2>1 DEF Chips!Initialised
  <2>3. QED
    BY <1>1, <1>3, <2>2 DEF Chains
<1>4. QED
  BY <1>2, <1>3
-----------------------------------------------------------------------------
(* Bringing up, by whichever task.  What a step does to the chips and to the task: *)

Placed(t) == /\ IsTask(t) /\ t.attempt \in 1 .. Attempts[left.driver]
             /\ t.pc = "reset" => t.then = "up"
             /\ t.pc = "probe" => t.then \in {"up", "sized"}
Sound(t, next) ==
  /\ Same(t, next) /\ next.attempt \in 1 .. Attempts[left.driver]
  /\ next.pc = "reset" => next.then = "up"
  /\ next.pc = "probe" => next.then \in {"up", "sized"}
  /\ t.pc # "idle" /\ next.pc # "stopped"
  /\ chips' \in Chains /\ host' \in Rates /\ actual' \in Nat
  /\ actual' = 0 \/ actual' >= LOWEST
  /\ chips'.clock >= LOWEST
  /\ chips'.boots >= chips.boots /\ (t.pc = "reset" => chips'.boots > 0)
  /\ line' = {} \/ (line' = line /\ chips'.boots = chips.boots)
  /\ ready' = ready \/ (ready' = TRUE /\ line' = {})
  /\ tasks' = tasks \/ (next.pc = "idle" /\ tasks' = (tasks \/ t.by = "main"))

LEMMA RampStepDoes ==
  ASSUME Chips!LinkAssumption, LinkType, ChipType, TaskInv, NEW t, NEW next, Placed(t),
         Chips!RampStep(t, next)
  PROVE  /\ Sound(t, next) /\ t.pc = "ramp" /\ next.pc = "ramp" /\ next.then = t.then
         /\ next.to = t.to
         /\ \E f \in Nat : /\ next.at = f /\ f - t.at <= STEP /\ t.at - f <= STEP
                           /\ chips' = Chips!Clocked(chips, f) /\ actual' = Chips!Recorded(f)
                           /\ f = actual' \/ (actual' = 0 /\ f < LOWEST)
         /\ chips'.on = chips.on /\ chips'.baud = chips.baud
         /\ chips'.boots = chips.boots /\ chips'.sized = chips.sized /\ chips'.again = chips.again
         /\ UNCHANGED <<host, line, ready, tasks>>
<1> DEFINE f == Chips!NextClock(t.at, t.to)
<1>1. t.at \in Nat /\ t.to \in Nat
  BY TaskFields DEF Placed
<1>2. f \in Nat /\ f - t.at <= STEP /\ t.at - f <= STEP
  BY <1>1, NextClockIsNear
<1>3. /\ t.pc = "ramp" /\ next = [t EXCEPT !.at = f]
      /\ chips' = Chips!Clocked(chips, f) /\ actual' = Chips!Recorded(f)
      /\ UNCHANGED <<host, line, ready, tasks>>
  BY DEF Chips!RampStep, Chips!readers
<1> HIDE DEF f
<1>4. /\ Same(t, next) /\ next.pc = "ramp" /\ next.then = t.then /\ next.to = t.to
      /\ next.at = f /\ next.attempt = t.attempt
  <2>1. CASE t \in Mains
    BY <1>2, <1>3, <2>1 DEF Same, Mains, Powers
  <2>2. CASE t \in Powers
    BY <1>2, <1>3, <2>2 DEF Same, Mains, Powers
  <2>3. QED
    BY <2>1, <2>2 DEF Placed, IsTask
<1>5. /\ chips' \in Chains /\ chips'.on = chips.on /\ chips'.baud = chips.baud
      /\ chips'.boots = chips.boots /\ chips'.sized = chips.sized /\ chips'.again = chips.again
      /\ actual' \in Nat /\ (actual' = 0 \/ actual' >= LOWEST) /\ chips'.clock >= LOWEST
      /\ f = actual' \/ (actual' = 0 /\ f < LOWEST)
  BY <1>2, <1>3, ClockWritten
<1>6. Sound(t, next)
  BY <1>3, <1>4, <1>5, ChipFacts DEF Sound, Placed, ChipType
<1>7. QED
  BY <1>2, <1>3, <1>4, <1>5, <1>6

LEMMA RampEndsDoes ==
  ASSUME Chips!LinkAssumption, LinkType, ChipType, TaskInv, NEW t, NEW next, Placed(t),
         Chips!RampEnds(t, next)
  PROVE  /\ Sound(t, next) /\ t.pc = "ramp" /\ t.at = t.to /\ next.pc = t.then
         /\ next.then = t.then /\ next.to = t.to /\ next.at = t.at /\ t.then \in Thens
         /\ UNCHANGED <<chips, host, line, actual, ready, tasks>>
<1>1. /\ t.pc = "ramp" /\ t.at = t.to /\ Moves(t, next, t.then)
      /\ UNCHANGED <<chips, host, line, actual, ready, tasks>>
  BY DEF Chips!RampEnds, Chips!readers, Moves
<1>2. t.then \in Thens /\ t.then \in ChipPlaces /\ (t \in Mains => t.then \in MainPlaces)
  BY TaskFields DEF Placed, Thens, ChipPlaces, MainPlaces
<1>3. /\ Same(t, next) /\ next.pc = t.then /\ next.then = t.then /\ next.at = t.at
      /\ next.to = t.to /\ next.attempt = t.attempt
  BY <1>1, <1>2, TaskMoved DEF Placed
<1>4. Sound(t, next)
  BY <1>1, <1>2, <1>3, ChipFacts DEF Sound, Placed, ChipType, TaskInv, Thens
<1>5. QED
  BY <1>1, <1>2, <1>3, <1>4

LEMMA ResetDoes ==
  ASSUME Chips!LinkAssumption, LinkType, ChipType, TaskInv, NEW t, NEW next, Placed(t),
         Chips!ResetChips(t, next)
  PROVE  /\ Sound(t, next) /\ t.pc = "reset" /\ t.then = "up" /\ next.pc = "probe"
         /\ next.then = "up"
         /\ (pm.pc \notin {"flush", "stopped"} => chips'.on = TRUE) /\ chips'.baud = "reset"
         /\ chips'.clock = RESET /\ chips'.again = FALSE /\ chips'.boots = chips.boots + 1
         /\ host' = "reset" /\ line' = {} /\ UNCHANGED <<actual, ready, tasks>>
<1>1. /\ t.pc = "reset" /\ Moves(t, next, "probe") /\ host' = "reset" /\ line' = {}
      /\ chips' = [Chips!Off EXCEPT !.on = Chips!Powered, !.boots = chips.boots + 1]
      /\ UNCHANGED <<actual, ready, tasks>>
  BY DEF Chips!ResetChips, Chips!readers, Moves
<1>2. /\ Same(t, next) /\ next.pc = "probe" /\ next.then = t.then /\ next.attempt = t.attempt
  BY <1>1, TaskMoved DEF Placed, ChipPlaces, MainPlaces
<1>3. RESET \in Nat /\ LOWEST \in Nat \ {0} /\ LOWEST <= RESET /\ chips.boots \in Nat
  BY ChipFacts
<1> DEFINE powered == Chips!Powered
<1>4. powered \in BOOLEAN /\ (pm.pc \notin {"flush", "stopped"} => powered = TRUE)
  BY DEF Chips!Powered
<1>5. chips' = [on |-> powered, baud |-> "reset", clock |-> RESET, sized |-> 0,
                boots |-> chips.boots + 1, again |-> FALSE]
  BY <1>1 DEF Chips!Off
<1> HIDE DEF powered
<1>6. /\ chips' \in Chains /\ chips'.on = powered /\ chips'.baud = "reset"
      /\ chips'.clock = RESET /\ chips'.boots = chips.boots + 1 /\ chips'.again = FALSE
  BY <1>3, <1>4, <1>5 DEF Chains, Rates
<1>7. Sound(t, next)
  BY <1>1, <1>2, <1>3, <1>6 DEF Sound, Placed, ChipType, TaskInv, Rates
<1>8. QED
  BY <1>1, <1>2, <1>4, <1>6, <1>7 DEF Placed

LEMMA FoundDoes ==
  ASSUME Chips!LinkAssumption, LinkType, ChipType, TaskInv, NEW t, NEW next, Placed(t),
         Chips!ChainFound(t, next)
  PROVE  /\ Sound(t, next) /\ t.pc = "probe" /\ t.then \in {"up", "sized"} /\ next.pc = "ramp"
         /\ next.then = t.then /\ next.to = value /\ next.at = actual'
         /\ chips'.on = chips.on /\ chips'.clock = chips.clock /\ chips'.sized = chips.sized
         /\ chips'.boots = chips.boots
         /\ (t.then = "sized" => chips'.again = TRUE)
         /\ (t.then # "sized" => chips'.again = chips.again)
         /\ \/ left.driver = "BM1373" /\ chips'.baud = "fast" /\ host' = "fast" /\ actual' = RESET
            \/ left.driver = "BM1397" /\ chips'.baud = "reset" /\ UNCHANGED <<host, actual>>
            \/ left.driver \notin {"BM1373", "BM1397"} /\ chips'.baud = chips.baud
               /\ UNCHANGED <<host, actual>>
         /\ UNCHANGED <<line, ready, tasks>>
<1> DEFINE c == Chips!Initialised(t)
<1>1. t.pc = "probe" /\ UNCHANGED <<line, ready, tasks>>
  BY DEF Chips!ChainFound, Chips!readers
<1>2. RESET \in Nat /\ LOWEST \in Nat \ {0} /\ LOWEST <= RESET /\ value \in Nat /\ actual \in Nat
  BY ChipFacts
<1>3. /\ c \in Chains /\ c.on = chips.on /\ c.baud = chips.baud /\ c.clock = chips.clock
      /\ c.sized = chips.sized /\ c.boots = chips.boots
      /\ (t.then = "sized" => c.again = TRUE) /\ (t.then # "sized" => c.again = chips.again)
  BY ChipsInitialised
<1>4. t.then \in {"up", "sized"} /\ t.attempt \in Nat /\ t.attempt \in 1 .. Attempts[left.driver]
  BY <1>1, TaskFields DEF Placed
<1> HIDE DEF c
<1>5. \E at \in {actual, RESET} :
        /\ actual' = at
        /\ next = [t EXCEPT !.pc = "ramp", !.then = t.then, !.at = at, !.to = value]
        /\ \/ left.driver = "BM1373" /\ chips' = [c EXCEPT !.baud = "fast"] /\ host' = "fast"
              /\ at = RESET
           \/ left.driver = "BM1397" /\ chips' = [c EXCEPT !.baud = "reset"]
              /\ host' = host /\ at = actual
           \/ left.driver \notin {"BM1373", "BM1397"} /\ chips' = c /\ host' = host /\ at = actual
  <2>1. CASE Chips!BM1373_init(t, next)
    <3>1. /\ left.driver = "BM1373" /\ chips' = [c EXCEPT !.baud = "fast"] /\ host' = "fast"
          /\ actual' = RESET /\ next = [Chips!Ramp(t, value, t.then) EXCEPT !.at = RESET]
      BY <2>1 DEF Chips!BM1373_init, Chips!Driver, c
    <3>2. next = [t EXCEPT !.pc = "ramp", !.then = t.then, !.at = RESET, !.to = value]
      <4>1. CASE t \in Mains
        BY <3>1, <4>1 DEF Chips!Ramp, Mains
      <4>2. CASE t \in Powers
        BY <3>1, <4>2 DEF Chips!Ramp, Powers
      <4>3. QED
        BY <4>1, <4>2 DEF Placed, IsTask
    <3>3. QED
      BY <3>1, <3>2
  <2>2. CASE Chips!BM1397_init(t, next)
    BY <2>2 DEF Chips!BM1397_init, Chips!RampsUp, Chips!Ramp, Chips!Driver, c
  <2>3. CASE Chips!BM1366_init(t, next) \/ Chips!BM1368_init(t, next) \/ Chips!BM1370_init(t, next)
    BY <2>3 DEF Chips!BM1366_init, Chips!BM1368_init, Chips!BM1370_init, Chips!RampsUp, Chips!Ramp,
                Chips!Driver, c
  <2>4. QED
    BY <2>1, <2>2, <2>3 DEF Chips!ChainFound
<1>6. PICK at \in {actual, RESET} :
        /\ actual' = at
        /\ next = [t EXCEPT !.pc = "ramp", !.then = t.then, !.at = at, !.to = value]
        /\ \/ left.driver = "BM1373" /\ chips' = [c EXCEPT !.baud = "fast"] /\ host' = "fast"
              /\ at = RESET
           \/ left.driver = "BM1397" /\ chips' = [c EXCEPT !.baud = "reset"]
              /\ host' = host /\ at = actual
           \/ left.driver \notin {"BM1373", "BM1397"} /\ chips' = c /\ host' = host /\ at = actual
  BY <1>5
<1>7. at \in Nat /\ (at = 0 \/ at >= LOWEST)
  BY <1>2, <1>6 DEF TaskInv
<1>8. /\ Same(t, next) /\ next.pc = "ramp" /\ next.then = t.then /\ next.to = value
      /\ next.at = at /\ next.attempt = t.attempt
  <2>1. CASE t \in Mains
    BY <1>2, <1>6, <1>7, <2>1 DEF Same, Mains, MainPlaces, Powers
  <2>2. CASE t \in Powers
    BY <1>2, <1>6, <1>7, <2>2 DEF Same, Mains, Powers, ChipPlaces
  <2>3. QED
    BY <2>1, <2>2 DEF Placed, IsTask
<1>9. /\ chips' \in Chains /\ chips'.on = c.on /\ chips'.clock = c.clock /\ chips'.sized = c.sized
      /\ chips'.boots = c.boots /\ chips'.again = c.again
      /\ \/ left.driver = "BM1373" /\ chips'.baud = "fast" /\ host' = "fast" /\ at = RESET
         \/ left.driver = "BM1397" /\ chips'.baud = "reset" /\ host' = host /\ at = actual
         \/ left.driver \notin {"BM1373", "BM1397"} /\ chips'.baud = c.baud /\ host' = host
            /\ at = actual
  BY <1>3, <1>6 DEF Chains, Rates
<1>10. host' \in Rates
  BY <1>6 DEF ChipType, Rates
<1>11. Sound(t, next)
  BY <1>1, <1>3, <1>4, <1>6, <1>7, <1>8, <1>9, <1>10, ChipFacts DEF Sound, TaskInv
<1>12. QED
  BY <1>1, <1>3, <1>4, <1>6, <1>8, <1>9, <1>11

LEMMA NotFoundDoes ==
  ASSUME Chips!LinkAssumption, LinkType, ChipType, TaskInv, NEW t, NEW next, Placed(t),
         Chips!ChainNotFound(t, next)
  PROVE  /\ Sound(t, next) /\ t.pc = "probe"
         /\ \/ t.then = "up" /\ next.pc = "reset" /\ next.then = "up"
            \/ next.pc = "idle"
         /\ UNCHANGED <<chips, host, line, actual, ready, tasks>>
<1>1. /\ t.pc = "probe" /\ next = Chips!AfterFailure(t)
      /\ UNCHANGED <<chips, host, line, actual, ready, tasks>>
  BY DEF Chips!ChainNotFound, Chips!readers
<1>2. t.attempt \in Nat /\ Attempts[left.driver] \in Nat \ {0} /\ RESET \in Nat
  BY ChipFacts, TaskFields DEF Placed
<1>3. CASE t.then = "up" /\ t.attempt < Attempts[left.driver]
  <2> DEFINE again == t.attempt + 1
  <2>1. next = [t EXCEPT !.pc = "reset", !.attempt = again]
    BY <1>1, <1>3 DEF Chips!AfterFailure, Chips!Driver
  <2>2. again \in Nat /\ again \in 1 .. Attempts[left.driver]
    BY <1>2, <1>3
  <2> HIDE DEF again
  <2>3. Same(t, next) /\ next.pc = "reset" /\ next.then = t.then /\ next.attempt = again
    <3>1. CASE t \in Mains
      BY <2>1, <2>2, <3>1 DEF Same, Mains, MainPlaces, Powers
    <3>2. CASE t \in Powers
      BY <2>1, <2>2, <3>2 DEF Same, Mains, Powers, ChipPlaces
    <3>3. QED
      BY <3>1, <3>2 DEF Placed, IsTask
  <2>4. Sound(t, next)
    BY <1>1, <1>3, <2>2, <2>3, ChipFacts DEF Sound, ChipType, TaskInv
  <2>5. QED
    BY <1>1, <1>3, <2>3, <2>4
<1>4. CASE ~(t.then = "up" /\ t.attempt < Attempts[left.driver])
  <2>1. next = Chips!Rested(t)
    BY <1>1, <1>4 DEF Chips!AfterFailure, Chips!Driver
  <2>2. Same(t, next) /\ Returned(next)
    BY <1>2, <2>1, TaskRested DEF Placed
  <2>3. Sound(t, next)
    BY <1>1, <1>2, <2>2, ChipFacts DEF Sound, Returned, ChipType, TaskInv
  <2>4. QED
    BY <1>1, <2>2, <2>3 DEF Returned
<1>5. QED
  BY <1>3, <1>4

LEMMA BroughtUpDoes ==
  ASSUME Chips!LinkAssumption, LinkType, ChipType, TaskInv, NEW t, NEW next, Placed(t),
         Chips!BroughtUp(t, next)
  PROVE  /\ Sound(t, next) /\ t.pc = "up" /\ next.pc = "idle"
         /\ chips'.on = chips.on /\ chips'.clock = chips.clock /\ chips'.boots = chips.boots
         /\ chips'.again = chips.again
         /\ (Chips!Hears => chips'.baud = "fast")
         /\ (Chips!Hears /\ Spaced => chips'.sized = Chips!InitSized)
         /\ (~Chips!Hears => chips' = chips)
         /\ host' = "fast" /\ line' = {} /\ ready' = TRUE /\ actual' = actual
<1> DEFINE c == Chips!WithSpace(chips, Chips!InitSized)
<1>1. /\ t.pc = "up" /\ next = Chips!Rested(t) /\ host' = "fast" /\ line' = {}
      /\ chips' = (IF Chips!Hears THEN [c EXCEPT !.baud = "fast"] ELSE chips) /\ ready' = TRUE
      /\ actual' = actual /\ tasks' = (tasks \/ t.by = "main")
  BY DEF Chips!BroughtUp, Chips!FastRate
<1>2. /\ value \in Nat /\ actual \in Nat /\ RESET \in Nat /\ chips \in Chains
      /\ Attempts[left.driver] \in Nat \ {0}
  BY ChipFacts DEF ChipType
<1>3. Chips!InitSized \in Nat
  BY <1>2 DEF Chips!InitSized
<1>4. /\ c \in Chains /\ c.on = chips.on /\ c.clock = chips.clock /\ c.boots = chips.boots
      /\ c.again = chips.again /\ (Spaced /\ Chips!Hears => c.sized = Chips!InitSized)
  BY <1>3, SpaceWritten
<1> HIDE DEF c
<1>5. /\ chips' \in Chains /\ chips'.on = chips.on /\ chips'.clock = chips.clock
      /\ chips'.boots = chips.boots /\ chips'.again = chips.again
      /\ (Chips!Hears => chips'.baud = "fast")
      /\ (Chips!Hears /\ Spaced => chips'.sized = Chips!InitSized)
      /\ (~Chips!Hears => chips' = chips)
  <2>1. CASE Chips!Hears
    BY <1>1, <1>4, <2>1 DEF Chains, Rates
  <2>2. CASE ~Chips!Hears
    BY <1>1, <1>2, <2>2
  <2>3. QED
    BY <2>1, <2>2
<1>6. Same(t, next) /\ Returned(next)
  BY <1>1, <1>2, TaskRested DEF Placed
<1>7. Sound(t, next)
  BY <1>1, <1>2, <1>5, <1>6, ChipFacts DEF Sound, Returned, Rates, TaskInv
<1>8. QED
  BY <1>1, <1>5, <1>6, <1>7 DEF Returned

\* What it keeps, while main and the power task do not meet.
AloneKept == AloneInv' /\ ClockInv' /\ SpaceInv'

LEMMA WorkerPlaced == ASSUME ChipInv PROVE Placed(Worker) /\ Placed(main) /\ Placed(pm)
<1>1. Placed(main)
  BY TaskFields DEF ChipInv, ChipType, TaskInv, Placed, IsTask
<1>2. Placed(pm)
  BY DEF ChipInv, ChipType, TaskInv, Placed, IsTask
<1>3. QED
  BY <1>1, <1>2 DEF Worker

\* Chips that work hear, unless they were initialised again.
LEMMA WorkerHears ==
  ASSUME ChipInv, met = FALSE, Worker.pc \notin {"reset", "flush", "stopped"}, ~Unheard
  PROVE  Chips!Hears /\ Chips!Hears = TRUE /\ chips.on = TRUE
  BY DEF ChipInv, AloneInv, Chips!Hears

LEMMA RampStepKeeps ==
  ASSUME Chips!LinkAssumption, ChipInv, NEW next, Chips!RampStep(Worker, next), Becomes(next),
         UNCHANGED <<value, bap, monitor, left>>
  PROVE  AloneKept
<1>1. ChipFlags /\ LinkType /\ ChipType /\ TaskInv /\ MeetInv /\ AloneInv /\ ClockInv /\ SpaceInv
  BY DEF ChipInv
<1>2. /\ Sound(Worker, next) /\ Worker.pc = "ramp" /\ next.pc = "ramp"
      /\ next.then = Worker.then /\ next.to = Worker.to
      /\ \E f \in Nat : /\ next.at = f /\ f - Worker.at <= STEP /\ Worker.at - f <= STEP
                        /\ chips' = Chips!Clocked(chips, f) /\ actual' = Chips!Recorded(f)
                        /\ f = actual' \/ (actual' = 0 /\ f < LOWEST)
      /\ chips'.on = chips.on /\ chips'.baud = chips.baud
      /\ chips'.boots = chips.boots /\ chips'.sized = chips.sized /\ chips'.again = chips.again
      /\ UNCHANGED <<host, line, ready, tasks>>
  BY <1>1, WorkerPlaced, RampStepDoes
<1>3. PICK f \in Nat : /\ next.at = f /\ f - Worker.at <= STEP /\ Worker.at - f <= STEP
                       /\ chips' = Chips!Clocked(chips, f) /\ actual' = Chips!Recorded(f)
                       /\ f = actual' \/ (actual' = 0 /\ f < LOWEST)
  BY <1>2
<1>4. /\ met = FALSE /\ Worker' = next /\ (crossed' = FALSE => crossed = FALSE)
      /\ Worker.at \in Nat
  BY <1>1, <1>2, WorkerIsTask, TaskFields DEF Becomes
<1>5. AloneInv'
  BY <1>1, <1>2, <1>4 DEF AloneInv, Unheard, Brings
<1>6. ASSUME crossed' = FALSE, ~Astray
      PROVE  IF actual' = 0 THEN chips'.clock < LOWEST + STEP ELSE actual' = chips'.clock
  <2>1. Known /\ Follows(Worker.at)
    BY <1>1, <1>2, <1>4, <1>6 DEF ClockInv
  <2>2. Chips!Hears
    BY <1>2, <1>4, <1>6, WorkerHears DEF Unheard, Astray
  <2>3. QED
    BY <1>1, <1>3, <1>4, <2>1, <2>2, ClockFollowed
<1>7. crossed' = FALSE => bap.pc = "idle"
  BY <1>1, <1>2, <1>4 DEF MeetInv
<1>8. ClockInv'
  BY <1>2, <1>3, <1>4, <1>6, <1>7 DEF ClockInv, Astray, Known, Follows
<1>9. SpaceInv'
  BY <1>1, <1>2, <1>4 DEF SpaceInv
<1>10. QED
  BY <1>5, <1>8, <1>9 DEF AloneKept

LEMMA RampEndsKeeps ==
  ASSUME Chips!LinkAssumption, ChipInv, NEW next, Chips!RampEnds(Worker, next), Becomes(next),
         UNCHANGED <<value, bap, monitor, left>>
  PROVE  AloneKept
<1>1. ChipFlags /\ LinkType /\ ChipType /\ TaskInv /\ MeetInv /\ AloneInv /\ ClockInv /\ SpaceInv
  BY DEF ChipInv
<1>2. /\ Sound(Worker, next) /\ Worker.pc = "ramp" /\ Worker.at = Worker.to
      /\ next.pc = Worker.then
      /\ next.then = Worker.then /\ next.to = Worker.to /\ next.at = Worker.at
      /\ Worker.then \in Thens
      /\ UNCHANGED <<chips, host, line, actual, ready, tasks>>
  BY <1>1, WorkerPlaced, RampEndsDoes
<1>3. met = FALSE /\ Worker' = next /\ (crossed' = FALSE => crossed = FALSE)
  BY <1>2 DEF Becomes, Thens
<1>4. crossed' = FALSE => bap.pc = "idle"
  BY <1>1, <1>2, <1>3 DEF MeetInv
<1>5. AloneInv'
  BY <1>1, <1>2, <1>3 DEF AloneInv, Unheard, Brings, Thens
<1>6. ClockInv'
  BY <1>1, <1>2, <1>3, <1>4 DEF ClockInv, Astray, Known, Follows, Thens
<1>7. SpaceInv'
  <2>1. crossed' = FALSE => Worker.at = actual \/ actual = 0
    BY <1>1, <1>2, <1>3 DEF ClockInv, Follows
  <2>2. QED
    BY <1>1, <1>2, <1>3, <2>1 DEF SpaceInv, Thens
<1>8. QED
  BY <1>5, <1>6, <1>7 DEF AloneKept

LEMMA ResetKeeps ==
  ASSUME Chips!LinkAssumption, ChipInv, NEW next, Chips!ResetChips(Worker, next), Becomes(next),
         UNCHANGED <<value, bap, monitor, left>>
  PROVE  AloneKept
<1>1. ChipFlags /\ LinkType /\ ChipType /\ TaskInv /\ MeetInv /\ AloneInv /\ ClockInv /\ SpaceInv
  BY DEF ChipInv
<1>2. /\ Worker.pc = "reset" /\ Worker.then = "up" /\ next.pc = "probe" /\ next.then = "up"
      /\ (pm.pc \notin {"flush", "stopped"} => chips'.on = TRUE) /\ chips'.baud = "reset"
      /\ chips'.clock = RESET /\ chips'.again = FALSE /\ chips'.boots = chips.boots + 1
      /\ host' = "reset" /\ line' = {} /\ UNCHANGED <<actual, ready, tasks>>
  BY <1>1, WorkerPlaced, ResetDoes
<1>3. met = FALSE /\ Worker' = next /\ (crossed' = FALSE => crossed = FALSE)
  BY <1>2 DEF Becomes
<1>4. pm.pc \notin {"flush", "stopped"}
  BY <1>1, <1>2, <1>3 DEF MeetInv, Worker
<1>5. monitor.was = FALSE /\ monitor.seen = 0 /\ ready # TRUE
  BY <1>1, <1>2, <1>3 DEF AloneInv, Brings, ChipInv, SeenInv
<1>6. AloneInv'
  BY <1>2, <1>3, <1>4, <1>5 DEF AloneInv, Unheard, Brings
<1>7. RESET \in Nat /\ LOWEST \in Nat \ {0} /\ LOWEST <= RESET
  BY <1>1, ChipFacts
<1>8. crossed' = FALSE => actual = RESET /\ bap.pc = "idle"
  BY <1>1, <1>2, <1>3 DEF ClockInv, MeetInv
<1>9. ClockInv'
  BY <1>2, <1>3, <1>7, <1>8 DEF ClockInv, Astray, Known
<1>10. SpaceInv'
  BY <1>2, <1>3, <1>5 DEF SpaceInv
<1>11. QED
  BY <1>6, <1>9, <1>10 DEF AloneKept

LEMMA FoundKeeps ==
  ASSUME Chips!LinkAssumption, ChipInv, NEW next, Chips!ChainFound(Worker, next), Becomes(next),
         UNCHANGED <<value, bap, monitor, left>>
  PROVE  AloneKept
<1>1. ChipFlags /\ LinkType /\ ChipType /\ TaskInv /\ MeetInv /\ AloneInv /\ ClockInv /\ SpaceInv
  BY DEF ChipInv
<1>2. /\ Worker.pc = "probe" /\ Worker.then \in {"up", "sized"} /\ next.pc = "ramp"
      /\ next.then = Worker.then /\ next.to = value /\ next.at = actual'
      /\ chips'.on = chips.on /\ chips'.clock = chips.clock /\ chips'.sized = chips.sized
      /\ chips'.boots = chips.boots
      /\ (Worker.then = "sized" => chips'.again = TRUE)
      /\ (Worker.then # "sized" => chips'.again = chips.again)
      /\ \/ left.driver = "BM1373" /\ chips'.baud = "fast" /\ host' = "fast" /\ actual' = RESET
         \/ left.driver = "BM1397" /\ chips'.baud = "reset" /\ UNCHANGED <<host, actual>>
         \/ left.driver \notin {"BM1373", "BM1397"} /\ chips'.baud = chips.baud
            /\ UNCHANGED <<host, actual>>
      /\ UNCHANGED <<line, ready, tasks>>
  BY <1>1, WorkerPlaced, FoundDoes
<1>3. met = FALSE /\ Worker' = next /\ (crossed' = FALSE => crossed = FALSE)
  BY <1>2 DEF Becomes
<1>4. crossed' = FALSE => bap.pc = "idle"
  BY <1>1, <1>2, <1>3 DEF MeetInv
<1>5. AloneInv'
  <2>1. ~Unheard' => host' = chips'.baud
    <3>1. CASE left.driver = "BM1397"
      <4>1. ~Unheard' => Worker.then = "up"
        BY <1>2, <3>1 DEF Unheard
      <4>2. QED
        BY <1>1, <1>2, <1>3, <3>1, <4>1 DEF AloneInv
    <3>2. CASE left.driver # "BM1397"
      BY <1>1, <1>2, <1>3, <3>2 DEF AloneInv, Unheard
    <3>3. QED
      BY <3>1, <3>2
  <2>2. QED
    BY <1>1, <1>2, <1>3, <2>1 DEF AloneInv, Brings
<1>6. ClockInv'
  <2>1. crossed' = FALSE /\ ~Astray' => Known'
    <3>1. CASE Worker.then = "up"
      <4>1. crossed' = FALSE => actual = RESET /\ (~Astray => Known)
        BY <1>1, <1>2, <1>3, <3>1 DEF ClockInv
      <4>2. actual' = actual \/ actual' = RESET
        BY <1>2
      <4>3. Astray' <=> Astray
        BY <1>2, <3>1 DEF Astray
      <4>4. QED
        BY <1>2, <4>1, <4>2, <4>3 DEF Known
    <3>2. CASE Worker.then = "sized"
      <4>1. ~Astray' => left.driver \notin {"BM1373", "BM1397"}
        BY <1>2, <3>2 DEF Astray
      <4>2. QED
        BY <1>1, <1>2, <1>3, <4>1 DEF ClockInv, Astray, Known
    <3>3. QED
      BY <1>2, <3>1, <3>2
  <2>2. QED
    BY <1>2, <1>3, <1>4, <2>1 DEF ClockInv, Follows
<1>7. SpaceInv'
  BY <1>2, <1>3 DEF SpaceInv
<1>8. QED
  BY <1>5, <1>6, <1>7 DEF AloneKept

LEMMA NotFoundKeeps ==
  ASSUME Chips!LinkAssumption, ChipInv, NEW next, Chips!ChainNotFound(Worker, next), Becomes(next),
         UNCHANGED <<value, bap, monitor, left>>
  PROVE  AloneKept
<1>1. ChipFlags /\ LinkType /\ ChipType /\ TaskInv /\ MeetInv /\ AloneInv /\ ClockInv /\ SpaceInv
  BY DEF ChipInv
<1>2. /\ Worker.pc = "probe"
      /\ \/ Worker.then = "up" /\ next.pc = "reset" /\ next.then = "up"
         \/ next.pc = "idle"
      /\ UNCHANGED <<chips, host, line, actual, ready, tasks>>
  BY <1>1, WorkerPlaced, NotFoundDoes
<1>3. /\ met = FALSE /\ Worker'.pc = next.pc /\ (next.pc # "idle" => Worker' = next)
      /\ (crossed' = FALSE => crossed = FALSE)
  BY DEF Becomes
<1>4. crossed' = FALSE => bap.pc = "idle"
  BY <1>1, <1>2, <1>3 DEF MeetInv
<1>5. CASE Worker.then = "up" /\ next.pc = "reset" /\ next.then = "up"
  <2>1. AloneInv'
    BY <1>1, <1>2, <1>3, <1>5 DEF AloneInv, Unheard, Brings
  <2>2. ClockInv'
    BY <1>1, <1>2, <1>3, <1>4, <1>5 DEF ClockInv, Astray, Known
  <2>3. SpaceInv'
    BY <1>2, <1>3, <1>5 DEF SpaceInv
  <2>4. QED
    BY <2>1, <2>2, <2>3 DEF AloneKept
<1>6. CASE next.pc = "idle"
  <2>1. AloneInv'
    BY <1>1, <1>2, <1>3, <1>6 DEF AloneInv, Unheard, Brings
  <2>2. ClockInv'
    BY <1>1, <1>2, <1>3, <1>4, <1>6 DEF ClockInv, Astray, Known
  <2>3. SpaceInv'
    BY <1>1, <1>2, <1>3, <1>6 DEF SpaceInv, Spaced
  <2>4. QED
    BY <2>1, <2>2, <2>3 DEF AloneKept
<1>7. QED
  BY <1>2, <1>5, <1>6

\* The clock the end of a driver's init sizes the nonce space for is the one that runs.
LEMMA InitIsSized ==
  ASSUME Chips!LinkAssumption, ChipInv, met = FALSE, crossed = FALSE,
         Worker.pc \in {"up", "sized"}, Spaced, actual # 0
  PROVE  Chips!Hears /\ Chips!InitSized = chips.clock
<1>1. value \in Nat /\ actual \in Nat
  BY ChipFacts DEF ChipInv
<1>2. ~Astray /\ ~Unheard
  BY DEF Spaced, Astray, Unheard
<1>3. Known /\ actual \in {0, value}
  BY <1>2 DEF ChipInv, ClockInv, SpaceInv
<1>4. Chips!InitSized = actual
  BY <1>1, <1>3 DEF Chips!InitSized
<1>5. QED
  BY <1>2, <1>3, <1>4, WorkerHears DEF Known

LEMMA BroughtUpKeeps ==
  ASSUME Chips!LinkAssumption, ChipInv, NEW next, Chips!BroughtUp(Worker, next), Becomes(next),
         UNCHANGED <<value, bap, monitor, left>>
  PROVE  AloneKept
<1>1. ChipFlags /\ LinkType /\ ChipType /\ TaskInv /\ MeetInv /\ AloneInv /\ ClockInv /\ SpaceInv
  BY DEF ChipInv
<1>2. /\ Worker.pc = "up" /\ next.pc = "idle"
      /\ chips'.on = chips.on /\ chips'.clock = chips.clock /\ chips'.boots = chips.boots
      /\ chips'.again = chips.again
      /\ (Chips!Hears => chips'.baud = "fast")
      /\ (Chips!Hears /\ Spaced => chips'.sized = Chips!InitSized)
      /\ (~Chips!Hears => chips' = chips)
      /\ host' = "fast" /\ line' = {} /\ ready' = TRUE /\ actual' = actual
  BY <1>1, WorkerPlaced, BroughtUpDoes
<1>3. /\ met = FALSE /\ Worker'.pc = "idle" /\ (crossed' = FALSE => crossed = FALSE)
  BY <1>2 DEF Becomes
<1>4. crossed' = FALSE => bap.pc = "idle"
  BY <1>1, <1>2, <1>3 DEF MeetInv
<1>5. monitor.seen = 0
  BY <1>1, <1>2, <1>3 DEF AloneInv, Brings, ChipInv, SeenInv
<1>6. ~Unheard => chips'.baud = "fast"
  BY <1>2, <1>3, WorkerHears
<1>7. AloneInv'
  BY <1>1, <1>2, <1>3, <1>5, <1>6 DEF AloneInv, Unheard, Brings
<1>8. ClockInv'
  BY <1>1, <1>2, <1>3, <1>4 DEF ClockInv, Astray, Known
<1>9. SpaceInv'
  <2>1. crossed = FALSE /\ Spaced /\ actual # 0 => chips'.sized = chips.clock
    BY <1>2, <1>3, InitIsSized
  <2>2. QED
    BY <1>2, <1>3, <2>1 DEF SpaceInv, Spaced
<1>10. QED
  BY <1>7, <1>8, <1>9 DEF AloneKept

LEMMA BringsUpKeeps ==
  ASSUME Chips!LinkAssumption, ChipInv, NEW next, Chips!BringsUp(Worker, next), Becomes(next)
  PROVE  AloneKept
<1>1. UNCHANGED <<value, bap, monitor, left>>
  BY BringsUpRest DEF ChipInv
<1>2. QED
  BY <1>1, RampStepKeeps, RampEndsKeeps, ResetKeeps, FoundKeeps, NotFoundKeeps, BroughtUpKeeps
     DEF Chips!BringsUp

LEMMA BringsUpSound ==
  ASSUME Chips!LinkAssumption, ChipInv, NEW t, NEW next, Placed(t), Chips!BringsUp(t, next)
  PROVE  Sound(t, next)
<1>1. LinkType /\ ChipType /\ TaskInv
  BY DEF ChipInv
<1>2. QED
  BY <1>1, RampStepDoes, RampEndsDoes, ResetDoes, FoundDoes, NotFoundDoes, BroughtUpDoes
     DEF Chips!BringsUp

\* The part of a meeting: nothing is known but what always holds.
LEMMA Met == ASSUME met' # FALSE, MeetInv' PROVE AloneKept
  BY DEF MeetInv, AloneKept, AloneInv, ClockInv, SpaceInv

ChipsKept == ChipType' /\ TaskInv' /\ SeenInv' /\ AloneKept
-----------------------------------------------------------------------------
(* The steps of the tasks. *)

LEMMA MainKeeps ==
  ASSUME Chips!LinkAssumption, ChipInv, Chips!MainTask, MeetInv', left'.driver = left.driver
  PROVE  ChipsKept
<1>1. ChipFlags /\ LinkType /\ ChipType /\ TaskInv /\ SeenInv /\ MeetInv
  BY DEF ChipInv
<1>2. Chips!BringsUp(main, main') /\ pm' = pm /\ Chips!Meets
  BY DEF Chips!MainTask
<1>3. UNCHANGED <<value, setting, bap, reader, monitor, spike, left>>
  BY <1>1, <1>2, BringsUpRest
<1>4. Sound(main, main')
  BY <1>2, WorkerPlaced, BringsUpSound
<1>5. main.pc # "idle"
  BY <1>4 DEF Sound
<1>6. tasks = FALSE /\ reader = FALSE /\ monitor.was = FALSE /\ monitor.seen = 0 /\ line = {}
  BY <1>1, <1>5 DEF TaskInv, SeenInv
<1>7. chips.boots \in Nat /\ chips'.boots \in Nat
  BY <1>1, <1>4, ChipFacts DEF Sound, Chains
<1>8. ChipType'
  BY <1>1, <1>2, <1>3, <1>4 DEF ChipType, Sound, Same
<1>9. TaskInv'
  BY <1>1, <1>2, <1>4, <1>6, <1>7 DEF TaskInv, Sound
<1>10. SeenInv'
  <2>1. line' = {}
    BY <1>4, <1>6 DEF Sound
  <2>2. QED
    BY <1>1, <1>3, <1>6, <1>7, <2>1 DEF SeenInv
<1>11. AloneKept
  <2>1. CASE met' = FALSE
    <3>1. Worker = main /\ Becomes(main')
      BY <1>1, <1>2, <1>5, <2>1, MainAlone
    <3>2. Chips!BringsUp(Worker, main')
      BY <1>2, <3>1
    <3>3. QED
      BY <3>1, <3>2, BringsUpKeeps
  <2>2. CASE met' # FALSE
    BY <2>2, Met
  <2>3. QED
    BY <2>1, <2>2
<1>12. QED
  BY <1>8, <1>9, <1>10, <1>11 DEF ChipsKept

LEMMA PowerBringsUpKeeps ==
  ASSUME Chips!LinkAssumption, ChipInv, Chips!BringsUp(pm, pm'), main' = main, Chips!Meets,
         MeetInv', left'.driver = left.driver
  PROVE  ChipsKept
<1>1. ChipFlags /\ LinkType /\ ChipType /\ TaskInv /\ SeenInv /\ MeetInv
  BY DEF ChipInv
<1>2. UNCHANGED <<value, setting, bap, reader, monitor, spike, left>>
  BY <1>1, BringsUpRest
<1>3. Sound(pm, pm')
  BY WorkerPlaced, BringsUpSound
<1>4. pm.pc # "idle" /\ pm'.pc # "stopped"
  BY <1>3 DEF Sound
<1>5. tasks' = tasks
  <2>1. (tasks \/ pm.by = "main") = tasks
    <3>1. pm.by = "power"
      BY <1>1 DEF ChipType, Powers
    <3>2. QED
      BY <1>1, <3>1 DEF ChipFlags
  <2>2. QED
    BY <1>3, <2>1 DEF Sound
<1>6. chips.boots \in Nat /\ chips'.boots \in Nat
  BY <1>1, <1>3, ChipFacts DEF Sound, Chains
<1>7. ChipType'
  BY <1>1, <1>2, <1>3 DEF ChipType, Sound, Same
<1>8. TaskInv'
  BY <1>1, <1>3, <1>5, <1>6 DEF TaskInv, Sound
<1>9. SeenInv'
  <2>1. line' \subseteq 1 .. chips'.boots /\ (line = {} => line' = {})
    BY <1>1, <1>3, <1>6 DEF Sound, SeenInv
  <2>2. monitor.seen \in 0 .. chips'.boots
    BY <1>1, <1>3, <1>6 DEF Sound, SeenInv
  <2>3. ready' = ready \/ line' = {}
    BY <1>3 DEF Sound
  <2>4. QED
    BY <1>1, <1>2, <1>4, <1>5, <2>1, <2>2, <2>3 DEF SeenInv
<1>10. AloneKept
  <2>1. CASE met' = FALSE
    <3>1. ~Chips!StartsAlone
      BY DEF Chips!StartsAlone, Chips!BringsUp, Chips!ResetChips,
         Chips!ChainFound, Chips!ChainNotFound, Chips!RampStep, Chips!RampEnds, Chips!BroughtUp
    <3>2. Worker = pm /\ Becomes(pm')
      BY <1>1, <1>4, <2>1, <3>1, PowerAlone
    <3>3. Chips!BringsUp(Worker, pm')
      BY <3>2
    <3>4. QED
      BY <3>2, <3>3, BringsUpKeeps
  <2>2. CASE met' # FALSE
    BY <2>2, Met
  <2>3. QED
    BY <2>1, <2>2
<1>11. QED
  BY <1>7, <1>8, <1>9, <1>10 DEF ChipsKept

LEMMA SizesAgainKeeps ==
  ASSUME Chips!LinkAssumption, ChipInv, Chips!SizesAgain, main' = main, Chips!Meets, MeetInv',
         left'.driver = left.driver
  PROVE  ChipsKept
<1> DEFINE c == Chips!WithSpace(chips, Chips!InitSized)
<1>1. /\ ChipFlags /\ LinkType /\ ChipType /\ TaskInv /\ SeenInv /\ MeetInv /\ AloneInv
      /\ ClockInv /\ SpaceInv
  BY DEF ChipInv
<1>2. /\ pm.pc = "sized" /\ pm' = Chips!Rested(pm) /\ chips' = c
      /\ UNCHANGED <<host, line, value, actual, setting, ready, bap, tasks, reader, monitor, spike>>
  BY DEF Chips!SizesAgain, Chips!readers
<1>3. value \in Nat /\ actual \in Nat /\ RESET \in Nat /\ Attempts[left.driver] \in Nat \ {0}
  BY <1>1, ChipFacts
<1>4. Chips!InitSized \in Nat
  BY <1>3 DEF Chips!InitSized
<1>5. /\ chips' \in Chains /\ chips'.on = chips.on /\ chips'.baud = chips.baud
      /\ chips'.clock = chips.clock /\ chips'.boots = chips.boots /\ chips'.again = chips.again
      /\ (Spaced /\ Chips!Hears => chips'.sized = Chips!InitSized)
  BY <1>1, <1>2, <1>4, SpaceWritten
<1>6. pm' \in Powers /\ pm'.pc = "idle" /\ pm'.attempt = 1
  BY <1>1, <1>2, <1>3, TaskRested DEF ChipType, IsTask, Same, Returned
<1>7. ChipType'
  BY <1>1, <1>2, <1>3, <1>5, <1>6 DEF ChipType
<1>8. TaskInv' /\ SeenInv'
  BY <1>1, <1>2, <1>5, <1>6 DEF TaskInv, SeenInv
<1>9. AloneKept
  <2>1. CASE met' = FALSE
    <3>1. /\ Worker = pm /\ Worker' = pm' /\ met = FALSE /\ (crossed' = FALSE => crossed = FALSE)
      BY <1>1, <1>2, <2>1, PowerAlone DEF Becomes, Chips!StartsAlone
    <3>2. crossed' = FALSE => bap.pc = "idle"
      BY <1>1, <1>2, <3>1 DEF MeetInv
    <3>3. AloneInv'
      BY <1>1, <1>2, <1>5, <1>6, <3>1 DEF AloneInv, Unheard, Brings
    <3>4. ClockInv'
      BY <1>1, <1>2, <1>5, <1>6, <3>1, <3>2 DEF ClockInv, Astray, Known
    <3>5. crossed = FALSE /\ Spaced /\ actual # 0 => chips'.sized = chips.clock
      BY <1>2, <1>5, <3>1, InitIsSized
    <3>6. SpaceInv'
      BY <1>2, <1>5, <1>6, <3>1, <3>5 DEF SpaceInv, Spaced
    <3>7. QED
      BY <3>3, <3>4, <3>6 DEF AloneKept
  <2>2. CASE met' # FALSE
    BY <2>2, Met
  <2>3. QED
    BY <2>1, <2>2
<1>10. QED
  BY <1>7, <1>8, <1>9 DEF ChipsKept

LEMMA CutPowerKeeps ==
  ASSUME Chips!LinkAssumption, ChipInv, Chips!CutPower, main' = main, Chips!Meets, MeetInv',
         left'.driver = left.driver
  PROVE  ChipsKept
<1> DEFINE c == Chips!Sized(chips)
<1>1. /\ ChipFlags /\ LinkType /\ ChipType /\ TaskInv /\ SeenInv /\ MeetInv /\ AloneInv
      /\ ClockInv /\ SpaceInv
  BY DEF ChipInv
<1>2. /\ pm.pc = "cut" /\ Moves(pm, pm', "flush") /\ chips' = [c EXCEPT !.on = FALSE]
      /\ ready' = FALSE
      /\ UNCHANGED <<host, line, value, actual, setting, bap, tasks, reader, monitor, spike>>
  BY DEF Chips!CutPower, Chips!readers, Moves
<1>3. /\ c \in Chains /\ c.baud = chips.baud /\ c.clock = chips.clock /\ c.boots = chips.boots
      /\ c.again = chips.again
  BY <1>1, ChipsSized
<1> HIDE DEF c
<1>4. /\ chips' \in Chains /\ chips'.baud = chips.baud
      /\ chips'.clock = chips.clock /\ chips'.boots = chips.boots /\ chips'.again = chips.again
  BY <1>2, <1>3 DEF Chains
<1>5. pm \in Powers /\ ~ pm \in Mains
  BY <1>1 DEF ChipType, Powers, Mains
<1>6. pm' \in Powers /\ pm'.pc = "flush" /\ pm'.attempt = pm.attempt
  BY <1>2, <1>5, TaskMoved DEF IsTask, Same, ChipPlaces
<1>7. ChipType'
  BY <1>1, <1>2, <1>4, <1>6 DEF ChipType
<1>8. TaskInv' /\ SeenInv'
  BY <1>1, <1>2, <1>4, <1>6 DEF TaskInv, SeenInv
<1>9. AloneKept
  <2>1. CASE met' = FALSE
    <3>1. /\ Worker = pm /\ Worker' = pm' /\ met = FALSE /\ (crossed' = FALSE => crossed = FALSE)
      BY <1>1, <1>2, <2>1, PowerAlone DEF Becomes, Chips!StartsAlone
    <3>2. crossed' = FALSE => bap.pc = "idle"
      BY <1>1, <1>2, <3>1 DEF MeetInv
    <3>3. AloneInv'
      BY <1>1, <1>2, <1>4, <1>6, <3>1 DEF AloneInv, Unheard, Brings
    <3>4. ClockInv' /\ SpaceInv'
      BY <1>2, <1>6, <3>1, <3>2 DEF ClockInv, SpaceInv
    <3>5. QED
      BY <3>3, <3>4 DEF AloneKept
  <2>2. CASE met' # FALSE
    BY <2>2, Met
  <2>3. QED
    BY <2>1, <2>2
<1>10. QED
  BY <1>7, <1>8, <1>9 DEF ChipsKept

LEMMA FlushKeeps ==
  ASSUME Chips!LinkAssumption, ChipInv, Chips!Flush, main' = main, Chips!Meets, MeetInv',
         left'.driver = left.driver
  PROVE  ChipsKept
<1>1. /\ ChipFlags /\ LinkType /\ ChipType /\ TaskInv /\ SeenInv /\ MeetInv /\ AloneInv
      /\ ClockInv /\ SpaceInv
  BY DEF ChipInv
<1>2. /\ pm.pc = "flush" /\ Moves(pm, pm', "stopped") /\ line' = {}
      /\ UNCHANGED <<chips, host, value, actual, setting, ready, bap, tasks, reader, monitor,
                     spike>>
  BY DEF Chips!Flush, Chips!readers, Moves
<1>3. pm \in Powers /\ ~ pm \in Mains
  BY <1>1 DEF ChipType, Powers, Mains
<1>4. pm' \in Powers /\ pm'.pc = "stopped" /\ pm'.attempt = pm.attempt
  BY <1>2, <1>3, TaskMoved DEF IsTask, Same, ChipPlaces
<1>5. ChipType'
  BY <1>1, <1>2, <1>4 DEF ChipType
<1>6. TaskInv' /\ SeenInv'
  BY <1>1, <1>2, <1>4 DEF TaskInv, SeenInv
<1>7. AloneKept
  <2>1. CASE met' = FALSE
    <3>1. /\ Worker = pm /\ Worker' = pm' /\ met = FALSE /\ (crossed' = FALSE => crossed = FALSE)
      BY <1>1, <1>2, <1>4, <2>1, PowerAlone DEF Becomes, Chips!StartsAlone
    <3>2. crossed' = FALSE => bap.pc = "idle"
      BY <1>1, <1>2, <3>1 DEF MeetInv
    <3>3. AloneInv'
      BY <1>1, <1>2, <1>4, <3>1 DEF AloneInv, Unheard, Brings
    <3>4. ClockInv' /\ SpaceInv'
      BY <1>2, <1>4, <3>1, <3>2 DEF ClockInv, SpaceInv
    <3>5. QED
      BY <3>3, <3>4 DEF AloneKept
  <2>2. CASE met' # FALSE
    BY <2>2, Met
  <2>3. QED
    BY <2>1, <2>2
<1>8. QED
  BY <1>5, <1>6, <1>7 DEF ChipsKept

\* A start that has the chips for itself: what was not known of them no longer matters.
LEMMA StartKeeps ==
  ASSUME Chips!LinkAssumption, ChipInv, Chips!Start, main' = main, Chips!Meets, MeetInv',
         left'.driver = left.driver
  PROVE  ChipsKept
<1>1. /\ ChipFlags /\ LinkType /\ ChipType /\ TaskInv /\ SeenInv /\ MeetInv /\ AloneInv
  BY DEF ChipInv
<1>2. /\ pm.pc = "stopped" /\ value' = setting /\ actual' = RESET /\ (monitor.was => ready)
      /\ pm' = [Chips!Rested(pm) EXCEPT !.pc = "reset"]
      /\ UNCHANGED <<chips, host, line, setting, ready, bap, tasks, reader, monitor, spike>>
  BY DEF Chips!Start, Chips!readers, Chips!MonitorLooked
<1>3. /\ RESET \in Nat /\ LOWEST \in Nat \ {0} /\ LOWEST <= RESET
      /\ Attempts[left.driver] \in Nat \ {0}
  BY <1>1, ChipFacts
<1>4. pm' \in Powers /\ pm'.pc = "reset" /\ pm'.then = "up" /\ pm'.attempt = 1
  <2> DEFINE rested == Chips!Rested(pm)
  <2>1. rested \in Powers /\ rested.then = "up" /\ rested.attempt = 1
    BY <1>1, <1>3, TaskRested DEF ChipType, IsTask, Same, Returned
  <2>2. pm' = [rested EXCEPT !.pc = "reset"]
    BY <1>2
  <2> HIDE DEF rested
  <2>3. QED
    BY <2>1, <2>2 DEF Powers, ChipPlaces
<1>5. ChipType'
  BY <1>1, <1>2, <1>3, <1>4 DEF ChipType
<1>6. TaskInv' /\ SeenInv'
  BY <1>1, <1>2, <1>3, <1>4 DEF TaskInv, SeenInv
<1>7. AloneKept
  <2>1. CASE met' = FALSE
    <3>1. main.pc = "idle" /\ Worker = pm /\ Worker' = pm'
      BY <1>4, <2>1 DEF MeetInv, Worker
    <3>2. ready = FALSE
      <4>1. CASE ready = TRUE
        <5>1. met = FALSE
          BY <1>1, <2>1, <4>1 DEF Chips!Meets, Chips!StartsAlone, ChipFlags
        <5>2. QED
          BY <1>1, <1>2, <3>1, <4>1, <5>1 DEF AloneInv
      <4>2. QED
        BY <1>1, <4>1 DEF ChipFlags
    <3>3. line = {} /\ monitor.was = FALSE /\ monitor.seen = 0
      BY <1>1, <1>2, <3>2 DEF SeenInv, ChipType, Looks
    <3>4. crossed' = FALSE => bap.pc = "idle"
      BY <1>2, <1>4, <3>1 DEF MeetInv
    <3>5. AloneInv'
      BY <1>2, <1>4, <3>1, <3>2, <3>3 DEF AloneInv
    <3>6. ClockInv' /\ SpaceInv'
      BY <1>2, <1>4, <3>1, <3>4 DEF ClockInv, SpaceInv
    <3>7. QED
      BY <3>5, <3>6 DEF AloneKept
  <2>2. CASE met' # FALSE
    BY <2>2, Met
  <2>3. QED
    BY <2>1, <2>2
<1>8. QED
  BY <1>5, <1>6, <1>7 DEF ChipsKept

LEMMA ResizeKeeps ==
  ASSUME Chips!LinkAssumption, ChipInv, Chips!Resize, main' = main, Chips!Meets, MeetInv',
         left'.driver = left.driver
  PROVE  ChipsKept
<1>1. /\ ChipFlags /\ LinkType /\ ChipType /\ TaskInv /\ SeenInv /\ MeetInv /\ AloneInv
      /\ ClockInv /\ SpaceInv
  BY DEF ChipInv
<1>2. /\ pm.pc = "resize" /\ pm' = Chips!Rested(pm) /\ chips' = Chips!Sized(chips)
      /\ UNCHANGED <<host, line, value, actual, setting, ready, bap, tasks, reader, monitor, spike>>
  BY DEF Chips!Resize, Chips!Resized, Chips!readers
<1>3. RESET \in Nat /\ Attempts[left.driver] \in Nat \ {0}
  BY <1>1, ChipFacts
<1>4. /\ chips' \in Chains /\ chips'.on = chips.on /\ chips'.baud = chips.baud
      /\ chips'.clock = chips.clock /\ chips'.boots = chips.boots /\ chips'.again = chips.again
      /\ (Spaced /\ Chips!Hears /\ actual # 0 => chips'.sized = actual)
  BY <1>1, <1>2, ChipsSized
<1>5. pm' \in Powers /\ pm'.pc = "idle" /\ pm'.attempt = 1
  BY <1>1, <1>2, <1>3, TaskRested DEF ChipType, IsTask, Same, Returned
<1>6. ChipType'
  BY <1>1, <1>2, <1>3, <1>4, <1>5 DEF ChipType
<1>7. TaskInv' /\ SeenInv'
  BY <1>1, <1>2, <1>4, <1>5 DEF TaskInv, SeenInv
<1>8. AloneKept
  <2>1. CASE met' = FALSE
    <3>1. /\ Worker = pm /\ Worker' = pm' /\ met = FALSE /\ (crossed' = FALSE => crossed = FALSE)
      BY <1>1, <1>2, <2>1, PowerAlone DEF Becomes, Chips!StartsAlone
    <3>2. crossed' = FALSE => bap.pc = "idle"
      BY <1>1, <1>2, <3>1 DEF MeetInv
    <3>3. AloneInv'
      BY <1>1, <1>2, <1>4, <1>5, <3>1 DEF AloneInv, Unheard, Brings
    <3>4. ClockInv'
      BY <1>1, <1>2, <1>4, <1>5, <3>1, <3>2 DEF ClockInv, Astray, Known
    <3>5. crossed = FALSE /\ Spaced => Chips!Hears /\ Known
      <4>1. Spaced => ~Astray /\ ~Unheard
        BY DEF Spaced, Astray, Unheard
      <4>2. QED
        BY <1>1, <1>2, <3>1, <4>1, WorkerHears DEF ClockInv
    <3>6. SpaceInv'
      BY <1>2, <1>4, <1>5, <3>1, <3>5 DEF SpaceInv, Spaced, Known
    <3>7. QED
      BY <3>3, <3>4, <3>6 DEF AloneKept
  <2>2. CASE met' # FALSE
    BY <2>2, Met
  <2>3. QED
    BY <2>1, <2>2
<1>9. QED
  BY <1>6, <1>7, <1>8 DEF ChipsKept

LEMMA FlatlineKeeps ==
  ASSUME Chips!LinkAssumption, ChipInv, Chips!Flatline, main' = main, Chips!Meets, MeetInv',
         left'.driver = left.driver
  PROVE  ChipsKept
<1>1. /\ ChipFlags /\ LinkType /\ ChipType /\ TaskInv /\ SeenInv /\ MeetInv /\ AloneInv
      /\ ClockInv /\ SpaceInv
  BY DEF ChipInv
<1>2. /\ pm.pc = "idle" /\ ready /\ pm' = [pm EXCEPT !.pc = "probe", !.then = "sized"]
      /\ UNCHANGED <<chips, host, line, value, actual, setting, ready, bap, tasks, reader, monitor,
                     spike>>
  BY DEF Chips!Flatline, Chips!readers
<1>3. pm' \in Powers /\ pm'.pc = "probe" /\ pm'.then = "sized" /\ pm'.attempt = pm.attempt
  BY <1>1, <1>2 DEF ChipType, Powers, ChipPlaces, Thens
<1>4. ChipType' /\ TaskInv' /\ SeenInv'
  BY <1>1, <1>2, <1>3 DEF ChipType, TaskInv, SeenInv
<1>5. AloneKept
  <2>1. CASE met' = FALSE
    <3>1. /\ Worker = pm /\ Worker' = pm' /\ met = FALSE /\ (crossed' = FALSE => crossed = FALSE)
      BY <1>1, <1>2, <1>3, <2>1, PowerAlone DEF Becomes, Chips!StartsAlone
    <3>2. crossed' = FALSE => bap.pc = "idle"
      BY <1>2, <1>3, <3>1 DEF MeetInv
    <3>3. AloneInv'
      BY <1>1, <1>2, <1>3, <3>1 DEF AloneInv, Unheard, Brings
    <3>4. ClockInv'
      BY <1>1, <1>2, <1>3, <3>1, <3>2 DEF ClockInv, Astray, Known
    <3>5. SpaceInv'
      BY <1>1, <1>2, <1>3, <3>1 DEF SpaceInv, Spaced
    <3>6. QED
      BY <3>3, <3>4, <3>5 DEF AloneKept
  <2>2. CASE met' # FALSE
    BY <2>2, Met
  <2>3. QED
    BY <2>1, <2>2
<1>6. QED
  BY <1>4, <1>5 DEF ChipsKept

\* A ramp to a frequency, from idle.
LEMMA StartsRampKeeps ==
  ASSUME Chips!LinkAssumption, ChipInv, Chips!Stop \/ Chips!Follow, main' = main, Chips!Meets,
         MeetInv', left'.driver = left.driver
  PROVE  ChipsKept
<1>1. /\ ChipFlags /\ LinkType /\ ChipType /\ TaskInv /\ SeenInv /\ MeetInv /\ AloneInv
      /\ ClockInv /\ SpaceInv
  BY DEF ChipInv
<1>2. /\ pm.pc = "idle" /\ UNCHANGED <<chips, host, line, actual, setting, ready, bap, tasks,
                                       reader, monitor, spike>>
  BY DEF Chips!Stop, Chips!Follow, Chips!readers
<1>3. RESET \in Nat /\ setting \in Nat /\ actual \in Nat /\ setting \in Settings
  BY <1>1, ChipFacts DEF ChipType
<1>4. /\ pm' \in Powers /\ pm'.pc = "ramp" /\ pm'.then \in {"cut", "resize"}
      /\ pm'.at = actual /\ pm'.attempt = pm.attempt /\ value' \in Settings \cup {RESET}
  <2>1. CASE Chips!Stop
    <3>1. /\ value' = RESET
          /\ pm' = [pm EXCEPT !.pc = "ramp", !.then = "cut", !.at = actual, !.to = RESET]
      BY <2>1 DEF Chips!Stop, Chips!Ramp
    <3>2. QED
      BY <1>1, <1>3, <3>1 DEF ChipType, Powers, ChipPlaces, Thens
  <2>2. CASE Chips!Follow
    <3> DEFINE r == Chips!Ramp(pm, setting, "resize")
    <3>1. value' = setting /\ pm' = [r EXCEPT !.last = setting]
      BY <2>2 DEF Chips!Follow
    <3>2. /\ r \in Powers /\ r.pc = "ramp" /\ r.then = "resize" /\ r.at = actual
          /\ r.attempt = pm.attempt
      BY <1>1, <1>3 DEF Chips!Ramp, ChipType, Powers, ChipPlaces, Thens
    <3> HIDE DEF r
    <3>3. QED
      BY <1>3, <3>1, <3>2 DEF Powers
  <2>3. QED
    BY <2>1, <2>2
<1>5. ChipType' /\ TaskInv' /\ SeenInv'
  BY <1>1, <1>2, <1>4 DEF ChipType, TaskInv, SeenInv
<1>6. AloneKept
  <2>1. CASE met' = FALSE
    <3>1. /\ Worker = pm /\ Worker' = pm' /\ met = FALSE /\ (crossed' = FALSE => crossed = FALSE)
      BY <1>1, <1>2, <1>4, <2>1, PowerAlone DEF Becomes, Chips!StartsAlone
    <3>2. crossed' = FALSE => bap.pc = "idle"
      BY <1>2, <1>4, <3>1 DEF MeetInv
    <3>3. AloneInv'
      BY <1>1, <1>2, <1>4, <3>1 DEF AloneInv, Unheard, Brings
    <3>4. ClockInv'
      BY <1>1, <1>2, <1>4, <3>1, <3>2 DEF ClockInv, Astray, Known, Follows
    <3>5. SpaceInv'
      BY <1>4, <3>1 DEF SpaceInv
    <3>6. QED
      BY <3>3, <3>4, <3>5 DEF AloneKept
  <2>2. CASE met' # FALSE
    BY <2>2, Met
  <2>3. QED
    BY <2>1, <2>2
<1>7. QED
  BY <1>5, <1>6 DEF ChipsKept
-----------------------------------------------------------------------------
(* The others: while a task works on the chips, the accessory makes the clock unknown. *)

LEMMA OthersAlone ==
  ASSUME ChipFlags, MeetInv, UNCHANGED <<main, pm>>, Chips!Meets
  PROVE  /\ Worker' = Worker /\ (met' = FALSE => met = FALSE)
         /\ (crossed' = FALSE => /\ crossed = FALSE
                                 /\ bap'.pc = "idle" \/ Worker.pc = "idle")
<1>1. ~Chips!StartsAlone
  BY DEF Chips!StartsAlone
<1>2. QED
  BY <1>1 DEF Worker, Chips!Meets, ChipFlags

LEMMA EditKeeps ==
  ASSUME Chips!LinkAssumption, ChipInv, Chips!Edit \/ Chips!ChainChanges,
         UNCHANGED <<main, pm>>, Chips!Meets, left'.driver = left.driver
  PROVE  ChipsKept
<1>1. /\ ChipFlags /\ LinkType /\ ChipType /\ TaskInv /\ SeenInv /\ MeetInv /\ AloneInv
      /\ ClockInv /\ SpaceInv
  BY DEF ChipInv
<1>2. /\ setting' \in Settings
      /\ UNCHANGED <<chips, host, line, value, actual, ready, bap, tasks, reader, monitor, spike>>
  BY <1>1 DEF Chips!Edit, Chips!ChainChanges, Chips!readers, ChipType
<1>3. ChipType' /\ TaskInv' /\ SeenInv'
  BY <1>1, <1>2 DEF ChipType, TaskInv, SeenInv
<1>4. /\ Worker' = Worker /\ (met' = FALSE => met = FALSE)
      /\ (crossed' = FALSE => crossed = FALSE)
  BY <1>1, OthersAlone
<1>5. AloneInv'
  BY <1>1, <1>2, <1>4 DEF AloneInv, Unheard, Brings
<1>6. ClockInv'
  BY <1>1, <1>2, <1>4 DEF ClockInv, Astray, Known, Follows
<1>7. SpaceInv'
  BY <1>1, <1>2, <1>4 DEF SpaceInv, Spaced
<1>8. QED
  BY <1>3, <1>5, <1>6, <1>7 DEF ChipsKept, AloneKept

LEMMA BapSetsKeeps ==
  ASSUME Chips!LinkAssumption, ChipInv, Chips!BapSets, UNCHANGED <<main, pm>>, Chips!Meets,
         left'.driver = left.driver
  PROVE  ChipsKept
<1>1. /\ ChipFlags /\ LinkType /\ ChipType /\ TaskInv /\ SeenInv /\ MeetInv /\ AloneInv
      /\ ClockInv /\ SpaceInv
  BY DEF ChipInv
<1>2. PICK f \in Settings : value' = f /\ bap' = [pc |-> "ramp", at |-> actual, to |-> f]
  BY DEF Chips!BapSets
<1>3. /\ bap.pc = "idle"
      /\ UNCHANGED <<chips, host, line, actual, setting, ready, tasks, reader, monitor, spike>>
  BY DEF Chips!BapSets, Chips!readers
<1>4. bap' \in Ramps /\ bap'.pc = "ramp" /\ bap'.at = actual /\ bap'.to = f
  <2>1. f \in Nat /\ actual \in Nat
    BY <1>1, ChipFacts
  <2>2. QED
    BY <1>2, <2>1 DEF Ramps
<1>5. ChipType' /\ TaskInv' /\ SeenInv'
  BY <1>1, <1>2, <1>3, <1>4 DEF ChipType, TaskInv, SeenInv
<1>6. /\ Worker' = Worker /\ (met' = FALSE => met = FALSE)
      /\ (crossed' = FALSE => crossed = FALSE /\ Worker.pc = "idle")
  BY <1>1, <1>4, OthersAlone
<1>7. AloneInv'
  BY <1>1, <1>3, <1>6 DEF AloneInv, Unheard, Brings
<1>8. ClockInv'
  BY <1>1, <1>3, <1>4, <1>6 DEF ClockInv, Astray, Known, Follows
<1>9. SpaceInv'
  BY <1>4, <1>6 DEF SpaceInv
<1>10. QED
  BY <1>5, <1>7, <1>8, <1>9 DEF ChipsKept, AloneKept

LEMMA BapRampsKeeps ==
  ASSUME Chips!LinkAssumption, ChipInv, Chips!BapRamps, UNCHANGED <<main, pm>>, Chips!Meets
  PROVE  ChipsKept
<1> DEFINE f == Chips!NextClock(bap.at, bap.to)
<1>1. /\ ChipFlags /\ LinkType /\ ChipType /\ TaskInv /\ SeenInv /\ MeetInv /\ AloneInv
      /\ ClockInv /\ SpaceInv
  BY DEF ChipInv
<1>2. bap.at \in Nat /\ bap.to \in Nat
  BY <1>1, ChipFacts
<1>3. f \in Nat /\ f - bap.at <= STEP /\ bap.at - f <= STEP
  BY <1>2, NextClockIsNear
<1>4. /\ bap.pc = "ramp" /\ bap' = [bap EXCEPT !.at = f]
      /\ chips' = Chips!Clocked(chips, f) /\ actual' = Chips!Recorded(f)
      /\ UNCHANGED <<host, line, value, setting, ready, tasks, reader, monitor, spike, left>>
  BY DEF Chips!BapRamps, Chips!readers
<1> HIDE DEF f
<1>5. bap' \in Ramps /\ bap'.pc = "ramp" /\ bap'.to = bap.to /\ bap'.at = f
  BY <1>1, <1>3, <1>4 DEF ChipType, Ramps
<1>6. /\ chips' \in Chains /\ chips'.on = chips.on /\ chips'.baud = chips.baud
      /\ chips'.boots = chips.boots /\ chips'.again = chips.again /\ chips'.clock >= LOWEST
      /\ actual' \in Nat /\ (actual' = 0 \/ actual' >= LOWEST)
      /\ f = actual' \/ (actual' = 0 /\ f < LOWEST)
  BY <1>1, <1>3, <1>4, ClockWritten
<1>7. /\ Worker' = Worker /\ (met' = FALSE => met = FALSE)
      /\ (crossed' = FALSE => crossed = FALSE /\ Worker.pc = "idle" /\ met = FALSE)
  BY <1>1, <1>5, OthersAlone DEF MeetInv
<1>8. ChipType' /\ TaskInv' /\ SeenInv'
  BY <1>1, <1>4, <1>5, <1>6 DEF ChipType, TaskInv, SeenInv
<1>9. AloneInv'
  BY <1>1, <1>4, <1>6, <1>7 DEF AloneInv, Unheard, Brings
<1>10. ASSUME crossed' = FALSE, ~Astray
       PROVE  IF actual' = 0 THEN chips'.clock < LOWEST + STEP ELSE actual' = chips'.clock
  <2>1. Known /\ Follows(bap.at)
    BY <1>1, <1>4, <1>7, <1>10 DEF ClockInv
  <2>2. Chips!Hears
    BY <1>7, <1>10, WorkerHears DEF Unheard, Astray
  <2>3. QED
    BY <1>1, <1>2, <1>3, <1>4, <2>1, <2>2, ClockFollowed
<1>11. ClockInv'
  BY <1>4, <1>5, <1>6, <1>7, <1>10 DEF ClockInv, Astray, Known, Follows
<1>12. SpaceInv'
  BY <1>5, <1>7 DEF SpaceInv
<1>13. QED
  BY <1>8, <1>9, <1>11, <1>12 DEF ChipsKept, AloneKept

LEMMA BapEndsKeeps ==
  ASSUME Chips!LinkAssumption, ChipInv, Chips!BapEnds, UNCHANGED <<main, pm>>, Chips!Meets
  PROVE  ChipsKept
<1>1. /\ ChipFlags /\ LinkType /\ ChipType /\ TaskInv /\ SeenInv /\ MeetInv /\ AloneInv
      /\ ClockInv /\ SpaceInv
  BY DEF ChipInv
<1>2. /\ bap.pc = "ramp" /\ bap' = [bap EXCEPT !.pc = "idle", !.at = 0, !.to = 0]
      /\ chips' = Chips!Sized(chips) /\ setting' = bap.to
      /\ UNCHANGED <<host, line, value, actual, ready, tasks, reader, monitor, spike, left>>
  BY DEF Chips!BapEnds, Chips!readers
<1>3. /\ chips' \in Chains /\ chips'.on = chips.on /\ chips'.baud = chips.baud
      /\ chips'.clock = chips.clock /\ chips'.boots = chips.boots /\ chips'.again = chips.again
      /\ (Spaced /\ Chips!Hears /\ actual # 0 => chips'.sized = actual)
  BY <1>1, <1>2, ChipsSized
<1>4. bap' \in Ramps /\ bap'.pc = "idle"
  BY <1>1, <1>2 DEF ChipType, Ramps
<1>5. /\ Worker' = Worker /\ (met' = FALSE => met = FALSE)
      /\ (crossed' = FALSE => crossed = FALSE /\ Worker.pc = "idle" /\ met = FALSE)
  BY <1>1, <1>2, OthersAlone DEF MeetInv
<1>6. ChipType' /\ TaskInv' /\ SeenInv'
  BY <1>1, <1>2, <1>3, <1>4 DEF ChipType, TaskInv, SeenInv
<1>7. AloneInv'
  BY <1>1, <1>2, <1>3, <1>5 DEF AloneInv, Unheard, Brings
<1>8. ClockInv'
  BY <1>1, <1>2, <1>3, <1>4, <1>5 DEF ClockInv, Astray, Known
<1>9. SpaceInv'
  <2>1. crossed' = FALSE /\ Spaced => Chips!Hears /\ Known
    <3>1. Spaced => ~Astray /\ ~Unheard
      BY DEF Spaced, Astray, Unheard
    <3>2. QED
      BY <1>1, <1>5, <3>1, WorkerHears DEF ClockInv
  <2>2. QED
    BY <1>2, <1>3, <1>5, <2>1 DEF SpaceInv, Spaced, Known
<1>10. QED
  BY <1>6, <1>7, <1>8, <1>9 DEF ChipsKept, AloneKept

\* The tasks that read leave the chips and their clock alone.
ReadersOnly == UNCHANGED <<chips, host, value, actual, setting, ready, main, pm, bap, tasks, met,
                           crossed, left>>
Fresh == met = FALSE => /\ line \subseteq {chips.boots} /\ monitor.seen \in {0, chips.boots}
                        /\ Brings => monitor.was = FALSE

LEMMA ReadersKeep ==
  ASSUME ChipInv, ReadersOnly, SeenInv', Fresh', monitor' \in Looks
  PROVE  ChipsKept /\ MeetInv'
<1>1. /\ ChipFlags /\ LinkType /\ ChipType /\ TaskInv /\ MeetInv /\ AloneInv
      /\ ClockInv /\ SpaceInv
  BY DEF ChipInv
<1>2. Worker' = Worker
  BY DEF ReadersOnly, Worker
<1>3. ChipType' /\ TaskInv' /\ MeetInv'
  BY <1>1, <1>2 DEF ReadersOnly, ChipType, TaskInv, MeetInv
<1>4. AloneInv'
  BY <1>1, <1>2 DEF ReadersOnly, AloneInv, Unheard, Brings, Fresh
<1>5. ClockInv' /\ SpaceInv'
  BY <1>1, <1>2 DEF ReadersOnly, ClockInv, Astray, Known, Follows, SpaceInv, Spaced
<1>6. QED
  BY <1>3, <1>4, <1>5 DEF ChipsKept, AloneKept

LEMMA WaitsKeeps ==
  ASSUME Chips!LinkAssumption, ChipInv, Chips!Reads(Chips!Waits) \/ Chips!Reads(Chips!Ends)
  PROVE  ChipsKept /\ MeetInv'
<1>1. ChipFlags /\ ChipType /\ SeenInv /\ AloneInv
  BY DEF ChipInv
<1>2. ReadersOnly /\ Worker' = Worker
  BY DEF Chips!Reads, ReadersOnly, Worker
<1>3. /\ reader' = FALSE \/ (ready = TRUE /\ tasks = TRUE)
      /\ UNCHANGED <<line, monitor, spike>>
  BY <1>1 DEF Chips!Reads, Chips!Waits, Chips!Ends, ChipFlags
<1>4. SeenInv'
  BY <1>1, <1>2, <1>3 DEF SeenInv, ReadersOnly
<1>5. Fresh'
  BY <1>1, <1>2, <1>3 DEF AloneInv, Fresh, Brings, ReadersOnly
<1>6. QED
  BY <1>1, <1>2, <1>3, <1>4, <1>5, ReadersKeep DEF ChipType

LEMMA CountsKeeps ==
  ASSUME Chips!LinkAssumption, ChipInv, Chips!Reads(Chips!Counts)
  PROVE  ChipsKept /\ MeetInv'
<1>1. ChipFlags /\ LinkType /\ ChipType /\ SeenInv /\ AloneInv
  BY DEF ChipInv
<1>2. ReadersOnly /\ Worker' = Worker
  BY DEF Chips!Reads, ReadersOnly, Worker
<1>3. PICK boot \in line :
        /\ reader /\ reader' = FALSE /\ line' = line \ {boot}
        /\ monitor' = [monitor EXCEPT !.seen = boot]
        /\ spike' = (spike \/ (~met /\ monitor.seen \notin {0, boot}))
  BY DEF Chips!Reads, Chips!Counts
<1>4. chips.boots \in Nat /\ boot \in 1 .. chips.boots /\ boot \in Nat
  BY <1>1, <1>3, ChipFacts DEF SeenInv
<1>5. monitor' \in Looks /\ monitor'.seen = boot /\ monitor'.was = monitor.was
  BY <1>1, <1>3, <1>4 DEF ChipType, Looks
<1>6. monitor.was # FALSE
  BY <1>1, <1>3 DEF SeenInv
<1>7. spike' = FALSE
  BY <1>1, <1>3 DEF SeenInv, AloneInv, ChipFlags
<1>8. SeenInv'
  BY <1>1, <1>2, <1>3, <1>4, <1>5, <1>6, <1>7 DEF SeenInv, ReadersOnly
<1>9. Fresh'
  BY <1>1, <1>2, <1>3, <1>5 DEF AloneInv, Fresh, Brings, ReadersOnly
<1>10. QED
  BY <1>2, <1>5, <1>8, <1>9, ReadersKeep

LEMMA MonitorKeeps ==
  ASSUME Chips!LinkAssumption, ChipInv, Chips!Reads(Chips!Monitor)
  PROVE  ChipsKept /\ MeetInv'
<1>1. ChipFlags /\ LinkType /\ ChipType /\ TaskInv /\ SeenInv /\ AloneInv
  BY DEF ChipInv
<1>2. ReadersOnly /\ Worker' = Worker
  BY DEF Chips!Reads, ReadersOnly, Worker
<1>3. /\ tasks /\ monitor' = [was |-> ready, seen |-> Chips!Seen] /\ ~(reader /\ line # {})
      /\ line' = (IF ready /\ Chips!Hears THEN line \cup {chips.boots} ELSE line)
      /\ UNCHANGED <<reader, spike>>
  BY DEF Chips!Reads, Chips!Monitor
<1>4. monitor.was \in BOOLEAN /\ monitor.seen \in Nat /\ chips.boots \in Nat
  BY <1>1, ChipFacts DEF ChipType, Looks
<1>5. /\ Chips!Seen \in {0, monitor.seen} /\ Chips!Seen \in Nat
      /\ ready = FALSE => Chips!Seen = 0
  BY <1>1, <1>4 DEF Chips!Seen, SeenInv, ChipFlags
<1>6. monitor' \in Looks /\ monitor'.was = ready /\ monitor'.seen = Chips!Seen
  BY <1>1, <1>3, <1>5 DEF ChipFlags, Looks
<1>7. chips.boots > 0
  BY <1>1, <1>3 DEF TaskInv
<1>8. /\ line' \subseteq line \cup {chips.boots} /\ (ready = FALSE => line' = line)
      /\ tasks = TRUE
  BY <1>1, <1>3 DEF ChipFlags
<1>9. line' \subseteq 1 .. chips.boots
  BY <1>1, <1>4, <1>7, <1>8 DEF SeenInv
<1>10. ready = FALSE => reader = FALSE \/ line' = {}
  BY <1>1, <1>3, <1>8 DEF ChipFlags
<1>11. SeenInv'
  BY <1>1, <1>2, <1>3, <1>4, <1>5, <1>6, <1>8, <1>9, <1>10 DEF SeenInv, ReadersOnly, ChipFlags
<1>12. Fresh'
  BY <1>1, <1>2, <1>5, <1>6, <1>8 DEF AloneInv, Fresh, Brings, ReadersOnly, ChipFlags
<1>13. QED
  BY <1>2, <1>6, <1>11, <1>12, ReadersKeep

LEMMA ChipNext == ASSUME Chips!LinkAssumption, ChipInv, Chips!Next PROVE ChipInv'
<1>1. ChipFlags' /\ LinkType' /\ left'.driver = left.driver /\ ChipFlags /\ MeetInv
  BY ChipFlagsKept, LinkTypeKept DEF ChipInv
<1>2. SUFFICES ChipsKept /\ MeetInv'
  BY <1>1 DEF ChipsKept, AloneKept, ChipInv
<1>3. CASE Chips!MainTask
  <2>1. MeetInv'
    BY <1>1, <1>3, MeetInvKept DEF Chips!MainTask
  <2>2. QED
    BY <1>1, <1>3, <2>1, MainKeeps
<1>4. CASE Chips!PowerTask
  <2>1. main' = main /\ Chips!Meets /\ MeetInv'
    BY <1>1, <1>4, MeetInvKept DEF Chips!PowerTask
  <2>2. QED
    BY <1>1, <1>4, <2>1, PowerBringsUpKeeps, SizesAgainKeeps, CutPowerKeeps, FlushKeeps,
       StartKeeps, ResizeKeeps DEF Chips!PowerTask
<1>5. CASE Chips!PowerActs
  <2>1. main' = main /\ Chips!Meets /\ MeetInv'
    BY <1>1, <1>5, MeetInvKept DEF Chips!PowerActs
  <2>2. QED
    BY <1>1, <1>5, <2>1, FlatlineKeeps, StartsRampKeeps DEF Chips!PowerActs
<1>6. CASE Chips!Others
  <2>1. UNCHANGED <<main, pm>> /\ Chips!Meets /\ MeetInv'
    BY <1>1, <1>6, MeetInvKept DEF Chips!Others
  <2>2. QED
    BY <1>1, <1>6, <2>1, EditKeeps, BapSetsKeeps, BapRampsKeeps, BapEndsKeeps DEF Chips!Others
<1>7. CASE \/ Chips!Reads(Chips!Waits) \/ Chips!Reads(Chips!Ends)
           \/ Chips!Reads(Chips!Counts) \/ Chips!Reads(Chips!Monitor)
  BY <1>7, WaitsKeeps, CountsKeeps, MonitorKeeps
<1>8. QED
  BY <1>3, <1>4, <1>5, <1>6, <1>7 DEF Chips!Next

LEMMA ChipsAtRest ==
  ASSUME Chips!LinkAssumption, ChipInv, UNCHANGED Chips!vars
  PROVE  ChipInv' /\ Chips!GentleStep
<1>1. /\ ChipFlags /\ LinkType /\ ChipType /\ TaskInv /\ SeenInv /\ MeetInv /\ AloneInv
      /\ ClockInv /\ SpaceInv
  BY DEF ChipInv
<1>2. ReadersOnly /\ UNCHANGED <<line, reader, monitor, spike>>
  BY DEF Chips!vars, Chips!readers, ReadersOnly
<1>3. ChipFlags' /\ LinkType' /\ SeenInv' /\ monitor' \in Looks /\ Worker' = Worker
  BY <1>1, <1>2 DEF ChipFlags, LinkType, SeenInv, ReadersOnly, ChipType, Worker
<1>4. Fresh'
  BY <1>1, <1>2, <1>3 DEF AloneInv, Fresh, Brings, ReadersOnly
<1>5. ChipInv'
  BY <1>2, <1>3, <1>4, ReadersKeep DEF ChipInv, ChipsKept, AloneKept
<1>6. Chips!GentleStep
  <2>1. chips.clock \in Nat /\ STEP \in Nat
    BY <1>1, ChipFacts
  <2>2. chips.clock - chips.clock = 0 /\ 0 <= STEP
    BY <2>1
  <2>3. QED
    BY <1>2, <2>2 DEF Chips!GentleStep, Chips!Distance, ReadersOnly
<1>7. QED
  BY <1>5, <1>6

LEMMA ChipStep == ASSUME Chips!LinkAssumption, ChipInv, [Chips!Next]_Chips!vars PROVE ChipInv'
  BY ChipNext, ChipsAtRest

LEMMA ChipsHold ==
  ASSUME Chips!LinkAssumption, ChipInv
  PROVE  Chips!TypeOK /\ Chips!ChipsAreKnown
<1>1. /\ ChipFlags /\ LinkType /\ ChipType /\ TaskInv /\ SeenInv /\ MeetInv /\ AloneInv
      /\ ClockInv /\ SpaceInv
  BY DEF ChipInv
<1>2. /\ chips.on \in BOOLEAN /\ chips.baud \in Rates /\ chips.sized \in Nat
      /\ chips.boots \in Nat /\ chips.clock >= LOWEST
  BY <1>1 DEF ChipType, Chains, TaskInv
<1>3. ready \in BOOLEAN /\ tasks \in BOOLEAN /\ reader \in BOOLEAN
  BY <1>1 DEF ChipFlags
<1>4. /\ main.pc \in MainPlaces /\ pm.pc \in ChipPlaces /\ bap.pc \in {"idle", "ramp"}
      /\ main.attempt \in 1 .. Attempts[left.driver] /\ pm.attempt \in 1 .. Attempts[left.driver]
  BY <1>1 DEF ChipType, Mains, Powers, Ramps
<1>5. line \subseteq 1 .. chips.boots /\ monitor.seen \in 0 .. chips.boots
  BY <1>1 DEF SeenInv
<1>6. /\ value \in Settings \cup {RESET} /\ actual \in Nat /\ setting \in Settings
      /\ host \in {"reset", "fast"}
  BY <1>1 DEF ChipType, Rates
<1>7. Chips!TypeOK
  BY ONLY <1>2, <1>3, <1>4, <1>5, <1>6, ZenonT(30)
     DEF Chips!TypeOK, Chips!Driver, Rates, MainPlaces, ChipPlaces, Chips!Places
<1>8. /\ Unheard => Chips!Deaf
      /\ Astray => Chips!Misled
  BY DEF Unheard, Astray, Chips!Deaf, Chips!Misled, Chips!Driver
<1>9. /\ ready => ready = TRUE /\ (~met => met = FALSE) /\ (~crossed => crossed = FALSE)
  BY <1>1 DEF ChipFlags
<1>10. Chips!BaudsAgree
  <2> SUFFICES ASSUME ready, ~met, ~Chips!Deaf PROVE host = chips.baud
    BY DEF Chips!BaudsAgree
  <2>1. met = FALSE /\ ready = TRUE /\ ~Unheard
    BY <1>8, <1>9
  <2>2. QED
    BY <1>1, <2>1 DEF AloneInv, Brings
<1>11. Chips!ClockIsKnown
  <2> SUFFICES ASSUME ready, ~crossed, ~Chips!Misled PROVE Known
    BY DEF Chips!ClockIsKnown, Known
  <2>1. crossed = FALSE /\ ready = TRUE /\ ~Astray
    BY <1>8, <1>9
  <2>2. QED
    BY <1>1, <2>1 DEF AloneInv, Brings, ClockInv, MeetInv
<1>12. Chips!NonceSpaceFits
  <2> SUFFICES ASSUME Chips!HasNonceSpace, ready, ~crossed, pm.pc = "idle", bap.pc = "idle",
                      actual # 0
               PROVE  chips.sized = chips.clock
    BY DEF Chips!NonceSpaceFits
  <2>1. crossed = FALSE /\ ready = TRUE /\ met = FALSE
    BY <1>1, <1>9 DEF MeetInv
  <2>2. Worker.pc = "idle"
    <3>1. main.pc = "idle"
      <4>1. CASE main.pc # "idle"
        <5>1. Worker = main /\ main.then = "up"
          BY <1>1, <4>1 DEF Worker, ChipType, Mains
        <5>2. QED
          BY <1>1, <1>4, <2>1, <4>1, <5>1 DEF AloneInv, Brings, MainPlaces
      <4>2. QED
        BY <4>1
    <3>2. QED
      BY <3>1 DEF Worker
  <2>3. Spaced
    BY DEF Spaced, Chips!HasNonceSpace, Chips!Driver
  <2>4. QED
    BY <1>1, <2>1, <2>2, <2>3 DEF SpaceInv
<1>13. Chips!NoSpike
  BY <1>1 DEF Chips!NoSpike, SeenInv
<1>14. QED
  BY <1>7, <1>10, <1>11, <1>12, <1>13 DEF Chips!ChipsAreKnown

(* The clock moves by a step at most, but in a reset. *)

LEMMA StillClock ==
  ASSUME Chips!LinkAssumption, ChipInv, chips'.clock = chips.clock \/ chips'.boots # chips.boots
  PROVE  Chips!GentleStep
<1>1. STEP \in Nat \ {0} /\ chips.clock \in Nat
  BY ChipFacts DEF ChipInv
<1>2. CASE chips'.clock = chips.clock
  <2>1. Chips!Distance(chips'.clock, chips.clock) = 0
    BY <1>1, <1>2 DEF Chips!Distance
  <2>2. QED
    BY <1>1, <2>1 DEF Chips!GentleStep
<1>3. CASE chips'.boots # chips.boots
  BY <1>3 DEF Chips!GentleStep
<1>4. QED
  BY <1>2, <1>3

\* A write of a ramp, by whichever task, of chips nobody else is at work on.
LEMMA GentleWrite ==
  ASSUME Chips!LinkAssumption, ChipInv, ChipInv', left' = left, NEW at \in Nat, NEW f \in Nat,
         f - at <= STEP, at - f <= STEP,
         chips' = Chips!Clocked(chips, f), actual' = Chips!Recorded(f),
         crossed' = FALSE => /\ crossed = FALSE /\ met = FALSE /\ Follows(at)
                             /\ Worker.pc \in {"ramp", "idle"}
  PROVE  Chips!GentleStep
<1>1. /\ ChipFlags /\ LinkType /\ ChipType /\ TaskInv /\ AloneInv /\ ClockInv /\ ChipFlags'
      /\ ChipType'
  BY DEF ChipInv
<1>2. SUFFICES ASSUME ~crossed', ~Chips!Misled'
               PROVE  Chips!Distance(chips'.clock, chips.clock) <= STEP
  BY DEF Chips!GentleStep
<1>3. /\ crossed' = FALSE /\ crossed = FALSE /\ met = FALSE /\ Follows(at)
      /\ Worker.pc \in {"ramp", "idle"}
  BY <1>1, <1>2 DEF ChipFlags
<1>4. ~Astray
  <2>1. ~Astray'
    BY <1>2 DEF Astray, Chips!Misled, Chips!Driver
  <2>2. chips'.again = chips.again
    BY <1>1, ClockWritten
  <2>3. QED
    BY <2>1, <2>2 DEF Astray
<1>5. Known
  BY <1>1, <1>3, <1>4 DEF ClockInv
<1>6. Chips!Hears
  BY <1>3, <1>4, WorkerHears DEF Unheard, Astray
<1>7. chips'.clock - chips.clock <= STEP /\ chips.clock - chips'.clock <= STEP
  BY <1>1, <1>3, <1>5, <1>6, ClockFollowed
<1>8. chips.clock \in Nat /\ chips'.clock \in Nat /\ STEP \in Nat
  BY <1>1, ChipFacts DEF ChipType, Chains
<1>9. QED
  BY <1>7, <1>8 DEF Chips!Distance

LEMMA BringsUpGently ==
  ASSUME Chips!LinkAssumption, ChipInv, ChipInv', NEW t, NEW next, Placed(t),
         Chips!BringsUp(t, next), t.pc # "idle", met' = FALSE => Worker = t /\ Becomes(next)
  PROVE  Chips!GentleStep
<1>1. ChipFlags /\ LinkType /\ ChipType /\ TaskInv /\ MeetInv /\ AloneInv /\ ClockInv
  BY DEF ChipInv
<1>2. CASE Chips!RampStep(t, next)
  <2>1. left' = left
    BY <1>1, BringsUpRest
  <2>2. /\ t.pc = "ramp"
        /\ \E f \in Nat : /\ next.at = f /\ f - t.at <= STEP /\ t.at - f <= STEP
                          /\ chips' = Chips!Clocked(chips, f) /\ actual' = Chips!Recorded(f)
    BY <1>1, <1>2, RampStepDoes
  <2>3. PICK f \in Nat : /\ next.at = f /\ f - t.at <= STEP /\ t.at - f <= STEP
                         /\ chips' = Chips!Clocked(chips, f) /\ actual' = Chips!Recorded(f)
    BY <2>2
  <2>4. t.at \in Nat
    BY TaskFields DEF Placed
  <2>5. crossed' = FALSE => /\ crossed = FALSE /\ met = FALSE /\ Follows(t.at)
                            /\ Worker.pc \in {"ramp", "idle"}
    <3>1. crossed' = FALSE => met' = FALSE
      BY DEF ChipInv, MeetInv
    <3>2. crossed' = FALSE => crossed = FALSE /\ met = FALSE /\ Worker = t
      BY <3>1 DEF Becomes
    <3>3. QED
      BY <1>1, <2>2, <3>2 DEF ClockInv
  <2>6. QED
    BY <2>1, <2>3, <2>4, <2>5, GentleWrite
<1>3. CASE Chips!ResetChips(t, next)
  <2>1. chips'.boots = chips.boots + 1 /\ chips.boots \in Nat
    BY <1>1, <1>3, ResetDoes, ChipFacts
  <2>2. chips'.boots # chips.boots
    BY <2>1
  <2>3. QED
    BY <2>2, StillClock
<1>4. CASE Chips!RampEnds(t, next) \/ Chips!ChainNotFound(t, next)
  <2>1. chips' = chips
    BY <1>4 DEF Chips!RampEnds, Chips!ChainNotFound
  <2>2. QED
    BY <2>1, StillClock
<1>5. CASE Chips!ChainFound(t, next) \/ Chips!BroughtUp(t, next)
  <2>1. chips'.clock = chips.clock
    BY <1>1, <1>5, FoundDoes, BroughtUpDoes
  <2>2. QED
    BY <2>1, StillClock
<1>6. QED
  BY <1>2, <1>3, <1>4, <1>5 DEF Chips!BringsUp

LEMMA ChipsRampGently ==
  ASSUME Chips!LinkAssumption, ChipInv, Chips!Next
  PROVE  Chips!GentleStep
<1>1. /\ ChipInv' /\ ChipFlags /\ LinkType /\ ChipType /\ TaskInv /\ MeetInv /\ ClockInv
  BY ChipNext DEF ChipInv
<1>2. CASE Chips!MainTask
  <2>1. Chips!BringsUp(main, main') /\ pm' = pm /\ Chips!Meets
    BY <1>2 DEF Chips!MainTask
  <2>2. main.pc # "idle"
    BY <2>1, WorkerPlaced, BringsUpSound DEF Sound
  <2>3. met' = FALSE => Worker = main /\ Becomes(main')
    BY <1>1, <2>1, <2>2, MainAlone
  <2>4. QED
    BY <1>1, <2>1, <2>2, <2>3, WorkerPlaced, BringsUpGently
<1>3. CASE Chips!PowerTask
  <2>1. main' = main /\ Chips!Meets
    BY <1>3 DEF Chips!PowerTask
  <2>2. CASE Chips!BringsUp(pm, pm')
    <3>1. pm.pc # "idle"
      BY <2>2, WorkerPlaced, BringsUpSound DEF Sound
    <3>2. ~Chips!StartsAlone
      BY <2>2 DEF Chips!StartsAlone, Chips!BringsUp, Chips!ResetChips,
         Chips!ChainFound, Chips!ChainNotFound, Chips!RampStep, Chips!RampEnds, Chips!BroughtUp
    <3>3. met' = FALSE => Worker = pm /\ Becomes(pm')
      BY <1>1, <2>1, <3>1, <3>2, PowerAlone
    <3>4. QED
      BY <1>1, <2>2, <3>1, <3>3, WorkerPlaced, BringsUpGently
  <2>3. CASE Chips!SizesAgain
    <3>1. Chips!InitSized \in Nat
      BY <1>1, ChipFacts DEF Chips!InitSized
    <3>2. chips'.clock = chips.clock
      BY <1>1, <2>3, <3>1, SpaceWritten DEF Chips!SizesAgain
    <3>3. QED
      BY <3>2, StillClock
  <2>4. CASE Chips!CutPower \/ Chips!Resize
    <3> DEFINE c == Chips!Sized(chips)
    <3>1. c \in Chains /\ c.clock = chips.clock
      BY <1>1, ChipsSized
    <3>2. chips' = c \/ chips' = [c EXCEPT !.on = FALSE]
      BY <2>4 DEF Chips!CutPower, Chips!Resize, Chips!Resized
    <3> HIDE DEF c
    <3>3. chips'.clock = chips.clock
      BY <3>1, <3>2 DEF Chains
    <3>4. QED
      BY <3>3, StillClock
  <2>5. CASE Chips!Flush \/ Chips!Start
    <3>1. chips' = chips
      BY <2>5 DEF Chips!Flush, Chips!Start
    <3>2. QED
      BY <3>1, StillClock
  <2>6. QED
    BY <1>3, <2>2, <2>3, <2>4, <2>5 DEF Chips!PowerTask
<1>4. CASE Chips!PowerActs
  <2>1. chips' = chips
    BY <1>4 DEF Chips!PowerActs, Chips!Flatline, Chips!Stop, Chips!Follow
  <2>2. QED
    BY <2>1, StillClock
<1>5. CASE Chips!Others
  <2>1. UNCHANGED <<main, pm>> /\ Chips!Meets
    BY <1>5 DEF Chips!Others
  <2>2. CASE Chips!BapRamps
    <3> DEFINE f == Chips!NextClock(bap.at, bap.to)
    <3>1. bap.at \in Nat /\ bap.to \in Nat
      BY <1>1, ChipFacts
    <3>2. f \in Nat /\ f - bap.at <= STEP /\ bap.at - f <= STEP
      BY <3>1, NextClockIsNear
    <3>3. /\ bap.pc = "ramp" /\ bap' = [bap EXCEPT !.at = f]
          /\ chips' = Chips!Clocked(chips, f) /\ actual' = Chips!Recorded(f) /\ left' = left
      BY <2>2 DEF Chips!BapRamps
    <3> HIDE DEF f
    <3>4. bap'.pc = "ramp"
      BY <1>1, <3>3 DEF ChipType, Ramps
    <3>5. crossed' = FALSE => crossed = FALSE /\ Worker.pc = "idle"
      BY <1>1, <2>1, <3>4, OthersAlone
    <3>6. crossed' = FALSE => /\ crossed = FALSE /\ met = FALSE /\ Follows(bap.at)
                              /\ Worker.pc \in {"ramp", "idle"}
      BY <1>1, <3>3, <3>5 DEF MeetInv, ClockInv
    <3>7. QED
      BY <1>1, <3>1, <3>2, <3>3, <3>6, GentleWrite
  <2>3. CASE Chips!BapEnds
    <3>1. chips'.clock = chips.clock
      BY <1>1, <2>3, ChipsSized DEF Chips!BapEnds
    <3>2. QED
      BY <3>1, StillClock
  <2>4. CASE Chips!Edit \/ Chips!ChainChanges \/ Chips!BapSets
    <3>1. chips' = chips
      BY <2>4 DEF Chips!Edit, Chips!ChainChanges, Chips!BapSets
    <3>2. QED
      BY <3>1, StillClock
  <2>5. QED
    BY <1>5, <2>2, <2>3, <2>4 DEF Chips!Others
<1>6. CASE \/ Chips!Reads(Chips!Waits) \/ Chips!Reads(Chips!Ends)
           \/ Chips!Reads(Chips!Counts) \/ Chips!Reads(Chips!Monitor)
  <2>1. chips' = chips
    BY <1>6 DEF Chips!Reads
  <2>2. QED
    BY <2>1, StillClock
<1>7. QED
  BY <1>2, <1>3, <1>4, <1>5, <1>6 DEF Chips!Next

-----------------------------------------------------------------------------
(* The regulator. *)

Outputs == [found : BOOLEAN, operation : {0, 1}, command : Voltages \cup {0, -1},
            rising : Nat, hard : BOOLEAN, pin : BOOLEAN]
Rails == [rise : 0 .. GRACE, failures : Nat, faults : Nat, stops : Nat, edits : Nat]
VcoreFlags == power_fault \in BOOLEAN /\ real \in BOOLEAN
VcoreType == /\ left \in Rails /\ reg \in Outputs /\ reg.rising <= left.rise
             /\ grace \in 0 .. GRACE /\ last \in Voltages \cup {0} /\ setting \in Voltages
             /\ task \in {"boot", "degraded", "top", "voltage", "check", "paused"}
             /\ VcoreFlags

\* As long as nothing is wrong, the output is on when its status is read, or else no
\* voltage has been set since the start; and what it still rises is forgiven.
SoundInv == real = FALSE =>
  /\ power_fault = FALSE /\ reg.hard = FALSE /\ reg.rising <= grace
  /\ task = "check" => reg.operation = 1
  /\ task \in {"boot", "top", "voltage"} /\ reg.operation = 0 => last = 0

VcoreInv == VcoreType /\ SoundInv

LEMMA VcoreInit == ASSUME Vcore!RegulatorAssumption, Vcore!Init PROVE VcoreInv
<1>1. left \in Rails /\ GRACE \in Nat /\ left.rise \in Nat
  BY DEF Vcore!Init, Vcore!RegulatorAssumption, Rails
<1>2. reg \in Outputs /\ reg.rising = 0 /\ reg.hard = FALSE
  BY DEF Vcore!Init, Outputs, Vcore!Off
<1>3. /\ grace = 0 /\ task = "boot" /\ last = 0 /\ setting \in Voltages
      /\ power_fault = FALSE /\ real = FALSE
  BY DEF Vcore!Init
<1>4. VcoreFlags
  BY <1>3 DEF VcoreFlags
<1>5. VcoreType
  BY <1>1, <1>2, <1>3, <1>4 DEF VcoreType
<1>6. QED
  BY <1>2, <1>3, <1>5 DEF VcoreInv, SoundInv

LEMMA VcoreFlagsKept == ASSUME VcoreFlags, Vcore!Next PROVE VcoreFlags'
<1>1. CASE Vcore!Start \/ Vcore!Stop \/ Vcore!Follow
  BY <1>1 DEF VcoreFlags, Vcore!Start, Vcore!Stop, Vcore!Follow, Vcore!Spends
<1>2. CASE Vcore!CheckStatus \/ Vcore!StatusUnread
  BY <1>2 DEF VcoreFlags, Vcore!CheckStatus, Vcore!StatusUnread, Vcore!Spends, Vcore!Cleared
<1>3. CASE \/ Vcore!WriteConfig \/ Vcore!NotFound \/ Vcore!Runs \/ Vcore!Tick \/ Vcore!HardFault
           \/ Vcore!Edit
  BY <1>3 DEF VcoreFlags, Vcore!WriteConfig, Vcore!NotFound, Vcore!Runs, Vcore!Tick,
              Vcore!HardFault, Vcore!Edit
<1>4. QED
  BY <1>1, <1>2, <1>3 DEF Vcore!Next, Vcore!Task

LEMMA SpendTypes ==
  ASSUME left \in Rails, real \in BOOLEAN, NEW o \in Vcore!Outcomes, Vcore!Spends(o)
  PROVE  /\ left' \in Rails /\ left'.rise = left.rise
         /\ real' = FALSE => real = FALSE /\ o = "done"
<1>1. left.failures > 0 \/ o = "done"
  BY DEF Vcore!Outcomes
<1>2. left' \in Rails /\ left'.rise = left.rise
  <2>1. left' = IF o = "done" THEN left ELSE [left EXCEPT !.failures = @ - 1]
    BY DEF Vcore!Spends
  <2>2. QED
    BY <1>1, <2>1 DEF Rails
<1>3. QED
  BY <1>2 DEF Vcore!Spends

\* What setting a voltage makes of the output.
LEMMA VoltageSet ==
  ASSUME Vcore!RegulatorAssumption, VcoreType, NEW x \in Voltages, NEW o, Vcore!SetVoltage(x, o),
         left'.rise = left.rise
  PROVE  /\ reg' \in Outputs /\ reg'.rising <= left.rise /\ grace' \in 0 .. GRACE
         /\ o = "done" => /\ reg'.operation = 1 /\ grace' = GRACE
                          /\ reg.hard = FALSE => reg'.hard = FALSE
<1>1. x # Vcore!Off /\ Vcore!InRange(x)
  BY DEF Vcore!RegulatorAssumption, Vcore!Off, Vcore!InRange
<1>2. left.rise \in Nat /\ left.rise <= GRACE /\ GRACE \in Nat
  BY DEF VcoreType, Rails, Vcore!RegulatorAssumption
<1> DEFINE on == [reg EXCEPT !.pin = TRUE]
<1>3. on \in Outputs /\ on.rising = reg.rising /\ on.hard = reg.hard
  BY DEF VcoreType, Outputs
<1>4. ASSUME NEW c \in Voltages \cup {-1}
      PROVE  /\ Vcore!SwitchedOn([on EXCEPT !.command = c]) \in Outputs
             /\ Vcore!SwitchedOn([on EXCEPT !.command = c]).rising <= left.rise
             /\ Vcore!SwitchedOn([on EXCEPT !.command = c]).operation = 1
             /\ reg.hard = FALSE => Vcore!SwitchedOn([on EXCEPT !.command = c]).hard = FALSE
  <2> DEFINE set == [on EXCEPT !.command = c]
  <2>1. set \in Outputs /\ set.rising = reg.rising /\ set.hard = reg.hard
    BY <1>3 DEF Outputs
  <2>2. CASE set.operation = 0
    <3>1. Vcore!SwitchedOn(set) = [set EXCEPT !.operation = 1, !.rising = left.rise, !.hard = FALSE]
      BY <2>2 DEF Vcore!SwitchedOn, Vcore!Off
    <3>2. [set EXCEPT !.operation = 1, !.rising = left.rise, !.hard = FALSE] \in Outputs
      BY <1>2, <2>1 DEF Outputs
    <3>3. /\ Vcore!SwitchedOn(set).rising = left.rise /\ Vcore!SwitchedOn(set).operation = 1
          /\ Vcore!SwitchedOn(set).hard = FALSE
      BY <2>1, <3>1 DEF Outputs
    <3>4. QED
      BY <1>2, <3>1, <3>2, <3>3
  <2>3. CASE set.operation # 0
    <3>1. Vcore!SwitchedOn(set) = set
      BY <2>3 DEF Vcore!SwitchedOn, Vcore!Off
    <3>2. QED
      BY <2>1, <2>3, <3>1 DEF Outputs, VcoreType
  <2>4. QED
    BY <2>2, <2>3
<1>5. CASE o \in {"done", "mode"}
  <2>1. PICK c \in Voltages \cup {-1} : reg' = Vcore!SwitchedOn([on EXCEPT !.command = c])
    BY <1>1, <1>5 DEF Vcore!SetVoltage, Vcore!Unknown
  <2>2. grace' = GRACE
    BY <1>1, <1>5 DEF Vcore!SetVoltage, Vcore!GraceAfter
  <2>3. /\ reg' \in Outputs /\ reg'.rising <= left.rise /\ reg'.operation = 1
        /\ reg.hard = FALSE => reg'.hard = FALSE
    BY ONLY <1>4, <2>1
  <2>4. QED
    BY <1>2, <2>2, <2>3
<1>6. CASE o \notin {"done", "mode"}
  <2>1. reg' \in {on, [on EXCEPT !.command = x]} /\ grace' = grace
    BY <1>1, <1>6 DEF Vcore!SetVoltage
  <2>2. QED
    BY <1>3, <1>6, <2>1 DEF Outputs, VcoreType
<1>7. QED
  BY <1>5, <1>6

LEMMA VcoreNext ==
  ASSUME Vcore!RegulatorAssumption, VcoreInv, [Vcore!Next]_Vcore!vars PROVE VcoreInv'
<1> USE DEF VcoreInv
<1> SUFFICES ASSUME Vcore!Next PROVE VcoreInv'
  BY DEF Vcore!vars, VcoreType, VcoreFlags, SoundInv
<1> VcoreFlags'
  BY VcoreFlagsKept DEF VcoreType
<1>0. /\ left \in Rails /\ left.rise \in Nat /\ left.rise <= GRACE /\ GRACE \in Nat
      /\ reg \in Outputs /\ reg.rising \in Nat /\ setting \in Voltages /\ 0 \notin Voltages
  BY DEF VcoreInv, VcoreType, Rails, Outputs, Vcore!RegulatorAssumption
<1>1. CASE Vcore!WriteConfig
  <2>1. reg' = [reg EXCEPT !.found = TRUE, !.pin = TRUE]
    BY <1>1 DEF Vcore!WriteConfig
  <2>2. /\ reg' \in Outputs /\ reg'.rising = reg.rising /\ reg'.hard = reg.hard
        /\ reg'.operation = reg.operation
    BY <1>0, <2>1 DEF Outputs
  <2>3. task = "boot" /\ task' = "top"
        /\ UNCHANGED <<grace, last, setting, power_fault, real, left>>
    BY <1>1 DEF Vcore!WriteConfig
  <2>4. QED
    BY <2>2, <2>3 DEF VcoreInv, VcoreType, SoundInv
<1>2. CASE Vcore!NotFound
  BY <1>0, <1>2 DEF Vcore!NotFound, VcoreInv, VcoreType, SoundInv, Rails
<1>3. CASE Vcore!Runs
  BY <1>0, <1>3 DEF Vcore!Runs, VcoreInv, VcoreType, SoundInv
<1>4. CASE Vcore!Start
  <2>1. PICK o \in Vcore!Outcomes : Vcore!SetVoltage(setting, o) /\ Vcore!Spends(o)
    BY <1>4 DEF Vcore!Start
  <2>2. left' \in Rails /\ left'.rise = left.rise /\ (real' = FALSE => real = FALSE /\ o = "done")
    BY <2>1, SpendTypes DEF VcoreInv, VcoreType, VcoreFlags
  <2>3. /\ reg' \in Outputs /\ reg'.rising <= left.rise /\ grace' \in 0 .. GRACE
        /\ o = "done" =>
               reg'.operation = 1 /\ grace' = GRACE /\ (reg.hard = FALSE => reg'.hard = FALSE)
    BY <1>0, <2>1, <2>2, VoltageSet DEF VcoreInv
  <2>4. reg'.rising \in Nat
    BY <2>3 DEF Outputs
  <2>5. QED
    BY <1>0, <1>4, <2>2, <2>3, <2>4 DEF Vcore!Start, VcoreInv, VcoreType, SoundInv
<1>5. CASE Vcore!Follow
  <2>1. CASE setting = last
    BY <1>0, <1>5, <2>1 DEF Vcore!Follow, VcoreInv, VcoreType, SoundInv, Outputs
  <2>2. CASE setting # last
    <3>1. PICK o \in Vcore!Outcomes : Vcore!SetVoltage(setting, o) /\ Vcore!Spends(o)
      BY <1>5, <2>2 DEF Vcore!Follow
    <3>2. left' \in Rails /\ left'.rise = left.rise /\ (real' = FALSE => real = FALSE /\ o = "done")
      BY <3>1, SpendTypes DEF VcoreInv, VcoreType, VcoreFlags
    <3>3. /\ reg' \in Outputs /\ reg'.rising <= left.rise /\ grace' \in 0 .. GRACE
          /\ o = "done" =>
               reg'.operation = 1 /\ grace' = GRACE /\ (reg.hard = FALSE => reg'.hard = FALSE)
      BY <1>0, <3>1, <3>2, VoltageSet DEF VcoreInv
    <3>4. reg'.rising \in Nat
      BY <3>3 DEF Outputs
    <3>5. QED
      BY <1>0, <1>5, <3>2, <3>3, <3>4 DEF Vcore!Follow, VcoreInv, VcoreType, SoundInv
  <2>3. QED
    BY <2>1, <2>2
<1>6. CASE Vcore!CheckStatus
  <2>1. power_fault' \in {power_fault, TRUE, FALSE}
    BY <1>6 DEF Vcore!CheckStatus, Vcore!Cleared
  <2>2. ASSUME real = FALSE PROVE power_fault' = FALSE
    <3>1. reg.operation = 1 /\ reg.hard = FALSE /\ reg.rising <= grace /\ power_fault = FALSE
      BY <1>6, <2>2 DEF VcoreInv, SoundInv, Vcore!CheckStatus
    <3>2. Vcore!StatusOff => Vcore!Forgiven
      BY <1>0, <3>1 DEF Vcore!StatusOff, Vcore!Forgiven, Vcore!Off, VcoreInv, VcoreType
    <3>3. QED
      BY <1>6, <3>1, <3>2 DEF Vcore!CheckStatus, Vcore!Cleared
  <2>3. task = "check" /\ task' = "top"
        /\ UNCHANGED <<reg, grace, last, setting, real, left>>
    BY <1>6 DEF Vcore!CheckStatus
  <2>4. VcoreType'
    BY <2>3 DEF VcoreType
  <2>5. SoundInv'
    <3>1. real = FALSE => /\ reg.operation = 1 /\ reg.hard = FALSE /\ reg.rising <= grace
                          /\ power_fault' = FALSE
      BY <2>2, <2>3 DEF SoundInv
    <3>2. QED
      BY <2>3, <3>1 DEF SoundInv
  <2>6. QED
    BY <2>4, <2>5
<1>7. CASE Vcore!StatusUnread
  <2>1. left' \in Rails /\ left'.rise = left.rise /\ real' = TRUE
    <3>1. left.failures > 0 /\ left' = [left EXCEPT !.failures = @ - 1]
      BY <1>7 DEF Vcore!StatusUnread, Vcore!Spends
    <3>2. real' = TRUE
      BY <1>7 DEF Vcore!StatusUnread, Vcore!Spends
    <3>3. QED
      BY <1>0, <3>1, <3>2 DEF Rails
  <2>2. QED
    BY <1>7, <2>1 DEF Vcore!StatusUnread, VcoreInv, VcoreType, SoundInv
<1>8. CASE Vcore!Stop
  <2>1. PICK o \in {"done"} \cup (Vcore!Outcomes \cap {"operation"}) :
             /\ Vcore!SetVoltage(Vcore!Off, o) /\ real' = (real \/ o # "done")
             /\ left' = [left EXCEPT !.stops = @ - 1,
                                     !.failures = IF o = "done" THEN @ ELSE @ - 1]
    BY <1>8 DEF Vcore!Stop
  <2>2. left.stops > 0 /\ (left.failures > 0 \/ o = "done")
    BY <1>8 DEF Vcore!Stop, Vcore!Outcomes
  <2>3. left' \in Rails /\ left'.rise = left.rise
    <3>1. left.failures > 0 \/ o = "done"
      BY <2>2
    <3>2. CASE o = "done"
      <4>1. left' = [left EXCEPT !.stops = @ - 1]
        BY <1>0, <2>1, <3>2 DEF Rails
      <4>2. QED
        BY <1>0, <2>2, <4>1 DEF Rails
    <3>3. CASE o # "done"
      <4>1. left' = [left EXCEPT !.stops = @ - 1, !.failures = @ - 1]
        BY <2>1, <3>3
      <4>2. left.stops - 1 \in Nat /\ left.failures - 1 \in Nat
        BY <1>0, <2>2, <3>1, <3>3 DEF Rails
      <4>3. QED
        BY <1>0, <4>1, <4>2 DEF Rails
    <3>4. QED
      BY <3>2, <3>3
  <2>4. CASE o = "done"
    <3>1. reg' = [[reg EXCEPT !.pin = FALSE] EXCEPT !.operation = 0, !.rising = 0] /\ grace' = 0
      BY <2>1, <2>4 DEF Vcore!SetVoltage, Vcore!Off
    <3>2. reg' \in Outputs /\ reg'.rising = 0 /\ reg'.hard = reg.hard
      BY <1>0, <3>1 DEF Outputs
    <3>3. task = "top" /\ task' = "paused" /\ UNCHANGED <<last, setting, power_fault>>
      BY <1>8 DEF Vcore!Stop
    <3>4. VcoreType'
      BY <1>0, <2>3, <3>1, <3>2, <3>3 DEF VcoreType
    <3>5. SoundInv'
      <4>1. real' = FALSE => real = FALSE
        BY <2>1, <2>4 DEF VcoreType, VcoreFlags
      <4>2. real' = FALSE => power_fault' = FALSE /\ reg'.hard = FALSE
        BY <3>2, <3>3, <4>1 DEF SoundInv
      <4>3. reg'.rising <= grace'
        BY <3>1, <3>2
      <4>4. QED
        BY <3>3, <4>2, <4>3 DEF SoundInv
    <3>6. QED
      BY <3>4, <3>5
  <2>5. CASE o = "operation"
    <3>1. reg' = [reg EXCEPT !.pin = FALSE] /\ grace' = grace /\ real' = TRUE
      BY <2>1, <2>5 DEF Vcore!SetVoltage, Vcore!Off
    <3>2. reg' \in Outputs /\ reg'.rising = reg.rising
      BY <1>0, <3>1 DEF Outputs
    <3>3. QED
      BY <1>0, <1>8, <2>1, <2>3, <3>1, <3>2 DEF Vcore!Stop, VcoreInv, VcoreType, SoundInv
  <2>6. QED
    BY <2>1, <2>4, <2>5
<1>9. CASE Vcore!Tick
  <2>1. /\ reg' = [reg EXCEPT !.rising = IF reg.rising > 0 THEN reg.rising - 1 ELSE 0]
        /\ grace' = IF grace > 0 THEN grace - 1 ELSE 0
    BY <1>9 DEF Vcore!Tick
  <2>2. /\ reg' \in Outputs /\ reg'.hard = reg.hard /\ reg'.operation = reg.operation
        /\ reg'.rising = IF reg.rising > 0 THEN reg.rising - 1 ELSE 0
    BY <1>0, <2>1 DEF Outputs
  <2>3. UNCHANGED <<task, last, setting, power_fault, left>> /\ real' = (real \/ grace = 0)
    BY <1>9 DEF Vcore!Tick
  <2>4. reg.rising <= left.rise /\ grace \in 0 .. GRACE
    BY DEF VcoreType
  <2>5. reg'.rising <= left.rise /\ grace' \in 0 .. GRACE
    BY <1>0, <2>1, <2>2, <2>4
  <2>6. VcoreType'
    BY <2>2, <2>3, <2>5 DEF VcoreType
  <2>7. real' = FALSE => real = FALSE /\ grace # 0
    BY <2>3 DEF VcoreType, VcoreFlags
  <2>8. real' = FALSE => reg'.rising <= grace'
    BY <1>0, <2>1, <2>2, <2>4, <2>7 DEF SoundInv
  <2>9. SoundInv'
    BY <2>2, <2>3, <2>7, <2>8 DEF SoundInv
  <2>10. QED
    BY <2>6, <2>9
<1>10. CASE Vcore!HardFault
  <2>1. /\ reg' = [reg EXCEPT !.hard = TRUE] /\ left.faults > 0
        /\ left' = [left EXCEPT !.faults = @ - 1]
    BY <1>10 DEF Vcore!HardFault
  <2>2. reg' \in Outputs /\ reg'.rising = reg.rising /\ left' \in Rails /\ left'.rise = left.rise
    <3>1. reg' \in Outputs /\ reg'.rising = reg.rising
      BY <1>0, <2>1 DEF Outputs
    <3>2. left' \in Rails /\ left'.rise = left.rise
      BY <1>0, <2>1 DEF Rails
    <3>3. QED
      BY <3>1, <3>2
  <2>3. real' = TRUE /\ UNCHANGED <<grace, task, last, setting, power_fault>>
    BY <1>10 DEF Vcore!HardFault
  <2>4. QED
    BY <2>2, <2>3 DEF VcoreInv, VcoreType, SoundInv
<1>11. CASE Vcore!Edit
  BY <1>0, <1>11 DEF Vcore!Edit, VcoreInv, VcoreType, SoundInv, Rails
<1>12. QED
  BY <1>1, <1>2, <1>3, <1>4, <1>5, <1>6, <1>7, <1>8, <1>9, <1>10, <1>11
     DEF Vcore!Next, Vcore!Task

LEMMA VcoreHolds ==
  ASSUME VcoreInv PROVE Vcore!TypeOK /\ Vcore!NoFalseAlarm
<1>1. VcoreFlags /\ reg.hard \in BOOLEAN /\ reg.pin \in BOOLEAN
  BY DEF VcoreInv, VcoreType, Outputs
<1>2. Vcore!NoFalseAlarm
  BY <1>1 DEF VcoreFlags, VcoreInv, SoundInv, Vcore!NoFalseAlarm
<1>3. reg.rising \in 0 .. left.rise
  BY DEF VcoreInv, VcoreType, Outputs, Rails
<1>4. reg.operation \in {0, 1} /\ reg.command \in Voltages \cup {0, -1}
  BY DEF VcoreInv, VcoreType, Outputs
<1>5. QED
  BY ZenonT(30), <1>1, <1>2, <1>3, <1>4
     DEF VcoreInv, VcoreType, VcoreFlags, Vcore!TypeOK, Vcore!Off, Vcore!Unknown
-----------------------------------------------------------------------------
(* The fan. *)

Speeds == 0 .. FULL
Control == [live : BOOLEAN, sum : Int, last : Int, out : Speeds]
Cooling == [changes : Nat, failures : Nat, min : Speeds, manual : Speeds]
FanType == /\ left \in Cooling /\ pid \in Control
           /\ mode \in {"overheat", "stopped", "auto", "manual"}
           /\ temp \in -1 .. MAX_TEMP /\ filtered \in -1 .. MAX_TEMP
           /\ fan \in Speeds /\ pwm \in Speeds
FanFault == fault \in {TRUE, FALSE}
FanInv == FanType /\ FanFault /\ Fan!FanIsKnown

LEMMA BetweenLimits ==
  ASSUME NEW x \in Int, NEW lo \in Int, NEW hi \in Int, lo <= hi
  PROVE  Fan!Between(x, lo, hi) \in lo .. hi /\ Fan!Between(x, lo, hi) \in Int
BY DEF Fan!Between

LEMMA FanInit == ASSUME Fan!FanAssumption, Fan!Init PROVE FanInv
<1>1. left \in Cooling /\ FULL \in Nat /\ MAX_TEMP \in Nat
  BY DEF Fan!Init, Fan!FanAssumption, Cooling, Speeds
<1>2. pid \in Control
  BY <1>1 DEF Fan!Init, Control, Speeds
<1>3. /\ mode \in {"auto", "manual"} /\ temp = -1 /\ filtered = -1 /\ fan = 0 /\ pwm \in {0, FULL}
      /\ fault = FALSE
  BY DEF Fan!Init, Fan!NoReading
<1>4. FanType
  BY <1>1, <1>2, <1>3 DEF FanType, Speeds
<1>5. FanFault /\ Fan!FanIsKnown
  BY <1>3 DEF FanFault, Fan!FanIsKnown
<1>6. QED
  BY <1>4, <1>5 DEF FanInv

\* Whatever speed is written, the fan turns at it or the fault is raised.
LEMMA WriteKeeps ==
  ASSUME left \in Cooling, fan \in Speeds, pwm \in Speeds, FanFault, Fan!FanIsKnown,
         NEW speed \in Speeds, Fan!Written(speed)
  PROVE  /\ left' \in Cooling /\ fan' \in Speeds /\ pwm' \in Speeds /\ FanFault'
         /\ Fan!FanIsKnown'
<1>1. CASE pwm' = (IF speed # fan THEN speed ELSE pwm) /\ UNCHANGED <<fault, left>>
  <2>1. fan' = speed
    BY DEF Fan!Written
  <2>2. QED
    BY <1>1, <2>1 DEF FanFault, Fan!FanIsKnown
<1>2. CASE /\ left.failures > 0 /\ left' = [left EXCEPT !.failures = @ - 1]
           /\ fault' = TRUE /\ UNCHANGED pwm
  <2>1. left' \in Cooling
    BY <1>2 DEF Cooling
  <2>2. QED
    BY <1>2, <2>1 DEF Fan!Written, FanFault, Fan!FanIsKnown
<1>3. QED
  BY <1>1, <1>2 DEF Fan!Written

\* The controller keeps its output within its limits, whatever the temperature.
LEMMA ControlTypes ==
  ASSUME Fan!FanAssumption, left \in Cooling, NEW p \in Control, NEW t \in Int
  PROVE  Fan!Computed(Fan!Live(p, t), t) \in Control
<1>1. /\ left.min \in Int /\ FULL \in Int /\ left.min <= FULL /\ left.min .. FULL \subseteq Speeds
      /\ FULL \in Nat
  BY DEF Fan!FanAssumption, Cooling, Speeds
<1>2. KP \in Int /\ KI \in Int /\ KD \in Int /\ TARGET \in Int
  BY DEF Fan!FanAssumption
<1> DEFINE q == Fan!Live(p, t)
<1>3. q \in Control
  <2>1. Fan!Between(p.out, left.min, FULL) \in Int
    <3>1. p.out \in Int
      BY <1>1 DEF Control, Speeds
    <3>2. QED
      BY <1>1, <3>1, BetweenLimits
  <2>2. QED
    BY <2>1 DEF Fan!Live, Control
<1>4. Fan!Error(t) \in Int
  BY <1>2 DEF Fan!Error
<1>5. Fan!Sum(q, t) \in Int
  <2>1. q.sum \in Int
    BY <1>3 DEF Control
  <2>2. q.sum + KI * Fan!Error(t) \in Int
    BY <1>2, <1>4, <2>1
  <2>3. QED
    BY <1>1, <2>2, BetweenLimits DEF Fan!Sum
<1>6. Fan!Output(q, t) \in Int
  <2>1. q.last \in Int
    BY <1>3 DEF Control
  <2>2. QED
    BY <1>2, <1>4, <1>5, <2>1 DEF Fan!Output
<1> DEFINE out == Fan!Between(Fan!Output(q, t), left.min, FULL)
           sum == Fan!Sum(q, t) + (out - Fan!Output(q, t))
<1>7. out \in Speeds /\ out \in Int
  <2>1. out \in left.min .. FULL
    BY <1>1, <1>6, BetweenLimits
  <2>2. QED
    BY <1>1, <2>1 DEF Speeds
<1>8. sum \in Int
  BY <1>5, <1>6, <1>7
<1>9. Fan!Computed(q, t) = [q EXCEPT !.sum = sum, !.last = t, !.out = out]
  BY DEF Fan!Computed
<1>10. QED
  BY <1>3, <1>7, <1>8, <1>9 DEF Control

LEMMA FilterTypes ==
  ASSUME MAX_TEMP \in Nat, NEW f \in -1 .. MAX_TEMP, NEW t \in -1 .. MAX_TEMP
  PROVE  Fan!Filter(f, t) \in -1 .. MAX_TEMP
BY DEF Fan!Filter

LEMMA FanNext == ASSUME Fan!FanAssumption, FanInv, [Fan!Next]_Fan!vars PROVE FanInv'
<1> USE DEF FanInv
<1> SUFFICES ASSUME Fan!Next PROVE FanInv'
  BY DEF Fan!vars, FanType, FanFault, Fan!FanIsKnown
<1>0. /\ MAX_TEMP \in Nat /\ left \in Cooling /\ pid \in Control /\ fan \in Speeds /\ pwm \in Speeds
      /\ STARTUP \in Speeds /\ IDLE \in Speeds /\ FULL \in Speeds /\ left.manual \in Speeds
  BY DEF FanType, Cooling, Speeds, Fan!FanAssumption
<1>1. CASE Fan!Poll
  <2>1. ASSUME NEW speed \in Speeds, Fan!Written(speed),
               pid' \in Control, filtered' \in -1 .. MAX_TEMP
        PROVE  FanInv'
    <3>1. /\ left' \in Cooling /\ fan' \in Speeds /\ pwm' \in Speeds /\ FanFault'
          /\ Fan!FanIsKnown'
      BY <1>0, <2>1, WriteKeeps
    <3>2. UNCHANGED <<mode, temp>>
      BY <1>1 DEF Fan!Poll
    <3>3. QED
      BY <2>1, <3>1, <3>2 DEF FanType
  <2>2. CASE Fan!Regulated
    <3> DEFINE f == Fan!Filter(filtered, temp)
    <3>1. f \in -1 .. MAX_TEMP
      BY <1>0, FilterTypes DEF FanType
    <3>2. f \in Int
      BY <1>0, <3>1
    <3>3. filtered' = f /\ pid' = Fan!Computed(Fan!Live(pid, f), f) /\ Fan!Written(pid'.out)
      BY <2>2 DEF Fan!Regulated
    <3>4. pid' \in Control
      BY <1>0, <3>2, <3>3, ControlTypes
    <3>5. pid'.out \in Speeds
      BY <3>4 DEF Control
    <3>6. QED
      BY <2>1, <3>1, <3>3, <3>4, <3>5
  <2>3. CASE /\ \/ Fan!Written(FULL) \/ Fan!Written(IDLE) \/ Fan!Written(left.manual)
                \/ Fan!Written(STARTUP)
             /\ UNCHANGED <<filtered, pid>>
    <3>1. pid' \in Control /\ filtered' \in -1 .. MAX_TEMP
      BY <1>0, <2>3 DEF FanType
    <3>2. QED
      BY <1>0, <2>1, <2>3, <3>1
  <2>4. QED
    BY <1>1, <2>2, <2>3 DEF Fan!Poll
<1>2. CASE Fan!Changes \/ Fan!Edits
  <2>1. left.changes > 0 /\ left' = [left EXCEPT !.changes = @ - 1]
    BY <1>2 DEF Fan!Changes, Fan!Edits
  <2>2. left' \in Cooling
    BY <1>0, <2>1 DEF Cooling
  <2>3. /\ temp' \in -1 .. MAX_TEMP
        /\ mode' \in {"overheat", "stopped", "auto", "manual"}
    BY <1>0, <1>2 DEF Fan!Changes, Fan!Edits, Fan!NoReading, FanType
  <2>4. UNCHANGED <<filtered, pid, fan, pwm, fault>>
    BY <1>2 DEF Fan!Changes, Fan!Edits
  <2>5. QED
    BY <2>2, <2>3, <2>4 DEF FanType, FanFault, Fan!FanIsKnown
<1>3. QED
  BY <1>1, <1>2 DEF Fan!Next

LEMMA FanHolds == ASSUME FanInv PROVE Fan!TypeOK /\ Fan!FanIsKnown
<1>1. pid.live \in BOOLEAN /\ fault \in BOOLEAN
  BY DEF FanInv, FanType, FanFault, Control
<1>2. pid.out \in 0 .. FULL /\ pid.sum \in Int /\ fan \in 0 .. FULL /\ pwm \in 0 .. FULL
  BY DEF FanInv, FanType, Control, Speeds
<1>3. QED
  BY ZenonT(30), <1>1, <1>2 DEF FanInv, FanType, Fan!TypeOK
-----------------------------------------------------------------------------
(* The display. *)

Screens == 0 .. 11
Views == [screen : -1 .. 11, dwell : 0 .. LONG + 1, delay : {0, SHORT, LONG}, idle : 0 .. TIMEOUT,
          alive : SUBSET Screens]
\* What is shown is there, and only the logos are ever deleted.
Loaded(u) == /\ u \in Views /\ Screens \ {6, 7} \subseteq u.alive
             /\ u.screen # -1 => u.screen \in u.alive
DisplayFlags == lit \in BOOLEAN /\ identify \in BOOLEAN
DisplayInv == Loaded(ui) /\ st \subseteq Display!Conditions /\ DisplayFlags

LEMMA DisplayInit == ASSUME Display!ScreensAssumption, Display!Init PROVE DisplayInv
<1>1. ui \in Views
  BY DEF Display!Init, Display!ScreensAssumption, Views, Screens, Display!NOTHING,
         Display!MAX_SCREENS
<1>2. ui.screen = -1 /\ ui.alive = Screens
  BY DEF Display!Init, Screens, Display!NOTHING, Display!MAX_SCREENS
<1>3. DisplayFlags
  BY DEF Display!Init, DisplayFlags
<1>4. st \subseteq Display!Conditions
  BY DEF Display!Init, Display!Conditions
<1>5. QED
  BY <1>1, <1>2, <1>3, <1>4 DEF DisplayInv, Loaded

\* A screen that is there can be loaded, whatever was shown before.
LEMMA ShowKeeps ==
  ASSUME Display!ScreensAssumption, NEW u, Loaded(u), NEW s \in Screens, Display!Valid(u, s)
  PROVE  Loaded(Display!ScreenShow(u, s)) /\ Display!ScreenShow(u, s).screen = s
<1>0. {SHORT, LONG, TIMEOUT} \subseteq Nat
  BY DEF Display!ScreensAssumption
<1> DEFINE w == Display!Awake(u, s)
<1>1. w = u \/ w = [u EXCEPT !.idle = 0]
  BY DEF Display!Awake
<1>2. Loaded(w) /\ w.screen = u.screen /\ w.alive = u.alive
  BY <1>0, <1>1 DEF Loaded, Views
<1>3. s \in u.alive
  BY DEF Display!Valid, Loaded, Screens
<1>4. CASE u.screen = s
  BY <1>2, <1>4 DEF Display!ScreenShow
<1>5. CASE u.screen # s
  <2> DEFINE x == [w EXCEPT !.screen = s, !.dwell = 0, !.delay = Display!Delay(s),
                            !.alive = @ \ ({u.screen} \cap {6, 7})]
  <2>1. Display!ScreenShow(u, s) = x
    BY <1>5 DEF Display!ScreenShow, Display!Logos, Display!BITAXE_LOGO, Display!OSMU_LOGO
  <2>2. Display!Delay(s) \in {0, SHORT, LONG}
    BY DEF Display!Delay
  <2>3. w.alive \ ({u.screen} \cap {6, 7}) \in SUBSET Screens
    BY <1>2 DEF Loaded, Views
  <2>4. x \in Views
    <3>1. s \in -1 .. 11 /\ 0 \in 0 .. LONG + 1 /\ w \in Views
      BY <1>0, <1>2 DEF Loaded, Screens
    <3> HIDE DEF w
    <3>2. QED
      BY <2>2, <2>3, <3>1 DEF Views
  <2>5. x.screen = s /\ x.alive = u.alive \ ({u.screen} \cap {6, 7})
    BY <1>2 DEF Loaded, Views
  <2>6. s \in x.alive /\ Screens \ {6, 7} \subseteq x.alive
    BY <1>3, <1>5, <2>5 DEF Loaded
  <2>7. QED
    BY <2>1, <2>4, <2>5, <2>6 DEF Loaded
<1>6. QED
  BY <1>4, <1>5

LEMMA PermanentValid ==
  ASSUME NEW u, Loaded(u), NEW s \in Screens \ {6, 7} PROVE Display!Valid(u, s)
BY DEF Loaded, Display!Valid

\* One of the three screens that follow is there, and the first of those is tried.
LEMMA NextIsThere ==
  ASSUME NEW u, Loaded(u)
  PROVE  LET s == Display!After(u.screen)[Display!Tries(u)]
         IN  s \in Screens /\ Display!Valid(u, s)
<1> DEFINE a == Display!After(u.screen)
           P(n) == /\ Display!Valid(u, a[n])
                   /\ \A m \in 1 .. n - 1 : ~Display!Valid(u, a[m])
<1>1. u.screen \in -1 .. 11
  BY DEF Loaded, Views
<1>2. \A s \in -1 .. 11 : Display!Follow(s) = IF s = 11 THEN 8 ELSE s + 1
  BY DEF Display!Follow, Display!MAX_SCREENS, Display!CAROUSEL_START, Display!URLS
<1>3. /\ a[1] = Display!Follow(u.screen) /\ a[2] = Display!Follow(Display!Follow(u.screen))
      /\ a[3] = Display!Follow(Display!Follow(Display!Follow(u.screen)))
  BY DEF Display!After
<1>4. a[1] \in Screens /\ (u.screen # -1 => a[1] # 0)
  BY <1>1, <1>2, <1>3 DEF Screens
<1>5. a[2] \in Screens /\ a[2] = (IF a[1] = 11 THEN 8 ELSE a[1] + 1)
  BY <1>2, <1>3, <1>4 DEF Screens
<1>6. a[3] \in Screens /\ a[3] = (IF a[2] = 11 THEN 8 ELSE a[2] + 1)
  BY <1>2, <1>3, <1>5 DEF Screens
<1>7. Display!Valid(u, a[1]) \/ Display!Valid(u, a[2]) \/ Display!Valid(u, a[3])
  <2>1. a[1] \notin {6, 7} \/ a[2] \notin {6, 7} \/ a[3] \notin {6, 7}
    BY <1>4, <1>5, <1>6 DEF Screens
  <2>2. QED
    BY <1>4, <1>5, <1>6, <2>1, PermanentValid
<1>8. \E n \in 1 .. 3 : P(n)
  <2>1. CASE Display!Valid(u, a[1])
    <3>1. P(1)
      BY <2>1
    <3>2. QED
      BY <3>1
  <2>2. CASE ~Display!Valid(u, a[1]) /\ Display!Valid(u, a[2])
    <3>1. P(2)
      <4>1. \A m \in 1 .. 2 - 1 : m = 1
        OBVIOUS
      <4>2. QED
        BY <2>2, <4>1
    <3>2. QED
      BY <3>1
  <2>3. CASE ~Display!Valid(u, a[1]) /\ ~Display!Valid(u, a[2]) /\ Display!Valid(u, a[3])
    <3>1. P(3)
      <4>1. \A m \in 1 .. 3 - 1 : m = 1 \/ m = 2
        OBVIOUS
      <4>2. QED
        BY <2>3, <4>1
    <3>2. QED
      BY <3>1
  <2>4. QED
    BY <1>7, <2>1, <2>2, <2>3
<1>9. Display!Tries(u) \in 1 .. 3 /\ P(Display!Tries(u))
  <2>1. Display!Tries(u) = CHOOSE n \in 1 .. 3 : P(n)
    BY DEF Display!Tries
  <2> HIDE DEF P
  <2>2. QED
    BY <1>8, <2>1
<1>10. \A n \in 1 .. 3 : a[n] \in Screens
  <2>1. \A n \in 1 .. 3 : n = 1 \/ n = 2 \/ n = 3
    OBVIOUS
  <2>2. QED
    BY <1>4, <1>5, <1>6, <2>1
<1>11. QED
  BY <1>9, <1>10

LEMMA NextKeeps ==
  ASSUME Display!ScreensAssumption, NEW u, Loaded(u) PROVE Loaded(Display!ScreenNext(u))
<1>1. CASE left.large
  <2>1. 9 \in Screens \ {6, 7}
    BY DEF Screens
  <2>2. QED
    BY <1>1, <2>1, ShowKeeps, PermanentValid DEF Display!ScreenNext, Display!STATS
<1>2. CASE ~left.large
  <2> DEFINE s == Display!After(u.screen)[Display!Tries(u)]
             passed == \E m \in 1 .. Display!Tries(u) - 1 :
                         Display!Early(Display!After(u.screen)[m])
             w == IF passed THEN [u EXCEPT !.idle = 0] ELSE u
  <2>1. s \in Screens /\ Display!Valid(u, s)
    BY NextIsThere
  <2>2. Loaded(w) /\ Display!Valid(w, s)
    <3> HIDE DEF passed, s
    <3>1. w \in {u, [u EXCEPT !.idle = 0]}
      OBVIOUS
    <3>2. TIMEOUT \in Nat
      BY DEF Display!ScreensAssumption
    <3>3. w \in Views /\ w.screen = u.screen /\ w.alive = u.alive
      BY <3>1, <3>2 DEF Loaded, Views
    <3>4. QED
      BY <2>1, <3>3 DEF Loaded, Display!Valid
  <2>3. Display!ScreenNext(u) = Display!ScreenShow(w, s)
    BY <1>2 DEF Display!ScreenNext
  <2>4. QED
    BY <2>1, <2>2, <2>3, ShowKeeps
<1>3. QED
  BY <1>1, <1>2

\* Counting the time disturbs nothing.
LEMMA TimesKeep ==
  ASSUME Display!ScreensAssumption, NEW u, Loaded(u)
  PROVE  Loaded(Display!Dwelt(u)) /\ Loaded(Display!Older(u)) /\ Loaded([u EXCEPT !.idle = 0])
<1>0. LONG \in Nat /\ TIMEOUT \in Nat
  BY DEF Display!ScreensAssumption
<1>1. u.dwell \in 0 .. LONG + 1 /\ u.idle \in 0 .. TIMEOUT
  BY DEF Loaded, Views
<1>2. (IF u.dwell > LONG THEN u.dwell ELSE u.dwell + 1) \in 0 .. LONG + 1
  BY <1>0, <1>1
<1>3. (IF u.idle < TIMEOUT THEN u.idle + 1 ELSE u.idle) \in 0 .. TIMEOUT
  BY <1>0, <1>1
<1>4. Loaded(Display!Dwelt(u))
  BY <1>2 DEF Loaded, Views, Display!Dwelt
<1>5. Loaded(Display!Older(u))
  BY <1>3 DEF Loaded, Views, Display!Older
<1>6. Loaded([u EXCEPT !.idle = 0])
  BY <1>0 DEF Loaded, Views
<1>7. QED
  BY <1>4, <1>5, <1>6

LEMMA DisplayNext == ASSUME Display!ScreensAssumption, DisplayInv, [Display!Next]_Display!vars
                     PROVE  DisplayInv'
<1> USE DEF DisplayInv
<1> SUFFICES ASSUME Display!Next PROVE DisplayInv'
  BY DEF Display!vars, DisplayFlags, Loaded
<1>1. ASSUME NEW u, Loaded(u), ui' = u PROVE Loaded(ui)'
  BY <1>1 DEF Loaded
<1>2. CASE Display!Update
  <2>1. ASSUME NEW s \in Screens \ {6, 7} PROVE Loaded(Display!ScreenShow(ui, s))
    BY ShowKeeps, PermanentValid
  <2>2. Display!Urgent # -1 => Display!Urgent \in Screens \ {6, 7}
    BY DEF Display!Urgent, Display!SELF_TEST, Display!FIRMWARE, Display!ASIC_STATUS,
           Display!OVERHEAT, Display!WELCOME, Display!CONNECTION, Display!NOTHING, Screens
  <2>3. Loaded(Display!Turn(ui))
    <3> DEFINE w == Display!Dwelt(ui)
    <3>1. Loaded(w)
      BY TimesKeep
    <3> HIDE DEF w
    <3>2. Loaded(Display!ScreenShow(w, 9)) /\ Loaded(Display!ScreenNext(w))
      BY <3>1, ShowKeeps, PermanentValid, NextKeeps DEF Screens
    <3>3. Loaded([Display!ScreenShow(w, 9) EXCEPT !.idle = 0])
      BY <3>2, TimesKeep
    <3>4. Display!Turn(ui) \in {w, Display!ScreenShow(w, 9), Display!ScreenNext(w),
                                [Display!ScreenShow(w, 9) EXCEPT !.idle = 0]}
      BY DEF Display!Turn, Display!STATS, w
    <3>5. QED
      BY <3>1, <3>2, <3>3, <3>4
  <2>4. \E u : Loaded(u) /\ ui' = Display!Older(u)
    BY <1>2, <2>1, <2>2, <2>3 DEF Display!Update, Display!NOTHING
  <2>5. Loaded(ui)'
    BY <1>1, <2>4, TimesKeep
  <2>6. st' \subseteq Display!Conditions
    BY <1>2 DEF Display!Update
  <2>7. lit' \in BOOLEAN /\ identify' \in BOOLEAN
    BY <1>2 DEF Display!Update, Display!EnableDisplay, DisplayFlags
  <2>8. QED
    BY <2>5, <2>6, <2>7 DEF DisplayFlags
<1>3. CASE Display!Press
  <2> DEFINE w == [ui EXCEPT !.idle = 0]
  <2>1. Loaded(w)
    BY TimesKeep
  <2>2. Loaded(Display!ScreenNext(w))
    BY <2>1, NextKeeps
  <2>3. ui' \in {w, Display!ScreenNext(w)}
    BY <1>3 DEF Display!Press
  <2>4. Loaded(ui)'
    BY <1>1, <2>1, <2>2, <2>3
  <2>5. DisplayFlags' /\ st' = st
    BY <1>3 DEF Display!Press, DisplayFlags
  <2>6. QED
    BY <2>4, <2>5
<1>4. CASE Display!Arises \/ Display!Connects
  <2>1. UNCHANGED <<ui, lit, identify>> /\ st' \subseteq Display!Conditions
    BY <1>4 DEF Display!Arises, Display!Connects, Display!Conditions
  <2>2. QED
    BY <1>1, <2>1 DEF DisplayFlags
<1>5. CASE Display!Identify \/ Display!IdentifyEnds
  <2>1. UNCHANGED <<ui, st>> /\ DisplayFlags'
    BY <1>5 DEF Display!Identify, Display!IdentifyEnds, DisplayFlags
  <2>2. QED
    BY <1>1, <2>1
<1>6. QED
  BY <1>2, <1>3, <1>4, <1>5 DEF Display!Next

LEMMA DisplayHolds == ASSUME DisplayInv PROVE Display!TypeOK /\ Display!LoadedScreensLive
<1>1. /\ ui.screen \in -1 .. 11 /\ ui.alive \subseteq 0 .. 11 /\ ui.idle \in 0 .. TIMEOUT
      /\ ui.dwell \in 0 .. LONG + 1 /\ ui.delay \in {0, SHORT, LONG}
  BY DEF DisplayInv, Loaded, Views, Screens
<1>2. 12 - 1 = 11
  OBVIOUS
<1>3. Display!TypeOK
  BY ZenonT(30), <1>1, <1>2 DEF DisplayInv, DisplayFlags, Display!TypeOK, Display!MAX_SCREENS
<1>4. QED
  BY <1>3 DEF DisplayInv, Loaded, Display!LoadedScreensLive, Display!NOTHING
-----------------------------------------------------------------------------
(* The self-test. *)

Boards == [defects : Nat, nonces : Nat, overheats : Nat, presses : Nat, boots : Nat, calm : BOOLEAN]
TestFlags == /\ flag \in BOOLEAN /\ factory \in BOOLEAN /\ finished \in BOOLEAN
             /\ pressed \in BOOLEAN
             /\ power \in BOOLEAN /\ chips \in BOOLEAN /\ alarm \in BOOLEAN
TestPlaces == /\ task \in Test!Tasks /\ verdict \in {"none", "pass", "fail"}
          /\ monitor \in {"off", "polling", "cooling", "starting", "checking", "gone"}
          /\ temp \in {"cold", "warm", "hot", "throttled"}
\* What counts was found while the test measured.
Earned == /\ nonces \in [active : BOOLEAN, accepted : Nat] /\ seen \in Nat
          /\ nonces.accepted <= seen
          /\ nonces.active = TRUE => task = "measure"
          /\ verdict = "pass" => seen >= ENOUGH
\* Below its limit the monitor watches a regulator that is on, until it goes.
Calm == left.calm = TRUE =>
          /\ temp # "throttled" /\ monitor \notin {"cooling", "starting"} /\ alarm = FALSE
          /\ monitor \in {"polling", "checking"} => power = TRUE
          /\ task \in {"boot", "cut", "wait", "restart"} => monitor \in {"off", "gone"}
TestInv == left \in Boards /\ TestFlags /\ TestPlaces /\ Earned /\ Calm

LEMMA TestInit == ASSUME Test!TestAssumption, Test!Init PROVE TestInv
<1>1. left \in Boards
  BY DEF Test!Init, Test!TestAssumption, Boards
<1>2. TestFlags
  BY DEF Test!Init, TestFlags
<1>3. TestPlaces
  BY DEF Test!Init, TestPlaces, Test!Tasks
<1>4. nonces = [active |-> FALSE, accepted |-> 0] /\ seen = 0 /\ verdict = "none" /\ task = "boot"
  BY DEF Test!Init, Test!Fresh
<1>5. Earned
  BY <1>4 DEF Earned
<1>6. Calm
  BY DEF Test!Init, Calm
<1>7. QED
  BY <1>1, <1>2, <1>3, <1>5, <1>6 DEF TestInv

LEMMA TestPlanKept ==
  ASSUME left \in Boards, Test!Next PROVE left' \in Boards /\ left'.calm = left.calm
<1>1. ASSUME NEW what \in {"defects", "nonces", "overheats", "presses", "boots"},
             left[what] > 0, left' = [left EXCEPT ![what] = @ - 1]
      PROVE  left' \in Boards /\ left'.calm = left.calm
  <2>1. CASE what = "defects"
    BY <1>1, <2>1 DEF Boards
  <2>2. CASE what = "nonces"
    BY <1>1, <2>2 DEF Boards
  <2>3. CASE what = "overheats"
    BY <1>1, <2>3 DEF Boards
  <2>4. CASE what = "presses"
    BY <1>1, <2>4 DEF Boards
  <2>5. CASE what = "boots"
    BY <1>1, <2>5 DEF Boards
  <2>6. QED
    BY <1>1, <2>1, <2>2, <2>3, <2>4, <2>5
<1>2. \/ UNCHANGED left
      \/ \E what \in {"defects", "nonces", "overheats", "presses", "boots"} :
           left[what] > 0 /\ left' = [left EXCEPT ![what] = @ - 1]
  BY DEF Test!Next, Test!Task, Test!Monitor, Test!May, Test!Spend, Test!Fails, Test!Reboots,
         Test!Boot, Test!Checks, Test!Warmup, Test!Measure, Test!Verdict, Test!Delay, Test!Cut,
         Test!Wait, Test!Restart, Test!Polls, Test!Cools, Test!Starts, Test!Looks, Test!Press,
         Test!Reset, Test!NonceFound, Test!Warms, Test!Heats
<1>3. QED
  BY <1>1, <1>2

LEMMA TestFlagsKept == ASSUME TestFlags, Test!Next PROVE TestFlags'
<1>1. CASE Test!Boot \/ Test!Wait \/ Test!Press \/ Test!Restart \/ Test!Reset
  BY <1>1 DEF TestFlags, Test!Boot, Test!Wait, Test!Press, Test!Restart, Test!Reset, Test!Reboots
<1>2. CASE Test!Checks \/ Test!Warmup \/ Test!Measure \/ Test!Verdict
  BY <1>2 DEF TestFlags, Test!Checks, Test!Warmup, Test!Measure, Test!Verdict, Test!Fails, Test!Ends
<1>3. CASE Test!Delay \/ Test!Cut \/ Test!NonceFound \/ Test!Warms \/ Test!Heats
  BY <1>3 DEF TestFlags, Test!Delay, Test!Cut, Test!NonceFound, Test!Warms, Test!Heats
<1>4. CASE Test!Monitor
  BY <1>4 DEF TestFlags, Test!Monitor, Test!Polls, Test!Cools, Test!Starts, Test!Looks
<1>5. QED
  BY <1>1, <1>2, <1>3, <1>4 DEF Test!Next, Test!Task

LEMMA TestPlacesKept == ASSUME TestPlaces, Test!Next PROVE TestPlaces'
<1>1. CASE Test!Boot \/ Test!Wait \/ Test!Press \/ Test!Restart \/ Test!Reset
  BY <1>1 DEF TestPlaces, Test!Tasks, Test!Boot, Test!Wait, Test!Press, Test!Restart, Test!Reset,
              Test!Reboots
<1>2. CASE Test!Checks \/ Test!Warmup \/ Test!Measure \/ Test!Verdict
  BY <1>2 DEF TestPlaces, Test!Tasks, Test!Checks, Test!Warmup, Test!Measure, Test!Verdict, Test!Fails,
              Test!Ends
<1>3. CASE Test!Delay \/ Test!Cut \/ Test!NonceFound \/ Test!Warms \/ Test!Heats
  BY <1>3 DEF TestPlaces, Test!Tasks, Test!Delay, Test!Cut, Test!NonceFound, Test!Warms, Test!Heats
<1>4. CASE Test!Monitor
  BY <1>4 DEF TestPlaces, Test!Monitor, Test!Polls, Test!Cools, Test!Starts, Test!Looks
<1>5. QED
  BY <1>1, <1>2, <1>3, <1>4 DEF Test!Next, Test!Task

LEMMA EarnedKept == ASSUME Test!TestAssumption, Earned, Test!Next PROVE Earned'
<1> USE DEF Earned
<1>0. ENOUGH \in Nat
  BY DEF Test!TestAssumption
<1>1. ASSUME UNCHANGED <<nonces, seen, verdict>>, task # "measure" \/ task' = "measure"
      PROVE  Earned'
  BY <1>1
<1>2. ASSUME nonces' = [nonces EXCEPT !.active = FALSE], UNCHANGED seen,
             verdict' \in {verdict, "fail"} \/ nonces.accepted >= ENOUGH
      PROVE  Earned'
  <2>1. nonces' \in [active : BOOLEAN, accepted : Nat]
    BY <1>2
  <2>2. nonces'.active = FALSE /\ nonces'.accepted = nonces.accepted
    BY <1>2
  <2>3. verdict' = "pass" => seen' >= ENOUGH
    BY <1>0, <1>2
  <2>4. QED
    BY <1>2, <2>1, <2>2, <2>3
<1>3. ASSUME nonces' = [active |-> FALSE, accepted |-> 0], seen' = 0, verdict' = "none"
      PROVE  Earned'
  BY <1>3
<1>4. CASE Test!Boot
  BY <1>1, <1>4 DEF Test!Boot
<1>5. CASE Test!Checks
  BY <1>1, <1>2, <1>5 DEF Test!Checks, Test!Fails, Test!Ends
<1>6. CASE Test!Warmup
  <2>1. CASE Test!Fails /\ UNCHANGED seen
    BY <1>2, <2>1 DEF Test!Fails, Test!Ends
  <2>2. CASE /\ task' = "measure" /\ nonces' = [active |-> TRUE, accepted |-> 0]
             /\ UNCHANGED <<verdict, seen>>
    BY <2>2
  <2>3. QED
    BY <1>6, <2>1, <2>2 DEF Test!Warmup
<1>7. CASE Test!Measure
  BY <1>2, <1>7 DEF Test!Measure, Test!Measured, Test!Fails, Test!Ends
<1>8. CASE Test!Verdict
  BY <1>2, <1>8 DEF Test!Verdict, Test!Fails, Test!Ends
<1>9. CASE Test!Delay \/ Test!Cut \/ Test!Wait \/ Test!Press \/ Test!Warms \/ Test!Heats
  BY <1>1, <1>9 DEF Test!Delay, Test!Cut, Test!Wait, Test!Press, Test!Warms, Test!Heats
<1>10. CASE Test!Restart \/ Test!Reset
  BY <1>3, <1>10 DEF Test!Restart, Test!Reset, Test!Reboots, Test!Fresh
<1>11. CASE Test!Monitor
  BY <1>1, <1>11 DEF Test!Monitor, Test!Polls, Test!Cools, Test!Starts, Test!Looks
<1>12. CASE Test!NonceFound
  <2>1. UNCHANGED <<task, verdict>> /\ seen' = IF task = "measure" THEN seen + 1 ELSE seen
    BY <1>12 DEF Test!NonceFound
  <2>2. nonces' = IF nonces.active = TRUE THEN [nonces EXCEPT !.accepted = @ + 1] ELSE nonces
    BY <1>12 DEF Test!NonceFound, Test!Recorded
  <2>3. nonces' \in [active : BOOLEAN, accepted : Nat] /\ nonces'.active = nonces.active
    BY <2>2
  <2>4. nonces'.accepted = IF nonces.active = TRUE THEN nonces.accepted + 1 ELSE nonces.accepted
    BY <2>2
  <2>5. nonces.accepted \in Nat /\ seen' \in Nat /\ nonces'.accepted <= seen' /\ seen <= seen'
    BY <2>1, <2>4
  <2>6. verdict' = "pass" => seen' >= ENOUGH
    BY <1>0, <2>1, <2>5
  <2>7. QED
    BY <2>1, <2>3, <2>5, <2>6
<1>13. QED
  BY <1>4, <1>5, <1>6, <1>7, <1>8, <1>9, <1>10, <1>11, <1>12 DEF Test!Next, Test!Task

LEMMA CalmKept == ASSUME left \in Boards, TestFlags, TestPlaces, Calm, Test!Next PROVE Calm'
<1>0. left'.calm = left.calm
  BY TestPlanKept
<1> SUFFICES ASSUME left.calm = TRUE, left'.calm = TRUE PROVE Calm'
  BY <1>0 DEF Calm
<1>1. /\ temp # "throttled" /\ monitor \in {"off", "polling", "checking", "gone"} /\ alarm = FALSE
      /\ monitor \in {"polling", "checking"} => power = TRUE
      /\ task \in {"boot", "cut", "wait", "restart"} => monitor \in {"off", "gone"}
  BY DEF Calm, TestPlaces
<1>2. CASE Test!Boot
  BY <1>1, <1>2 DEF Calm, Test!Boot
<1>3. CASE Test!Checks \/ Test!Warmup \/ Test!Measure \/ Test!Verdict
  <2>1. UNCHANGED <<power, temp, monitor, alarm>>
    BY <1>3 DEF Test!Checks, Test!Warmup, Test!Measure, Test!Verdict
  <2>2. task' \in {"warmup", "measure", "verdict", "delay"} \/ (task' = "wait" /\ monitor = "off")
    BY <1>3 DEF Test!Checks, Test!Warmup, Test!Measure, Test!Verdict, Test!Fails, Test!Ends
  <2>3. QED
    BY <1>1, <2>1, <2>2 DEF Calm
<1>4. CASE Test!Delay \/ Test!Cut \/ Test!Wait \/ Test!Press \/ Test!NonceFound
  BY <1>1, <1>4 DEF Calm, Test!Delay, Test!Cut, Test!Wait, Test!Press, Test!NonceFound, Test!Waited
<1>5. CASE Test!Restart \/ Test!Reset
  BY <1>5 DEF Calm, Test!Restart, Test!Reset, Test!Reboots
<1>6. CASE Test!Warms \/ Test!Heats
  BY <1>1, <1>6 DEF Calm, Test!Warms, Test!Heats
<1>7. CASE Test!Polls
  <2>1. Test!Reads(temp) # "throttled"
    BY <1>1 DEF Test!Reads
  <2>2. monitor = "polling" /\ power = TRUE /\ monitor' \in {"gone", "checking"}
    BY <1>1, <1>7, <2>1 DEF Test!Polls
  <2>3. power' = (power /\ monitor' # "cooling") /\ UNCHANGED <<task, temp, alarm>>
    BY <1>7 DEF Test!Polls
  <2>4. power' = TRUE
    BY <2>2, <2>3
  <2>5. QED
    BY <1>1, <2>2, <2>3, <2>4 DEF Calm
<1>8. CASE Test!Looks
  <2>1. monitor = "checking" /\ power = TRUE
    BY <1>1, <1>8 DEF Test!Looks
  <2>2. alarm' = FALSE
    BY <1>1, <1>8, <2>1 DEF Test!Looks
  <2>3. QED
    BY <1>1, <1>8, <2>1, <2>2 DEF Test!Looks, Calm
<1>9. CASE Test!Cools \/ Test!Starts
  BY <1>1, <1>9 DEF Test!Cools, Test!Starts
<1>10. QED
  BY <1>2, <1>3, <1>4, <1>5, <1>6, <1>7, <1>8, <1>9 DEF Test!Next, Test!Task, Test!Monitor

LEMMA TestNext == ASSUME Test!TestAssumption, TestInv, [Test!Next]_Test!vars PROVE TestInv'
<1>1. CASE Test!Next
  BY <1>1, TestPlanKept, TestFlagsKept, TestPlacesKept, EarnedKept, CalmKept DEF TestInv
<1>2. CASE UNCHANGED Test!vars
  <2>1. left' \in Boards /\ TestFlags' /\ TestPlaces'
    BY <1>2 DEF TestInv, Test!vars, TestFlags, TestPlaces
  <2>2. Earned'
    BY <1>2 DEF TestInv, Test!vars, Earned
  <2>3. Calm'
    BY <1>2 DEF TestInv, Test!vars, Calm
  <2>4. QED
    BY <2>1, <2>2, <2>3 DEF TestInv
<1>3. QED
  BY <1>1, <1>2

LEMMA TestHolds ==
  ASSUME TestInv PROVE Test!TypeOK /\ Test!PassIsEarned /\ Test!CalmMonitorGoesFirst
<1>1. nonces.active \in BOOLEAN /\ nonces.accepted \in Nat /\ seen \in Nat
  BY DEF TestInv, Earned
<1>2. {flag, factory, finished, pressed, power, chips, alarm, nonces.active} \subseteq BOOLEAN
  BY Zenon, <1>1 DEF TestInv, TestFlags
<1>3. Test!TypeOK
  BY ZenonT(30), <1>1, <1>2 DEF TestInv, TestPlaces, Test!TypeOK
<1>4. Test!PassIsEarned
  BY DEF TestInv, Earned, Test!PassIsEarned
<1>5. left.calm \in BOOLEAN
  BY DEF TestInv, Boards
<1>6. Test!CalmMonitorGoesFirst
  BY <1>5 DEF TestInv, Calm, Test!CalmMonitorGoesFirst, Test!MonitorGoesFirst
<1>7. QED
  BY <1>3, <1>4, <1>6
-----------------------------------------------------------------------------
(* The start.  What the lists of the stages and of the routes are. *)

LEMMA StageNames ==
  /\ Len(Start!Stages) = 24
  /\ Start!Stages[1] = "reset_pin" /\ Start!Stages[2] = "nvs" /\ Start!Stages[3] = "device"
  /\ Start!Stages[4] = "i2c" /\ Start!Stages[5] = "self_test" /\ Start!Stages[6] = "system"
  /\ Start!Stages[7] = "wifi" /\ Start!Stages[8] = "isr" /\ Start!Stages[9] = "display"
  /\ Start!Stages[10] = "input" /\ Start!Stages[11] = "screen" /\ Start!Stages[12] = "filesystem"
  /\ Start!Stages[13] = "vcore" /\ Start!Stages[14] = "voltage" /\ Start!Stages[15] = "thermal"
  /\ Start!Stages[16] = "board_tasks" /\ Start!Stages[17] = "server"
  /\ Start!Stages[18] = "partitions"
  /\ Start!Stages[19] = "bap" /\ Start!Stages[20] = "wait" /\ Start!Stages[21] = "queue"
  /\ Start!Stages[22] = "chips" /\ Start!Stages[23] = "mining_tasks"
  /\ Start!Stages[24] = "coordinator"
BY DEF Start!Stages

LEMMA StageCases ==
  \A i \in 1 .. 24 :
    i = 1 \/ i = 2 \/ i = 3 \/ i = 4 \/ i = 5 \/ i = 6 \/ i = 7 \/ i = 8 \/ i = 9 \/ i = 10 \/
    i = 11 \/ i = 12 \/ i = 13 \/ i = 14 \/ i = 15 \/ i = 16 \/ i = 17 \/ i = 18 \/ i = 19 \/
    i = 20 \/ i = 21 \/ i = 22 \/ i = 23 \/ i = 24
  OBVIOUS

LEMMA StagesApart ==
  ASSUME NEW i \in 1 .. 24, NEW j \in 1 .. 24, i < j PROVE Start!Stages[i] # Start!Stages[j]
BY StageNames, StageCases, SMTT(60)

LEMMA NextStage ==
  ASSUME NEW i \in 1 .. 23, NEW k, k = i + 1
  PROVE  Start!After(Start!Stages[i]) = Start!Stages[k]
<1>1. \A j \in 1 .. i - 1 : Start!Stages[j] # Start!Stages[i]
  BY StagesApart
<1>2. Len(Start!Stages) \in Nat /\ i \in 1 .. Len(Start!Stages)
  BY StageNames
<1>3. Start!SelectInSeq(Start!Stages, LAMBDA s : s = Start!Stages[i]) = i
  BY <1>1, <1>2 DEF Start!SelectInSeq, Start!Min
<1>4. QED
  BY <1>3 DEF Start!After

LEMMA Afters ==
  /\ Start!After("reset_pin") = "nvs"
  /\ Start!After("nvs") = "device"
  /\ Start!After("device") = "i2c"
  /\ Start!After("i2c") = "self_test"
  /\ Start!After("self_test") = "system"
  /\ Start!After("system") = "wifi"
  /\ Start!After("wifi") = "isr"
  /\ Start!After("isr") = "display"
  /\ Start!After("display") = "input"
  /\ Start!After("input") = "screen"
  /\ Start!After("screen") = "filesystem"
  /\ Start!After("filesystem") = "vcore"
  /\ Start!After("vcore") = "voltage"
  /\ Start!After("voltage") = "thermal"
  /\ Start!After("thermal") = "board_tasks"
  /\ Start!After("board_tasks") = "server"
  /\ Start!After("server") = "partitions"
  /\ Start!After("partitions") = "bap"
  /\ Start!After("bap") = "wait"
  /\ Start!After("wait") = "queue"
  /\ Start!After("queue") = "chips"
  /\ Start!After("chips") = "mining_tasks"
  /\ Start!After("mining_tasks") = "coordinator"
BY NextStage, StageNames

Places == {"reset_pin", "nvs", "device", "i2c", "self_test", "system", "wifi", "isr", "display",
           "input", "screen", "filesystem", "vcore", "voltage", "thermal", "board_tasks", "server",
           "partitions", "bap", "wait", "queue", "chips", "mining_tasks", "coordinator",
           "returned", "done"}
LEMMA StageSet == Start!ToSet(Start!Stages) \cup {"returned", "done"} = Places
<1>1. Start!ToSet(Start!Stages) = {Start!Stages[i] : i \in 1 .. 24}
  BY DEF Start!ToSet, Start!Stages
<1>2. QED
  BY <1>1, StageNames, StageCases, SMTT(60) DEF Places

LEMMA RouteList ==
  /\ Len(Start!Registered) = 25
  /\ Start!Registered[1] = Start!Route("OPTIONS", "/api/*")
  /\ Start!Registered[2] = Start!Route("GET", "/recovery")
  /\ Start!Registered[3] = Start!Route("GET", "/api/theme")
  /\ Start!Registered[4] = Start!Route("POST", "/api/theme")
  /\ Start!Registered[5] = Start!Route("GET", "/api/system/info")
  /\ Start!Registered[6] = Start!Route("POST", "/api/system/boot")
  /\ Start!Registered[7] = Start!Route("GET", "/api/system/asic")
  /\ Start!Registered[8] = Start!Route("GET", "/api/system/statistics")
  /\ Start!Registered[9] = Start!Route("GET", "/api/system/scoreboard")
  /\ Start!Registered[10] = Start!Route("GET", "/api/system/wifi/scan")
  /\ Start!Registered[11] = Start!Route("GET", "/api/system/logs")
  /\ Start!Registered[12] = Start!Route("POST", "/api/system/identify")
  /\ Start!Registered[13] = Start!Route("POST", "/api/system/restart")
  /\ Start!Registered[14] = Start!Route("POST", "/api/system/pause")
  /\ Start!Registered[15] = Start!Route("POST", "/api/system/resume")
  /\ Start!Registered[16] = Start!Route("POST", "/api/system/blockFound/dismiss")
  /\ Start!Registered[17] = Start!Route("PATCH", "/api/system")
  /\ Start!Registered[18] = Start!Route("PUT", "/api/system/pools/*")
  /\ Start!Registered[19] = Start!Route("DELETE", "/api/system/pools/*")
  /\ Start!Registered[20] = Start!Route("POST", "/api/system/OTA")
  /\ Start!Registered[21] = Start!Route("POST", "/api/system/OTAWWW")
  /\ Start!Registered[22] = Start!Route("GET", "/api/ws")
  /\ Start!Registered[23] = Start!Route("GET", "/api/ws/live")
  /\ Start!Registered[24] = Start!Route("ANY", "/api/*")
  /\ Start!Registered[25] = Start!Route("GET", "/*")
BY DEF Start!Registered, Start!First, Start!ReadRoutes, Start!CommandRoutes, Start!SocketRoutes,
       Start!CatchAll, Start!ThemeRoutes

LEMMA RouteCases ==
  \A i \in 1 .. 25 :
    i = 1 \/ i = 2 \/ i = 3 \/ i = 4 \/ i = 5 \/ i = 6 \/ i = 7 \/ i = 8 \/ i = 9 \/ i = 10 \/
    i = 11 \/ i = 12 \/ i = 13 \/ i = 14 \/ i = 15 \/ i = 16 \/ i = 17 \/ i = 18 \/ i = 19 \/
    i = 20 \/ i = 21 \/ i = 22 \/ i = 23 \/ i = 24 \/ i = 25
  OBVIOUS

LEMMA RoutesApart ==
  ASSUME NEW i \in 1 .. 25, NEW j \in 1 .. 25, j < i
  PROVE  ~Start!Fits(Start!Registered[j], Start!Registered[i].method, Start!Registered[i].path)
BY RouteList, RouteCases, SMTT(60) DEF Start!Fits, Start!Route, Start!IsApi

LEMMA AllRoutes ==
  Len(Start!Routes) = 25 /\ \A i \in 1 .. 25 : Start!Routes[i] = Start!Registered[i]
<1>1. Start!Routes = [i \in 1 .. 25 |-> Start!Registered[i]]
  BY RouteList DEF Start!Routes, Start!max_uri_handlers
<1>2. QED
  BY <1>1

LEMMA RoutesReach ==
  ASSUME NEW i \in 1 .. 25
  PROVE  Start!HandlerOf(Start!Routes, Start!Routes[i].method, Start!Routes[i].path) = i
<1> DEFINE m == Start!Routes[i].method
           p == Start!Routes[i].path
<1>1. \A j \in 1 .. i - 1 : ~Start!Fits(Start!Routes[j], m, p)
  <2> SUFFICES ASSUME NEW j \in 1 .. i - 1 PROVE ~Start!Fits(Start!Routes[j], m, p)
    OBVIOUS
  <2>1. j \in 1 .. 25 /\ j < i
    OBVIOUS
  <2>2. Start!Routes[j] = Start!Registered[j] /\ Start!Routes[i] = Start!Registered[i]
    BY <2>1, AllRoutes
  <2>3. QED
    BY <2>1, <2>2, RoutesApart
<1>2. Start!Fits(Start!Routes[i], m, p)
  BY DEF Start!Fits
<1>3. Len(Start!Routes) \in Nat /\ i \in 1 .. Len(Start!Routes)
  BY AllRoutes
<1> HIDE DEF m, p
<1>4. Start!HandlerOf(Start!Routes, m, p) = i
  BY <1>1, <1>2, <1>3 DEF Start!HandlerOf, Start!SelectInSeq, Start!Min
<1>5. QED
  BY <1>4 DEF m, p

NeedsOf == Start!Needs
LEMMA NeedsAre ==
  /\ DOMAIN NeedsOf = {"cpu_monitor", "memory_guard", "event_loop", "display", "power_management",
       "fan_controller", "httpd", "websockets", "dns", "bap_send", "bap", "create_jobs",
       "asic_result", "hashrate_monitor", "statistics", "protocol_coordinator", "self_test"}
  /\ NeedsOf["cpu_monitor"] = {} /\ NeedsOf["memory_guard"] = {}
  /\ NeedsOf["event_loop"] = {"nvs", "system"}
  /\ NeedsOf["display"] = {"nvs", "system", "display", "screen"}
  /\ NeedsOf["power_management"] = {"nvs", "device", "i2c", "system", "vcore", "thermal"}
  /\ NeedsOf["fan_controller"] = {"nvs", "device", "i2c", "system", "thermal"}
  /\ NeedsOf["httpd"] = {"nvs", "device", "system", "wifi"}
  /\ NeedsOf["websockets"] = {"system", "routes"} /\ NeedsOf["dns"] = {"wifi"}
  /\ NeedsOf["bap_send"] = {"bap_queue"} /\ NeedsOf["bap"] = {"bap_queue", "system", "device"}
  /\ NeedsOf["create_jobs"] = {"system", "queue", "chips"}
  /\ NeedsOf["asic_result"] = {"system", "chips"}
  /\ NeedsOf["hashrate_monitor"] = {"nvs", "device", "system", "chips"}
  /\ NeedsOf["statistics"] = {"nvs", "system"}
  /\ NeedsOf["protocol_coordinator"] = {"nvs", "system", "queue", "event_queue"}
  /\ NeedsOf["self_test"] = {"nvs", "device", "system", "queue"}
BY DEF NeedsOf, Start!Needs

BootNums == /\ failures \in 0 .. MaxFailures /\ boots \in 1 .. MaxBoots
            /\ memory \in [critical : BOOLEAN, streak : 0 .. CRITICAL_STREAK_TO_RESTART,
                           episodes : 0 .. MaxEpisodes]
BootFlags == is_active \in BOOLEAN /\ is_connected \in BOOLEAN /\ screen \in BOOLEAN
Parts == (Places \ {"returned", "done"}) \cup {"routes", "bap_queue", "event_queue"}
BootTypes == /\ pc \in Places /\ ready \subseteq Parts
             /\ tasks \subseteq DOMAIN NeedsOf /\ ret \in {"ok", "failed"}
             /\ protocol \in {"V1", "V2"}

\* What is set up where app_main is, unless it has given up.
Behind ==
  /\ pc \notin {"reset_pin", "nvs", "returned"} => "nvs" \in ready
  /\ pc \notin {"reset_pin", "nvs", "device", "returned"} => "device" \in ready
  /\ pc \notin {"reset_pin", "nvs", "device", "i2c", "returned"} => "i2c" \in ready
  /\ pc \notin {"reset_pin", "nvs", "device", "i2c", "self_test", "system", "returned"}
       => "system" \in ready
  /\ pc \notin {"reset_pin", "nvs", "device", "i2c", "self_test", "system", "wifi", "returned"}
       => is_active = TRUE \/ "wifi" \in ready
  /\ pc \in {"input", "screen"} => "display" \in ready
  /\ pc \in {"voltage", "thermal"} => "vcore" \in ready
  /\ pc \in {"board_tasks", "server", "partitions", "bap", "wait", "queue", "chips",
             "mining_tasks"} => ret = "failed" \/ {"vcore", "thermal"} \subseteq ready
  /\ pc \in {"chips", "mining_tasks", "coordinator", "done"} => "queue" \in ready
  /\ pc = "mining_tasks" => "chips" \in ready
\* Who runs in which mode, and on which board the chips do.
Modes ==
  /\ "chips" \in ready => /\ pc \in {"mining_tasks", "coordinator", "done"} /\ ret = "ok"
                          /\ {"vcore", "thermal"} \subseteq ready
  /\ pc \in {"reset_pin", "nvs", "device", "i2c", "self_test"}
       => tasks \subseteq {"cpu_monitor", "memory_guard"}
  /\ is_active = TRUE => tasks \cap {"event_loop", "httpd", "protocol_coordinator"} = {}
  /\ "create_jobs" \in tasks => pc \in {"coordinator", "done"}
  /\ is_active = TRUE /\ pc \in {"chips", "mining_tasks", "coordinator", "done"}
       => protocol = "V1"
RoutesInv == /\ routes = <<>> \/ routes = Start!Routes
             /\ "routes" \in ready => routes = Start!Routes
Equipped == \A t \in tasks : NeedsOf[t] \subseteq ready
BootInv == /\ BootNums /\ BootFlags /\ BootTypes /\ Behind /\ Modes /\ RoutesInv /\ Equipped

LEMMA BootInit == ASSUME Start!BootAssumption, Start!Init PROVE BootInv
<1>1. BootNums
  <2>1. failures = 0 /\ boots = 1 /\ memory = [critical |-> FALSE, streak |-> 0, episodes |-> 0]
    BY DEF Start!Init
  <2>2. 0 \in 0 .. MaxFailures /\ 1 \in 1 .. MaxBoots
        /\ 0 \in 0 .. CRITICAL_STREAK_TO_RESTART /\ 0 \in 0 .. MaxEpisodes
    BY DEF Start!BootAssumption
  <2>3. memory \in [critical : BOOLEAN, streak : 0 .. CRITICAL_STREAK_TO_RESTART,
                    episodes : 0 .. MaxEpisodes]
    BY <2>1, <2>2
  <2>4. QED
    BY <2>1, <2>2, <2>3 DEF BootNums
<1>2. BootFlags /\ RoutesInv
  BY DEF Start!Init, BootFlags, RoutesInv
<1>3. BootTypes /\ Behind /\ Modes
  BY NeedsAre DEF Start!Init, BootTypes, Behind, Modes, Places, Parts
<1>4. Equipped
  BY NeedsAre DEF Start!Init, Equipped
<1>5. QED
  BY <1>1, <1>2, <1>3, <1>4 DEF BootInv

LEMMA RestartInv ==
  ASSUME Start!StartsAgain
  PROVE  BootFlags' /\ BootTypes' /\ Behind' /\ Modes' /\ RoutesInv' /\ Equipped'
<1>1. BootFlags' /\ RoutesInv'
  BY DEF Start!StartsAgain, BootFlags, RoutesInv
<1>2. BootTypes' /\ Behind' /\ Modes'
  BY NeedsAre DEF Start!StartsAgain, BootTypes, Behind, Modes, Places, Parts
<1>3. Equipped'
  BY NeedsAre DEF Start!StartsAgain, Equipped
<1>4. QED
  BY <1>1, <1>2, <1>3

\* The counters, whatever the start does.
LEMMA BootNumsKept == ASSUME Start!BootAssumption, BootNums, Start!Next PROVE BootNums'
<1>0. /\ MaxFailures \in Nat /\ MaxBoots \in Nat /\ MaxEpisodes \in Nat
      /\ CRITICAL_STREAK_TO_RESTART \in Nat
  BY DEF Start!BootAssumption
<1> DEFINE Memory == [critical : BOOLEAN, streak : 0 .. CRITICAL_STREAK_TO_RESTART,
                      episodes : 0 .. MaxEpisodes]
<1>1. ASSUME failures' = failures \/ Start!Fails, UNCHANGED <<boots, memory>> PROVE BootNums'
  BY <1>0, <1>1 DEF BootNums, Start!Fails
<1>2. CASE Start!Steps
  <2>1. UNCHANGED <<boots, memory>> /\ (failures' = failures \/ Start!Fails)
    BY <1>2 DEF Start!Steps, Start!Boots, Start!Network, Start!SetsUp, Start!Returns,
       Start!self_test_init, Start!SYSTEM_init_system, Start!wifi_init, Start!Peripheral,
       Start!display_init, Start!screen_start, Start!PeripheralFails, Start!StartBoardTasks,
       Start!StartServer, Start!BAP_init, Start!Wait, Start!queue_init, Start!asic_initialize,
       Start!StartMiningTasks, Start!Finish, Start!Works, Start!Creates, Start!Keeps
  <2>2. QED
    BY <1>1, <2>1
<1>3. ASSUME memory' = [memory EXCEPT !.critical = FALSE, !.streak = 0] PROVE memory' \in Memory
  <2>1. 0 \in 0 .. CRITICAL_STREAK_TO_RESTART
    BY <1>0
  <2>2. QED
    BY <1>3, <2>1 DEF BootNums
<1>4. CASE Start!Abort
  <2>1. memory' \in Memory
    BY <1>3, <1>4 DEF Start!Abort, Start!StartsAgain
  <2>2. failures' \in 0 .. MaxFailures /\ boots' \in 1 .. MaxBoots
    BY <1>0, <1>4 DEF Start!Abort, Start!Fails, BootNums
  <2>3. QED
    BY <2>1, <2>2 DEF BootNums
<1>5. CASE Start!Sample
  <2>1. memory' = [memory EXCEPT !.streak = Start!Streak] /\ UNCHANGED <<failures, boots>>
    BY <1>5 DEF Start!Sample, Start!start
  <2>2. memory.streak \in 0 .. CRITICAL_STREAK_TO_RESTART
        /\ memory.streak < CRITICAL_STREAK_TO_RESTART
    BY <1>5 DEF Start!Sample, BootNums
  <2>3. Start!Streak \in 0 .. CRITICAL_STREAK_TO_RESTART
    BY <1>0, <2>2 DEF Start!Streak
  <2>4. memory' \in Memory
    BY <2>1, <2>3 DEF BootNums
  <2>5. QED
    BY <2>1, <2>4 DEF BootNums
<1>6. CASE Start!GuardRestarts
  <2>1. memory' \in Memory /\ UNCHANGED <<failures, boots>>
    BY <1>3, <1>6 DEF Start!GuardRestarts, Start!StartsAgain
  <2>2. QED
    BY <2>1 DEF BootNums
<1>7. CASE Start!Heap
  <2>1. UNCHANGED <<failures, boots>>
    BY <1>7 DEF Start!Heap, Start!start
  <2>2. CASE memory' = [memory EXCEPT !.critical = FALSE]
    BY <2>1, <2>2 DEF BootNums
  <2>3. CASE /\ memory.episodes < MaxEpisodes
             /\ memory' = [memory EXCEPT !.critical = TRUE, !.episodes = @ + 1]
    <3>1. memory.episodes + 1 \in 0 .. MaxEpisodes
      BY <1>0, <2>3 DEF BootNums
    <3>2. memory' \in Memory
      BY <2>3, <3>1 DEF BootNums
    <3>3. QED
      BY <2>1, <3>2 DEF BootNums
  <2>4. QED
    BY <1>7, <2>2, <2>3 DEF Start!Heap
<1>8. QED
  BY <1>2, <1>4, <1>5, <1>6, <1>7 DEF Start!Next

LEMMA BootFlagsKept ==
  ASSUME BootFlags, Start!Boots \/ Start!Network
  PROVE  BootFlags'
<1>1. CASE \E stage \in {"reset_pin", "nvs", "device", "i2c", "partitions"} : Start!SetsUp(stage)
  BY <1>1
     DEF Start!SetsUp, Start!Go, Start!Ready, Start!Keeps, BootFlags
<1>2. CASE \E stage \in {"nvs", "device"} : Start!Returns(stage)
  BY <1>2
     DEF Start!Returns, Start!Keeps, BootFlags
<1>3. CASE Start!self_test_init
  BY <1>3
     DEF Start!self_test_init, Start!ConnectedAtOnce, Start!Ready, BootFlags
<1>4. CASE Start!SYSTEM_init_system
  BY <1>4
     DEF Start!SYSTEM_init_system, Start!Go, Start!Ready, Start!Keeps, BootFlags
<1>5. CASE Start!wifi_init
  BY <1>5
     DEF Start!wifi_init, Start!Go, Start!Ready, Start!Keeps, BootFlags
<1>6. CASE Start!Peripheral
  BY <1>6
     DEF Start!Peripheral, Start!Ready, Start!Peripherals, Start!Keeps, BootFlags
<1>7. CASE Start!display_init
  BY <1>7
     DEF Start!display_init, Start!Go, Start!Ready, BootFlags
<1>8. CASE Start!screen_start
  BY <1>8
     DEF Start!screen_start, Start!Go, Start!Ready, Start!Keeps, BootFlags
<1>9. CASE Start!PeripheralFails
  BY <1>9
     DEF Start!PeripheralFails, Start!Peripherals, Start!SurvivesFailure, Start!CanFail, BootFlags
<1>10. CASE Start!StartBoardTasks
  BY <1>10
     DEF Start!StartBoardTasks, Start!Go, Start!Creates, Start!BoardTasks, Start!Keeps, BootFlags
<1>11. CASE Start!StartServer
  BY <1>11
     DEF Start!StartServer, Start!Go, Start!Ready, Start!Creates, BootFlags
<1>12. CASE Start!BAP_init
  BY <1>12
     DEF Start!BAP_init, Start!Go, Start!Ready, Start!Creates, Start!Keeps, BootFlags
<1>13. CASE Start!Wait
  BY <1>13
     DEF Start!Wait, Start!Go, Start!Keeps, BootFlags
<1>14. CASE Start!queue_init
  BY <1>14
     DEF Start!queue_init, Start!Go, Start!Ready, Start!Keeps, BootFlags
<1>15. CASE Start!asic_initialize
  BY <1>15
     DEF Start!asic_initialize, Start!Ready, BootFlags
<1>16. CASE Start!StartMiningTasks
  BY <1>16
     DEF Start!StartMiningTasks, Start!Go, Start!Creates, Start!Keeps, BootFlags
<1>17. CASE Start!Finish
  BY <1>17
     DEF Start!Finish, Start!Creates, Start!Ready, Start!Keeps, BootFlags
<1>18. CASE Start!Network
  BY <1>18
     DEF Start!Network, BootFlags
<1>19. QED
  BY <1>1, <1>2, <1>3, <1>4, <1>5, <1>6, <1>7, <1>8, <1>9, <1>10, <1>11, <1>12, <1>13, <1>14,
     <1>15, <1>16, <1>17, <1>18
     DEF Start!Boots

LEMMA BootTypesKept ==
  ASSUME BootTypes, Start!Boots \/ Start!Network
  PROVE  BootTypes'
<1>1. CASE \E stage \in {"reset_pin", "nvs", "device", "i2c", "partitions"} : Start!SetsUp(stage)
  BY <1>1, Afters, NeedsAre
     DEF Start!SetsUp, Start!Go, Start!Ready, Start!Keeps, BootTypes, Places, Parts
<1>2. CASE \E stage \in {"nvs", "device"} : Start!Returns(stage)
  BY <1>2, Afters, NeedsAre
     DEF Start!Returns, Start!Keeps, BootTypes, Places, Parts
<1>3. CASE Start!self_test_init
  <2>1. pc' \in Places
    BY <1>3, Afters DEF Start!self_test_init, Places
  <2>2. /\ ready' \subseteq Parts
        /\ UNCHANGED <<tasks, protocol, ret>>
    BY <1>3 DEF Start!self_test_init, Start!Ready, BootTypes, Places, Parts
  <2>3. QED
    BY <2>1, <2>2 DEF BootTypes
<1>4. CASE Start!SYSTEM_init_system
  BY <1>4, Afters, NeedsAre
     DEF Start!SYSTEM_init_system, Start!Go, Start!Ready, Start!Keeps, BootTypes, Places, Parts
<1>5. CASE Start!wifi_init
  <2>1. pc' \in Places /\ UNCHANGED <<protocol, ret>>
    BY <1>5, Afters DEF Start!wifi_init, Start!Go, Start!Keeps, Places
  <2>2. /\ ready' \subseteq ready \cup {"wifi"}
        /\ tasks' \subseteq tasks \cup {"event_loop"}
    BY <1>5 DEF Start!wifi_init, Start!Ready
  <2>3. QED
    BY <2>1, <2>2, NeedsAre DEF BootTypes, Places, Parts
<1>6. CASE Start!Peripheral
  BY <1>6, Afters, NeedsAre
     DEF Start!Peripheral, Start!Ready, Start!Peripherals, Start!Keeps, BootTypes, Places, Parts
<1>7. CASE Start!display_init
  BY <1>7, Afters, NeedsAre
     DEF Start!display_init, Start!Go, Start!Ready, BootTypes, Places, Parts
<1>8. CASE Start!screen_start
  BY <1>8, Afters, NeedsAre
     DEF Start!screen_start, Start!Go, Start!Ready, Start!Keeps, BootTypes, Places, Parts
<1>9. CASE Start!PeripheralFails
  BY <1>9, Afters, NeedsAre
     DEF Start!PeripheralFails, Start!Peripherals, Start!SurvivesFailure, Start!CanFail,
         BootTypes, Places, Parts
<1>10. CASE Start!StartBoardTasks
  BY <1>10, Afters, NeedsAre
     DEF Start!StartBoardTasks, Start!Go, Start!Creates, Start!BoardTasks, Start!Keeps, BootTypes,
         Places, Parts
<1>11. CASE Start!StartServer
  <2>1. pc' \in Places /\ UNCHANGED <<protocol, ret>>
    BY <1>11, Afters DEF Start!StartServer, Start!Go, Places
  <2>2. /\ ready' \subseteq ready \cup {"routes"}
        /\ tasks' \subseteq tasks \cup {"httpd", "websockets", "dns"}
    BY <1>11 DEF Start!StartServer, Start!Ready, Start!Creates
  <2>3. QED
    BY <2>1, <2>2, NeedsAre DEF BootTypes, Places, Parts
<1>12. CASE Start!BAP_init
  BY <1>12, Afters, NeedsAre
     DEF Start!BAP_init, Start!Go, Start!Ready, Start!Creates, Start!Keeps, BootTypes, Places, Parts
<1>13. CASE Start!Wait
  BY <1>13, Afters, NeedsAre
     DEF Start!Wait, Start!Go, Start!Keeps, BootTypes, Places, Parts
<1>14. CASE Start!queue_init
  BY <1>14, Afters, NeedsAre
     DEF Start!queue_init, Start!Go, Start!Ready, Start!Keeps, BootTypes, Places, Parts
<1>15. CASE Start!asic_initialize
  <2>1. pc' \in Places /\ UNCHANGED <<protocol, tasks>>
    BY <1>15 DEF Start!asic_initialize, Places
  <2>2. ready' \subseteq ready \cup {"chips"} /\ ret' \in {ret, "failed"}
    BY <1>15 DEF Start!asic_initialize, Start!Ready
  <2>3. QED
    BY <2>1, <2>2 DEF BootTypes, Places, Parts
<1>16. CASE Start!StartMiningTasks
  BY <1>16, Afters, NeedsAre
     DEF Start!StartMiningTasks, Start!Go, Start!Creates, Start!Keeps, BootTypes, Places, Parts
<1>17. CASE Start!Finish
  <2>1. pc' \in Places /\ UNCHANGED <<protocol, ret>>
    BY <1>17 DEF Start!Finish, Start!Keeps, Places
  <2>2. /\ ready' \subseteq ready \cup {"event_queue"}
        /\ tasks' \subseteq tasks \cup {"self_test", "protocol_coordinator"}
    BY <1>17 DEF Start!Finish, Start!Ready, Start!Creates
  <2>3. QED
    BY <2>1, <2>2, NeedsAre DEF BootTypes, Places, Parts
<1>18. CASE Start!Network
  BY <1>18, Afters, NeedsAre
     DEF Start!Network, BootTypes, Places, Parts
<1>19. QED
  BY <1>1, <1>2, <1>3, <1>4, <1>5, <1>6, <1>7, <1>8, <1>9, <1>10, <1>11, <1>12, <1>13, <1>14,
     <1>15, <1>16, <1>17, <1>18
     DEF Start!Boots

LEMMA BehindKept ==
  ASSUME BootTypes, Behind, Start!Boots \/ Start!Network
  PROVE  Behind'
<1>1. CASE \E stage \in {"reset_pin", "nvs", "device", "i2c", "partitions"} : Start!SetsUp(stage)
  BY <1>1, Afters
     DEF Start!SetsUp, Start!Go, Start!Ready, Start!Keeps, Behind, BootTypes
<1>2. CASE \E stage \in {"nvs", "device"} : Start!Returns(stage)
  BY <1>2, Afters
     DEF Start!Returns, Start!Keeps, Behind, BootTypes
<1>3. CASE Start!self_test_init
  BY <1>3, Afters
     DEF Start!self_test_init, Start!ConnectedAtOnce, Start!Ready, Behind, BootTypes
<1>4. CASE Start!SYSTEM_init_system
  BY <1>4, Afters
     DEF Start!SYSTEM_init_system, Start!Go, Start!Ready, Start!Keeps, Behind, BootTypes
<1>5. CASE Start!wifi_init
  BY <1>5, Afters
     DEF Start!wifi_init, Start!Go, Start!Ready, Start!Keeps, Behind, BootTypes
<1>6. CASE Start!Peripheral
  BY <1>6, Afters
     DEF Start!Peripheral, Start!Ready, Start!Peripherals, Start!Keeps, Behind, BootTypes
<1>7. CASE Start!display_init
  BY <1>7, Afters
     DEF Start!display_init, Start!Go, Start!Ready, Behind, BootTypes
<1>8. CASE Start!screen_start
  BY <1>8, Afters
     DEF Start!screen_start, Start!Go, Start!Ready, Start!Keeps, Behind, BootTypes
<1>9. CASE Start!PeripheralFails
  BY <1>9, Afters
     DEF Start!PeripheralFails, Start!Peripherals, Start!SurvivesFailure, Start!CanFail, Behind,
         BootTypes
<1>10. CASE Start!StartBoardTasks
  BY <1>10, Afters
     DEF Start!StartBoardTasks, Start!Go, Start!Creates, Start!BoardTasks, Start!Keeps, Behind,
         BootTypes
<1>11. CASE Start!StartServer
  BY <1>11, Afters
     DEF Start!StartServer, Start!Go, Start!Ready, Start!Creates, Behind, BootTypes
<1>12. CASE Start!BAP_init
  BY <1>12, Afters
     DEF Start!BAP_init, Start!Go, Start!Ready, Start!Creates, Start!Keeps, Behind, BootTypes
<1>13. CASE Start!Wait
  BY <1>13, Afters
     DEF Start!Wait, Start!Go, Start!Keeps, Behind, BootTypes
<1>14. CASE Start!queue_init
  BY <1>14, Afters
     DEF Start!queue_init, Start!Go, Start!Ready, Start!Keeps, Behind, BootTypes
<1>15. CASE Start!asic_initialize
  BY <1>15, Afters
     DEF Start!asic_initialize, Start!Ready, Behind, BootTypes
<1>16. CASE Start!StartMiningTasks
  BY <1>16, Afters
     DEF Start!StartMiningTasks, Start!Go, Start!Creates, Start!Keeps, Behind, BootTypes
<1>17. CASE Start!Finish
  BY <1>17, Afters
     DEF Start!Finish, Start!Creates, Start!Ready, Start!Keeps, Behind, BootTypes
<1>18. CASE Start!Network
  BY <1>18, Afters
     DEF Start!Network, Behind, BootTypes
<1>19. QED
  BY <1>1, <1>2, <1>3, <1>4, <1>5, <1>6, <1>7, <1>8, <1>9, <1>10, <1>11, <1>12, <1>13, <1>14,
     <1>15, <1>16, <1>17, <1>18
     DEF Start!Boots

LEMMA ModesKept ==
  ASSUME BootTypes, Behind, Modes, Start!Boots \/ Start!Network
  PROVE  Modes'
<1>1. CASE \E stage \in {"reset_pin", "nvs", "device", "i2c", "partitions"} : Start!SetsUp(stage)
  BY <1>1, Afters
     DEF Start!SetsUp, Start!Go, Start!Ready, Start!Keeps, Behind, Modes
<1>2. CASE \E stage \in {"nvs", "device"} : Start!Returns(stage)
  BY <1>2, Afters
     DEF Start!Returns, Start!Keeps, Behind, Modes
<1>3. CASE Start!self_test_init
  BY <1>3, Afters
     DEF Start!self_test_init, Start!ConnectedAtOnce, Start!Ready, Behind, Modes
<1>4. CASE Start!SYSTEM_init_system
  BY <1>4, Afters
     DEF Start!SYSTEM_init_system, Start!Go, Start!Ready, Start!Keeps, Behind, Modes
<1>5. CASE Start!wifi_init
  BY <1>5, Afters
     DEF Start!wifi_init, Start!Go, Start!Ready, Start!Keeps, Behind, Modes
<1>6. CASE Start!Peripheral
  BY <1>6, Afters
     DEF Start!Peripheral, Start!Ready, Start!Peripherals, Start!Keeps, Behind, Modes
<1>7. CASE Start!display_init
  BY <1>7, Afters
     DEF Start!display_init, Start!Go, Start!Ready, Behind, Modes
<1>8. CASE Start!screen_start
  BY <1>8, Afters
     DEF Start!screen_start, Start!Go, Start!Ready, Start!Keeps, Behind, Modes
<1>9. CASE Start!PeripheralFails
  BY <1>9, Afters
     DEF Start!PeripheralFails, Start!Peripherals, Start!SurvivesFailure, Start!CanFail, Behind,
         Modes
<1>10. CASE Start!StartBoardTasks
  BY <1>10, Afters
     DEF Start!StartBoardTasks, Start!Go, Start!Creates, Start!BoardTasks, Start!Keeps, Behind,
         Modes
<1>11. CASE Start!StartServer
  BY <1>11, Afters
     DEF Start!StartServer, Start!Go, Start!Ready, Start!Creates, Behind, Modes
<1>12. CASE Start!BAP_init
  BY <1>12, Afters
     DEF Start!BAP_init, Start!Go, Start!Ready, Start!Creates, Start!Keeps, Behind, Modes
<1>13. CASE Start!Wait
  BY <1>13, Afters
     DEF Start!Wait, Start!Go, Start!Keeps, Behind, Modes
<1>14. CASE Start!queue_init
  BY <1>14, Afters
     DEF Start!queue_init, Start!Go, Start!Ready, Start!Keeps, Behind, Modes
<1>15. CASE Start!asic_initialize
  BY <1>15, Afters
     DEF Start!asic_initialize, Start!Ready, Behind, Modes
<1>16. CASE Start!StartMiningTasks
  BY <1>16, Afters
     DEF Start!StartMiningTasks, Start!Go, Start!Creates, Start!Keeps, Behind, Modes
<1>17. CASE Start!Finish
  BY <1>17, Afters
     DEF Start!Finish, Start!Creates, Start!Ready, Start!Keeps, Behind, Modes
<1>18. CASE Start!Network
  BY <1>18, Afters
     DEF Start!Network, Behind, Modes
<1>19. QED
  BY <1>1, <1>2, <1>3, <1>4, <1>5, <1>6, <1>7, <1>8, <1>9, <1>10, <1>11, <1>12, <1>13, <1>14,
     <1>15, <1>16, <1>17, <1>18
     DEF Start!Boots

LEMMA RoutesKept ==
  ASSUME RoutesInv, ready \subseteq Parts, Start!Boots \/ Start!Network
  PROVE  RoutesInv'
<1>1. CASE \E stage \in {"reset_pin", "nvs", "device", "i2c", "partitions"} : Start!SetsUp(stage)
  BY <1>1
     DEF Start!SetsUp, Start!Go, Start!Ready, Start!Keeps, RoutesInv
<1>2. CASE \E stage \in {"nvs", "device"} : Start!Returns(stage)
  BY <1>2
     DEF Start!Returns, Start!Keeps, RoutesInv
<1>3. CASE Start!self_test_init
  BY <1>3
     DEF Start!self_test_init, Start!ConnectedAtOnce, Start!Ready, RoutesInv
<1>4. CASE Start!SYSTEM_init_system
  BY <1>4
     DEF Start!SYSTEM_init_system, Start!Go, Start!Ready, Start!Keeps, RoutesInv
<1>5. CASE Start!wifi_init
  BY <1>5
     DEF Start!wifi_init, Start!Go, Start!Ready, Start!Keeps, RoutesInv
<1>6. CASE Start!Peripheral
  BY <1>6
     DEF Start!Peripheral, Start!Ready, Start!Peripherals, Start!Keeps, RoutesInv
<1>7. CASE Start!display_init
  BY <1>7
     DEF Start!display_init, Start!Go, Start!Ready, RoutesInv
<1>8. CASE Start!screen_start
  BY <1>8
     DEF Start!screen_start, Start!Go, Start!Ready, Start!Keeps, RoutesInv
<1>9. CASE Start!PeripheralFails
  BY <1>9
     DEF Start!PeripheralFails, Start!Peripherals, Start!SurvivesFailure, Start!CanFail, RoutesInv
<1>10. CASE Start!StartBoardTasks
  BY <1>10
     DEF Start!StartBoardTasks, Start!Go, Start!Creates, Start!BoardTasks, Start!Keeps, RoutesInv
<1>11. CASE Start!StartServer
  BY <1>11
     DEF Start!StartServer, Start!Go, Start!Ready, Start!Creates, RoutesInv
<1>12. CASE Start!BAP_init
  BY <1>12
     DEF Start!BAP_init, Start!Go, Start!Ready, Start!Creates, Start!Keeps, RoutesInv
<1>13. CASE Start!Wait
  BY <1>13
     DEF Start!Wait, Start!Go, Start!Keeps, RoutesInv
<1>14. CASE Start!queue_init
  BY <1>14
     DEF Start!queue_init, Start!Go, Start!Ready, Start!Keeps, RoutesInv
<1>15. CASE Start!asic_initialize
  BY <1>15
     DEF Start!asic_initialize, Start!Ready, RoutesInv
<1>16. CASE Start!StartMiningTasks
  BY <1>16
     DEF Start!StartMiningTasks, Start!Go, Start!Creates, Start!Keeps, RoutesInv
<1>17. CASE Start!Finish
  BY <1>17
     DEF Start!Finish, Start!Creates, Start!Ready, Start!Keeps, RoutesInv
<1>18. CASE Start!Network
  BY <1>18
     DEF Start!Network, RoutesInv
<1>19. QED
  BY <1>1, <1>2, <1>3, <1>4, <1>5, <1>6, <1>7, <1>8, <1>9, <1>10, <1>11, <1>12, <1>13, <1>14,
     <1>15, <1>16, <1>17, <1>18
     DEF Start!Boots

LEMMA EquippedKept ==
  ASSUME BootFlags, Behind, Equipped, Start!Boots \/ Start!Network
  PROVE  Equipped'
<1>1. CASE \E stage \in {"reset_pin", "nvs", "device", "i2c", "partitions"} : Start!SetsUp(stage)
  BY <1>1, NeedsAre
     DEF Start!SetsUp, Start!Go, Start!Ready, Start!Keeps, Behind, Equipped
<1>2. CASE \E stage \in {"nvs", "device"} : Start!Returns(stage)
  BY <1>2, NeedsAre
     DEF Start!Returns, Start!Keeps, Behind, Equipped
<1>3. CASE Start!self_test_init
  BY <1>3, NeedsAre
     DEF Start!self_test_init, Start!ConnectedAtOnce, Start!Ready, Behind, Equipped
<1>4. CASE Start!SYSTEM_init_system
  BY <1>4, NeedsAre
     DEF Start!SYSTEM_init_system, Start!Go, Start!Ready, Start!Keeps, Behind, Equipped
<1>5. CASE Start!wifi_init
  BY <1>5, NeedsAre
     DEF Start!wifi_init, Start!Go, Start!Ready, Start!Keeps, Behind, Equipped
<1>6. CASE Start!Peripheral
  BY <1>6, NeedsAre
     DEF Start!Peripheral, Start!Ready, Start!Peripherals, Start!Keeps, Behind, Equipped
<1>7. CASE Start!display_init
  BY <1>7, NeedsAre
     DEF Start!display_init, Start!Go, Start!Ready, Behind, Equipped
<1>8. CASE Start!screen_start
  BY <1>8, NeedsAre
     DEF Start!screen_start, Start!Go, Start!Ready, Start!Keeps, Behind, Equipped
<1>9. CASE Start!PeripheralFails
  BY <1>9, NeedsAre
     DEF Start!PeripheralFails, Start!Peripherals, Start!SurvivesFailure, Start!CanFail, Behind,
         Equipped
<1>10. CASE Start!StartBoardTasks
  BY <1>10, NeedsAre
     DEF Start!StartBoardTasks, Start!Go, Start!Creates, Start!BoardTasks, Start!Keeps, Behind,
         Equipped
<1>11. CASE Start!StartServer
  BY <1>11, NeedsAre
     DEF Start!StartServer, Start!Go, Start!Ready, Start!Creates, Behind, Equipped
<1>12. CASE Start!BAP_init
  BY <1>12, NeedsAre
     DEF Start!BAP_init, Start!Go, Start!Ready, Start!Creates, Start!Keeps, Behind, Equipped
<1>13. CASE Start!Wait
  BY <1>13, NeedsAre
     DEF Start!Wait, Start!Go, Start!Keeps, Behind, Equipped
<1>14. CASE Start!queue_init
  BY <1>14, NeedsAre
     DEF Start!queue_init, Start!Go, Start!Ready, Start!Keeps, Behind, Equipped
<1>15. CASE Start!asic_initialize
  BY <1>15, NeedsAre
     DEF Start!asic_initialize, Start!Ready, Behind, Equipped
<1>16. CASE Start!StartMiningTasks
  BY <1>16, NeedsAre
     DEF Start!StartMiningTasks, Start!Go, Start!Creates, Start!Keeps, Behind, Equipped
<1>17. CASE Start!Finish
  BY <1>17, NeedsAre
     DEF Start!Finish, Start!Creates, Start!Ready, Start!Keeps, Behind, Equipped
<1>18. CASE Start!Network
  BY <1>18, NeedsAre
     DEF Start!Network, Behind, Equipped
<1>19. QED
  BY <1>1, <1>2, <1>3, <1>4, <1>5, <1>6, <1>7, <1>8, <1>9, <1>10, <1>11, <1>12, <1>13, <1>14,
     <1>15, <1>16, <1>17, <1>18
     DEF Start!Boots

LEMMA BootNext == ASSUME Start!BootAssumption, BootInv, [Start!Next]_Start!vars PROVE BootInv'
<1>1. CASE Start!Steps
  <2>1. Start!Boots \/ Start!Network
    BY <1>1 DEF Start!Steps
  <2>2. BootFlags' /\ BootTypes' /\ Behind' /\ Modes'
    BY <2>1, BootFlagsKept, BootTypesKept, BehindKept, ModesKept DEF BootInv
  <2>3. RoutesInv' /\ Equipped'
    BY <2>1, RoutesKept, EquippedKept DEF BootInv, BootTypes
  <2>4. BootNums'
    BY <1>1, BootNumsKept DEF BootInv, Start!Next
  <2>5. QED
    BY <2>2, <2>3, <2>4 DEF BootInv
<1>2. CASE Start!Abort \/ Start!GuardRestarts
  <2>1. Start!StartsAgain
    BY <1>2 DEF Start!Abort, Start!GuardRestarts
  <2>2. BootNums'
    BY <1>2, BootNumsKept DEF BootInv, Start!Next
  <2>3. QED
    BY <2>1, <2>2, RestartInv DEF BootInv
<1>3. CASE Start!Sample \/ Start!Heap
  <2>1. UNCHANGED Start!start
    BY <1>3 DEF Start!Sample, Start!Heap
  <2>2. BootNums'
    BY <1>3, BootNumsKept DEF BootInv, Start!Next
  <2>3. QED
    BY <2>1, <2>2 DEF BootInv, Start!start, BootFlags, BootTypes, Behind, Modes, RoutesInv, Equipped
<1>4. CASE UNCHANGED Start!vars
  BY <1>4 DEF BootInv, Start!vars, Start!start, BootNums, BootFlags, BootTypes, Behind, Modes,
     RoutesInv,
     Equipped
<1>5. QED
  BY <1>1, <1>2, <1>3, <1>4 DEF Start!Next

LEMMA BootKeeps == ASSUME BootInv PROVE Start!TypeOK /\ Start!BootHolds
<1>1. Len(routes) \in {0, 25} /\ ("routes" \in ready => Len(routes) = 25)
  <2>1. Len(<<>>) = 0
    OBVIOUS
  <2>2. QED
    BY <2>1, AllRoutes DEF BootInv, RoutesInv
<1>2. Len(routes) <= Start!max_uri_handlers
  <2>1. \A n \in {0, 25} : n <= 25
    OBVIOUS
  <2>2. QED
    BY <1>1, <2>1 DEF Start!max_uri_handlers
<1>3. /\ pc \in Start!ToSet(Start!Stages) \cup {"returned", "done"}
      /\ ready \subseteq Start!ToSet(Start!Stages) \cup {"routes", "bap_queue", "event_queue"}
  <2>1. Places \ {"returned", "done"} \subseteq Start!ToSet(Start!Stages)
    BY StageSet
  <2>2. ready \cap {"returned", "done"} = {}
    BY DEF BootInv, BootTypes, Parts, Places
  <2>3. QED
    BY <2>1, <2>2, StageSet DEF BootInv, BootTypes, Parts
<1>4. Start!TypeOK
  BY ZenonT(30), <1>2, <1>3
     DEF Start!TypeOK, BootInv, BootNums, BootFlags, BootTypes, NeedsOf
<1>5. Start!TasksHaveWhatTheyUse
  BY DEF Start!TasksHaveWhatTheyUse, BootInv, Equipped, NeedsOf
<1>6. Start!ChipsOnSoundBoard
  BY DEF Start!ChipsOnSoundBoard, BootInv, Modes, BootFlags
<1>7. Start!RoutesReachTheirHandlers
  <2>1. CASE routes = <<>>
    BY <2>1 DEF Start!RoutesReachTheirHandlers
  <2>2. CASE routes = Start!Routes
    <3>1. Len(routes) = 25
      BY <2>2, AllRoutes
    <3>2. QED
      BY <2>2, <3>1, RoutesReach DEF Start!RoutesReachTheirHandlers
  <2>3. QED
    BY <2>1, <2>2 DEF BootInv, RoutesInv
<1>8. Start!AllRegistered
  BY <1>1, RouteList DEF Start!AllRegistered
<1>9. QED
  BY <1>4, <1>5, <1>6, <1>7, <1>8 DEF Start!BootHolds
-----------------------------------------------------------------------------
(* The whole. *)

\* A step of the machine is one of the component it is about.
LEMMA PartSteps ==
  ASSUME [Next]_<<part, v>>
  PROVE  /\ part' = part
         /\ part = "switch" => [Switch!Next]_Switch!vars
         /\ part = "v1" => [V1!Next]_V1!vars
         /\ part = "v2" => [V2!Next]_V2!vars
         /\ part = "chips" => [Chips!Next]_Chips!vars
         /\ part = "vcore" => [Vcore!Next]_Vcore!vars
         /\ part = "fan" => [Fan!Next]_Fan!vars
         /\ part = "display" => [Display!Next]_Display!vars
         /\ part = "test" => [Test!Next]_Test!vars
         /\ part = "boot" => [Start!Next]_Start!vars
<1>1. CASE Next
  BY <1>1 DEF Next
<1>2. CASE UNCHANGED <<part, v>>
  <2>1. part' = part /\ UNCHANGED v
    BY <1>2
  <2>2. UNCHANGED <<switchVars, v1Vars, v2Vars, chipVars, vcoreVars, fanVars, displayVars,
                    testVars, bootVars, link, task, queue, conn, setting, chips, monitor, temp,
                    ready, tasks, protocol, left>>
    BY <2>1 DEF v
  <2>3. UNCHANGED Switch!vars /\ UNCHANGED V1!vars /\ UNCHANGED V2!vars
    BY <2>2 DEF switchVars, v1Vars, v2Vars, link, Switch!vars, Switch!connVars, V1!vars, V2!vars
  <2>4. UNCHANGED Chips!vars /\ UNCHANGED Vcore!vars /\ UNCHANGED Fan!vars
    BY <2>2 DEF chipVars, vcoreVars, fanVars, Chips!vars, Chips!readers, Vcore!vars, Fan!vars
  <2>5. UNCHANGED Display!vars /\ UNCHANGED Test!vars /\ UNCHANGED Start!vars
    BY <2>2 DEF displayVars, testVars, bootVars, Display!vars, Test!vars, Start!vars, Start!start
  <2>6. QED
    BY <2>1, <2>3, <2>4, <2>5
<1>3. QED
  BY <1>1, <1>2

MachineInv ==
  /\ Of({"switch", "v1", "v2", "chips", "vcore", "fan", "display", "test", "boot"})
  /\ part = "switch" => SwitchType
  /\ part = "v1" => V1Inv
  /\ part = "v2" => V2Inv
  /\ part = "chips" => ChipInv
  /\ part = "vcore" => VcoreInv
  /\ part = "fan" => FanInv
  /\ part = "display" => DisplayInv
  /\ part = "test" => TestInv
  /\ part = "boot" => BootInv

LEMMA MachineInit == Init => MachineInv
<1> SUFFICES ASSUME Init PROVE MachineInv
  OBVIOUS
<1>1. Of({"switch", "v1", "v2", "chips", "vcore", "fan", "display", "test", "boot"})
  BY DEF Init, Of
<1>2. /\ part = "switch" => Switch!Init
      /\ part = "v1" => V1!Init
      /\ part = "v2" => V2!Init
      /\ part = "chips" => Chips!Init
      /\ part = "vcore" => Vcore!Init
      /\ part = "fan" => Fan!Init
      /\ part = "display" => Display!Init
      /\ part = "test" => Test!Init
      /\ part = "boot" => Start!Init
  BY DEF Init, Of
<1>3. (part = "switch" => SwitchType) /\ (part = "v1" => V1Inv) /\ (part = "v2" => V2Inv)
  BY <1>2, SwitchesAreSound, SessionsAreSound, SwitchTypeInit, V1InvInit, V2InvInit
<1>4. (part = "chips" => ChipInv) /\ (part = "vcore" => VcoreInv) /\ (part = "fan" => FanInv)
  BY <1>2, LinkIsSound, RegulatorIsSound, FanIsSound, ChipInit, VcoreInit, FanInit
<1>5. /\ part = "display" => DisplayInv
      /\ part = "test" => TestInv
      /\ part = "boot" => BootInv
  BY <1>2, ScreensAreSound, TestIsSound, BootIsSound, DisplayInit, TestInit, BootInit
<1>6. QED
  BY <1>1, <1>3, <1>4, <1>5 DEF MachineInv

LEMMA MachineNext == MachineInv /\ [Next]_<<part, v>> => MachineInv'
<1> SUFFICES ASSUME MachineInv, [Next]_<<part, v>> PROVE MachineInv'
  OBVIOUS
<1>1. /\ part' = part
      /\ part = "switch" => [Switch!Next]_Switch!vars
      /\ part = "v1" => [V1!Next]_V1!vars
      /\ part = "v2" => [V2!Next]_V2!vars
      /\ part = "chips" => [Chips!Next]_Chips!vars
      /\ part = "vcore" => [Vcore!Next]_Vcore!vars
      /\ part = "fan" => [Fan!Next]_Fan!vars
      /\ part = "display" => [Display!Next]_Display!vars
      /\ part = "test" => [Test!Next]_Test!vars
      /\ part = "boot" => [Start!Next]_Start!vars
  BY PartSteps
<1>2. CASE part = "switch"
  BY <1>1, <1>2, SwitchesAreSound, SwitchTypeStep DEF MachineInv, Of
<1>3. CASE part = "v1"
  BY <1>1, <1>3, SessionsAreSound, V1InvNext DEF MachineInv, Of
<1>4. CASE part = "v2"
  BY <1>1, <1>4, SessionsAreSound, V2InvNext DEF MachineInv, Of
<1>5. CASE part = "chips"
  BY <1>1, <1>5, LinkIsSound, ChipStep DEF MachineInv, Of
<1>6. CASE part = "vcore"
  BY <1>1, <1>6, RegulatorIsSound, VcoreNext DEF MachineInv, Of
<1>7. CASE part = "fan"
  BY <1>1, <1>7, FanIsSound, FanNext DEF MachineInv, Of
<1>8. CASE part = "display"
  BY <1>1, <1>8, ScreensAreSound, DisplayNext DEF MachineInv, Of
<1>9. CASE part = "test"
  BY <1>1, <1>9, TestIsSound, TestNext DEF MachineInv, Of
<1>10. CASE part = "boot"
  BY <1>1, <1>10, BootIsSound, BootNext DEF MachineInv, Of
<1>11. QED
  BY <1>2, <1>3, <1>4, <1>5, <1>6, <1>7, <1>8, <1>9, <1>10 DEF MachineInv, Of

LEMMA MachineHolds == Spec => []MachineInv
BY MachineInit, MachineNext, PTL DEF Spec

\* Every variable of every component keeps its type: the attempts of the drivers and of the
\* sessions stay within theirs, the slots, indices and lists within their sizes, the clock
\* within what the dividers reach, the fan and the timers of the screens within their ranges.
THEOREM MachineTypeCorrect == Spec => []TypeOK
<1>1. MachineInv => TypeOK
  <2> SUFFICES ASSUME MachineInv PROVE TypeOK
    OBVIOUS
  <2>1. part = "switch" => Switch!TypeOK
    BY DEF MachineInv, SwitchType
  <2>2. (part = "v1" => V1!TypeOK) /\ (part = "v2" => V2!TypeOK)
    BY V1InvType, V2InvType DEF MachineInv, V1Inv
  <2>3. /\ part = "chips" => Chips!TypeOK
        /\ part = "vcore" => Vcore!TypeOK
        /\ part = "fan" => Fan!TypeOK
    BY LinkIsSound, ChipsHold, VcoreHolds, FanHolds DEF MachineInv
  <2>4. /\ part = "display" => Display!TypeOK
        /\ part = "test" => Test!TypeOK
        /\ part = "boot" => Start!TypeOK
    BY DisplayHolds, TestHolds, BootKeeps DEF MachineInv
  <2>5. Of({"switch", "v1", "v2", "chips", "vcore", "fan", "display", "test", "boot"})
    BY DEF MachineInv
  <2>6. QED
    BY ONLY <2>1, <2>2, <2>3, <2>4, <2>5 DEF TypeOK, Of
<1>2. QED
  BY <1>1, MachineHolds, PTL

\* stratum_v1_task.c:505, stratum_v2_task.c:542: through lost and repeated connections, whatever
\* the pool repeats or leaves unanswered, no share is counted or timed twice, and the queue
\* holds jobs of the session once, on the block it knows.
THEOREM MachineKeepsSessions == Spec => []SessionsHold
<1>1. MachineInv => SessionsHold
  BY V1InvHolds, V2InvHolds DEF MachineInv, SessionsHold
<1>2. QED
  BY <1>1, MachineHolds, PTL

\* bm1366.c:318,354, frequency_transition_bmXX.c:41: after any stops, retries, broken chains,
\* flatlines and new frequencies, chips in use run at the clock and the rate the firmware
\* thinks, and search a space that fits, and no rate is computed over a reset.  Main's
\* bring-up (main.c:228), the power task and the accessory overlap as they may; what is
\* excepted, until the next start that is alone with the chips, is what they leave when
\* they do overlap (met, crossed), and the clock and the rate of a BM1397, the clock of a
\* BM1373, that a flatline initialised again without a reset (bm1397.c:235,243, bm1373.c:429).
THEOREM MachineKnowsItsChips == Spec => []ChipsAreKnown
<1>1. MachineInv => ChipsAreKnown
  BY LinkIsSound, ChipsHold DEF MachineInv, ChipsAreKnown
<1>2. QED
  BY <1>1, MachineHolds, PTL

\* frequency_transition_bmXX.c:35: for every step, every lowest clock and every sequence of
\* targets, reachable or not, the clock of chips in use moves by a step at most, with the
\* same exceptions of the clock: two who ramp at the same time, and a BM1397 or a BM1373
\* that was initialised again without a reset.
THEOREM MachineRampsGently == Spec => RampsGently
<1>1. MachineInv /\ [Next]_<<part, v>> => [part = "chips" => Chips!GentleStep]_v
  <2> SUFFICES ASSUME MachineInv, [Next]_<<part, v>>, part = "chips", v' # v
               PROVE  Chips!GentleStep
    OBVIOUS
  <2>1. ChipInv /\ [Chips!Next]_Chips!vars
    BY PartSteps DEF MachineInv
  <2>2. CASE Chips!Next
    BY <2>1, <2>2, LinkIsSound, ChipsRampGently
  <2>3. CASE UNCHANGED Chips!vars
    BY <2>1, <2>3, LinkIsSound, ChipsAtRest
  <2>4. QED
    BY <2>1, <2>2, <2>3
<1>2. QED
  BY <1>1, MachineHolds, PTL DEF Spec, RampsGently

\* TPS546.c:990, fan_controller_task.c:40, screen.c:560, self_test.c:777, main.c:170: no false
\* power alarm, no fan at a speed nobody asked for, no deleted screen, no verdict without its
\* nonces, no power cut under the monitor, no task before what it uses, no route missed.
THEOREM MachineKeepsTheBoard == Spec => []BoardHolds
<1>1. MachineInv => BoardHolds
  BY VcoreHolds, FanHolds, DisplayHolds, TestHolds, BootKeeps DEF MachineInv, BoardHolds
<1>2. QED
  BY <1>1, MachineHolds, PTL

\* create_jobs_task.c:29,154: across every switch of the protocol an item of the untyped queue
\* is read and freed as what it was enqueued as, if no unit mixes standard and extended
\* channels and create_jobs_task finishes an iteration between two switches.
THEOREM MachineKeepsItemTypes ==
  ASSUME PromptLoop = TRUE,
         \A c \in Configs, p, q \in Switch!Pools : ~(c[p] = "STD" /\ c[q] = "EXT")
  PROVE  Spec => []ItemsKeepType
<1> DEFINE ItemInv == part = "switch" => SwitchInv /\ SameChannels
<1>1. Init => ItemInv
  <2> SUFFICES ASSUME Init, part = "switch" PROVE SwitchInv /\ SameChannels
    OBVIOUS
  <2>1. Switch!Init
    BY DEF Init, Of
  <2>2. SameChannels
    BY <2>1 DEF Switch!Init, SameChannels
  <2>3. QED
    BY <2>1, <2>2, SwitchesAreSound, SwitchTypeInit, FeedInit DEF SwitchInv
<1>2. ItemInv /\ [Next]_<<part, v>> => ItemInv'
  <2> SUFFICES ASSUME ItemInv, [Next]_<<part, v>>, part' = "switch"
               PROVE  (SwitchInv /\ SameChannels)'
    OBVIOUS
  <2>1. part = "switch" /\ [Switch!Next]_Switch!vars
    BY PartSteps
  <2>2. QED
    BY <2>1, SwitchesAreSound, SwitchInvStep
<1>3. ItemInv => ItemsKeepType
  BY DEF ItemsKeepType, SwitchInv
<1>4. QED
  BY <1>1, <1>2, <1>3, PTL DEF Spec
=============================================================================
