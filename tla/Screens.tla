-------------------------------- MODULE Screens --------------------------------
(***************************************************************************)
(* What the display shows: main/screen.c with the button of main/input.c   *)
(* and the panel switch of main/display.c.  The update runs every half     *)
(* second on the LVGL task, which also delivers the button; other tasks    *)
(* set the flags it reads.                                                 *)
(*                                                                         *)
(* Abstracted: the labels and their texts.  Times are in updates.          *)
(***************************************************************************)
EXTENDS Integers, FiniteSets

CONSTANTS SHORT, LONG,  \* delays_ms of a logo (or the connection) and of the carousel
          WAKE,         \* BUTTON_WAKE_MS
          TIMEOUT,      \* a display timeout of some minutes
          Plans         \* bound: [large, timeout, events, presses]

\* What an instance must satisfy; the theorems assume it by name.
ScreensAssumption == {SHORT, LONG, WAKE, TIMEOUT} \subseteq Nat

VARIABLES ui,       \* [screen, dwell, delay, idle, alive]
          lit,      \* display_state_on
          st,       \* what the screens are chosen by
          identify, \* identify_mode_time_ms > 0
          left
vars == <<ui, lit, st, identify, left>>

\* screen_t; the active screen is none of them until one is loaded.
NOTHING == -1
SELF_TEST == 0
OVERHEAT == 1
ASIC_STATUS == 2
WELCOME == 3
FIRMWARE == 4
CONNECTION == 5
BITAXE_LOGO == 6
OSMU_LOGO == 7
URLS == 8
STATS == 9
MINING == 10
WIFI == 11
MAX_SCREENS == 12
CAROUSEL_START == URLS
Carousel == CAROUSEL_START .. MAX_SCREENS - 1
Logos == {BITAXE_LOGO, OSMU_LOGO}
Early(s) == s \in 0 .. CAROUSEL_START - 1
Delay(s) == IF s \in Carousel THEN LONG ELSE IF s \in Logos \cup {CONNECTION} THEN SHORT ELSE 0

Conditions == {"self_test", "firmware", "asic_status", "overheat", "no_ssid", "wifi_status",
               "offline", "new_block"}

Init == /\ left \in Plans /\ identify = FALSE /\ lit = FALSE
        /\ st \in {{"self_test"}, {"no_ssid", "offline", "wifi_status"}, {"offline", "wifi_status"}}
        /\ ui = [screen |-> NOTHING, dwell |-> 0, delay |-> 0, idle |-> 0,
                 alive |-> 0 .. MAX_SCREENS - 1]

\* A mutant: the pointer is taken as it is.
Valid_Any(u, s) == TRUE
\* A logo that is left is deleted; screens[] keeps its pointer, which lv_obj_is_valid
\* (or being the active screen) tells from a live one.
Valid(u, s) == u.screen = s \/ s \in u.alive
Awake(u, s) == IF Early(s) THEN [u EXCEPT !.idle = 0] ELSE u
ScreenShow(u, s) ==
  IF u.screen = s THEN Awake(u, s)
  ELSE [Awake(u, s) EXCEPT !.screen = s, !.dwell = 0, !.delay = Delay(s),
                           !.alive = @ \ ({u.screen} \cap Logos)]

\* A mutant: the carousel turns around one screen early.
Follow_Early(s) == IF s + 1 = MAX_SCREENS - 1 THEN CAROUSEL_START ELSE s + 1
Follow(s) == IF s + 1 = MAX_SCREENS THEN CAROUSEL_START ELSE s + 1
\* The screens tried one after the other (after two logos there is one that stays);
\* those passed over count as activity too.
After(s) == <<Follow(s), Follow(Follow(s)), Follow(Follow(Follow(s)))>>
Tries(u) == CHOOSE n \in 1 .. 3 : /\ Valid(u, After(u.screen)[n])
                                  /\ \A m \in 1 .. n - 1 : ~Valid(u, After(u.screen)[m])
ScreenNext(u) ==
  IF left.large THEN ScreenShow(u, STATS)
  ELSE LET n == Tries(u)
           passed == \E m \in 1 .. n - 1 : Early(After(u.screen)[m]) IN
       ScreenShow(IF passed THEN [u EXCEPT !.idle = 0] ELSE u, After(u.screen)[n])

\* What must be seen comes before the carousel, in this order.
Urgent == IF "self_test" \in st THEN SELF_TEST
          ELSE IF "firmware" \in st THEN FIRMWARE
          ELSE IF "asic_status" \in st THEN ASIC_STATUS
          ELSE IF "overheat" \in st THEN OVERHEAT
          ELSE IF "no_ssid" \in st THEN WELCOME
          ELSE IF st \cap {"wifi_status", "offline"} # {} THEN CONNECTION
          ELSE NOTHING

EnableDisplay ==
  \/ left.timeout < 0
  \/ Early(ui.screen)
  \/ left.timeout = 0 /\ ui.idle < WAKE
  \/ left.timeout > 0 /\ (ui.idle < TIMEOUT \/ identify)

\* Counted no further than it takes to move on.
Dwelt(u) == [u EXCEPT !.dwell = IF @ > LONG THEN @ ELSE @ + 1]
Older(u) == [u EXCEPT !.idle = IF @ < TIMEOUT THEN @ + 1 ELSE @]
\* Once nothing is urgent: the large display has one screen, a found block holds the
\* statistics, the others take turns.
Turn(u) == IF left.large THEN ScreenShow(Dwelt(u), STATS)
           ELSE IF "new_block" \in st THEN [ScreenShow(Dwelt(u), STATS) EXCEPT !.idle = 0]
           ELSE IF u.dwell + 1 <= u.delay THEN Dwelt(u)
           ELSE ScreenNext(Dwelt(u))
Update ==
  /\ lit' = EnableDisplay
  /\ ui' = Older(IF Urgent # NOTHING THEN ScreenShow(ui, Urgent) ELSE Turn(ui))
  /\ st' = IF Urgent = CONNECTION THEN st \ {"wifi_status"} ELSE st
  /\ UNCHANGED <<identify, left>>

\* Each press of the button is activity for LVGL; a self-test takes no short presses.
Press == /\ left.presses > 0 /\ "self_test" \notin st
         /\ left' = [left EXCEPT !.presses = @ - 1] /\ identify' = FALSE
         /\ LET u == [ui EXCEPT !.idle = 0] IN ui' = IF identify THEN u ELSE ScreenNext(u)
         /\ UNCHANGED <<lit, st>>

\* The other tasks and the user: a condition arises or ends.  A failed start of the
\* chips is shown until the device restarts, and so is a self-test.
Arises == /\ left.events > 0 /\ left' = [left EXCEPT !.events = @ - 1]
          /\ "self_test" \notin st
          /\ \/ \E c \in Conditions \ (st \cup {"self_test", "no_ssid"}) : st' = st \cup {c}
             \/ \E c \in st \ {"asic_status", "no_ssid", "wifi_status"} : st' = st \ {c}
          /\ UNCHANGED <<ui, lit, identify>>
Connects == /\ "offline" \in st /\ "no_ssid" \notin st /\ "self_test" \notin st
            /\ st' = (st \ {"offline"}) \cup {"wifi_status"}
            /\ UNCHANGED <<ui, lit, identify, left>>
Identify == /\ left.events > 0 /\ left' = [left EXCEPT !.events = @ - 1]
            /\ identify' = ~identify /\ UNCHANGED <<ui, lit, st>>
IdentifyEnds == /\ identify /\ identify' = FALSE /\ UNCHANGED <<ui, lit, st, left>>

Next == Update \/ Press \/ Arises \/ Connects \/ Identify \/ IdentifyEnds

\* The LVGL timer fires as long as the device runs, and identification times out.
Fairness == WF_vars(Update) /\ WF_vars(IdentifyEnds)
Spec == Init /\ [][Next]_vars /\ Fairness

\* Every variable has its type.
TypeOK ==
  /\ ui.screen \in -1 .. MAX_SCREENS - 1 /\ ui.alive \subseteq 0 .. MAX_SCREENS - 1
  /\ ui.idle \in 0 .. TIMEOUT /\ ui.dwell \in 0 .. LONG + 1
  /\ ui.delay \in {0, SHORT, LONG} /\ lit \in BOOLEAN /\ identify \in BOOLEAN
  /\ st \subseteq Conditions

\* No deleted screen is ever loaded, whatever order urgent screens, the carousel and the
\* button bring the screens in.
LoadedScreensLive == ui.screen # NOTHING => ui.screen \in ui.alive

\* What is urgent is on a lit display in the end, through presses of the button and a
\* display that was asleep, unless nothing is urgent any more.
Waiting == Urgent # NOTHING
Seen == Urgent = NOTHING \/ (ui.screen = Urgent /\ lit)
UrgentIsSeen == Waiting ~> Seen

\* While nothing is urgent and no block is celebrated, the carousel turns: its first and
\* its last screen have their turns.
Quiet == Urgent = NOTHING /\ "new_block" \notin st /\ ~left.large
Shown(s) == ~Quiet \/ ui.screen = s
CarouselTurns == /\ Quiet ~> Shown(URLS)
                 /\ Quiet ~> Shown(WIFI)
================================================================================
