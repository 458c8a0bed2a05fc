----------------------------- MODULE BapCommands -----------------------------
(***************************************************************************)
(* The commands of an accessory (main/bap/bap_handlers.c): a sentence is   *)
(* checked, a repetition within a second is dropped in silence, and then   *)
(* its handler answers and may change a setting.  New network credentials  *)
(* restart the device a second after the answer, and what arrives in that  *)
(* second is lost.  The accessory repeats each of its two credentials      *)
(* until it hears the acknowledgement, which it may miss.                  *)
(*                                                                         *)
(* Subscriptions change nothing here (BapLink has them), a clock frequency *)
(* also goes to the chips (ChipLink), and the two block flags, which are   *)
(* only shown, are left out.  Numbers are of WIDTH values when stored.     *)
(* MaxOthers, MaxMisses and MaxCycles bound the exploration.               *)
(***************************************************************************)
EXTENDS Integers, Sequences, FiniteSets

CONSTANTS WIDTH, FAN_MAX, VOLTAGE_MIN, VOLTAGE_MAX, Numbers, MaxOthers, MaxMisses, MaxCycles

\* Numbers stand for the names and passwords that are told apart.
Empty == 0
Old == 1
New == 2
Missing == -1
Credentials == {Empty, Old, New}
Limits == [fan_speed |-> 0 .. FAN_MAX, asic_voltage |-> VOLTAGE_MIN .. VOLTAGE_MAX,
           auto_fan_speed |-> 0 .. 1]
NumberParams == DOMAIN Limits
Wish == [ssid |-> New, password |-> New]
WifiParams == {"ssid", "password"}
Command(cmd, param, value, sum) == [cmd |-> cmd, param |-> param, value |-> value, sum |-> sum]
None == Command("", "", Missing, "good")

VARIABLES
  stored,       \* the settings
  running,      \* the credentials the network runs with
  is_connected,
  line,         \* the sentence on its way, or None
  recent,       \* last_processed_message, while it is less than a second old
  restarting,   \* the handler's second before esp_restart
  heard,        \* the credentials whose acknowledgement the accessory heard
  answer,       \* of the last sentence
  handled, was, \* that sentence, and the settings before it
  counts        \* [others, misses, cycles]
vars == <<stored, running, is_connected, line, recent, restarting, heard, answer, handled, was, counts>>

Numeric == {Command("SET", p, n, "good") : p \in NumberParams, n \in Numbers}
\* What an accessory may send besides: sums that are wrong or absent, sentences without
\* a value, requests, subscriptions, and parameters that cannot be set.
Others == Numeric \cup
  {Command("SET", "fan_speed", 1, sum) : sum \in {"bad", "none"}} \cup
  {Command("SET", "ssid", Missing, "good"), Command("SET", "hashrate", 1, "good"),
   Command("REQ", "shares", 0, "good"), Command("SUB", "hashrate", 0, "bad"),
   Command("UNSUB", "hashrate", 0, "none")}

TypeOK ==
  /\ \A p \in WifiParams : stored[p] \in Credentials /\ running[p] \in Credentials
  /\ \A p \in NumberParams : stored[p] \in 0 .. WIDTH - 1
  /\ is_connected \in BOOLEAN /\ restarting \in BOOLEAN /\ heard \subseteq WifiParams
  /\ line = None \/ line.cmd \in {"SET", "REQ", "SUB", "UNSUB"}
  /\ recent = None \/ recent.cmd \in {"SET", "REQ", "SUB", "UNSUB"}
  /\ answer \in {"", "ACK", "ERR", "RES"}
  /\ counts \in [others : 0 .. MaxOthers, misses : 0 .. MaxMisses, cycles : 0 .. MaxCycles]
-----------------------------------------------------------------------------
Init == /\ \E s \in {Old, New}, p \in Credentials :
             /\ running = [ssid |-> s, password |-> p]
             /\ stored = [ssid |-> s, password |-> p, fan_speed |-> FAN_MAX,
                          asic_voltage |-> VOLTAGE_MIN, auto_fan_speed |-> 1]
        /\ is_connected = FALSE /\ line = None /\ recent = None /\ restarting = FALSE
        /\ heard = {} /\ answer = "" /\ handled = None /\ was = stored
        /\ counts = [others |-> 0, misses |-> 0, cycles |-> 0]

\* BAP_parse_message: what is let through to a handler.
Repeated(c) == c = recent
Authentic(c) == \/ c.sum = "good" \/ c.cmd = "SUB"
                \/ c.sum = "none" /\ c.cmd = "UNSUB"

Wrapped(n) == n % WIDTH

\* A mutant: the number is checked before it is cut to its width.
InRange_Wide(p, n) == n <= CHOOSE m \in Limits[p] : \A k \in Limits[p] : k <= m
InRange(p, n) == Wrapped(n) \in Limits[p]

ApRefuses(c) == ~is_connected /\ (c.cmd \in {"REQ", "SUB"} \/ (c.cmd = "SET" /\ c.param \notin WifiParams))
Settable(c) == \/ c.param \in WifiParams
               \/ c.param \in NumberParams /\ InRange(c.param, c.value)
Refused(c) == \/ c.cmd = "SET" /\ c.value = Missing
              \/ ApRefuses(c)
              \/ c.cmd = "SET" /\ ~Settable(c)

\* A mutant: only a new network name restarts the device.
Restarts_Name(c) == c.param = "ssid" /\ stored.password # Empty
\* A new password restarts the device, and a new name does if there is a password.
Restarts(c) == c.param = "password" \/ stored.password # Empty

\* BAP_handle_settings; a fan speed turns the automatic off and is not acknowledged.
Set(c) ==
  IF c.param \in WifiParams
  THEN /\ answer' = "ACK" /\ stored' = [stored EXCEPT ![c.param] = c.value]
       /\ restarting' = (stored[c.param] # c.value /\ Restarts(c))
  ELSE /\ answer' = (IF c.param = "fan_speed" THEN "" ELSE "ACK") /\ UNCHANGED restarting
       /\ stored' = [stored EXCEPT ![c.param] = Wrapped(c.value),
                                   !["auto_fan_speed"] =
                                     IF c.param = "fan_speed" THEN 0
                                     ELSE IF c.param = "auto_fan_speed" THEN Wrapped(c.value) ELSE @]

Handle(c) ==
  \/ Refused(c) /\ answer' = "ERR" /\ UNCHANGED <<stored, restarting>>
  \/ ~Refused(c) /\ c.cmd = "SET" /\ Set(c)
  \/ /\ ~Refused(c) /\ c.cmd # "SET" /\ answer' = (IF c.cmd = "REQ" THEN "RES" ELSE "ACK")
     /\ UNCHANGED <<stored, restarting>>

\* The accessory hears an acknowledgement, or misses it.
Hears(c) ==
  IF answer' = "ACK" /\ c.param \in WifiParams
  THEN \/ heard' = heard \cup {c.param} /\ UNCHANGED counts
       \/ /\ counts.misses < MaxMisses /\ counts' = [counts EXCEPT !.misses = @ + 1]
          /\ UNCHANGED heard
  ELSE UNCHANGED <<heard, counts>>

\* uart_receive_task with one sentence.
Receive ==
  /\ line # None /\ ~restarting /\ line' = None /\ handled' = line /\ was' = stored
  /\ IF Repeated(line)
       THEN answer' = "" /\ UNCHANGED <<stored, restarting, heard, recent, counts>>
       ELSE /\ recent' = line
            /\ IF Authentic(line) THEN Handle(line) /\ Hears(line)
               ELSE answer' = "" /\ UNCHANGED <<stored, restarting, heard, counts>>
  /\ UNCHANGED <<running, is_connected>>

\* A second has passed.
Second == /\ recent # None /\ recent' = None
          /\ UNCHANGED <<stored, running, is_connected, line, restarting, heard, answer, handled,
                         was, counts>>

\* The device starts again; the sentence it had not read is gone.
Starts == /\ running' = [p \in WifiParams |-> stored[p]] /\ is_connected' = FALSE
          /\ line' = None /\ recent' = None /\ restarting' = FALSE
          /\ UNCHANGED <<stored, heard, answer, handled, was>>
Restart == restarting /\ Starts /\ UNCHANGED counts
PowerCycle == /\ counts.cycles < MaxCycles /\ counts' = [counts EXCEPT !.cycles = @ + 1]
              /\ Starts
-----------------------------------------------------------------------------
\* The network the accessory wishes for is there, and no other.
Network == /\ is_connected' = ~is_connected /\ (is_connected' => running = Wish)
           /\ UNCHANGED <<stored, running, line, recent, restarting, heard, answer, handled, was, counts>>

NextWish == IF "ssid" \notin heard THEN "ssid" ELSE "password"
SendWish == /\ line = None /\ heard # WifiParams
            /\ line' = Command("SET", NextWish, Wish[NextWish], "good")
            /\ UNCHANGED <<stored, running, is_connected, recent, restarting, heard, answer, handled,
                           was, counts>>
SendOther(c) ==
  /\ line = None /\ line' = c
  /\ counts.others < MaxOthers /\ counts' = [counts EXCEPT !.others = @ + 1]
  /\ UNCHANGED <<stored, running, is_connected, recent, restarting, heard, answer, handled, was>>

Next == \/ Receive \/ Second \/ Restart \/ PowerCycle \/ Network \/ SendWish
        \/ \E c \in Others : SendOther(c)
Fairness == WF_vars(Receive) /\ WF_vars(Second) /\ WF_vars(Restart) /\ WF_vars(SendWish)
Spec == Init /\ [][Next]_vars /\ Fairness
-----------------------------------------------------------------------------
\* bap_handlers.c:332, :412: whatever number is sent, the stored one is in its range.
SettingsInRange == \A p \in NumberParams : stored[p] \in Limits[p]

\* bap_handlers.c:58: only what was checked and is allowed changes a setting, and a
\* device without a network takes its credentials only; an acknowledged value is stored.
AnswersAreTrue ==
  /\ stored # was => handled.cmd = "SET" /\ handled.sum = "good" /\ answer # "ERR"
  /\ answer = "ACK" /\ handled.cmd = "SET" /\ handled.param \in WifiParams =>
       stored[handled.param] = handled.value

CommandsHold == SettingsInRange /\ AnswersAreTrue

\* bap_handlers.c:385: an accessory that repeats its credentials until it hears an
\* answer gets the device to run with them, through restarts and lost answers.
Met == running = Wish
WishIsMet == <>Met
=============================================================================
