-------------------------------- MODULE Boot --------------------------------
(***************************************************************************)
(* The start of the device (app_main in main/main.c and what it calls): in *)
(* which order the parts are set up, what a failure of one of them leaves  *)
(* out, and which tasks are running meanwhile.  The start pauses until the *)
(* device is connected, while the event loop, the web server and the tasks *)
(* of the board are at work already.                                       *)
(*                                                                         *)
(* ready holds the parts that are set up, tasks those who run; what a part *)
(* does is in its own module.  A failed task creation is logged and no     *)
(* more.  One of the first tasks guards the memory (memory_guard.c): it    *)
(* restarts the device, wherever the start is, when the largest free block *)
(* was too small in CRITICAL_STREAK_TO_RESTART samples in a row.           *)
(* MaxFailures, MaxBoots and MaxEpisodes bound the exploration.            *)
(***************************************************************************)
EXTENDS Integers, Sequences, SequencesExt

CONSTANTS CRITICAL_STREAK_TO_RESTART, MaxFailures, MaxBoots, MaxEpisodes

\* What an instance must satisfy; the theorems assume it by name.
BootAssumption == /\ CRITICAL_STREAK_TO_RESTART \in Nat \ {0} /\ MaxBoots \in Nat \ {0}
                  /\ {MaxFailures, MaxEpisodes} \subseteq Nat

-----------------------------------------------------------------------------
(* The routes of the web server (start_rest_server in http_server.c): the  *)
(* handlers in the order of their registration, of which the server keeps  *)
(* the first max_uri_handlers, and the wildcard match that gives a request *)
(* to the first handler whose pattern and method fit.                      *)

max_uri_handlers == 25

Route(method, path) == [method |-> method, path |-> path]

\* register_theme_api_endpoints.
ThemeRoutes == <<Route("GET", "/api/theme"), Route("POST", "/api/theme")>>

ReadRoutes == <<Route("GET", "/api/system/info"), Route("POST", "/api/system/boot"),
  Route("GET", "/api/system/asic"), Route("GET", "/api/system/statistics"),
  Route("GET", "/api/system/scoreboard"), Route("GET", "/api/system/wifi/scan"),
  Route("GET", "/api/system/logs")>>

CommandRoutes == <<Route("POST", "/api/system/identify"), Route("POST", "/api/system/restart"),
  Route("POST", "/api/system/pause"), Route("POST", "/api/system/resume"),
  Route("POST", "/api/system/blockFound/dismiss"), Route("PATCH", "/api/system"),
  Route("PUT", "/api/system/pools/*"), Route("DELETE", "/api/system/pools/*"),
  Route("POST", "/api/system/OTA"), Route("POST", "/api/system/OTAWWW")>>

SocketRoutes == <<Route("GET", "/api/ws"), Route("GET", "/api/ws/live")>>

First == <<Route("OPTIONS", "/api/*"), Route("GET", "/recovery")>> \o ThemeRoutes
CatchAll == <<Route("ANY", "/api/*"), Route("GET", "/*")>>

\* A mutant: the routes for everything else come before the specific ones.
Registered_Early == First \o CatchAll \o ReadRoutes \o CommandRoutes \o SocketRoutes
Registered == First \o ReadRoutes \o CommandRoutes \o SocketRoutes \o CatchAll

\* httpd_register_uri_handler refuses what does not fit; nobody reads its result.
Routes == SubSeq(Registered, 1, max_uri_handlers)

IsApi(path) == path \notin {"/recovery", "/*"}

\* httpd_uri_match_wildcard: "/api/*" fits every path of the interface, "/*" all.
Fits(route, method, path) ==
  /\ route.method \in {method, "ANY"}
  /\ \/ route.path = path
     \/ route.path = "/api/*" /\ IsApi(path)
     \/ route.path = "/*"
HandlerOf(routes, method, path) ==
  SelectInSeq(routes, LAMBDA route : Fits(route, method, path))
-----------------------------------------------------------------------------
VARIABLES
  pc,           \* where app_main is; "returned" and "done" are its ends
  ready, tasks,
  is_active,    \* SELF_TEST_MODULE.is_active
  ret,          \* system_init_ret
  protocol,     \* GLOBAL_STATE.stratum_protocol
  is_connected,
  screen,       \* is_screen_active
  routes,       \* the registered handlers
  failures, boots,
  memory        \* [critical, streak, episodes]: the largest block is too small
start == <<pc, ready, tasks, is_active, ret, protocol, is_connected, screen, routes, failures, boots>>
vars == <<start, memory>>

Stages == <<"reset_pin", "nvs", "device", "i2c", "self_test", "system", "wifi", "isr", "display",
            "input", "screen", "filesystem", "vcore", "voltage", "thermal", "board_tasks", "server",
            "partitions", "bap", "wait", "queue", "chips", "mining_tasks", "coordinator">>
Peripherals == {"isr", "display", "input", "screen", "filesystem", "vcore", "voltage", "thermal"}
After(stage) == Stages[SelectInSeq(Stages, LAMBDA s : s = stage) + 1]

\* What a task takes for granted from its first step on.
Needs == [cpu_monitor |-> {}, memory_guard |-> {},
  event_loop |-> {"nvs", "system"},
  display |-> {"nvs", "system", "display", "screen"},
  power_management |-> {"nvs", "device", "i2c", "system", "vcore", "thermal"},
  fan_controller |-> {"nvs", "device", "i2c", "system", "thermal"},
  httpd |-> {"nvs", "device", "system", "wifi"}, websockets |-> {"system", "routes"},
  dns |-> {"wifi"}, bap_send |-> {"bap_queue"}, bap |-> {"bap_queue", "system", "device"},
  create_jobs |-> {"system", "queue", "chips"}, asic_result |-> {"system", "chips"},
  hashrate_monitor |-> {"nvs", "device", "system", "chips"},
  statistics |-> {"nvs", "system"},
  protocol_coordinator |-> {"nvs", "system", "queue", "event_queue"},
  self_test |-> {"nvs", "device", "system", "queue"}]

TypeOK == /\ pc \in ToSet(Stages) \cup {"returned", "done"}
          /\ ready \subseteq ToSet(Stages) \cup {"routes", "bap_queue", "event_queue"}
          /\ tasks \subseteq DOMAIN Needs /\ is_active \in BOOLEAN /\ ret \in {"ok", "failed"}
          /\ protocol \in {"V1", "V2"} /\ is_connected \in BOOLEAN /\ screen \in BOOLEAN
          /\ Len(routes) <= max_uri_handlers
          /\ failures \in 0 .. MaxFailures /\ boots \in 1 .. MaxBoots
          /\ memory \in [critical : BOOLEAN, streak : 0 .. CRITICAL_STREAK_TO_RESTART,
                          episodes : 0 .. MaxEpisodes]
-----------------------------------------------------------------------------
Works == UNCHANGED failures
Fails == failures < MaxFailures /\ failures' = failures + 1

\* xTaskCreate for each of these; one creation may fail.
Creates(new) == \/ Works /\ tasks' = tasks \cup new
                \/ \E t \in new \ {"httpd"} : Fails /\ tasks' = tasks \cup (new \ {t})

\* Two tasks of the lowest priority are the first, if they could be created.
Init == /\ pc = "reset_pin" /\ ready = {} /\ is_active = FALSE /\ ret = "ok"
        /\ protocol = "V1" /\ is_connected = FALSE /\ screen = FALSE /\ routes = <<>>
        /\ tasks \in SUBSET {"cpu_monitor", "memory_guard"}
        /\ failures = 0 /\ boots = 1
        /\ memory = [critical |-> FALSE, streak |-> 0, episodes |-> 0]

Go(stage) == pc = stage /\ pc' = After(stage)
Ready(part) == ready' = ready \cup {part}
Keeps == <<is_active, ret, is_connected, screen, routes, boots>>

StartsAgain ==
  /\ pc' = "reset_pin" /\ ready' = {} /\ tasks' = {"cpu_monitor", "memory_guard"}
  /\ ret' = "ok" /\ protocol' = "V1" /\ is_connected' = FALSE /\ screen' = FALSE
  /\ routes' = <<>> /\ is_active' = FALSE
  /\ memory' = [memory EXCEPT !.critical = FALSE, !.streak = 0]

\* ESP_ERROR_CHECK and abort() restart the chip.
Abort == /\ pc \in {"reset_pin", "i2c", "system"} /\ Fails
         /\ boots < MaxBoots /\ boots' = boots + 1
         /\ StartsAgain

\* nvs_config_init and device_config_init end the start when they fail, which the
\* latter does for a board without pins.
Returns(stage) == /\ pc = stage /\ Fails /\ pc' = "returned"
                  /\ UNCHANGED <<ready, tasks, protocol, Keeps>>
SetsUp(stage) == /\ Go(stage) /\ Ready(stage) /\ Works /\ UNCHANGED <<tasks, protocol, Keeps>>

\* A mutant: a self-test waits for the network.
ConnectedAtOnce_No == FALSE
ConnectedAtOnce == is_active'

\* A new or a held button decides for a test, which sets is_connected so as not to wait
\* for the network, and fails without its semaphore.
self_test_init ==
  /\ pc = "self_test" /\ is_active' \in BOOLEAN /\ is_connected' = ConnectedAtOnce
  /\ \/ Works /\ Ready("self_test") /\ pc' = After(pc)
     \/ is_active' /\ Fails /\ UNCHANGED ready /\ pc' = "returned"
  /\ UNCHANGED <<tasks, protocol, ret, screen, routes, boots>>

\* The protocol is that of the configured pool.
SYSTEM_init_system == /\ Go("system") /\ Ready("system") /\ Works /\ protocol' \in {"V1", "V2"}
                      /\ UNCHANGED <<tasks, Keeps>>

wifi_init == /\ Go("wifi") /\ Works /\ UNCHANGED <<protocol, Keeps>>
             /\ IF is_active THEN UNCHANGED <<ready, tasks>>
                ELSE Ready("wifi") /\ tasks' = tasks \cup {"event_loop"}

\* SYSTEM_init_peripherals: the first failure leaves out the rest, except that of the
\* file system outside a self-test; only a self-test sets the voltage here.
Peripheral ==
  /\ pc \in Peripherals \ {"display", "screen"} /\ pc' = After(pc) /\ Ready(pc) /\ Works
  /\ UNCHANGED <<tasks, protocol, Keeps>>
\* A board without a display has no screen; nor has one whose panel does not answer, if
\* the panel is on the I2C bus, while one on the 8080 bus fails the start.
display_init ==
  /\ Go("display") /\ Ready("display") /\ Works
  /\ \E display \in {"none", "i2c", "i80"}, answers \in BOOLEAN :
       /\ display = "i80" => answers
       /\ screen' = (display # "none" /\ answers)
  /\ UNCHANGED <<tasks, protocol, is_active, ret, is_connected, routes, boots>>
screen_start == /\ Go("screen") /\ Ready("screen") /\ Works /\ UNCHANGED <<protocol, Keeps>>
                /\ tasks' = IF screen THEN tasks \cup {"display"} ELSE tasks

CanFail(stage) == stage = "voltage" => is_active
SurvivesFailure == pc = "filesystem" /\ ~is_active
PeripheralFails ==
  /\ pc \in Peripherals /\ CanFail(pc) /\ Fails
  /\ IF SurvivesFailure THEN pc' = After(pc) /\ UNCHANGED ret
     ELSE pc' = "board_tasks" /\ ret' = "failed"
  /\ UNCHANGED <<ready, tasks, protocol, is_active, is_connected, screen, routes, boots>>
-----------------------------------------------------------------------------
\* A mutant: the board is watched even when it could not be set up.
BoardTasks_Always == {"power_management"} \cup (IF is_active THEN {} ELSE {"fan_controller"})

\* Degraded mode has neither of them.
BoardTasks == IF ret = "failed" THEN {}
              ELSE {"power_management"} \cup (IF is_active THEN {} ELSE {"fan_controller"})
StartBoardTasks == /\ Go("board_tasks") /\ Creates(BoardTasks)
                   /\ UNCHANGED <<ready, protocol, Keeps>>

\* start_rest_server, whose result is not read; the DNS server only with the access
\* point on.
StartServer ==
  /\ Go("server")
  /\ \/ is_active /\ Works /\ UNCHANGED <<ready, tasks, routes>>
     \/ ~is_active /\ Fails /\ UNCHANGED <<ready, tasks, routes>>
     \/ /\ ~is_active /\ Ready("routes") /\ routes' = Routes
        /\ \E ap \in BOOLEAN :
             Creates({"httpd", "websockets"} \cup (IF ap THEN {"dns"} ELSE {}))
  /\ UNCHANGED <<protocol, is_active, ret, is_connected, screen, boots>>

\* BAP_init: a failure ends it where it is, and the start goes on; a board without
\* the port has none of it.
BAP_init ==
  /\ Go("bap")
  /\ \/ Works /\ UNCHANGED <<ready, tasks>>
     \/ Fails /\ UNCHANGED <<ready, tasks>>
     \/ Fails /\ Ready("bap_queue") /\ UNCHANGED tasks
     \/ Ready("bap_queue") /\ Creates({"bap_send", "bap"})
  /\ UNCHANGED <<protocol, Keeps>>

Wait == /\ Go("wait") /\ is_connected /\ Works
        /\ UNCHANGED <<ready, tasks, protocol, Keeps>>

\* queue_init, and a self-test is a V1 session.
queue_init == /\ Go("queue") /\ Ready("queue") /\ Works
              /\ protocol' = IF is_active THEN "V1" ELSE protocol
              /\ UNCHANGED <<tasks, Keeps>>

\* Without chips the start ends, unless a test has to report it.
asic_initialize ==
  /\ pc = "chips"
  /\ \/ /\ ret = "failed" /\ Works /\ pc' = "coordinator" /\ UNCHANGED <<ready, ret>>
     \/ /\ ret = "ok" /\ Works /\ pc' = "mining_tasks" /\ Ready("chips") /\ UNCHANGED ret
     \/ /\ ret = "ok" /\ Fails /\ UNCHANGED ready
        /\ pc' = IF is_active THEN "coordinator" ELSE "returned"
        /\ ret' = IF is_active THEN "failed" ELSE ret
  /\ UNCHANGED <<tasks, protocol, is_active, is_connected, screen, routes, boots>>

StartMiningTasks ==
  /\ Go("mining_tasks")
  /\ Creates({"create_jobs", "asic_result", "hashrate_monitor", "statistics"})
  /\ UNCHANGED <<ready, protocol, Keeps>>

Finish == /\ pc = "coordinator" /\ pc' = "done"
          /\ IF is_active THEN Creates({"self_test"}) /\ UNCHANGED ready
             ELSE Ready("event_queue") /\ Creates({"protocol_coordinator"})
          /\ UNCHANGED <<protocol, Keeps>>

\* The event loop: the link comes and goes.
Network == /\ "event_loop" \in tasks /\ is_connected' = ~is_connected
           /\ UNCHANGED <<pc, ready, tasks, protocol, is_active, ret, screen, routes, failures, boots>>
-----------------------------------------------------------------------------
\* A mutant: the streak is counted afresh in every round.
Streak_Afresh == IF memory.critical THEN 1 ELSE 0
Streak == IF memory.critical THEN memory.streak + 1 ELSE 0

\* memory_guard_task, a round: a sample, and a restart half a second after the last.
Guarding == "memory_guard" \in tasks
Sample == /\ Guarding /\ memory.streak < CRITICAL_STREAK_TO_RESTART
          /\ memory' = [memory EXCEPT !.streak = Streak] /\ UNCHANGED start
GuardRestarts == /\ Guarding /\ memory.streak = CRITICAL_STREAK_TO_RESTART
                 /\ StartsAgain /\ UNCHANGED <<failures, boots>>

\* The heap: the largest block shrinks, and grows again.
Heap == /\ \/ memory.critical /\ memory' = [memory EXCEPT !.critical = FALSE]
           \/ /\ ~memory.critical /\ memory.episodes < MaxEpisodes
              /\ memory' = [memory EXCEPT !.critical = TRUE, !.episodes = @ + 1]
        /\ UNCHANGED start

Boots == \/ \E stage \in {"reset_pin", "nvs", "device", "i2c", "partitions"} : SetsUp(stage)
         \/ \E stage \in {"nvs", "device"} : Returns(stage)
         \/ self_test_init \/ SYSTEM_init_system \/ wifi_init
         \/ Peripheral \/ display_init \/ screen_start \/ PeripheralFails
         \/ StartBoardTasks \/ StartServer \/ BAP_init \/ Wait \/ queue_init \/ asic_initialize
         \/ StartMiningTasks \/ Finish
Steps == (Boots \/ Network) /\ UNCHANGED memory
Next == Steps \/ Abort \/ Sample \/ GuardRestarts \/ Heap
Fairness == WF_start(Boots /\ UNCHANGED memory) /\ WF_vars(Sample \/ GuardRestarts)
Spec == Init /\ [][Next]_vars /\ Fairness
-----------------------------------------------------------------------------
\* main.c:170: a task never starts before what it uses from its first step, whatever
\* failed on the way there.
TasksHaveWhatTheyUse == \A t \in tasks : Needs[t] \subseteq ready

\* main.c:202, system.c:347: chips run only on a board whose voltage and cooling were
\* set up; a self-test reaches neither the network nor a pool, and its work is V1.
ChipsOnSoundBoard ==
  /\ "chips" \in ready => {"vcore", "thermal"} \subseteq ready /\ ret = "ok"
  /\ is_active => tasks \cap {"event_loop", "httpd", "protocol_coordinator"} = {}
  /\ is_active /\ "create_jobs" \in tasks => protocol = "V1"

\* http_server.c:1955: every handler of the web interface gets the requests it is for.
RoutesReachTheirHandlers ==
  \A i \in 1 .. Len(routes) : HandlerOf(routes, routes[i].method, routes[i].path) = i
AllRegistered == "routes" \in ready => Len(routes) = Len(Registered)

BootHolds == /\ TasksHaveWhatTheyUse /\ ChipsOnSoundBoard
             /\ RoutesReachTheirHandlers /\ AllRegistered

\* main.c:63: the start of a self-test, and of a device that gets connected for good,
\* ends, and with every task of its mode if nothing failed.
Working == IF is_active THEN {"create_jobs", "asic_result", "power_management", "self_test"}
           ELSE {"create_jobs", "asic_result", "power_management", "fan_controller", "httpd",
                 "protocol_coordinator"}
Ended == /\ pc \in {"returned", "done"}
         /\ failures = 0 => Working \subseteq tasks
\* Nothing holds the start up any more.
Free == is_active \/ is_connected
BootEnds == Free ~> (Ended \/ ~Free)

\* memory_guard.c:133: memory that stays short ends in a restart, unless the guard
\* could not be created.
Short == Guarding /\ memory.critical
ShortageEnds == Short ~> ~Short
=============================================================================
