------------------------------ MODULE MCDevice ------------------------------
(***************************************************************************)
(* The services around the mining core, in one run: the initial state      *)
(* chooses a component, and every behaviour is one of that component.  The *)
(* variables v1 .. v15 are the chosen component's, by the substitutions    *)
(* below.                                                                  *)
(***************************************************************************)
EXTENDS Integers, Sequences

VARIABLES part, v1, v2, v3, v4, v5, v6, v7, v8, v9, v10, v11, v12, v13, v14, v15
rest == <<v12, v13, v14, v15>>
v == <<v1, v2, v3, v4, v5, v6, v7, v8, v9, v10, v11, rest>>

Settings == INSTANCE SettingsStore WITH
  Setters <- {"s1", "s2"}, Values <- {"empty", "a"}, QUEUE_SIZE <- 1,
  MaxSets <- 3, MaxRestarts <- 1, MaxFailures <- 1,
  flash <- v1, cache <- v2, isSet <- v3, queue <- v4, setter <- v5, writer <- v6,
  boot <- v7, loaded <- v8, accepted <- v9, lost <- v10, restarts <- v11

Log == INSTANCE LogBuffer WITH
  LOG_BUFFER_SIZE <- 4, CHUNK <- 2, MAX_LEN <- 2, SCAN <- 3, LineLengths <- {1, 3},
  MaxLines <- 4, MaxRestarts <- 1,
  ring <- v1, total <- v2, valid <- v3, writing <- v4, stdout <- v5, reader <- v6,
  booted <- v7, lines <- v8, restarts <- v9, text <- v10, torn <- v11

WebSockets == INSTANCE WebSocketClients WITH
  FDs <- {"f1", "f2"}, MAX_WEBSOCKET_CLIENTS <- 2, MaxConns <- 2, MaxState <- 1, MaxLines <- 1,
  conn <- v1, table <- v2, counts <- v3, httpd <- v4, api <- v5, logs <- v6,
  state <- v7, lines <- v8, opened <- v9

Firmware == INSTANCE FirmwareUpdate WITH
  OTA_GUARD_HEADER_LEN <- 2, OTA_GUARD_MAX_CONSECUTIVE_TIMEOUTS <- 2, Size <- 3,
  MaxUploads <- 3, MaxRestarts <- 1, MaxWishes <- 1,
  slot <- v1, boot <- v2, running <- v3, www <- v4, flag <- v5, print <- v6, pending <- v7,
  stored <- v8, serving <- v9, httpd <- v10, is_firmware_update <- v11, uploads <- v12,
  restarts <- v13, wishes <- v14, overtaken <- v15

Pools == INSTANCE PoolSettings WITH
  MAX_POOLS <- 3, Urls <- {"u"}, Passwords <- {"p"},
  Sent <- {[primary |-> 2, secondary |-> 1]}, MaxItems <- 2, MaxRequests <- 2,
  pools <- v1, selected <- v2, memory <- v3, inUse <- v4, httpd <- v5, before <- v6,
  outcome <- v7, requests <- v8

Accessory == INSTANCE BapLink WITH
  PARAMS <- 1, QUEUE_SIZE <- 1, WIDTH <- 3, SUBSCRIPTION_TIMEOUT <- 1, Intervals <- {1},
  MaxCommands <- 2, MaxChanges <- 1, MaxDrops <- 1, MaxLag <- 1,
  clock <- v1, subs <- v2, last <- v3, mutex <- v4, rx <- v5, up <- v6, queue <- v7,
  sender <- v8, value <- v9, view <- v10, lostFor <- v11, connected <- v12,
  commands <- v13, changes <- v14, drops <- v15

History == INSTANCE Statistics WITH
  MAX_STATISTICS_COUNT <- 6, Frequencies <- {0, 1, 4}, MaxTime <- 24, MaxChanges <- 1,
  buffer <- v1, frequency <- v2, now <- v3, last <- v4, httpd <- v5, changes <- v6

Scores == INSTANCE Scoreboard WITH
  MAX_SCOREBOARD <- 3, Difficulties <- {1, 2}, MaxFinds <- 4, MaxRestarts <- 1,
  entries <- v1, best_nonce_diff <- v2, flash <- v3, queue <- v4, kept <- v5,
  unreadable <- v6, finds <- v7, restarts <- v8

Totals == INSTANCE Counters WITH
  WORD <- 3, NVS_COUNTER_UPDATE_INTERVAL <- 2, MaxTicks <- 8, MaxRestarts <- 3,
  noinit <- v1, uptime <- v2, atStart <- v3, sinceWrite <- v4, flash <- v5, queue <- v6,
  age <- v7, loss <- v8, torn <- v9, restarts <- v10

Ble == INSTANCE SetupBle WITH
  MaxWrites <- 2, MaxStores <- 1, MaxFailures <- 1,
  main <- v1, is_connected <- v2, ap_enabled <- v3, ble <- v4, form <- v5, written <- v6,
  status <- v7, apply <- v8, ssid <- v9, pool <- v10, was <- v11, counts <- v12

Commands == INSTANCE BapCommands WITH
  WIDTH <- 8, FAN_MAX <- 3, VOLTAGE_MIN <- 2, VOLTAGE_MAX <- 5, Numbers <- {1, 4, 9},
  MaxOthers <- 2, MaxMisses <- 1, MaxCycles <- 1,
  stored <- v1, running <- v2, is_connected <- v3, line <- v4, recent <- v5,
  restarting <- v6, heard <- v7, answer <- v8, handled <- v9, was <- v10, counts <- v11
-----------------------------------------------------------------------------
Init == \/ part = "settings" /\ Settings!Init /\ v12 = 0 /\ v13 = 0 /\ v14 = 0 /\ v15 = 0
        \/ part = "log" /\ Log!Init /\ v12 = 0 /\ v13 = 0 /\ v14 = 0 /\ v15 = 0
        \/ /\ part = "websockets" /\ WebSockets!Init
           /\ v10 = 0 /\ v11 = 0 /\ v12 = 0 /\ v13 = 0 /\ v14 = 0 /\ v15 = 0
        \/ part = "firmware" /\ Firmware!Init
        \/ /\ part = "pools" /\ Pools!Init
           /\ v9 = 0 /\ v10 = 0 /\ v11 = 0 /\ v12 = 0 /\ v13 = 0 /\ v14 = 0 /\ v15 = 0
        \/ part = "accessory" /\ Accessory!Init
        \/ /\ \/ part = "history" /\ History!Init /\ v7 = 0 /\ v8 = 0 /\ v9 = 0 /\ v10 = 0
              \/ part = "scores" /\ Scores!Init /\ v9 = 0 /\ v10 = 0
              \/ part = "totals" /\ Totals!Init
           /\ v11 = 0 /\ v12 = 0 /\ v13 = 0 /\ v14 = 0 /\ v15 = 0
        \/ part = "ble" /\ Ble!Init /\ v13 = 0 /\ v14 = 0 /\ v15 = 0
        \/ part = "commands" /\ Commands!Init /\ v12 = 0 /\ v13 = 0 /\ v14 = 0 /\ v15 = 0

Next == /\ UNCHANGED part
        /\ \/ part = "settings" /\ Settings!Next /\ UNCHANGED <<v12, v13, v14, v15>>
           \/ part = "log" /\ Log!Next /\ UNCHANGED <<v12, v13, v14, v15>>
           \/ /\ part = "websockets" /\ WebSockets!Next
              /\ UNCHANGED <<v10, v11, v12, v13, v14, v15>>
           \/ part = "firmware" /\ Firmware!Next
           \/ part = "pools" /\ Pools!Next /\ UNCHANGED <<v9, v10, v11, v12, v13, v14, v15>>
           \/ part = "accessory" /\ Accessory!Next
           \/ /\ part = "history" /\ History!Next
              /\ UNCHANGED <<v7, v8, v9, v10, v11, v12, v13, v14, v15>>
           \/ /\ part = "scores" /\ Scores!Next
              /\ UNCHANGED <<v9, v10, v11, v12, v13, v14, v15>>
           \/ part = "totals" /\ Totals!Next /\ UNCHANGED <<v11, v12, v13, v14, v15>>
           \/ part = "ble" /\ Ble!Next /\ UNCHANGED <<v13, v14, v15>>
           \/ part = "commands" /\ Commands!Next /\ UNCHANGED <<v12, v13, v14, v15>>

\* The fairness of each component (its own Fairness). The component never changes, so
\* one condition asks it of a task of each.
Fairness ==
  /\ WF_v(\/ part = "settings" /\ Settings!Boot /\ UNCHANGED rest
          \/ part = "firmware" /\ Firmware!Upload
          \/ part = "accessory" /\ Accessory!Rx
          \/ part = "ble" /\ Ble!Main /\ UNCHANGED <<v13, v14, v15>>
          \/ part = "commands" /\ Commands!Receive /\ UNCHANGED rest)
  /\ WF_v(\/ part = "settings" /\ Settings!NvsTask /\ UNCHANGED rest
          \/ part = "firmware" /\ Firmware!EspRestart
          \/ part = "accessory" /\ Accessory!Updates
          \/ part = "ble" /\ Ble!ApplyPool /\ UNCHANGED <<v13, v14, v15>>
          \/ part = "commands" /\ Commands!Second /\ UNCHANGED rest)
  /\ WF_v(\/ /\ part = "settings" /\ (Settings!StoreString("s1") \/ Settings!Send("s1"))
             /\ UNCHANGED rest
          \/ part = "firmware" /\ Firmware!Start
          \/ part = "accessory" /\ Accessory!Sender
          \/ part = "commands" /\ Commands!Restart /\ UNCHANGED rest)
  /\ WF_v(\/ /\ part = "settings" /\ (Settings!StoreString("s2") \/ Settings!Send("s2"))
             /\ UNCHANGED rest
          \/ part = "accessory" /\ Accessory!Tick
          \/ part = "commands" /\ Commands!SendWish /\ UNCHANGED rest)
Spec == Init /\ [][Next]_<<part, v>> /\ Fairness

\* Every variable of the component has its type.
TypeOK == CASE part = "settings" -> Settings!TypeOK
            [] part = "log" -> Log!TypeOK
            [] part = "websockets" -> WebSockets!TypeOK
            [] part = "firmware" -> Firmware!TypeOK
            [] part = "pools" -> Pools!TypeOK
            [] part = "accessory" -> Accessory!TypeOK
            [] part = "history" -> History!TypeOK
            [] part = "scores" -> Scores!TypeOK
            [] part = "totals" -> Totals!TypeOK
            [] part = "ble" -> Ble!TypeOK
            [] part = "commands" -> Commands!TypeOK

\* nvs_config.c:664, log_buffer.c:64, http_server.c:1083, statistics_task.c:57,
\* scoreboard.c:80, system.c:220, setup_ble.c:256, bap_handlers.c:332: flash holds a prefix of the accepted
\* settings, readers of the log and of the history get all of it in order, a refused
\* request changes no pool, scores and counters survive restarts, setup stores what was
\* written, and an accessory only what it may (SettingsDurable, LogKept, PoolsHold,
\* StatisticsHold, ScoresHold, CountersHold, SetupHolds, CommandsHold of the components).
StorageKept == /\ part = "settings" => Settings!SettingsDurable
               /\ part = "log" => Log!LogKept
               /\ part = "pools" => Pools!PoolsHold
               /\ part = "history" => History!StatisticsHold
               /\ part = "scores" => Scores!ScoresHold
               /\ part = "totals" => Totals!CountersHold
               /\ part = "ble" => Ble!SetupHolds
               /\ part = "commands" => Commands!CommandsHold

\* websocket.c:146, bap_subscription.c:70: the client table agrees with the
\* connections, each client that stays follows what is sent, and an accessory's value
\* is skipped only if it has it or will get it (WebSocketClients!ClientsServed,
\* BapLink!SkippedIsKnown).
FollowersServed == /\ part = "websockets" => WebSockets!ClientsServed
                   /\ part = "accessory" => Accessory!SkippedIsKnown

\* http_server.c:1820: through uploads, failures and restarts the device boots
\* its own firmware with the web interface that belongs to it
\* (FirmwareUpdate!UpdatesAreSafe).
UpdatesAreSafe == part = "firmware" => Firmware!UpdatesAreSafe

\* What was begun is finished: accepted settings reach flash, an upload gives the
\* device back, a subscriber learns the value, a connected device leaves the setup, and
\* an accessory's credentials come into use (SettingsStore!SettingsReachFlash,
\* FirmwareUpdate!UploadEnds, BapLink!SubscriptionServed, SetupBle!SetupEnds,
\* BapCommands!WishIsMet).
ServicesFinish ==
  /\ <>[](part = "settings" => Settings!AllWritten)
  /\ (\/ part = "firmware" /\ Firmware!Updating
      \/ part = "ble" /\ Ble!Online)
     ~> (\/ part = "firmware" /\ ~Firmware!Updating
         \/ part = "ble" /\ Ble!Left)
  /\ (\/ part = "accessory" /\ Accessory!Waits(1)
      \/ part = "commands")
     ~> (\/ part = "accessory" /\ Accessory!Served(1)
         \/ part = "commands" /\ Commands!Met)
=============================================================================
