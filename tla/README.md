# TLA+ models of ESP-Miner

ESP-Miner runs on a single ESP32-S3 next to one to six mining chips. It takes jobs from a pool,
turns them into works for the chips, sends back what they find, keeps the board within its thermal
and electrical limits, and serves a web interface, a display and an accessory port, while Wi-Fi,
pools and power come and go. These modules model the part of that which is concurrent or which
reacts over time.

Each definition names in `PROJECT.json` ("map") the lines of the source it stands for. Line numbers
in comments refer to the file named in the header of their module. The state counts below are TLC's.

1. [The system](#1-the-system)
2. [The modules and the code](#2-the-modules-and-the-code)
3. [Properties and runs](#3-properties-and-runs)
4. [Bounds](#4-bounds)
5. [Fairness](#5-fairness)
6. [Proofs](#6-proofs)
7. [Disagreements between the code and what it says](#7-disagreements-between-the-code-and-what-it-says)
8. [What is not modelled](#8-what-is-not-modelled)
9. [Plan](#9-plan)

## 1. The system

### Components, their state and how they interact

A row is one or more FreeRTOS tasks unless it says otherwise; they run on two cores, preemptively,
and share one `GlobalState`.

| component | code | keeps | operations |
|---|---|---|---|
| protocol tasks | `stratum_v1_task.c`, `stratum_v2_task.c`, `stratum_api.c`, `sv2_*.c` | retries, a transport, line buffer or Noise keys, timings of requests, announced or pending jobs | connect, handshake, receive, handle job / settings / extranonce, submit, give up, exit on request |
| protocol coordinator | `protocol_coordinator.c` | `s_state`, failures, heartbeat, two shutdown flags, an event queue of 8 | handle events, fail over, probe, stop a task, pause and resume |
| work queue (library) | `work_queue.c` | a ring of 12 pointers, a mutex, two conditions | enqueue, dequeue, timed dequeue, clear |
| create_jobs_task | `create_jobs_task.c` | current work, its protocol, `extranonce_2` | apply settings, dequeue, generate and send a work |
| ASIC drivers (library) | `bm1366.c` ... `bm1397.c`, `asic_init.c`, `frequency_transition_bmXX.c`, `pll.c` | job id, `active_jobs[]`, `valid_jobs[]`, the rate of the line, `actual_frequency` | bring up, ramp, send_work, process_work |
| ASIC_result_task, hashrate monitor | `asic_result_task.c`, `hashrate_monitor_task.c` | a snapshot of the job; the last counters of the chips | receive a nonce or a counter, submit a share, compute a rate |
| power management | `power_management_task.c` | last voltage and frequency, overheat and pause state | sense, stop, start, derate, overheat, apply, tune, target, re-initialise silent chips |
| thermal policy, V/F tuner, power target (libraries) | `atm_policy.c`, `vf_tuner.c`, `power_target.c` | one struct each | one step per cycle |
| regulator (library) | `vcore.c`, `TPS546.c` | grace time, fault | start, set the voltage, read the status |
| fan controller | `fan_controller_task.c`, `PID.c`, `thermal.c` | filter, integral, duty | regulate, report a fault |
| network | `connect.c`, `net_recovery_policy.c` | bound address, last lease, retry and fallback timers, mesh survey | associate, DHCP, fall back, reassert, scan |
| settings store | `nvs_config.c` | cache, save queue of 50, flash | migrate, load, get, set, save |
| HTTP server | `http_server.c`, `ota_guard.c`, `filesystem.c` | 25 routes, an update in progress | edit settings and pools, update firmware and web interface |
| WebSocket | `websocket.c`, `websocket_api.c`, `websocket_log.c` | a table of descriptors, the last state sent | connect, broadcast, close |
| log | `log_buffer.c` | a ring that survives a restart | write, print, read |
| statistics, scoreboard, counters | `statistics_task.c`, `scoreboard.c`, `system.c` | the history, the best shares, uptime and hashes | sample, thin, insert, store |
| accessory port (BAP) | `main/bap/*` | subscriptions, a send queue, the last commands | set, request, subscribe, update, expire |
| display and button | `screen.c`, `input.c`, `display.c` | the screen shown, timeouts | update, turn the carousel, show what is urgent |
| self-test | `self_test.c` | verdict, nonces counted | run the checks, judge, restart |
| setup over Bluetooth | `setup_ble.c` | a form | start, write, apply, stop |
| start, memory guard | `main.c`, `memory_guard.c` | what is set up; a streak of samples | the stages of `app_main`; sample and restart |

How work flows: a **protocol task** parses a notification into an allocated item and puts it into
the **work queue**; **create_jobs_task** takes it, builds works from it and passes each to the
**driver**, which gives it an id, stores it in the **job table** and transmits it; the chip answers
with the id, **ASIC_result_task** looks the job up and submits a share through the protocol task's
transport. How control flows: protocol tasks report to the **coordinator** through a queue that
drops when full; the coordinator stops them with a flag and by closing their socket; it sets
`stratum_protocol`, `is_using_fallback` and `pools_unavailable`, which create_jobs_task, the result
task and **power management** read without a lock. Settings of the pool flow through globals with a
flag each (`new_set_mining_difficulty_msg` and the like); the user's go through the **settings
store**, whose cache every task reads. `is_connected`, set by the event loop and a timer of the
**network**, is what the start, the setup and the accessory port wait for.

### What is hard, and what makes each component correct

| component | hard behaviour | correct if |
|---|---|---|
| work queue | three kinds of threads free items without reference counts; unlocked reads of `count`; signals to a mix of timed and untimed waiters | one owner per item, no lost wakeup, FIFO, a notification reaches the ring |
| job tables | an id is reused while its answer is on the wire; flags cleared by another task; the lock differs by driver | no use after free, no leak, a nonce credited to its job, clean-jobs reaches all ids |
| coordinator | last events consumed at the wrong place, ten-second stop that gives up, failures that arrive late | one task at a time, shared flags true of it, pauses only for the pool in use, mining resumes |
| protocol switch | an item has no type; its C type is inferred from flags other tasks write | no item is cast or freed as another type, a connection outlives its use |
| sessions | ids, timings and buffers outlive a connection; future jobs and previous hashes in any order | no share counted or timed twice, no job queued twice or on an old block, a dead pool handed over |
| job pipeline | value and flag are separate writes; the chip forgets on a power cycle; the extranonce changes under the builder | no work twice, never back to an old job, settings in step, a new block reaches the chip |
| chips | each end of the line changes its rate on its own; ramps start from a record of the clock | rates agree, the clock moves in steps and is known, the nonce space fits, no false rate |
| power | policies, tuner, target, pauses, edits and the backstop all write the same two numbers | off when stopped, never under the regulator's floor, settings never raised, derates come and go |
| regulator, fan | transfers that fail, results ignored, a status that is late | no false alarm, a fault is reported, a hot chip gets air |
| network | timer, event loop, watchdog, survey and web server act on one interface | connected means an address, and it is always sought |
| settings, scoreboard, counters, log | restarts between two writes, full queues | flash is a prefix of what was accepted, nothing counted twice, the log readable |
| WebSocket, accessory | descriptors reused, times that wrap, dropped messages | a follower that stays has what was sent |
| updates, pools | a request cut short at any place | what boots is whole and fits its interface; a refused request changes nothing |
| display, self-test, setup, start | flags from many tasks, stages that fail | urgent screens show, no verdict unearned, what was written is applied, no task before what it uses |

`PROJECT.json` lists each of these with its line as a hazard, with the property that covers it.

## 2. The modules and the code

```
core      BoundedFifo <=implemented by= WorkQueue                       WorkQueue_proofs
          JobTable                                                      JobTable_proofs
          MCProtocolCoordinator -> ProtocolCoordinator                  ProtocolCoordinator_proofs
          MCJobPipeline -> JobPipeline                                  JobPipeline_proofs
          MCPowerManagement -> PowerManagement -> PowerTarget -> VoltageTuner -> ThermalPolicy
                                                                        PowerManagement_proofs
network   MCNetRecovery -> NetRecovery -> NetPolicy                     NetRecovery_proofs
machine   MCMachine -> Machine: ProtocolSwitch, StratumSession, Sv2Session, ChipLink, Regulator,
                     FanController, Screens, SelfTest, Boot
                                                      Machine_proofs -> Sessions_proofs -> Machine
device    MCDevice:  SettingsStore, LogBuffer, WebSocketClients, FirmwareUpdate, PoolSettings,
                     BapLink, BapCommands, Statistics, Scoreboard, Counters, SetupBle
```

`MCDevice` and `Machine` hold many small components in one state space: the initial state chooses
one, `part` never changes, and every behaviour is one of that component alone. They are bundles, not
compositions: nothing is said of two of their components together. In `Machine` the components share
the variables they name alike (`task`, `queue`, `left`...); one that the chosen component does not have
is 0. `MCMachine` gives `Machine` its constants, and starts it in one component for the two runs
that check what the code says of it: `MixedSpec` is the switch, between a pool with a standard and
one with an extended channel, and `HotSpec` the self-test, with chips that get too hot.

### The mining core

**WorkQueue** (`work_queue.c`, and the callers' code around it). One action is what a function does
between taking and releasing or waiting on the mutex. `notEmpty` and `notFull` are the wait sets of
the two conditions; a signal takes any member out. `ReceiveNotify`, `CheckAny`, `CheckFull`,
`DropOldest` and `Enqueue` are the protocol task's handling of one notification, with its two reads
of `count` outside the lock as steps of their own. `heap` is the allocator's view of each item, so a
leak, a double free and a use after free are states. `BoundedFifo` is the abstract specification: a
FIFO with no ring, lock or condition. `Contents` is the refinement mapping.

**JobTable** (`bm1366.c` to `bm1397.c`, `asic_result_task.c`, `SYSTEM_clean_jobs_queue`). `send_work` is
six steps from choosing the id to transmitting; `process_work` and the result task's snapshot are
six more. A family is a record of the step of its ids, the layout of its answers and whether it
holds `valid_jobs_lock`, all from its driver; `LayoutAssumption` says what the steps and the layouts of
all five have in common. `onChip` and `uart` are the chip and are external.

**ProtocolCoordinator** (`protocol_coordinator.c`, the connection parts of both protocol tasks). The
coordinator's state machine with its event queue, its heartbeat, recovery and stop; the tasks with
their retries, the publication of the transport, the setup answers and the exits. A step is one
blocking call or one handler. The environment turns pools and Wi-Fi on and off and pauses mining.

**ProtocolSwitch** (`create_jobs_task.c`, the allocation and free code of both protocol tasks). What C
type each piece of code takes an item for. `casts` holds the interpretations of the last step.

**JobPipeline** (handlers of both protocol tasks, `create_jobs_task.c`, the power cycle in
`asic_init.c`). Jobs are numbers in the order of their announcement, settings count their changes,
each value and its flag are separate steps. The queue is the atomic FIFO that `WorkQueue` is proved
to implement. `MCJobPipeline` puts a V1 session and an extended channel into one run.

**PowerManagement** with **ThermalPolicy**, **VoltageTuner**, **PowerTarget** (`power_management_task.c`,
`atm_policy.c`, `vf_tuner.c`, `power_target.c`). The policies are operators, one call of `atm_step`,
`vf_step` and `pt_step` each, with the thresholds and steps of the code; the loop is a sequence of
actions `Sense`..., `ThermalStep`, `Overheat`, `Cool`, `Reduce`, `Restart`, `Apply`, `Tune`, `Target`,
`Wake`, between which the environment edits settings, toggles the pause and reports a fan fault. Main's
bring-up goes on beside the loop in three steps (`BootBegins`, `BootProbes`, `BootEnds`): it probes the
chain, which answers only under power, and seconds later sets `ASIC_initalized`, whatever stopped meanwhile. Time stamps are ages in ticks, capped at the window they are compared with.

**StratumSession** (`stratum_v1_task.c`, `stratum_api.c`, the share path of `asic_result_task.c`). The
receive loop with its line buffer, which outlives a connection unless the read failed, the message
ids and the request timings that both the session and the sender of shares use, the list of
announced jobs, and the attempts that answers, pauses and reconnects reset. A notification that does
not parse or validate is dropped whole, a clean one too. The pool answers, closes or refuses; `left`
bounds it.

**Sv2Session** (`stratum_v2_task.c`, `sv2_noise.c`, `sv2_protocol.c`). Connection, handshake, setup
and channel; jobs for now, future jobs in slots, `SetNewPrevHash`; shares with sequence numbers and
stamps, and answers that stand for several shares.

### The board

**ChipLink** (`asic_init.c`, the init functions of the five families, `frequency_transition_bmXX.c`,
`pll.c`, `hashrate_monitor_task.c`, `mining_stop` and `mining_start`). Both ends of the line have a
rate; the clock is counted in half steps of the ramp; a write of a frequency that no divider reaches
is refused. Main and the power task are two processes (`main`, `pm`) with the same code for a bring-up
(`BringsUp`), so a bring-up by main runs into stops, starts, ramps and re-initialisations of the power
task at any step; beside them the accessory's ramp, the result task and the monitor. `met` and `crossed`
remember that main and the power task, or either and the accessory, were at work at the same time; a
later start by the power task alone, which resets chips nobody uses, clears both.

**Regulator** (`vcore.c`, `TPS546.c`). What the chip is programmed with, whether its output has come
up, the grace the driver gives it, and every transfer that may fail with its result ignored.

**FanController** (`fan_controller_task.c`, `PID.c`, `thermal.c`): the modes, the filter, the
controller with its limits, the write and its fault.

**Screens** (`screen.c`, `input.c`, `display.c`): the update's order of conditions, the carousel, the
pointers of screens that LVGL deleted, the panel's timeout, the button.

**SelfTest** (`self_test.c`, and the power monitor beside it): each phase, the measurement in which
nonces count, the verdict, the cut of the power and the restart. The measurement's writes of the fan and
its allocations do not fail (`self_test.c:575,612,624`); a failure there only ends the test earlier.

**Boot** (`main.c`, `system.c`, `asic_init.c`, `memory_guard.c`, `http_server.c`): the stages of `app_main` as a sequence of names, which stage may
fail and what a failure leaves out, the tasks that run, and the routes with the wildcard match that picks a handler.

### Network and services

**NetRecovery** with **NetPolicy** (`connect.c`, `net_recovery_policy.c`): the event loop, the timer
service on the fallback ladder, the watchdog and the survey share the interface. The policy is a set
of operators, one per function of the C file. The radio, esp-netif and the router are external.

**SettingsStore** (`nvs_config.c`): setters hold the mutex over a send that may wait; a restart keeps
the flash; the load migrates first. **LogBuffer** (`log_buffer.c`): positions, cells of lines, a
header whose checksum may not fit after a restart. **WebSocketClients** (`websocket*.c`): the copied
descriptors of a broadcast are steps of it. **FirmwareUpdate** (`http_server.c`, `ota_guard.c`,
`system.c`): an upload in cells with timeouts, errors and restarts, the slots, the interface that a
boot serves. **PoolSettings** (`http_server.c`, `system.c`): the three requests that change pools.
**BapLink**, **BapCommands** (`main/bap`): the subscriptions with unsigned times; the commands with
the credentials that restart the device. **Statistics**, **Scoreboard**, **Counters**
(`statistics_task.c`, `scoreboard.c`, `system.c`). **SetupBle** (`setup_ble.c`, `main.c`): the form,
`APPLY` with its read and write of the pool, and the end of the setup.

### Where the models meet

They meet where the code does: `WorkQueue` guarantees the FIFO that `JobPipeline` and
`ProtocolSwitch` use; `ProtocolCoordinator` guarantees, while tasks stop in time, the one protocol
task that `ProtocolSwitch`, `JobPipeline` and the sessions assume; what the sessions promise
(`HandsOver`) is the event the coordinator waits for; `ProtocolCoordinator` has power management as
the single action `PowerFollows`, `JobPipeline` has it as `PowerOff`, `ChipInit`, `ChipReady`, and
`ChipLink` has its decisions as choices. `SettingsStore` promises that flash is a prefix of the
accepted settings, and `Scoreboard`, `Counters` and `FirmwareUpdate` assume no more than that. No
refinement between these is stated, but for the work queue's.

## 3. Properties and runs

A run marked **V** checks a sentence of a comment or a document and finds it violated (section 7).

| run | states | properties | what it shows |
|---|---|---|---|
| `queue_overlap` | 139 487 | `TypeOK`, `Ownership`, `NoLostWakeup`, `NotAllWaitForRoom`, `FifoSpec`, `QueuedWorkLeaves` | two enqueuers (an old task that outlives its stop and the new one), the job task and a clearing coordinator: every item has one owner, no wakeup is lost, the ring refines the FIFO, every queued item leaves it |
| `queue_strand` **V** | stops at 503 | `NotificationIsPushed` | one enqueuer can strand in its own drop |
| `jobs_locked` | 1 361 856 | `TypeOK`, `SafeDeref`, `TableOwnsJobs`, `ResultsOfTheirJob` | the four drivers that hold the lock, with ids that wrap, late answers and clean-jobs at any moment |
| `coord_live` | 352 764 | `TypeOK`, `SessionInStep`, `PausesOnlyForPoolInUse`, `MiningResumes` | every combination of primary protocol, second pool and user's choice with a V1 fallback, through four changes of the environment |
| `switch_channels` **V** | stops at about 2 000 | `NoWildPointer` | one switch from a standard to an extended channel |
| `pipeline` | 2 176 039 | `TypeOK`, `SettingsInStep`, `JobsNeverGoBack`, `WorkNotRepeated`, `CleanJobReachesChip` | a V1 session and an extended channel with clean and other jobs, a full queue, two changes of each setting, an extranonce change and a power cycle |
| `power` | 982 974 | `TypeOK`, `StoppedIsOff`, `RegulatorFloor`, `SettingsNeverRaised`, `PoliciesCompose`, `ThermalSettles` | a 475 MHz / 1050 mV board through hot spells, an overheat, dead sensors and failed restarts; alone, and with pauses, edits, tuner and power target in turn; main's bring-up at any moment beside them |
| `network` | 1 426 115 | `TypeOK`, `ConnectedIsTrue`, `NeverGivesUp` | two changes of the router or acts of the user at any moment of association, DHCP, fallback, survey and watchdog |
| `device` | 674 813 | `TypeOK`, `StorageKept`, `FollowersServed`, `UpdatesAreSafe`, `ServicesFinish` | the eleven services of `MCDevice`, each with its restarts, failures and interleavings |
| `bap_expiry` **V** | stops early | `ExpiresInTime` | a fresh subscription ended as expired |
| `machine` | 644 294 | `TypeOK`, `ItemsKeepType`, `SessionsHold`, `ChipsAreKnown`, `RampsGently`, `BoardHolds`, `MachineSettles` | the nine components of `Machine`, each with its failures, stops and retries; all five drivers with a re-initialisation or an overlap of main and the power task |
| `self_test_hot` **V** | stops early | `MonitorGoesFirst` | a self-test that ends while the power monitor cools the chips |

Some properties are conjunctions with a name for each part, so that one run asks one question of
one component; the parts and what each says are beside their definitions:

| property | its parts |
|---|---|
| `ResultsOfTheirJob` | `CreditedToItsJob` (unless the ids went all the way round), `AtMostOneStale` (after clean-jobs) |
| `SessionInStep` | `OneProtocolTask`, `TaskMatchesSharedState`, `TransportHasOwner`, `PausedIffUnavailable` |
| `PoliciesCompose` | `OnlyOverheatsCost`, `DerateInForce`, `DerateLowers`, `TunerEndsProven` |
| `ThermalSettles` | `CoolRecovers`, `HotSheds` |
| `ItemsKeepType` | `NoWildPointer`, `FreedAsCreatedIfStandard`, for pools of one kind of V2 channel |
| `SessionsHold` | `CountedOnce`, `QueueIsKnown` (V1); `QueueIsCurrent`, `WorkFollowsPool`, `AnswersTimed` (V2) |
| `ChipsAreKnown`, `RampsGently` | `BaudsAgree`, `ClockIsKnown`, `NonceSpaceFits`, `NoSpike`; `GentleStep` |
| `BoardHolds` | `NoFalseAlarm`, `FanIsKnown`, `LoadedScreensLive`, `PassIsEarned`, `CalmMonitorGoesFirst`, `TasksHaveWhatTheyUse`, `ChipsOnSoundBoard`, `RoutesReachTheirHandlers` |
| `MachineSettles` | `HandsOver` (both sessions), `Ended`, `Shows`, `Ends`, `FanSettles`, `UrgentIsSeen`, `CarouselTurns`, `TestEnds`, `BootEnds`, `ShortageEnds` |
| `StorageKept` | `FlashIsPrefix`, `SavedWhenIdle`, `LegacyFollows`; `StdoutAccounts`, `WholeLines`, `RingHoldsLog`; `MemoryFollows`, `PasswordsStay`, `AllOrNothing`, `SelectedStays`; `RowsInOrder`, `EvenlyThinned`; `BoardInOrder`, `ScoresSurvive`; `CountersHold`; `ApplyIsWhole`, `RadioIsFree`; `SettingsInRange`, `AnswersAreTrue` |
| `FollowersServed` | `TableConsistent`, `ViewsFollow`, `LogsWhole`; `SkippedIsKnown` |
| `UpdatesAreSafe` | `BootsOurFirmware`, `WebMatchesFirmware`, `FlagIsTrue` |
| `ServicesFinish` | `SettingsReachFlash`, `UploadEnds`, `SubscriptionServed`, `SetupEnds`, `WishIsMet` |

Premises inside properties are stated where the code keeps a promise only under them: no slow stop
(`OneProtocolTask` and its companions), settings at or above the floor (`RegulatorFloor`), no edit or
pause (`DerateInForce`, `HotSheds`), not both a pause and the tuner (`DerateLowers`), settings with
more frequency steps than voltage steps (`Roomy`), no ignored disconnect (`NeverGivesUp`), a
descriptor that was not reused under a broadcast (`ViewsFollow`), chips that do not get too hot
(`CalmMonitorGoesFirst`), the ASIC not found by main before the stop (`StoppedIsOff`), no change of a
setting lost between a read and a clear (`SettingsInStep`), nobody else at work on the chips, and no
BM1397 or BM1373 initialised again without a reset (`ChipsAreKnown`, `RampsGently`; each part names which).
What happens without the premise is in section 7. For each property, and for most of the components behind
`StorageKept`, `ServicesFinish`, `BoardHolds` and `MachineSettles`, `PROJECT.json` ("mutants") names a
plausible slip in the code, written beside the definition it would change as "What if", which makes
TLC find the property violated.

## 4. Bounds

Each bound is a constant of its module, and each is as small as lets the interesting case happen.

- **WorkQueue**: `QUEUE_SIZE` 2 wraps the ring and fills it; five items let both enqueuers drop, the
  coordinator clear and a consumer hold one; the firmware has 12 slots. The proofs cover every size.
- **JobTable**: 16 slots with the drivers' own steps 4, 8 and 24: ids wrap within five jobs; two
  answers in the UART let an id go round under one; two clean-jobs notifications make two epochs.
- **ProtocolCoordinator**: two task slots (a third live task would need a second slow stop), two
  attempts per connection instead of three, four changes of the environment, one setup answer, the
  event queue at its real length 8. With one setup answer the event queue cannot fill up; section 7
  says what happens when it does. The proofs cover every bound.
- **ProtocolSwitch**: a queue of 2, one V2 connection per switch and the first session, three
  switches: away, back, and away again. Pools in every pair of V1 and one kind of channel.
- **JobPipeline**: a queue of 2 and three jobs fill and overflow it; two changes of each
  setting in the V1 session (the second may fall anywhere in the handling of the first), one power cycle; `EN2_SPACE` 5 is never exhausted in the V1 session (`Exhausts` FALSE), while the
  extended channel with 2 wraps. 
- **PowerManagement**: real temperatures, thresholds and steps. Hold, window, startup and cooling
  take 1 tick and settling takes 2, where the code has 30 s to 10 minutes. The five
  readings are calm, warm (nothing sheds and nothing climbs), hot, too hot on the second sensor,
  and blind; a 75 MHz / 50 mV range gives three frequency and two voltage steps; one overheat, since
  a second one starts from the same states with lower settings.
  The four policies' environments are separate initial states, not one product.
- **NetRecovery**: two changes (a router that goes and comes back), one scan, an event queue of 3,
  one retry of the configuration access point; the escalation at its real fourth cycle. The lease has
  a gateway and a resolver; with and without a configured static address.
- **StratumSession**: four budgets: a share across a reconnect, a share across a pause, two
  notifications across a reconnect, two shares in one connection; ids modulo 8, two announced jobs, two lines,
  notifications well formed and not.
  **Sv2Session**: three shares with one job, or five jobs and three previous hashes with one share;
  two slots for future jobs fill and overflow.
- **ChipLink**: one plan per family, each with what that family differs in: two edits and a re-initialisation
  (BM1366), an edit, a stop and a re-initialisation (BM1370), a stop and a re-initialisation of a chain
  that breaks and is mended (BM1373, BM1397), a stop and the accessory (BM1368); main's bring-up in
  all. Frequencies 3 (below what the dividers reach, 7) and 11
  with a reset clock of 8 and steps of 2: ramps up and down, an odd remainder, a refusal.
- **Regulator**: a fast, a slow and a failing output (rise 1 or 2 against a grace of 2), up to two
  failed transfers and stops. **FanController**: ten speeds, four degrees, three plans: automatic from
  each least speed, and manual. **Screens**: both display sizes, timeouts never, at once and after
  one update; up to four conditions and two presses. **SelfTest**: a defect, none, and hot chips; up
  to two boots. **Boot**: one failed stage, two boots, one shortage of memory, a streak of 3.
- **SettingsStore**: a queue of 1 and three settings by two setters block on it; one restart, one failed
  write; an array of two strings and a number with a legacy key stand for the table.
  **LogBuffer**: a ring of 4 and lines of 1 and 3 wrap and overrun readers. **WebSocketClients**: two
  descriptors, two connections on each: one is reused once. **FirmwareUpdate**: three cells with a
  header of two, three uploads, two timeouts in a row. **PoolSettings**: three pools, requests with up
  to two; every pool of a request has a password. **BapLink**: times wrap at 3, a queue of 1. **BapCommands**: numbers below, in and above the
  range, and one that wraps at 8. **Statistics**: six places and 24 polls thin the history and pass its
  window. **Scoreboard**: three places, four shares. **Counters**: a word of 3 carries, eight seconds,
  three restarts. **SetupBle**: two writes, one store by the web interface, one failure.

## 5. Fairness

Weak fairness of a task's steps says that FreeRTOS goes on scheduling it: no task here spins, each
blocks in every round, and every timed wait ends. No fairness is given to pools, users, routers that
leave, the chip's answers or sensor readings, unless stated.

- `WorkQueue`: weak fairness of each thread's steps. A signalled waiter that is overtaken by another
  one waits again, and the property must hold all the same.
- `ProtocolCoordinator`: weak fairness of the coordinator, of each task, and of `PowerFollows`.
  `SetupReply`, `OtherMessage` and `PoolDrops` are the pool's and have none.
- `JobPipeline`: of the job loop, of the start of the ASIC once begun, and of the handler's second
  write; used for the extended channel alone.
- `PowerManagement`: of the cycle, of main's bring-up, and *strong* fairness of `Wake(1)`: a sleep may
  fall within one tick but time goes by over many of them.
- `NetRecovery`: of each thread and timer, of the radio and of a scan's end, and of the router's
  answer while it is reachable: `NeverGivesUp` only speaks of a router that stays and serves.
- `MCDevice` and `Machine`: of the tasks of the chosen component. Since the component never
  changes, one condition asks it of one task of each component; together they are the `Fairness`
  that each module defines for itself. In `StratumSession` a pool that does not serve closes its socket
  in the end (a dead one that keeps it open is the silent pool of section 7). In `SelfTest` the
  chips turn warm: the code has no timeout for it, so a chip that stays cold never ends the test.
- The unfair runs: `bap_expiry`, `self_test_hot` and `switch_channels` are violations of safety.

## 6. Proofs

Checked by TLAPS for every value of the constants that satisfies the modules' assumptions.

| module | theorem | argument |
|---|---|---|
| `WorkQueue_proofs` | `TypeCorrect` | inductive by itself |
| | `OwnershipHolds` | `Ownership` needs: tail is head plus count modulo size, and which thread holds an item at which place of its program |
| | `RoomForSome` | while the ring is full some enqueuer is not about to put: whoever filled it has still to test `count` again |
| | `NoWakeupIsLost` | beside a thread that waits for an item, every queued item has an awake taker: each put came with a signal, and a signalled thread has not looked yet (`Enough`; finitely many threads) |
| | `RingIsFifo` | the refinement: with `Contents` the window of the ring in order, a put appends, a take is the tail (`ModShift`: the window moves by one place), a clear flushes, all else stutters |
| `JobTable_proofs` | `TypeCorrect`, `TablesOwnTheJobs` | no two slots share a job and the sender's is in none; needs no lock, since one task sends |
| | `NoUseAfterFree` | for locked drivers: who holds the lock (`LockInv`), and that the pointer is the slot's while it is held (`PtrInv`) |
| | `NoncesReachTheirJobs` | in every driver, locked or not. `CreditInv`: the jobs sent so far are 1 to n, a slot holds a job of its id and never goes back to an earlier one, and an answer, which keeps the id whatever the core, names the slot of its job; so what is found there is that job or one a whole number of rounds later. `StaleInv`: the clearing loop's stride divides the ids, so it clears every flag, and after it only the job that `send_work` had begun can be valid and old |
| `ProtocolCoordinator_proofs` | `TypeCorrect` | inductive by itself |
| | `SessionStaysInStep` | without slow stops: an event that tells of a task's end is the last one in the queue and nobody is alive then, so whoever consumes it, the event loop or a stop, may start the next task; a paused coordinator has an empty queue; a failure in the queue is of the pool in use. With slow stops only: a published transport belongs to a task that has not given it up |
| | `PausesForPoolInUse` | from the same invariant: only a `FAILED` leads to the pause |
| `JobPipeline_proofs` | `TypeCorrect` | with the ranges of sequences after append and tail |
| | `ChipMovesForward` | job numbers in queue, current work and sent works are ordered |
| | `WorkIsUnique` | if the extranonce does not change and `extranonce_2` is not used up, works sent for the current job have smaller `extranonce_2` than the next one; a standard channel generates each job once |
| | `SettingsStayInStep` | for any number of changes. What create_jobs_task has read (`read`) is what the chip has once programmed; a value newer than that was flagged before the clear, and is in `missed` after it, or its handler has yet to flag it. `missed` grows only at the clear of a flag over a newer value and at a power cycle, and shrinks when a value is applied |
| `PowerManagement_proofs` | `TypeCorrect` | from one lemma per policy call |
| | `StoppedMeansOff` | a stop is remembered only in the phases `sense` and `sleep`; main declares the chips running only after it found them, and if a stop cut the power in between that is what `late` says |
| | `FloorHolds` | every place a voltage is kept in (chip, NVS, ceiling, policy, tuner and its proven value) is at or above the floor; each policy's clamp keeps it there |
| | `NeverRaised` | the pair remembered before a cooldown, the ceiling and the tuner's two voltages are at or below the user's; the budget's scaling never exceeds its ceiling |
| | `DerateStaysInForce` | without pauses and edits: what runs is what was programmed last, or the settings that a start or the boot left and the next `Apply` finds; a derated voltage is never the 0 of "not yet programmed" |
| | `DerateOnlyLowers` | without edits and tuner: both the policy's pair and the settings a start returns to are at or below the ceiling, which follows the settings while no derate is outstanding |
| | `EverythingComposes` | all parts of `PoliciesCompose` together. What the settings cost is what the completed overheats took (`CostInv`); with the tuner, without pauses, a derated voltage and the frequency a start returns to are within the ceiling (`CalmInv`); the tuner's search stays at whole steps above the floor, the proven voltage its current one or the one a step below (`TunerInv`) |
| `NetRecovery_proofs` | `TypeCorrect` | the clients of the access point are counted by events, each of which one change caused (`CountInv`); what is bound, now or by the watchdog later, is an address (`BindInv`) |
| | `ConnectedMeansOnline` | `TruthInv`: without an address, and with the timer of a lost address quiet, the news of its loss is in the queue behind every address that arrived; a link lost under an address is in the queue as a disconnect |
| `Sessions_proofs`, V1 | `V1TypeCorrect` | attempts are below their limit while connected; timings and active ids stay in their arrays |
| | `V1StaysSound` | the queue is the end of the list of active ids, which has no id twice, and is empty without a session (`V1QueueInv`): so an id that waits is known to the duplicate check. Shares counted and those still tracked are together no more than those sent (`V1CountInv`) |
| `Sessions_proofs`, V2 | `V2TypeCorrect` | with the ranges of the two slot computations (modulo) |
| | `V2StaysSound` | job ids ascend along the pool's messages and through the slots, so jobs of one window have different slots (`SlotsDiffer`); a job that a previous hash names, or may still name, is in its slot or on the wire before the message, and nothing in between takes or empties the slot (`Kept`); once all messages are handled the session is on the pool's block (`InStep`); the stamp that an answer finds is of its share or a later one (`StampInv`) |
| `Sessions_proofs`, Switch | `SwitchTypeCorrect` | beside the types: there is an item wherever one is about to be used |
| | `ItemsStayTyped` | `FeedInv`: the queue is filled only during a session, with items of its kind, under their `free_fn`, and a switch happens while no protocol task runs. `CreateInv`: what create_jobs_task holds is of the protocol it remembers, unless a switch that it has yet to notice fell in between, and the next switch waits until it has. With channels of one kind an item of the V2 pools has one type |
| `Machine_proofs` | `MachineTypeCorrect` | of all nine components: every index, slot, counter and list stays within its size |
| | `MachineKeepsSessions`, `MachineKeepsItemTypes` | the session and switch theorems, for `Machine` |
| | `MachineKnowsItsChips` | whoever works at the same time: where each task can be (`TaskInv`), of which start the counters are (`SeenInv`), that the history tells the truth (`MeetInv`). While main and the power task do not meet there is one task at work (`Worker`): both ends of the line change their rate in the same step of it, also after a start that failed, but for a BM1397 initialised again (`AloneInv`); what is recorded is what the chips run at, and where its ramp goes on from, unless the accessory ramps too or a BM1373 was initialised again (`ClockInv`); a ramp that ends a start aims at the frequency the nonce space is then sized for (`SpaceInv`). A start alone establishes all of it anew |
| | `MachineRampsGently` | the next clock of a ramp is within one step, whether the start lies on a whole step or not (`NextClockIsNear`, with division and remainder) |
| | `MachineKeepsTheBoard` | regulator: an output that is still rising has at least as much grace left (`SoundInv`). Fan: the speed of the fan is the one of its mode until a failed write is seen (`FanInv`). Display: the loaded screen and every one the carousel may go to are not deleted (`DisplayInv`). Self-test: what is counted was seen in the measurement (`Earned`), and a monitor below its limit is off before the power is cut (`Calm`). Start: what is initialised at each stage (`Behind`), who runs in which mode (`Modes`), so that each task has what it uses (`Equipped`), and the routes are there in order (`RoutesInv`); the stages and routes are a list of names, so these lemmas enumerate it |

The theorems of `Machine` hold because its invariant (`MachineInv`) is the one of the chosen component,
and a step of `Machine` is a step or a stutter of that component (`PartSteps`). With them, and those
above, every invariant of the passing runs is a theorem but the four of `device`, and so is
every action property (`WorkNotRepeated` as `NoRepeatedWork`, the condition it is made of).

The assumptions are the `ASSUME`s of the modules: sizes and windows are positive, threads are finitely
many, the sets of readings, settings and environments are of their types. The components of `Machine`
are used by INSTANCE and define theirs as an operator (`SwitchAssumption`, `SessionAssumption`,
`V2Assumption`, `LinkAssumption`, `RegulatorAssumption`, `FanAssumption`, `ScreensAssumption`, `TestAssumption`,
`BootAssumption`); `Machine` assumes each for its instance, so TLC evaluates them in the run. Some say
something of the code or the board:
- the list of active ids is at least as long as the queue (16 and 12);
- the ids and the responses are laid out as in the drivers (`LayoutAssumption`);
- the clock after a reset is one the dividers reach;
- the output of a sound regulator is up within the grace the driver gives it, and the voltages that
  are set are within the limits it is programmed with.

The pool of `Sv2Session` names only jobs whose slots its later ones have not taken,
a guard of the external part of the model. The bounds (`MaxJobs`, `MaxOverheats`...) and the plans are
constants too, so the theorems hold for every value of them: any number of edits, stops, failures,
presses or boots.

Premises of theorems are those of the properties. `WorkIsUnique` is about `NoRepeatedWork`, which
`WorkNotRepeated` states of the V1 session of the run. `ItemsStayTyped` and `MachineKeepsItemTypes`
have two premises, as the run does: create_jobs_task looks once between two switches (`PromptLoop`), and
no pair of pools mixes the kinds of channels; section 7 has what
happens without either. `DerateStaysInForce` and `DerateOnlyLowers` are about two parts of
`PoliciesCompose` with an invariant of their own; `EverythingComposes` has them all, with the tuner.

An operator cannot be a parameter of a cited theorem, so an induction is done on the least
counterexample (`Least`, from the well-foundedness of the naturals): so for the reductions of any
number of overheats (`ReducedTimes`, a recursive function), and for the last of the slots that
`SetNewPrevHash` hands over.

Only model-checked:
- liveness, which is outside the prover: `QueuedWorkLeaves`, `CleanJobReachesChip`, `MiningResumes`,
  `ThermalSettles`, `NeverGivesUp`, `ServicesFinish`, `MachineSettles`; and the absence of deadlock, which
  is about ENABLED;
- the components of `MCDevice` (`TypeOK`, `StorageKept`, `FollowersServed`, `UpdatesAreSafe`): within reach of
  the prover, and first in the plan.

## 7. Disagreements between the code and what it says

### Kept as runs

1. `queue_strand`: the task reads `queue.count` unlocked, then calls `queue_dequeue`, which has no
   timeout; if create_jobs_task empties the ring in between, the only enqueuer sleeps for ever
   (`stratum_v1_task.c:524`, against `docs/ARCHITECTURE.md:22`).
2. `switch_channels`: between a standard and an extended pool the old item is used as the new type
   (`create_jobs_task.c:248`, against `:154`).
3. `bap_expiry`: the time is read before a wait of up to 100 ms for the mutex; a subscription made
   meanwhile is later, the unsigned difference wraps and it is ended at once
   (`bap_subscription.c:220`, against `bap_readme.md:180`).
4. `self_test_hot`: the test waits 150 ms for the power monitor; one that is in its cooldown does not
   look for half a minute, has the power cut under it and switches it on again after the end
   (`self_test.c:780`, against `:777`).

### Stated in the modules, reproducible, not kept as runs

These are definitions of their modules; put into a configuration with the constants given here (or
those of the module's run where none are given), TLC finds them violated.

| statement | module, constants | code |
|---|---|---|
| `SafeDeref`: `BM1373_send_work` frees and replaces the slot outside the lock | JobTable, Chips with BM1373 | `bm1373.c:473`, against `asic_result_task.c:97` |
| `StopIsHonoured`: a V2 task told to stop before it published its transport goes on | ProtocolCoordinator, V2Fallback, SETUP_REPLIES 2 | `stratum_v2_task.c:993`, against `protocol_coordinator.c:194` |
| `PausesOnlyWhenAllFailed`: the failure count survives the switch back to the primary | ProtocolCoordinator; V1/V1 with fallback, MAX_RETRY_ATTEMPTS 3, SETUP_REPLIES 2, MaxChanges 6 | `protocol_coordinator.c:310`, against `:352` |
| `OneProtocolTask`, `PausedIffUnavailable` without their premise: a stop gives up after ten seconds and a late SUCCESS clears the wrong pause | ProtocolCoordinator, slowStops TRUE | `protocol_coordinator.c:191`, against `docs/PHASE1_SIMULATION_REPORT.md:130` |
| `MiningResumes` when the event queue fills up and a FAILED is dropped | ProtocolCoordinator, SETUP_REPLIES 4 | `protocol_coordinator.c:85` |
| `NoRepeatedWork`: the new extranonce of `mining.set_extranonce` is used before `extranonce_2` restarts | JobPipeline, V1, MaxExtranonces 1 | `create_jobs_task.c:63`, against `:222` |
| `NoRepeatedWork` when a job outlasts its `extranonce_2` | JobPipeline, Exhausts TRUE, EN2_SPACE 2 | `create_jobs_task.c:265` |
| `OldWorkIsRetired`: a clean job that finds the queue empty leaves the slots valid | JobPipeline, V1, MaxJobs 2 | `stratum_v1_task.c:520`, against `docs/PHASE1_SIMULATION_REPORT.md:116` |
| `SettingsInStep` without its exception (`s \in missed`): the second of two changes falls between the read and the clear of the flag, and waits for a third | JobPipeline, V1, MaxSettings 2, MaxCycles 0 | `create_jobs_task.c:110`, against `:106` |
| `NewBlockReachesChip`: a standard channel stays idle after a power cycle until the next job | JobPipeline, STD, MaxCycles 1 | `create_jobs_task.c:227` |
| `FreedAsCreated` between V1 and extended | ProtocolSwitch, V1 and EXT | `create_jobs_task.c:34`, against `:29` |
| `ConnOutlivesUse` between V1 and extended; a sender of shares is exposed to it as well | ProtocolSwitch, V1 and EXT, Conns {c1}, MaxSwitches 1 | `stratum_v2_task.c:667`, against `:626` |
| `ItemsKeepType` when create_jobs_task does not look between two switches (V1, V2, V1): the change is not seen | ProtocolSwitch, PromptLoop FALSE | `create_jobs_task.c:135` |
| `NeverOverclocks`: below 400 MHz a step down raises the frequency to 400 (BM1373's default is 327) | PowerManagement, Settings {[freq 327, volt 1000]} | `atm_policy.c:130`, `device_config.h:124`, against `power_management_task.c:226` |
| `DerateEnds`: if the frequency reaches its ceiling first, the derate stays outstanding (BM1370 XP, 400 MHz / 1150 mV) | PowerManagement, Settings {[freq 400, volt 1150]} | `atm_policy.c:244`, against `power_management_task.c:534` |
| `ReductionHolds`: four steps of a derate end at the frequency an overheat reduces to (425 of 525 MHz); no move is seen, the tuner keeps its search, and a step it then rejects takes the voltage back to the one from before the overheat | PowerManagement, Configs {Tuned}, Stock [freq 500, volt 1100], SETTLE 6 | `power_management_task.c:550`, against `:561` |
| `NeverOverclocks`: the tuner raises the voltage of the settings during a derate, and a pause then restarts the chip at it unnoticed | PowerManagement, Configs {Env(0, 2, TRUE, FALSE)} | `power_management_task.c:543`, against `:226` |
| `InForce`: after a pause during a derate the chip restarts at the user's pair, which `last_*` does not notice | PowerManagement with pauses | `power_management_task.c:543` |
| `RegulatorFloor` without its premise: BAP accepts 700 mV, AxeOS anything, and no start or Apply clamps it | PowerManagement, a setting below 1000 mV | `bap_handlers.c:335` |
| `CoolRecovers` with two edits: one away and one back during the start after an overheat leaves `last_*` equal to the user's pair and the chip at the reduced one | PowerManagement, edits 2 | `power_management_task.c:543` |
| `EndlessByDesign`: a disconnect that a user's scan swallows is repeated by nobody | NetRecovery | `connect.c:1503`, against `:506` |
| `OnlyLeasesRemembered`: the event of an address the unit configured is handled after the flag that tells of it has changed, and is remembered as a lease | NetRecovery | `connect.c:1700`, against `:1025` |
| `LeaseComesBack`: a unit on a fallback address may stop asking | NetRecovery | `connect.c:1244` |
| `MigrationIsWhole`: a restart after `pool_1` and before the fallback pool drops the fallback of an older firmware | SettingsStore | `nvs_config.c:234` |
| `RestartKeepsSettings`: an empty string is read back as the default | SettingsStore | `nvs_config.c:479` |
| `RestartKeepsLog`: a restart between counter and checksum invalidates the whole log | LogBuffer | `log_buffer.c:64`, against `:197` |
| `NothingTorn`: after a restart the oldest line may be the end of one that was overwritten | LogBuffer | `log_buffer.c:197` |
| `NotMisdelivered`: a frame reaches the connection that reused the descriptor, or closes it | WebSocketClients | `websocket.c:146` |
| `EveryViewFollows`: a client that connects while the task re-reads its baseline misses the change between | WebSocketClients | `websocket_api.c:112`, against `:29` |
| `FailedUploadServesEmbedded`: the handler was chosen at boot, so until the next one a half-written file system is served | FirmwareUpdate | `http_server.c:1699`, against `:2143` |
| `UsedPoolStays`: the pool in use may be deleted once another one is selected | PoolSettings | `http_server.c:1308` |
| `SelectedIsConfigured`: a selected pool need not be configured | PoolSettings | `http_server.c:1308` |
| `SettingsInStep` without the same exception, after a power cycle: the default version mask comes back and nothing asks for the pool's | JobPipeline, V1, MaxSettings 1, MaxCycles 1 | `asic_init.c:98` |
| `StoppedIsOff` with `~chip.init` in place of `chip.init => chip.late`: a pause or a fault stops the ASIC after main found its chips; main then declares it initialised, without power | PowerManagement | `asic_init.c:98`, against `power_management_task.c:145` |
| `BaudsAgree` without `~Deaf`: `BM1397_init` tells the chips the rate of a reset while the UART keeps the fast one, when it runs without a reset | ChipLink | `bm1397.c:235,243`, `power_management_task.c:714` |
| `ClockIsKnown` and `GentleStep` without `~Misled`: `BM1373_init` ramps from the clock of a reset, at which the chips are not when it runs without one | ChipLink; `GentleStep` with Settings {3, 13} | `bm1373.c:429`, `power_management_task.c:714` |
| `BaudsAgree` and `NoSpike` without `~met`, `ClockIsKnown`, `NonceSpaceFits` and `GentleStep` without `~crossed`: main brings the chips up while the power task stops, starts or ramps them | ChipLink | `main.c:228`, `asic_init.c:98`, `power_management_task.c:142` |
| `Ended` without its exception: main declares the chips ready during a stop, the result task waits for frames again, and the flush waits for the result task | ChipLink | `serial.c:77`, `asic_init.c:98` |

### Found while reading, outside the properties

Protocols:
- `notify_received` and `notify_dropped` are both counted for a coinbase that cannot be decoded, so
  their sum is not the number of notifications (`stratum_v1_task.c:485,514`, against `:511`).
- V1: an answer is matched by id alone, so timings of an old connection count answers of a new one;
  an answer that comes before its request is stamped is taken for a setup answer; lines left in the
  buffer are handled on the next connection; even a refused setup answer resets the attempts; the
  receive loop does not see a shutdown while a pool is silent; the restart at `:334` is unreachable,
  since its counter was cleared at `:326`; an id the pool repeats is dropped as known.
- V1: the old extranonce string is freed while the job task may build from it (`:569`). The models
  abstract strings to versions.
- V2: every job is a clean one, so the check for duplicates never refuses. The first
  `SetNewPrevHash` enqueues the job it names and then every other pending one as clean, so the named
  one is dropped by the next. Pending extended jobs are not freed with their connection. A share
  may be sent before the channel is open, with channel 0 (`stratum_v2_task.c:162`); `send_nonce` of the
  Noise state is used without a lock during the setup; closing frees transport and Noise state while
  a sender may use them (`:687`, `:115`); a share numbered for the old connection may leave on the new.
- The creation of a protocol task may fail (`protocol_coordinator.c:146`); the coordinator then waits
  for ever.
- Coinbase: `nSequence` starts at 0xffffffff and is only or-ed, so BIP-54 is never signalled
  (`coinbase_decoder.c:334`); the scriptsig is taken as padded to 100 bytes (`:274`).

Chips and power:
- The re-initialisation of silent chips resets the chips but on BM1397 not the rate of the line as
  the others do (`power_management_task.c:714`, `bm1397.c:235`, `bm1366.c:348`), so it does not come back;
  on BM1373 it clears the address interval that the result task divides by; `actual_frequency` starts
  again at 50 although nobody ramps. The time of a pause counts towards its timeout
  (`power_management_task.c:708`).
- A frequency below what the dividers reach leaves `actual_frequency` 0 and sets the nonce space
  from the request, though `bm1366.c:318` asks for the applied clock.
- BAP sets the clock beside the power task (`bap_handlers.c:316`); during a derate the next Apply does
  not undo it. The start of the ASIC at boot (`main.c:228`) runs beside the power task; a frequency
  changed before it leaves `actual_frequency` stale over its reset (`asic_init.c:30`). A failed
  `mining_start` is not repeated, since the pause is over for the loop.
- `ChipInit` takes the ticket mask from the pool's difficulty, as BM1366 and BM1370 do; the other
  families start from a constant. The start also bypasses the cap that `asic.c:92-97` puts on a change.
- The shutdown latch is set at exactly 75.0 C or 105 C of the regulator (`>=`), which the backstop
  (`>`) does not answer; nothing releases it (only the restart after an overheat does, 515-521) and
  the policy stays disabled. `Calm` and `HotSheds` except it.
- The stability window survives a step down (`atm_policy.c:149`); the startup derate never sets
  `ever_downscaled` and is therefore never applied (`atm_policy.c:106`).
- A voltage that is not whole steps above the floor ends the search at an unproven 1000 mV
  (`vf_tuner.c:76`; BM1368's 1166 mV); `WholeSteps` is the premise of `TunerEndsProven`. The tuner's
  thermal abort applies only when nothing is pending, and its voltage overrides a derate's.
- The power target's reclaim branch is unreachable once it has shed, so a shed ratchets the NVS
  frequency down; after an overheat it scales the frequency from before the reduction.
- An edit during the cooldown of an overheat is overwritten with the reduced old pair (446, 501). The
  cooldown's test of the chip sensor (477) never sees a temperature: an uninitialised chip
  reads -1. `hottest` is t1 and ignores t2 (396). The fan stays manual at 100 %.
- Regulator: the result of the read of `VOUT_MODE` is not looked at (`TPS546.c:425`); a failed voltage
  write is not repeated (`power_management_task.c:546`), a failed OFF leaves the output on.
- Fan: the speed is written on a change only and a failed write is not repeated; a tachometer reading
  of 0 is divided by; one failed sensor means the speed for the start; `FanIsKnown`
  excepts a fan that stands still; the filter is stale after
  a pause.

Services:
- Display: after an urgent screen the display goes through ASIC status, welcome, firmware and
  connection before the carousel; a press before the first update shows the self-test's screen; the
  ASIC status is never cleared (`screen.c:735`); with a timeout of 0 identification does not light.
- Self-test: a long press during the test is remembered and cancels a failed one at once; there is no
  end to a warm-up of chips that stay cold.
- Pools: one sent without `stratumPassword` gets the password `x`, also when another one was stored for it
  (`http_server.c:803`).
- Updates: a restart before the cleared flag of an interface is stored brings the flag back, so that the
  interface of one build may be served by another (`overtaken`, the exception of `WebMatchesFirmware`).
- Log: a reader that fell behind looks for the next line within 4096 bytes only; in a longer line it goes
  on in the middle (`log_buffer.c:282`). `WholeLines` is about lines shorter than that.
- Scoreboard: an entry of a standard channel has an empty extranonce2 (`create_jobs_task.c:372`), which
  `sscanf` cannot read (`scoreboard.c:25`): it is lost at boot, and index and slot differ from then on.
  A restart within an insertion leaves an entry twice.
- Counters: soft restarts more often than once an hour put off the store, so that the next power cycle
  loses everything since; a call less than a second after the last loses its hashes (`system.c:594`).
- Statistics: a poll a millisecond early skips a sample.
- Bluetooth setup: fields a client left behind are applied by the next one's `APPLY`; its read and
  write of the pool may undo a request of the web interface; advertising that failed is not repeated; a
  phone that joins the access point counts as connected and ends the setup.
- Start: the power task may write to the chips before `SERIAL_init` (`main.c:228`), which `TasksHaveWhatTheyUse`
  does not list among what that task needs; the 25 handler slots are used up exactly; requests come between the server's start and its
  routes; a failed `asic_initialize` ends the start without the coordinator; `BAP_init` deletes mutexes
  without clearing their pointers. DNS: the socket is closed twice after a failed receive.
- BAP: `\r\n` ends a sentence twice (`bap_readme.md:14`); a SET of the fan is never acknowledged; numbers
  wrap, so 66336 is taken as 800; the name restarts the device at once when a password is stored, so the
  dialogue of `bap_readme.md:147-151` loses the password's sentence; the name of an open network is
  acknowledged and not applied; a command repeated within a second is dropped without an answer; a
  value is remembered as sent although its message was dropped.

## 8. What is not modelled

- **Stratum parsing, hashing, coinbase, addresses, Noise cryptography, framing**: byte-level functions
  with test vectors in the repository's host tests; no reachable-state question.
- **Register values, sensors, INA260, DS4432U, tachometer**: hardware access; the modules take a reading
  as an input and a write as done or failed.
- **IPv6, mDNS, the BSSID pin and signal strength; `is_network_allowed`; handlers that only read and
  static files**: keep no state that another part reads.
- **Captive DNS, task monitor, web interface (AxeOS), labels, fonts and images**: no state between two
  requests, or another program.
- **`device_config_init`, versions and partitions** read at boot: constants of every model.
- **The flatline watchdog's timing and the self-test's own operating point** of the power task.
- **Failed creation of tasks** apart from the start, **low memory** apart from its guard.
- **Memory ordering** between the two cores: every step here is atomic and seen by all at once.

## 9. Plan

Done: the mining core, the network, the sessions and the board with their proofs; the services, checked.
What would add most next:

1. Proofs: `FlashIsPrefix` of the settings store, `BoardInOrder` of the scoreboard, `BootsOurFirmware` of
   the updates and the other components of `MCDevice`, along the lines of `Machine_proofs`.
2. Compositions instead of bundles: `SettingsStore` under `Scoreboard` and `Counters` as a stated
   refinement; `Sv2Session` with `ProtocolSwitch` (the connection while a share is sent);
   `PowerManagement` with `ChipLink` (the clock after an accessory's write).
3. Larger instances: two clients and two readers of the log, two accessories' parameters, both
   addresses' failures in one network run.
