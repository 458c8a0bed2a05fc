---------------------------- MODULE SettingsStore ----------------------------
(***************************************************************************)
(* The settings (main/nvs_config.c): a cache every getter reads, a queue   *)
(* of updates, and nvs_task, which writes them to flash some time later.   *)
(*                                                                         *)
(* A setter holds nvs_update_mutex from its comparison with the cache to   *)
(* the end of its send, which waits while the queue is full.  A restart    *)
(* comes at any moment and leaves only the flash; the load that follows    *)
(* first migrates the keys of older firmware, one flash write at a time.   *)
(* Values: EMPTY is the empty string, DEFAULT a key's compiled default,    *)
(* the others are told apart and no more.                                  *)
(***************************************************************************)
EXTENDS Integers, Sequences, FiniteSetsExt

CONSTANTS Setters,     \* tasks that call a setter: HTTP, BAP, power management, Wi-Fi
          Values,      \* values that are set
          QUEUE_SIZE,  \* length of nvs_save_queue
          MaxSets, MaxRestarts, MaxFailures \* bounds

ABSENT == "absent"
EMPTY == "empty"
DEFAULT == "default"

\* An array of two strings, and a number that has a legacy key.
Keys == {"pool_1", "pool_2", "frequency"}
SettingOf(k) == IF k = "frequency" THEN k ELSE "pool"
IsString(k) == k # "frequency"

VARIABLES flash,   \* NVS: the keys, and "legacy frequency" and "legacy pools"
          cache,   \* settings[key].value
          isSet,   \* the settings whose is_set flag is up
          queue,   \* nvs_save_queue
          setter,  \* [pc, key, value] of each setter; the pc "idle" is outside
          writer,  \* nvs_task: [pc, update]
          boot,    \* "migrate 1", "migrate 2", "migrate f", "load" or "up"
          loaded,  \* what the cache held after the load, and the flash
          accepted,\* the updates accepted since then, in order
          lost,    \* those whose write failed
          restarts
vars == <<flash, cache, isSet, queue, setter, writer, boot, loaded, accepted, lost, restarts>>

FlashKeys == Keys \cup {"legacy frequency", "legacy pools"}
IdleSetter == [pc |-> "idle", key |-> "frequency", value |-> DEFAULT]
IdleWriter == [pc |-> "receive", update |-> <<"frequency", DEFAULT>>]

\* A new device, and one that an older firmware configured.
Init == /\ flash \in {[k \in FlashKeys |-> ABSENT],
                      [k \in FlashKeys |-> IF k \in Keys THEN ABSENT ELSE "old"]}
        /\ cache = [k \in Keys |-> DEFAULT] /\ isSet = {} /\ queue = <<>>
        /\ setter = [s \in Setters |-> IdleSetter] /\ writer = IdleWriter
        /\ boot = "migrate 1" /\ accepted = <<>> /\ lost = {} /\ restarts = 0
        /\ loaded = [cache |-> cache, flash |-> flash]
-----------------------------------------------------------------------------
(* The load. *)

ram == <<queue, setter, writer, accepted, lost, restarts>>

\* A stored pool_1 means that the migration was done.
MigratePrimary ==
  /\ boot = "migrate 1"
  /\ IF flash["pool_1"] # ABSENT
       THEN boot' = "migrate f" /\ UNCHANGED flash
       ELSE /\ boot' = "migrate 2"
            /\ flash' = [flash EXCEPT !["pool_1"] = IF flash["legacy pools"] = ABSENT
                                                      THEN DEFAULT ELSE flash["legacy pools"]]
  /\ UNCHANGED <<cache, isSet, loaded, ram>>

MigrateFallback ==
  /\ boot = "migrate 2" /\ boot' = "migrate f"
  /\ flash' = [flash EXCEPT !["pool_2"] = IF flash["legacy pools"] = ABSENT
                                            THEN DEFAULT ELSE flash["legacy pools"]]
  /\ UNCHANGED <<cache, isSet, loaded, ram>>

MigrateFrequency ==
  /\ boot = "migrate f" /\ boot' = "load"
  /\ flash' = IF flash["frequency"] = ABSENT /\ flash["legacy frequency"] # ABSENT
                THEN [flash EXCEPT !["frequency"] = flash["legacy frequency"]] ELSE flash
  /\ UNCHANGED <<cache, isSet, loaded, ram>>

\* A string of length 0 is not taken from flash, so its default comes back.
Present(k) == flash[k] # ABSENT /\ ~(IsString(k) /\ flash[k] = EMPTY)

Load ==
  /\ boot = "load" /\ boot' = "up"
  /\ cache' = [k \in Keys |-> IF Present(k) THEN flash[k] ELSE DEFAULT]
  /\ isSet' = {SettingOf(k) : k \in {x \in Keys : Present(x)}}
  /\ loaded' = [cache |-> cache', flash |-> flash]
  /\ UNCHANGED <<flash, ram>>
-----------------------------------------------------------------------------
(* The setters. *)

Update == <<flash, writer, boot, loaded, lost, restarts>>

\* A mutant: the update mutex is given back before the send.
UpdateMutexFree_Early == \A s \in Setters : setter[s].pc # "store"

UpdateMutexFree == \A s \in Setters : setter[s].pc = "idle"

\* The value is in the cache already: nothing to do.  An array of strings has
\* one is_set flag for all its members.
Unchanged(k, v) == cache[k] = v /\ SettingOf(k) \in isSet

StoreInCache(k, v) == /\ cache' = [cache EXCEPT ![k] = v]
                      /\ isSet' = isSet \cup {SettingOf(k)}
                      /\ accepted' = Append(accepted, <<k, v>>)

\* A number is compared and stored under one hold of the cache mutex.
SetNumber(s, k, v) ==
  /\ boot = "up" /\ UpdateMutexFree /\ ~IsString(k) /\ v # EMPTY
  /\ Len(accepted) < MaxSets /\ ~Unchanged(k, v)
  /\ StoreInCache(k, v)
  /\ setter' = [setter EXCEPT ![s] = [pc |-> "send", key |-> k, value |-> v]]
  /\ UNCHANGED <<queue, Update>>

\* A string is copied between the comparison and the store.
SetString(s, k, v) ==
  /\ boot = "up" /\ UpdateMutexFree /\ IsString(k)
  /\ Len(accepted) < MaxSets /\ ~Unchanged(k, v)
  /\ setter' = [setter EXCEPT ![s] = [pc |-> "store", key |-> k, value |-> v]]
  /\ UNCHANGED <<cache, isSet, accepted, queue, Update>>

StoreString(s) ==
  /\ setter[s].pc = "store"
  /\ StoreInCache(setter[s].key, setter[s].value)
  /\ setter' = [setter EXCEPT ![s].pc = "send"]
  /\ UNCHANGED <<queue, Update>>

\* xQueueSend with portMAX_DELAY; then the update mutex is given back.
Send(s) ==
  /\ setter[s].pc = "send" /\ Len(queue) < QUEUE_SIZE
  /\ queue' = Append(queue, <<setter[s].key, setter[s].value>>)
  /\ setter' = [setter EXCEPT ![s] = IdleSetter]
  /\ UNCHANGED <<cache, isSet, accepted, Update>>
-----------------------------------------------------------------------------
(* nvs_task. *)

cacheVars == <<cache, isSet, setter, boot, loaded, accepted, restarts>>

Receive ==
  /\ writer.pc = "receive" /\ queue # <<>>
  /\ writer' = [pc |-> "write", update |-> Head(queue)] /\ queue' = Tail(queue)
  /\ UNCHANGED <<flash, lost, cacheVars>>

\* How many of the accepted updates have left for flash.
Sending == {s \in Setters : setter[s].pc = "send"}
Written == Len(accepted) - Len(queue) - (IF Sending = {} THEN 0 ELSE 1)

\* nvs_set_* stores the value; the only trace of an error is a missing commit.
WriteFlash ==
  /\ writer.pc = "write"
  /\ \/ /\ flash' = [flash EXCEPT ![writer.update[1]] = writer.update[2]]
        /\ UNCHANGED lost
     \/ lost' = lost \cup {Written} /\ Cardinality(lost) < MaxFailures /\ UNCHANGED flash
  /\ writer' = [writer EXCEPT !.pc = "legacy"]
  /\ UNCHANGED <<queue, cacheVars>>

\* nvs_config_apply_fallback: older firmware finds its key up to date.
WriteLegacy ==
  /\ writer.pc = "legacy" /\ writer' = [writer EXCEPT !.pc = "receive"]
  /\ flash' = IF writer.update[1] = "frequency"
                THEN [flash EXCEPT !["legacy frequency"] = writer.update[2]] ELSE flash
  /\ UNCHANGED <<queue, lost, cacheVars>>
-----------------------------------------------------------------------------
\* A restart, asked for (esp_restart waits for nobody) or not.
Restart ==
  /\ restarts < MaxRestarts /\ restarts' = restarts + 1
  /\ boot' = "migrate 1" /\ queue' = <<>> /\ writer' = IdleWriter
  /\ setter' = [s \in Setters |-> IdleSetter]
  /\ cache' = [k \in Keys |-> DEFAULT] /\ isSet' = {}
  /\ accepted' = <<>> /\ lost' = {} /\ loaded' = [cache |-> cache', flash |-> flash]
  /\ UNCHANGED flash

Boot == MigratePrimary \/ MigrateFallback \/ MigrateFrequency \/ Load
Setter(s) == \/ \E k \in Keys, v \in Values : SetNumber(s, k, v) \/ SetString(s, k, v)
             \/ StoreString(s) \/ Send(s)
NvsTask == Receive \/ WriteFlash \/ WriteLegacy
Next == Boot \/ NvsTask \/ Restart \/ \E s \in Setters : Setter(s)

\* The load and nvs_task run when they can, and a setter once begun goes on.
Fairness == /\ WF_vars(Boot) /\ WF_vars(NvsTask)
            /\ \A s \in Setters : WF_vars(StoreString(s)) /\ WF_vars(Send(s))
Spec == Init /\ [][Next]_vars /\ Fairness
-----------------------------------------------------------------------------
UpdateType == Keys \X Values
BootType == {"migrate 1", "migrate 2", "migrate f", "load", "up"}

\* Every variable has its type.
TypeOK ==
  /\ flash \in [FlashKeys -> Values \cup {ABSENT, DEFAULT, "old"}]
  /\ cache \in [Keys -> Values \cup {DEFAULT, "old"}] /\ isSet \subseteq {SettingOf(k) : k \in Keys}
  /\ queue \in Seq(UpdateType) /\ Len(queue) <= QUEUE_SIZE
  /\ setter \in [Setters -> [pc : {"idle", "store", "send"}, key : Keys, value : Values \cup {DEFAULT}]]
  /\ writer \in [pc : {"receive", "write", "legacy"}, update : Keys \X (Values \cup {DEFAULT})]
  /\ boot \in BootType /\ accepted \in Seq(UpdateType) /\ lost \subseteq 1 .. MaxSets
  /\ restarts \in 0 .. MaxRestarts

\* The first n accepted updates, applied in order to a map.
Applied(map, n, failed) ==
  [k \in Keys |-> LET of == {i \in 1 .. n : accepted[i][1] = k /\ i \notin failed}
                  IN IF of = {} THEN map[k] ELSE accepted[Max(of)][2]]

\* nvs_config.c:664: what flash holds, whenever the power goes, is what the load
\* found with a prefix of the accepted settings applied in their order: of a set
\* of changes none is kept without those made before it, whoever made them.
FlashIsPrefix ==
  boot = "up" =>
    \E n \in 0 .. Len(accepted) :
      \A k \in Keys : flash[k] = Applied(loaded.flash, n, lost)[k]

\* Getters see every accepted setting at once, and once nothing is queued flash
\* agrees with them, except where a write failed.
SavedWhenIdle ==
  boot = "up" =>
    /\ \A k \in Keys : cache[k] = Applied(loaded.cache, Len(accepted), {})[k]
    /\ queue = <<>> /\ Sending = {} /\ writer.pc = "receive" =>
         \A k \in Keys : flash[k] = Applied(loaded.flash, Len(accepted), lost)[k]

\* nvs_config.c:364 and :374: the key of older firmware follows the new one, but
\* for the time between two writes, so that a downgrade keeps the frequency.
LegacyFollows ==
  boot = "up" /\ writer.pc = "receive" /\ lost = {} /\ loaded.flash["frequency"] = loaded.flash["legacy frequency"] =>
     flash["frequency"] = flash["legacy frequency"]

SettingsDurable == FlashIsPrefix /\ SavedWhenIdle /\ LegacyFollows

AllWritten == boot = "up" /\ queue = <<>> /\ Sending = {} /\ writer.pc = "receive"

\* Accepted settings reach flash: the queue does not stay full.
SettingsReachFlash == <>[]AllWritten

\* nvs_config.c:234: "Already migrated": a device that older firmware configured
\* keeps its fallback pool.  The code does not keep this across a restart between
\* the two writes (README).
MigrationIsWhole ==
  boot = "up" /\ accepted = <<>> /\ flash["legacy pools"] # ABSENT =>
    flash["pool_1"] # ABSENT /\ flash["pool_2"] # ABSENT
\* The value of a setting whose update was written survives a restart.  False of
\* the empty string (README).
RestartKeepsSettings ==
  boot = "up" => \A k \in Keys : loaded.flash[k] # ABSENT => loaded.cache[k] = loaded.flash[k]
=============================================================================
