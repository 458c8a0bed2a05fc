------------------------------ MODULE SetupBle ------------------------------
(***************************************************************************)
(* Setup over Bluetooth (main/setup_ble.c) and the loop of app_main that   *)
(* starts it on a device without a network name and stops it once the      *)
(* device is connected.  A client writes fields and then a command; the    *)
(* callbacks run in the NimBLE host task.  Applying reads the primary pool,*)
(* changes the fields that were written and stores it again, while a       *)
(* request of the web interface may store that pool too.                   *)
(*                                                                         *)
(* The fields that matter to how a pool is put together are kept: a URL is *)
(* plain or has a scheme and a port in it, a port is good or bad.  NimBLE  *)
(* (host, advertising, links) is modelled by what the module does with it. *)
(* MaxWrites, MaxStores and MaxFailures bound the exploration.             *)
(***************************************************************************)
EXTENDS Integers

CONSTANTS MaxWrites, MaxStores, MaxFailures

Forms == [ssid : {"none", "a"}, url : {"none", "plain", "full"}, port : {"none", "good", "bad"}]
Fields == {"ssid", "url", "port"}
Pools == [url : {"stored", "plain", "full", "web"}, port : {"stored", "in url", "good", "web"},
          tls : BOOLEAN]

VARIABLES
  main,         \* app_main: "wait", "start", "stop" or "on", past the loop
  is_connected,
  ap_enabled,
  ble,          \* [started, synced, host, adv, link]
  form,         \* the fields' values
  written,
  status,
  apply,        \* setup_ble_apply_config: [pc, pool], "idle" or "store"
  ssid, pool,   \* the stored settings
  was,          \* these two before the last APPLY, and the written fields
  counts        \* [writes, stores, failures]
vars == <<main, is_connected, ap_enabled, ble, form, written, status, apply, ssid, pool, was, counts>>

TypeOK ==
  /\ main \in {"wait", "start", "stop", "on"} /\ is_connected \in BOOLEAN /\ ap_enabled \in BOOLEAN
  /\ ble \in [started : BOOLEAN, synced : BOOLEAN, host : BOOLEAN, adv : BOOLEAN, link : BOOLEAN]
  /\ form \in Forms /\ written \subseteq Fields
  /\ status \in {"READY", "PENDING_APPLY", "APPLIED_RESTART_REQUIRED", "RESTARTING",
                 "ERROR_INVALID_POOL_PORT"}
  /\ apply \in [pc : {"idle", "store"}, pool : Pools]
  /\ ssid \in {"none", "a"} /\ pool \in Pools
  /\ was \in [ssid : {"none", "a"}, pool : Pools, written : SUBSET Fields]
  /\ counts \in [writes : 0 .. MaxWrites, stores : 0 .. MaxStores, failures : 0 .. MaxFailures]
-----------------------------------------------------------------------------
Off == [started |-> FALSE, synced |-> FALSE, host |-> FALSE, adv |-> FALSE, link |-> FALSE]
Blank == [ssid |-> "none", url |-> "none", port |-> "none"]
Stored == [url |-> "stored", port |-> "stored", tls |-> FALSE]

\* A device without a network name.
Init == /\ main = "wait" /\ is_connected = FALSE /\ ap_enabled \in BOOLEAN
        /\ ble = Off /\ form = Blank /\ written = {} /\ status = "READY"
        /\ apply = [pc |-> "idle", pool |-> Stored] /\ ssid = "none" /\ pool = Stored
        /\ was = [ssid |-> ssid, pool |-> pool, written |-> {}]
        /\ counts = [writes |-> 0, stores |-> 0, failures |-> 0]

config == <<form, written, status, apply, ssid, pool, was>>
network == <<is_connected, ap_enabled>>
Fails == counts.failures < MaxFailures /\ counts' = [counts EXCEPT !.failures = @ + 1]
Works == UNCHANGED counts

\* setup_ble_start: the fields are reset; a failure is tried again 100 ms later.
Start ==
  /\ main = "wait" /\ ~is_connected /\ ap_enabled /\ ~ble.started
  /\ form' = [Blank EXCEPT !.ssid = ssid] /\ written' = {} /\ status' = "READY"
  /\ \/ Works /\ main' = "start" /\ ble' = [ble EXCEPT !.host = TRUE]
     \/ Fails /\ UNCHANGED <<main, ble>>
  /\ UNCHANGED <<apply, ssid, pool, was, network>>
Started == /\ main = "start" /\ main' = "wait" /\ ble' = [ble EXCEPT !.started = TRUE]
           /\ UNCHANGED <<network, config, counts>>

\* A mutant: only a started service ends the loop.
MayLeave_Started == is_connected /\ ble.started
MayLeave == is_connected

\* The loop ends, and setup_ble_stop begins: advertising off, then the host.
Leave == /\ main = "wait" /\ MayLeave
         /\ IF ble.started
              THEN main' = "stop" /\ ble' = IF ble.synced THEN [ble EXCEPT !.adv = FALSE] ELSE ble
              ELSE main' = "on" /\ UNCHANGED ble
         /\ UNCHANGED <<network, config, counts>>

\* nimble_port_stop, taken to succeed: the callbacks finish and the links end.
Stop == /\ main = "stop" /\ apply.pc = "idle" /\ main' = "on" /\ ble' = Off
        /\ UNCHANGED <<network, config, counts>>
-----------------------------------------------------------------------------
(* The host task. *)

Advertises(b) == [b EXCEPT !.adv = TRUE]

\* setup_ble_on_sync, and the advertising it starts, which may fail.
OnSync == /\ ble.host /\ ~ble.synced
          /\ \/ Works /\ ble' = Advertises([ble EXCEPT !.synced = TRUE])
             \/ Fails /\ ble' = [ble EXCEPT !.synced = TRUE]
          /\ UNCHANGED <<main, network, config>>

Connect == /\ ble.adv /\ ~ble.link /\ ble' = [ble EXCEPT !.adv = FALSE, !.link = TRUE]
           /\ UNCHANGED <<main, network, config, counts>>

\* setup_ble_gap_event: advertising again, while the service is started.
Disconnect ==
  /\ ble.link /\ apply.pc = "idle"
  /\ LET gone == [ble EXCEPT !.link = FALSE]
     IN  \/ Works /\ ble' = IF ble.started THEN Advertises(gone) ELSE gone
         \/ ble.started /\ Fails /\ ble' = gone
  /\ UNCHANGED <<main, network, config>>

Command == ble.link /\ apply.pc = "idle"

WriteField(f, value) ==
  /\ Command /\ counts.writes < MaxWrites /\ counts' = [counts EXCEPT !.writes = @ + 1]
  /\ form' = [form EXCEPT ![f] = value] /\ written' = written \cup {f}
  /\ status' = "PENDING_APPLY"
  /\ UNCHANGED <<main, network, ble, apply, ssid, pool, was>>

\* A mutant: the port is checked when it is stored.
PortRefused_Late == FALSE
PortRefused == "port" \in written /\ form.port = "bad"

\* setup_ble_apply_config up to the reading of the pool.
Apply ==
  /\ Command /\ written # {} /\ was' = [ssid |-> ssid, pool |-> pool, written |-> written]
  /\ IF PortRefused
       THEN status' = "ERROR_INVALID_POOL_PORT" /\ UNCHANGED <<ssid, apply, written>>
       ELSE /\ ssid' = IF "ssid" \in written THEN form.ssid ELSE ssid
            /\ IF written \cap {"url", "port"} # {}
                 THEN apply' = [pc |-> "store", pool |-> pool] /\ UNCHANGED <<status, written>>
                 ELSE status' = "APPLIED_RESTART_REQUIRED" /\ written' = {} /\ UNCHANGED apply
  /\ UNCHANGED <<main, network, ble, form, pool, counts>>

\* setup_ble_apply_pool_url: a port in the URL counts unless one was written.
WithUrl(p) ==
  IF "url" \notin written THEN p
  ELSE [url |-> form.url,
        port |-> IF form.url = "full" THEN "in url" ELSE p.port,
        tls |-> form.url = "full" \/ p.tls]
WithPort(p) == IF "port" \in written THEN [p EXCEPT !.port = form.port] ELSE p

ApplyPool ==
  /\ apply.pc = "store" /\ apply' = [apply EXCEPT !.pc = "idle"]
  /\ pool' = WithPort(WithUrl(apply.pool))
  /\ status' = "APPLIED_RESTART_REQUIRED" /\ written' = {}
  /\ UNCHANGED <<main, network, ble, form, ssid, was, counts>>

\* STATUS, and RESTART, whose restart comes 500 ms later and begins another Init.
OtherCommand(answer) ==
  /\ Command /\ status' = answer
  /\ UNCHANGED <<main, network, ble, form, written, apply, ssid, pool, was, counts>>
-----------------------------------------------------------------------------
(* The network, and the web interface, which may store the same pool. *)

Connected == /\ ~is_connected /\ is_connected' = TRUE
             /\ UNCHANGED <<main, ap_enabled, ble, config, counts>>
ToggleAp == /\ ap_enabled' = ~ap_enabled
            /\ UNCHANGED <<main, is_connected, ble, config, counts>>
WebStoresPool ==
  /\ counts.stores < MaxStores /\ counts' = [counts EXCEPT !.stores = @ + 1]
  /\ pool' = [url |-> "web", port |-> "web", tls |-> FALSE]
  /\ UNCHANGED <<main, network, ble, form, written, status, apply, ssid, was>>

Values(f) == {v[f] : v \in Forms} \ {"none"}
Main == Start \/ Started \/ Leave \/ Stop
Next == \/ Main \/ OnSync \/ Connect \/ Disconnect \/ Apply \/ ApplyPool \/ OtherCommand("READY") \/ OtherCommand("RESTARTING")
        \/ Connected \/ ToggleAp \/ WebStoresPool
        \/ \E f \in Fields : \E value \in Values(f) : WriteField(f, value)
Fairness == WF_vars(Main) /\ WF_vars(ApplyPool)
Spec == Init /\ [][Next]_vars /\ Fairness
-----------------------------------------------------------------------------
\* setup_ble.c:256: a refused APPLY stores nothing, and one that is answered with
\* "applied" has stored every field that was written and nothing else; a bad port
\* never gets into the pool.
ApplyIsWhole ==
  /\ pool.port # "bad"
  /\ status = "ERROR_INVALID_POOL_PORT" => ssid = was.ssid /\ (counts.stores = 0 => pool = was.pool)
  /\ status = "APPLIED_RESTART_REQUIRED" /\ counts.stores = 0 =>
       /\ ssid = IF "ssid" \in was.written THEN form.ssid ELSE was.ssid
       /\ pool.url = IF "url" \in was.written THEN form.url ELSE was.pool.url
       /\ "port" \in was.written => pool.port = form.port

\* main.c:213, setup_ble.c:721: past the loop the radio is free: no host, no
\* advertising and no link.
RadioIsFree == main = "on" => ble = Off

SetupHolds == ApplyIsWhole /\ RadioIsFree

\* main.c:203: a device that gets connected gets past the loop.
Online == is_connected
Left == main = "on"
SetupEnds == Online ~> Left
=============================================================================
