----------------------------- MODULE NetRecovery -----------------------------
(***************************************************************************)
(* How the unit gets and keeps an address (components/connect/connect.c).  *)
(* Four threads share unprotected statics: the event loop, which runs      *)
(* event_handler for one queued event at a time; the timer service, which  *)
(* runs ip_timeout_callback; the re-assert watchdog; and the esp_timer     *)
(* that associates again. The radio, esp-netif and the router are          *)
(* external: they follow what the code says of them.                       *)
(*                                                                         *)
(* The station's interface is `addr`, `dns` and the state `dhcp` of its    *)
(* client. Events wait in `events`. `ladder` is where the timer callback   *)
(* stands in the fallback ladder and `watch` where the watchdog stands.    *)
(***************************************************************************)
EXTENDS NetPolicy, Sequences

CONSTANTS Leases,       \* what a lease may supply: records of gw and dns
          StaticChoices,\* values of useStatic, NVS_CONFIG_USE_STATIC_FALLBACK
          CONFIG_AP_STUCK, \* ESP_MINER_CONFIG_AP_STUCK, off (0) or on (1)
          SOFTAP_RETRIES,  \* the literal 10 of the disconnect handler
          DHCP_ESCALATION_CYCLE,
          MAX_EVENTS,   \* length of the event loop's queue
          MaxChanges,   \* changes of the environment and acts of the user
          MaxScans      \* how many of them may be scans

ASSUME NetAssumption ==
    /\ Leases \subseteq [gw : BOOLEAN, dns : {"NONE", "SERVER"}] /\ Leases # {}
    /\ StaticChoices \subseteq BOOLEAN /\ StaticChoices # {}
    /\ CONFIG_AP_STUCK \in 0..1 /\ SOFTAP_RETRIES \in Nat
    /\ DHCP_ESCALATION_CYCLE \in Nat \ {0} /\ MAX_EVENTS \in Nat \ {0}
    /\ MaxChanges \in Nat /\ MaxScans \in Nat

VARIABLES
    apOn, serverOn,             \* the router: its radio and its DHCP server
    link,                       \* the station: idle, connecting, up
    addr, dns, dhcp,            \* the interface and its DHCP client
    lost,                       \* the IP lost timer of esp-netif runs
    events,                     \* posted and not yet handled
    is_connected,
    s_retry_num, retry,         \* attempts to associate; their timer is armed
    ipTimer, dhcp_retry_count,  \* ip_acquire_timer is armed; its timeouts
    s_reassert,                 \* have_fallback and the address bound
    s_addr_is_fallback, probeDue,
    lastLease,                  \* the remembered lease in NVS
    useStatic,
    ladder, bind,               \* where the timer callback is; what it binds
    watch,                      \* what the watchdog is about to bind again
    survey, surveyDone,         \* the mesh survey's task; its once-per-outage flag
    apMode, apClient,           \* the configuration AP is on; someone uses it
    clients_connected_to_ap,    \* as counted
    is_scanning,
    changes, scans,             \* left of the bounds
    dropped                     \* history: a disconnect was ignored

router == <<apOn, serverOn, changes, scans>>
iface  == <<addr, dns, dhcp, lost>>
radio  == <<link, iface, events>>
conn   == <<is_connected, s_retry_num, retry>>
task   == <<ladder, bind, survey, surveyDone>>
timer  == <<ipTimer, dhcp_retry_count, task>>
lease  == <<s_addr_is_fallback, probeDue, lastLease, useStatic>>
ap     == <<apMode, apClient, clients_connected_to_ap>>
unit   == <<conn, timer, s_reassert, lease, watch, ap, is_scanning, dropped>>
vars   == <<router, radio, unit>>

EventTypes == [type : {"connected", "disconnected", "lostIp", "scanDone", "apJoin", "apLeave"}]
              \union [type : {"gotIp"}, ip : Addresses \ {"NONE"}, gw : BOOLEAN]

TypeOK ==
    /\ apOn \in BOOLEAN /\ serverOn \in BOOLEAN
    /\ link \in {"idle", "connecting", "up"}
    /\ addr \in Addresses /\ dns \in Resolvers
    /\ dhcp \in {"INIT", "STARTED", "STOPPED"} /\ lost \in BOOLEAN
    /\ events \in Seq(EventTypes) /\ Len(events) <= MAX_EVENTS
    /\ is_connected \in BOOLEAN
    /\ s_retry_num \in 0..SOFTAP_RETRIES + 1 /\ retry \in BOOLEAN
    /\ ipTimer \in BOOLEAN /\ dhcp_retry_count \in 0..DHCP_ESCALATION_CYCLE
    /\ s_reassert \in [have_fallback : BOOLEAN, bound : AddrConfigs]
    /\ s_addr_is_fallback \in BOOLEAN /\ probeDue \in BOOLEAN
    /\ lastLease \in AddrConfigs
    /\ useStatic \in StaticChoices /\ bind \in AddrConfigs
    /\ ladder \in {"no", "choose", "apply", "verify", "finish", "failed", "bounce", "rejoin"}
    /\ watch \in AddrConfigs
    /\ survey \in {"no", "scan", "rejoin"} /\ surveyDone \in BOOLEAN
    /\ apMode \in BOOLEAN /\ apClient \in BOOLEAN
    /\ clients_connected_to_ap \in -MaxChanges..MaxChanges /\ is_scanning \in BOOLEAN
    /\ changes \in 0..MaxChanges /\ scans \in 0..MaxScans /\ dropped \in BOOLEAN

Post(e) == Len(events) < MAX_EVENTS /\ events' = Append(events, e)

\* The event loop never blocks and runs above every thread below, so a timer that
\* fires finds the events handled. The longer timers give a router that is there
\* time to associate and to offer; a slower one counts as being off.
Calm == events = <<>>
OfferComes == link = "up" /\ dhcp = "STARTED" /\ addr = "NONE" /\ serverOn
Settled == Calm /\ ~OfferComes /\ ~(link = "connecting" /\ apOn)

-----------------------------------------------------------------------------
(***************************************************************************)
(* The radio and esp-netif, external. Connecting when not idle does        *)
(* nothing. A client that is started or stopped drops the address; an      *)
(* address that goes starts the lost timer.                                *)
(***************************************************************************)
Connect == link' = IF link = "idle" THEN "connecting" ELSE link

Disconnect ==
    IF link = "idle" THEN UNCHANGED <<link, events>>
    ELSE link' = "idle" /\ Post([type |-> "disconnected"])

DropAddress == addr' = "NONE" /\ lost' = (lost \/ addr # "NONE")

dhcpc_start ==
    /\ UNCHANGED dns
    /\ IF dhcp = "STARTED" \/ link # "up"
       THEN dhcp' = (IF dhcp = "STARTED" THEN dhcp ELSE "INIT") /\ UNCHANGED <<addr, lost>>
       ELSE dhcp' = "STARTED" /\ DropAddress

dhcpc_stop ==
    /\ UNCHANGED dns
    /\ dhcp' = "STOPPED"
    /\ IF dhcp = "STARTED" THEN DropAddress ELSE UNCHANGED <<addr, lost>>

\* esp_netif_dhcpc_stop, then esp_netif_set_ip_info with a resolver: the address
\* reaches the stack, which says so, only if the interface is up.
StopAndSet(b) ==
    /\ dhcp' = "STOPPED"
    /\ IF link = "up"
       THEN /\ addr' = b.ip /\ dns' = b.dns /\ UNCHANGED lost
            /\ Post([type |-> "gotIp", ip |-> b.ip, gw |-> b.gw])
       ELSE /\ UNCHANGED <<dns, events>>
            /\ IF dhcp = "STARTED" THEN DropAddress ELSE UNCHANGED <<addr, lost>>

AssocSucceeds ==
    /\ link = "connecting" /\ apOn
    /\ link' = "up" /\ Post([type |-> "connected"])
    /\ UNCHANGED <<router, iface, unit>>

\* The handshake fails, the network is not found, or a link that was up is lost.
LinkFails ==
    /\ link # "idle" /\ ~apOn
    /\ link' = "idle" /\ Post([type |-> "disconnected"])
    /\ UNCHANGED <<router, iface, unit>>

DhcpOffer ==
    /\ OfferComes
    /\ \E l \in Leases :
         /\ addr' = "LEASE"
         /\ dns' = IF l.dns = "NONE" THEN dns ELSE l.dns
         /\ Post([type |-> "gotIp", ip |-> "LEASE", gw |-> l.gw])
    /\ UNCHANGED <<router, link, dhcp, lost, unit>>

LeaseExpires ==
    /\ Calm /\ dhcp = "STARTED" /\ addr = "LEASE" /\ ~serverOn
    /\ DropAddress
    /\ UNCHANGED <<router, link, dns, dhcp, events, unit>>

IpLostTimer ==
    /\ Settled /\ lost /\ lost' = FALSE
    /\ IF addr = "NONE" THEN Post([type |-> "lostIp"]) ELSE UNCHANGED events
    /\ UNCHANGED <<router, link, addr, dns, dhcp, unit>>

-----------------------------------------------------------------------------
(***************************************************************************)
(* event_handler, one event at a time. For WIFI_EVENT_STA_CONNECTED and    *)
(* _DISCONNECTED esp-netif's own handler has run first and taken the       *)
(* interface up or down. A roaming disconnect changes nothing.             *)
(***************************************************************************)
Handles(type) == events # <<>> /\ Head(events).type = type
NetifDown == dhcp' = "INIT" /\ DropAddress /\ UNCHANGED dns
LeaseWins == s_reassert' = [have_fallback |-> FALSE, bound |-> Unset]

\* While the user's scan runs, every other Wi-Fi event is forgotten.
IgnoresWifiEvent ==
    /\ is_scanning /\ events # <<>>
    /\ Head(events).type \in {"connected", "disconnected", "apJoin", "apLeave"}
    /\ events' = Tail(events)
    /\ CASE Handles("connected") -> dhcpc_start
         [] Handles("disconnected") -> NetifDown
         [] OTHER -> UNCHANGED iface
    /\ dropped' = (dropped \/ Head(events).type \in {"connected", "disconnected", "apLeave"})
    /\ UNCHANGED <<router, link, conn, timer, s_reassert, lease, watch, ap, is_scanning>>

HandleScanDone ==
    /\ Handles("scanDone")
    /\ is_scanning' = FALSE /\ events' = Tail(events)
    /\ UNCHANGED <<router, link, iface, conn, timer, s_reassert, lease, watch, ap, dropped>>

HandleConnected ==
    /\ Handles("connected") /\ ~is_scanning
    /\ events' = Tail(events)
    /\ retry' = FALSE /\ dhcp_retry_count' = 0 /\ ipTimer' = TRUE
    /\ dhcpc_start
    /\ UNCHANGED <<router, link, is_connected, s_retry_num, task, s_reassert, lease, watch, ap,
                   is_scanning, dropped>>

\* What if persistent failures ended the attempts?
HandleDisconnected_GivesUp ==
    /\ Handles("disconnected") /\ ~is_scanning /\ clients_connected_to_ap <= 0
    /\ events' = Tail(events)
    /\ NetifDown
    /\ is_connected' = FALSE /\ ipTimer' = FALSE
    /\ apMode' = (apMode \/ s_retry_num > SOFTAP_RETRIES)
    /\ s_retry_num' = IF s_retry_num > SOFTAP_RETRIES THEN s_retry_num ELSE s_retry_num + 1
    /\ retry' = (s_retry_num <= SOFTAP_RETRIES)
    /\ UNCHANGED <<router, link, dhcp_retry_count, task, s_reassert, lease, watch, apClient,
                   clients_connected_to_ap, is_scanning, dropped>>

HandleDisconnected ==
    /\ Handles("disconnected") /\ ~is_scanning /\ clients_connected_to_ap <= 0
    /\ events' = Tail(events)
    /\ NetifDown
    /\ is_connected' = FALSE /\ ipTimer' = FALSE
    /\ apMode' = (apMode \/ s_retry_num > SOFTAP_RETRIES)
    /\ s_retry_num' = IF s_retry_num > SOFTAP_RETRIES THEN s_retry_num ELSE s_retry_num + 1
    /\ retry' = TRUE
    /\ UNCHANGED <<router, link, dhcp_retry_count, task, s_reassert, lease, watch, apClient,
                   clients_connected_to_ap, is_scanning, dropped>>

\* With a client on the access point the disconnect is not acted on.
IgnoresDisconnect ==
    /\ Handles("disconnected") /\ ~is_scanning /\ clients_connected_to_ap > 0
    /\ events' = Tail(events)
    /\ NetifDown
    /\ dropped' = TRUE
    /\ UNCHANGED <<router, link, conn, timer, s_reassert, lease, watch, ap, is_scanning>>

HandleApClient ==
    /\ Handles("apJoin") \/ Handles("apLeave")
    /\ ~is_scanning /\ events' = Tail(events)
    /\ clients_connected_to_ap' =
           clients_connected_to_ap + (IF Head(events).type = "apJoin" THEN 1 ELSE -1)
    /\ UNCHANGED <<router, link, iface, conn, timer, s_reassert, lease, watch, apMode, apClient,
                   is_scanning, dropped>>

\* An address arrived, from the server or because the unit bound one itself:
\* only s_addr_is_fallback tells. Turning the access point off drops its client.
HandleGotIp ==
    /\ Handles("gotIp")
    /\ events' = IF apClient THEN Append(Tail(events), [type |-> "apLeave"]) ELSE Tail(events)
    /\ lastLease' = IF s_addr_is_fallback THEN lastLease
                    ELSE net_policy_capture_lease(lastLease,
                             [ip |-> Head(events).ip, gw |-> Head(events).gw, dns |-> dns],
                             ~s_reassert.have_fallback)
    /\ s_addr_is_fallback' = FALSE /\ probeDue' = FALSE
    /\ LeaseWins
    /\ s_retry_num' = 0 /\ dhcp_retry_count' = 0 /\ surveyDone' = FALSE /\ ipTimer' = FALSE
    /\ is_connected' = TRUE
    /\ apMode' = FALSE /\ apClient' = FALSE
    /\ UNCHANGED <<router, link, iface, retry, ladder, bind, survey, useStatic, watch,
                   clients_connected_to_ap, is_scanning, dropped>>

\* What if a lost lease were only renewed, its loss not told to the rest of the unit?
HandleLostIp_Quiet ==
    /\ Handles("lostIp")
    /\ events' = Tail(events)
    /\ LeaseWins
    /\ probeDue' = FALSE /\ dhcp_retry_count' = 0 /\ ipTimer' = TRUE
    /\ dhcp' = (IF link = "up" THEN "STARTED" ELSE "INIT") /\ DropAddress
    /\ UNCHANGED <<router, link, dns, conn, task, s_addr_is_fallback, lastLease, useStatic,
                   watch, ap, is_scanning, dropped>>

HandleLostIp ==
    /\ Handles("lostIp")
    /\ events' = Tail(events)
    /\ is_connected' = FALSE
    /\ LeaseWins
    /\ probeDue' = FALSE /\ dhcp_retry_count' = 0 /\ ipTimer' = TRUE
    /\ dhcp' = (IF link = "up" THEN "STARTED" ELSE "INIT") /\ DropAddress
    /\ UNCHANGED <<router, link, dns, s_retry_num, retry, task, s_addr_is_fallback, lastLease,
                   useStatic, watch, ap, is_scanning, dropped>>

-----------------------------------------------------------------------------
(***************************************************************************)
(* ip_timeout_callback in the timer service: the DHCP watchdog and, when   *)
(* there is no address, the fallback ladder. The event loop, whose         *)
(* priority is higher, may run between the ladder's steps.                 *)
(***************************************************************************)
Ladder(from, to) == ladder = from /\ ladder' = to

\* Nothing to recover from: the unit is connected, or has an address after all.
TimerWhileConnected ==
    /\ Settled /\ ipTimer /\ ladder = "no"
    /\ is_connected \/ addr # "NONE"
    /\ dhcp_retry_count' = 0
    /\ ipTimer' = (is_connected /\ probeDue)
    /\ IF is_connected /\ probeDue THEN dhcpc_start ELSE UNCHANGED iface
    /\ UNCHANGED <<router, link, events, conn, task, s_reassert, lease, watch, ap, is_scanning,
                   dropped>>

\* What if the count did not wrap?
TimerTimesOut_NoWrap ==
    /\ Settled /\ ipTimer /\ ~is_connected /\ addr = "NONE"
    /\ Ladder("no", "choose")
    /\ ipTimer' = FALSE /\ dhcp_retry_count' = dhcp_retry_count + 1
    /\ UNCHANGED <<router, radio, conn, bind, survey, surveyDone, s_reassert, lease, watch, ap,
                   is_scanning, dropped>>

\* The count matters modulo the cycle only.
TimerTimesOut ==
    /\ Settled /\ ipTimer /\ ~is_connected /\ addr = "NONE"
    /\ Ladder("no", "choose")
    /\ ipTimer' = FALSE
    /\ dhcp_retry_count' = (dhcp_retry_count % DHCP_ESCALATION_CYCLE) + 1
    /\ UNCHANGED <<router, radio, conn, bind, survey, surveyDone, s_reassert, lease, watch, ap,
                   is_scanning, dropped>>

unitButLadder == <<conn, ipTimer, dhcp_retry_count, survey, surveyDone, s_reassert, probeDue,
                   lastLease, useStatic, watch, ap, is_scanning, dropped>>

try_ip_fallback_ladder ==
    /\ bind' = net_policy_select_fallback(lastLease, useStatic)
    /\ IF bind' = Unset
       THEN Ladder("choose", "failed") /\ UNCHANGED s_addr_is_fallback
       ELSE Ladder("choose", "apply") /\ s_addr_is_fallback' = TRUE
    /\ UNCHANGED <<router, radio, unitButLadder>>

ApplyAddress ==
    /\ Ladder("apply", "verify")
    /\ StopAndSet(bind)
    /\ UNCHANGED <<router, link, bind, s_addr_is_fallback, unitButLadder>>

ApplyFails ==
    /\ addr = "NONE" \/ link # "up"
    /\ Ladder("verify", "failed")
    /\ bind' = Unset /\ s_addr_is_fallback' = FALSE
    /\ UNCHANGED <<router, radio, unitButLadder>>

\* The latch and its address are published, then the unit calls itself online. The
\* gateway probe that ends later may turn the access point on.
ApplySucceeds ==
    /\ addr # "NONE" /\ link = "up"
    /\ Ladder("verify", "finish")
    /\ s_reassert' = [have_fallback |-> TRUE, bound |-> [bind EXCEPT !.ip = addr]]
    /\ is_connected' = TRUE
    /\ apMode' \in {apMode, TRUE}
    /\ bind' = Unset
    /\ UNCHANGED <<router, radio, s_retry_num, retry, ipTimer, dhcp_retry_count, survey,
                   surveyDone, lease, watch, apClient, clients_connected_to_ap, is_scanning,
                   dropped>>

\* The probe for a lease is armed, the one-shot timer that would look is not.
LadderDone ==
    /\ Ladder("finish", "no")
    /\ s_addr_is_fallback' = TRUE /\ dhcp_retry_count' = 0 /\ probeDue' = TRUE
    /\ UNCHANGED <<router, radio, conn, ipTimer, bind, survey, surveyDone, s_reassert,
                   lastLease, useStatic, watch, ap, is_scanning, dropped>>

LadderFailed ==
    /\ LET step == dhcp_retry_count - 1
           rejoin == step >= 3 /\ step % 2 = 1
       IN /\ Ladder("failed", IF step = 2 THEN "bounce" ELSE IF rejoin THEN "rejoin" ELSE "no")
          /\ IF step = 2 THEN dhcpc_stop ELSE UNCHANGED iface
          /\ IF rejoin THEN Disconnect ELSE UNCHANGED <<link, events>>
          /\ is_connected' = (is_connected /\ ~rejoin)
          /\ ipTimer' = (ipTimer \/ (step # 2 /\ ~rejoin))
    /\ survey' = IF surveyDone \/ survey # "no" THEN survey ELSE "scan"
    /\ surveyDone' = TRUE
    /\ apMode' = (apMode \/ CONFIG_AP_STUCK = 1)
    /\ UNCHANGED <<router, s_retry_num, retry, dhcp_retry_count, bind, s_reassert, lease, watch,
                   apClient, clients_connected_to_ap, is_scanning, dropped>>

LadderBounces ==
    /\ Ladder("bounce", "no")
    /\ dhcpc_start
    /\ ipTimer' = TRUE
    /\ UNCHANGED <<router, link, events, conn, dhcp_retry_count, bind, survey, surveyDone,
                   s_reassert, lease, watch, ap, is_scanning, dropped>>

LadderRejoins ==
    /\ Ladder("rejoin", "no")
    /\ Connect
    /\ ipTimer' = TRUE
    /\ UNCHANGED <<router, iface, events, conn, dhcp_retry_count, bind, survey, surveyDone,
                   s_reassert, lease, watch, ap, is_scanning, dropped>>

-----------------------------------------------------------------------------
(***************************************************************************)
(* The other threads: the re-assert watchdog, the mesh survey and the      *)
(* timer that associates again.                                            *)
(***************************************************************************)
ip_reassert_check ==
    /\ Calm /\ watch = Unset /\ link = "up"
    /\ net_policy_should_reassert(s_reassert.have_fallback, addr, dhcp # "STOPPED")
    /\ watch' = s_reassert.bound
    /\ UNCHANGED <<router, radio, conn, timer, s_reassert, lease, ap, is_scanning, dropped>>

Reassert ==
    /\ watch # Unset /\ watch' = Unset
    /\ StopAndSet(watch)
    /\ UNCHANGED <<router, link, conn, timer, s_reassert, lease, ap, is_scanning, dropped>>

SurveyScans ==
    /\ Calm /\ survey = "scan" /\ survey' = "rejoin"
    /\ Disconnect
    /\ UNCHANGED <<router, iface, conn, ipTimer, dhcp_retry_count, ladder, bind, surveyDone,
                   s_reassert, lease, watch, ap, is_scanning, dropped>>

\* The survey's own scan ends with an event too.
SurveyRejoins ==
    /\ Calm /\ survey = "rejoin" /\ survey' = "no"
    /\ Connect /\ Post([type |-> "scanDone"])
    /\ UNCHANGED <<router, iface, conn, ipTimer, dhcp_retry_count, ladder, bind, surveyDone,
                   s_reassert, lease, watch, ap, is_scanning, dropped>>

wifi_retry_timer_cb ==
    /\ Settled /\ retry /\ retry' = FALSE
    /\ IF link = "up" THEN UNCHANGED link ELSE Connect
    /\ UNCHANGED <<router, iface, events, is_connected, s_retry_num, timer, s_reassert, lease,
                   watch, ap, is_scanning, dropped>>

-----------------------------------------------------------------------------
(***************************************************************************)
(* What the router and the user do, MaxChanges times in all.               *)
(***************************************************************************)
Changes == changes > 0 /\ changes' = changes - 1

RouterChanges ==
    /\ Changes
    /\ \/ apOn' = ~apOn /\ UNCHANGED serverOn
       \/ serverOn' = ~serverOn /\ UNCHANGED apOn
    /\ UNCHANGED <<scans, radio, unit>>

wifi_scan ==
    /\ ~is_scanning /\ is_scanning' = TRUE
    /\ scans > 0 /\ scans' = scans - 1
    /\ Changes
    /\ IF link = "up" THEN UNCHANGED <<link, events>> ELSE Disconnect
    /\ UNCHANGED <<apOn, serverOn, iface, conn, timer, s_reassert, lease, watch, ap, dropped>>

\* The scan completes, or cannot start, or wifi_scan stops waiting for it.
ScanEnds ==
    /\ Calm /\ is_scanning
    /\ \/ Post([type |-> "scanDone"]) /\ UNCHANGED is_scanning
       \/ is_scanning' = FALSE /\ UNCHANGED events
    /\ UNCHANGED <<router, link, iface, conn, timer, s_reassert, lease, watch, ap, dropped>>

\* toggle_wifi_softap drops a client with the access point.
toggle_wifi_softap ==
    /\ Changes
    /\ apMode' = ~apMode /\ apClient' = FALSE
    /\ IF apClient THEN Post([type |-> "apLeave"]) ELSE UNCHANGED events
    /\ UNCHANGED <<apOn, serverOn, scans, link, iface, conn, timer, s_reassert, lease, watch,
                   clients_connected_to_ap, is_scanning, dropped>>

ApClientMoves ==
    /\ Changes /\ apMode
    /\ apClient' = ~apClient
    /\ Post([type |-> IF apClient THEN "apLeave" ELSE "apJoin"])
    /\ UNCHANGED <<apOn, serverOn, scans, link, iface, conn, timer, s_reassert, lease, watch,
                   apMode, clients_connected_to_ap, is_scanning, dropped>>

\* wifi_apply_hostname, from the web server: the client is stopped and started.
wifi_apply_hostname ==
    /\ Changes
    /\ dhcp' = (IF link = "up" THEN "STARTED" ELSE "INIT")
    /\ IF dhcp = "STARTED" \/ link = "up" THEN DropAddress ELSE UNCHANGED <<addr, lost>>
    /\ UNCHANGED <<apOn, serverOn, scans, link, dns, events, unit>>

\* esp-netif clears a static address by itself, as the comment of s_reassert says.
AddressVanishes ==
    /\ Changes
    /\ link = "up" /\ dhcp = "STOPPED" /\ addr # "NONE" /\ DropAddress
    /\ UNCHANGED <<apOn, serverOn, scans, link, dns, dhcp, events, unit>>

-----------------------------------------------------------------------------
\* WIFI_EVENT_STA_START has been handled; nothing or a whole lease is remembered.
Init ==
    /\ apOn = TRUE /\ serverOn \in BOOLEAN /\ changes = MaxChanges /\ scans = MaxScans
    /\ addr = "NONE" /\ dns = "NONE" /\ dhcp = "INIT" /\ lost = FALSE
    /\ link = "connecting" /\ events = <<>>
    /\ is_connected = FALSE /\ s_retry_num = 0 /\ retry = FALSE
    /\ ipTimer = FALSE /\ dhcp_retry_count = 0 /\ ladder = "no" /\ bind = Unset
    /\ survey = "no" /\ surveyDone = FALSE
    /\ s_reassert = [have_fallback |-> FALSE, bound |-> Unset]
    /\ s_addr_is_fallback = FALSE /\ probeDue = FALSE
    /\ lastLease \in {Unset} \union
           {[ip |-> "LEASE", gw |-> l.gw, dns |-> l.dns] : l \in Leases}
    /\ useStatic \in StaticChoices
    /\ watch = Unset
    /\ apMode = FALSE /\ apClient = FALSE /\ clients_connected_to_ap = 0
    /\ is_scanning = FALSE /\ dropped = FALSE

RadioStep == AssocSucceeds \/ LinkFails \/ DhcpOffer \/ LeaseExpires \/ IpLostTimer
event_handler ==
    \/ IgnoresWifiEvent \/ HandleScanDone \/ HandleConnected \/ HandleDisconnected
    \/ IgnoresDisconnect \/ HandleApClient \/ HandleGotIp \/ HandleLostIp
ip_timeout_callback ==
    \/ TimerWhileConnected \/ TimerTimesOut
    \/ try_ip_fallback_ladder \/ ApplyAddress \/ ApplyFails \/ ApplySucceeds
    \/ LadderDone \/ LadderFailed \/ LadderBounces \/ LadderRejoins
ip_reassert_task == ip_reassert_check \/ Reassert
mesh_survey_task == SurveyScans \/ SurveyRejoins
UserStep == wifi_scan \/ toggle_wifi_softap \/ ApClientMoves \/ wifi_apply_hostname

Next ==
    \/ RadioStep \/ event_handler \/ ip_timeout_callback \/ ip_reassert_task
    \/ mesh_survey_task \/ wifi_retry_timer_cb \/ ScanEnds \/ RouterChanges
    \/ AddressVanishes \/ UserStep

\* Every thread and timer runs, a reachable router answers and a scan ends; nobody
\* has to change anything.
Fairness ==
    /\ WF_vars(AssocSucceeds) /\ WF_vars(LinkFails) /\ WF_vars(DhcpOffer)
    /\ WF_vars(IpLostTimer)
    /\ WF_vars(event_handler) /\ WF_vars(ip_timeout_callback) /\ WF_vars(ip_reassert_task)
    /\ WF_vars(mesh_survey_task) /\ WF_vars(wifi_retry_timer_cb) /\ WF_vars(ScanEnds)

Spec == Init /\ [][Next]_vars /\ Fairness

-----------------------------------------------------------------------------
(***************************************************************************)
(* Properties.                                                             *)
(***************************************************************************)
\* An address or a resolver the unit chose for itself is never remembered as the
\* last lease, whatever order the ladder's steps and the events they cause take.
OnlyLeasesRemembered == lastLease.ip # "STATIC" /\ lastLease.dns # "OWN"

\* Once the events are handled and the lost timer has fired, a unit that calls itself
\* connected is associated and has an address, whichever events were ignored and
\* wherever the other threads stand.
ConnectedIsTrue ==
    events = <<>> /\ ~lost /\ is_connected => addr # "NONE" /\ link = "up"

\* While the router stays and serves, the unit is online again and again: no sequence
\* of outages, fallbacks, surveys and races leaves it with nothing that would ask
\* again, unless a disconnect was ignored on the way or the router's answers keep
\* falling between the ladder's steps, which are milliseconds apart.
NeverGivesUp ==
    /\ <>[](apOn /\ serverOn /\ ~dropped)
    /\ <>[][AssocSucceeds \/ DhcpOffer => ladder = "no"]_vars
    => []<>(is_connected /\ addr # "NONE")

\* "The loop is endless by design, because a miner that stops asking stays offline
\* forever": the same, whatever was ignored.
EndlessByDesign == <>[](apOn /\ serverOn) => []<>(addr # "NONE")

\* "Online on a fallback address: periodically ask DHCP for a real lease again."
LeaseComesBack == <>[](apOn /\ serverOn /\ ~dropped) => []<>(dhcp # "STOPPED")
==============================================================================
