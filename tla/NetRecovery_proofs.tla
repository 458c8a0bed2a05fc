------------------------- MODULE NetRecovery_proofs -------------------------
(***************************************************************************)
(* Proofs about NetRecovery, for every queue length, number of retries and *)
(* of changes, and whatever a lease supplies: the types, and that a unit   *)
(* which calls itself connected is associated and has an address once its  *)
(* events are handled and the lost timer has fired.                        *)
(***************************************************************************)
EXTENDS NetRecovery, FiniteSetTheorems, SequenceTheorems, TLAPS

\* Where in a queue of events those of a type are.
At(s, t) == {i \in 1 .. Len(s) : s[i].type = t}
Count(s, t) == Cardinality(At(s, t))

\* Every address that arrives is followed by the news that one was lost.
Answered(s) == \A i \in At(s, "gotIp") : \E j \in At(s, "lostIp") : i < j

\* The clients of the access point are counted by events, each of which a change caused;
\* a client that is there may still leave.
Departs == IF apClient THEN 1 ELSE 0
CountInv ==
  /\ clients_connected_to_ap + Count(events, "apJoin") <= MaxChanges - changes
  /\ Count(events, "apLeave") + Departs - clients_connected_to_ap <= MaxChanges - changes

TypeInv == TypeOK /\ CountInv

\* What is bound, now or by the watchdog later, is an address.
BindInv ==
  /\ ladder = "apply" => bind.ip # "NONE"
  /\ s_reassert.have_fallback => s_reassert.bound.ip # "NONE"
  /\ watch # Unset => watch.ip # "NONE"

\* Without an address, and with the lost timer still, its loss is known or in the queue,
\* behind every address that arrived; a link lost under an address is in the queue.
TruthInv ==
  /\ addr = "NONE" /\ ~lost => /\ is_connected => At(events, "lostIp") # {}
                               /\ Answered(events)
  /\ addr # "NONE" /\ link # "up" => At(events, "disconnected") # {}

IInv == TypeInv /\ BindInv /\ TruthInv
-----------------------------------------------------------------------------
(* Queues of events. *)

LEMMA AtAppend ==
  ASSUME NEW s \in Seq(EventTypes), NEW e \in EventTypes, NEW t
  PROVE  /\ At(Append(s, e), t) = IF e.type = t THEN At(s, t) \cup {Len(s) + 1} ELSE At(s, t)
         /\ Len(s) + 1 \notin At(s, t)
         /\ IsFiniteSet(At(s, t)) /\ Count(s, t) \in Nat
<1>1. /\ Len(s) \in Nat /\ Len(Append(s, e)) = Len(s) + 1
      /\ \A i \in 1 .. Len(s) : Append(s, e)[i] = s[i]
      /\ Append(s, e)[Len(s) + 1] = e
  BY AppendProperties, LenProperties
<1>2. IsFiniteSet(1 .. Len(s))
  BY <1>1, FS_Interval
<1>3. At(s, t) \in SUBSET (1 .. Len(s))
  BY DEF At
<1>4. IsFiniteSet(At(s, t)) /\ Count(s, t) \in Nat
  BY <1>2, <1>3, FS_Subset, FS_CardinalityType DEF Count
<1>5. At(Append(s, e), t) = IF e.type = t THEN At(s, t) \cup {Len(s) + 1} ELSE At(s, t)
  BY <1>1 DEF At
<1>6. QED
  BY <1>1, <1>3, <1>4, <1>5

LEMMA AtTail ==
  ASSUME NEW s \in Seq(EventTypes), s # <<>>, NEW t
  PROVE  /\ \A i \in 1 .. Len(s) : i \in At(s, t) /\ i # 1 => i - 1 \in At(Tail(s), t)
         /\ \A i \in At(Tail(s), t) : i + 1 \in At(s, t)
         /\ 1 \in At(s, t) <=> Head(s).type = t
         /\ At(s, t) \subseteq 1 .. Len(s) /\ At(Tail(s), t) \subseteq 1 .. Len(s) /\ Len(s) \in Nat
<1>1. /\ Len(s) \in Nat \ {0} /\ Len(Tail(s)) = Len(s) - 1 /\ Head(s) = s[1]
      /\ \A i \in 1 .. Len(Tail(s)) : Tail(s)[i] = s[i + 1]
  BY HeadTailProperties, EmptySeq
<1>2. QED
  BY <1>1 DEF At

LEMMA CountAppend ==
  ASSUME NEW s \in Seq(EventTypes), NEW e \in EventTypes, NEW t
  PROVE  Count(Append(s, e), t) = Count(s, t) + (IF e.type = t THEN 1 ELSE 0)
<1>1. CASE e.type = t
  <2>1. Cardinality(At(s, t) \cup {Len(s) + 1}) = Cardinality(At(s, t)) + 1
    BY AtAppend, FS_AddElement
  <2>2. QED
    BY <1>1, <2>1, AtAppend DEF Count
<1>2. CASE e.type # t
  BY <1>2, AtAppend DEF Count
<1>3. QED
  BY <1>1, <1>2

LEMMA CountTail ==
  ASSUME NEW s \in Seq(EventTypes), s # <<>>, NEW t
  PROVE  Count(s, t) = Count(Tail(s), t) + (IF Head(s).type = t THEN 1 ELSE 0)
<1> DEFINE A == At(s, t) \ {1}
           B == At(Tail(s), t)
           f == [i \in B |-> i + 1]
<1>0. Head(s) \in EventTypes /\ Tail(s) \in Seq(EventTypes)
  BY HeadTailProperties
<1>1. IsFiniteSet(At(s, t)) /\ IsFiniteSet(B) /\ Count(s, t) \in Nat /\ Count(Tail(s), t) \in Nat
  BY <1>0, AtAppend
<1>2. /\ \A i \in A : i - 1 \in B /\ i \in Int
      /\ \A i \in B : i + 1 \in A /\ i \in Int
  BY AtTail
<1>3. f \in Bijection(B, A)
  <2>1. f \in [B -> A]
    BY <1>2
  <2>2. \A i, j \in B : f[i] = f[j] => i = j
    BY <1>2
  <2>3. \A a \in A : \E i \in B : f[i] = a
    <3> TAKE a \in A
    <3>1. a - 1 \in B /\ f[a - 1] = a
      BY <1>2
    <3>2. QED
      BY <3>1
  <2>4. QED
    BY <2>1, <2>2, <2>3 DEF Bijection, Injection, Surjection, IsInjective
<1>4. Cardinality(A) = Cardinality(B)
  <2>1. ExistsBijection(B, A)
    BY <1>3 DEF ExistsBijection
  <2>2. QED
    BY <1>1, <2>1, FS_Bijection
<1>5. Cardinality(A) = IF 1 \in At(s, t) THEN Cardinality(At(s, t)) - 1 ELSE Cardinality(At(s, t))
  BY <1>1, FS_RemoveElement
<1>6. 1 \in At(s, t) <=> Head(s).type = t
  BY AtTail
<1>7. QED
  BY <1>1, <1>4, <1>5, <1>6 DEF Count

\* What the handling of an event, or the posting of one, does to the news in the queue.
LEMMA NewsTail ==
  ASSUME NEW s \in Seq(EventTypes), s # <<>>
  PROVE  /\ \A t : At(s, t) # {} /\ Head(s).type # t => At(Tail(s), t) # {}
         /\ Answered(s) => Answered(Tail(s))
         /\ Answered(s) /\ Head(s).type = "gotIp" => At(Tail(s), "lostIp") # {}
<1>1. \A t : At(s, t) # {} /\ Head(s).type # t => At(Tail(s), t) # {}
  <2> TAKE t
  <2> SUFFICES ASSUME NEW i \in At(s, t), Head(s).type # t PROVE At(Tail(s), t) # {}
    OBVIOUS
  <2>1. i \in 1 .. Len(s) /\ i # 1
    BY AtTail
  <2>2. QED
    BY <2>1, AtTail
<1>2. Answered(s) => Answered(Tail(s))
  <2> SUFFICES ASSUME Answered(s), NEW i \in At(Tail(s), "gotIp")
               PROVE  \E j \in At(Tail(s), "lostIp") : i < j
    BY DEF Answered
  <2>1. i + 1 \in At(s, "gotIp") /\ i \in 1 .. Len(s) /\ Len(s) \in Nat
    BY AtTail
  <2>2. PICK j \in At(s, "lostIp") : i + 1 < j
    BY <2>1 DEF Answered
  <2>3. j \in 1 .. Len(s) /\ j # 1 /\ j - 1 \in At(Tail(s), "lostIp") /\ i < j - 1
    BY <2>1, <2>2, AtTail
  <2>4. QED
    BY <2>3
<1>3. Answered(s) /\ Head(s).type = "gotIp" => At(Tail(s), "lostIp") # {}
  <2> SUFFICES ASSUME Answered(s), Head(s).type = "gotIp" PROVE At(Tail(s), "lostIp") # {}
    OBVIOUS
  <2>1. PICK j \in At(s, "lostIp") : 1 < j
    BY AtTail DEF Answered
  <2>2. j \in 1 .. Len(s) /\ j # 1
    BY <2>1, AtTail
  <2>3. QED
    BY <2>1, <2>2, AtTail
<1>4. QED
  BY <1>1, <1>2, <1>3

LEMMA NewsAppend ==
  ASSUME NEW s \in Seq(EventTypes), NEW e \in EventTypes
  PROVE  /\ \A t : At(s, t) # {} \/ e.type = t => At(Append(s, e), t) # {}
         /\ Answered(s) /\ e.type # "gotIp" => Answered(Append(s, e))
<1>1. \A t : At(s, t) # {} \/ e.type = t => At(Append(s, e), t) # {}
  BY AtAppend
<1>2. Answered(s) /\ e.type # "gotIp" => Answered(Append(s, e))
  BY AtAppend DEF Answered
<1>3. QED
  BY <1>1, <1>2
-----------------------------------------------------------------------------
(* Types. *)

LEMMA EventKinds ==
  /\ \A t \in {"connected", "disconnected", "lostIp", "scanDone", "apJoin", "apLeave"} :
        [type |-> t] \in EventTypes
  /\ \A ip \in Addresses \ {"NONE"}, gw \in BOOLEAN :
        [type |-> "gotIp", ip |-> ip, gw |-> gw] \in EventTypes
  BY DEF EventTypes

LEMMA PolicyTypes ==
  /\ Unset \in AddrConfigs
  /\ \A last \in AddrConfigs, use \in BOOLEAN : net_policy_select_fallback(last, use) \in AddrConfigs
  /\ \A known \in AddrConfigs, l \in AddrConfigs, c \in BOOLEAN :
        net_policy_capture_lease(known, l, c) \in AddrConfigs
  BY DEF Unset, AddrConfigs, Addresses, Resolvers, net_policy_select_fallback,
     net_policy_capture_lease, net_ipv4_is_usable

\* The queue after an event is posted or handled.
LEMMA QueueTypes ==
  ASSUME TypeOK
  PROVE  /\ \A e \in EventTypes : Post(e) => /\ events' \in Seq(EventTypes)
                                            /\ Len(events') <= MAX_EVENTS
         /\ events # <<>> => /\ Tail(events) \in Seq(EventTypes) /\ Len(Tail(events)) = Len(events) - 1
                             /\ Len(Tail(events)) <= MAX_EVENTS /\ Head(events) \in EventTypes
         /\ Len(events) \in Nat
  BY AppendProperties, HeadTailProperties, LenProperties, NetAssumption DEF Post, TypeOK

\* The operations of esp-netif keep the types of the interface and of the queue.
LEMMA IfaceTypes ==
  ASSUME TypeOK
  PROVE  /\ dhcpc_start \/ dhcpc_stop \/ NetifDown =>
               addr' \in Addresses /\ dns' \in Resolvers /\ lost' \in BOOLEAN
               /\ dhcp' \in {"INIT", "STARTED", "STOPPED"}
         /\ \A b \in AddrConfigs : b.ip # "NONE" /\ StopAndSet(b) =>
               /\ addr' \in Addresses /\ dns' \in Resolvers /\ lost' \in BOOLEAN
               /\ dhcp' \in {"INIT", "STARTED", "STOPPED"}
               /\ events' \in Seq(EventTypes) /\ Len(events') <= MAX_EVENTS
         /\ DropAddress => addr' \in Addresses /\ lost' \in BOOLEAN
         /\ Connect => link' \in {"idle", "connecting", "up"}
         /\ Disconnect => /\ link' \in {"idle", "connecting", "up"}
                          /\ events' \in Seq(EventTypes) /\ Len(events') <= MAX_EVENTS
<1>1. DropAddress => addr' \in Addresses /\ lost' \in BOOLEAN
  BY DEF DropAddress, TypeOK, Addresses
<1>2. dhcpc_start \/ dhcpc_stop \/ NetifDown =>
               addr' \in Addresses /\ dns' \in Resolvers /\ lost' \in BOOLEAN
               /\ dhcp' \in {"INIT", "STARTED", "STOPPED"}
  BY <1>1 DEF dhcpc_start, dhcpc_stop, NetifDown, TypeOK
<1>3. \A b \in AddrConfigs : b.ip # "NONE" /\ StopAndSet(b) =>
               /\ addr' \in Addresses /\ dns' \in Resolvers /\ lost' \in BOOLEAN
               /\ dhcp' \in {"INIT", "STARTED", "STOPPED"}
               /\ events' \in Seq(EventTypes) /\ Len(events') <= MAX_EVENTS
  <2> TAKE b \in AddrConfigs
  <2> HAVE b.ip # "NONE" /\ StopAndSet(b)
  <2>1. b.ip \in Addresses \ {"NONE"} /\ b.gw \in BOOLEAN /\ b.dns \in Resolvers
    BY DEF AddrConfigs
  <2>2. [type |-> "gotIp", ip |-> b.ip, gw |-> b.gw] \in EventTypes
    BY <2>1, EventKinds
  <2>3. CASE link = "up"
    <3>1. Post([type |-> "gotIp", ip |-> b.ip, gw |-> b.gw])
      BY <2>3 DEF StopAndSet
    <3>2. events' \in Seq(EventTypes) /\ Len(events') <= MAX_EVENTS
      BY <2>2, <3>1, QueueTypes
    <3>3. QED
      BY <2>1, <2>3, <3>2 DEF StopAndSet, TypeOK
  <2>4. CASE link # "up"
    BY <1>1, <2>4 DEF StopAndSet, TypeOK
  <2>5. QED
    BY <2>3, <2>4
<1>4. Connect => link' \in {"idle", "connecting", "up"}
  BY DEF Connect, TypeOK
<1>5. Disconnect => /\ link' \in {"idle", "connecting", "up"}
                    /\ events' \in Seq(EventTypes) /\ Len(events') <= MAX_EVENTS
  <2>1. [type |-> "disconnected"] \in EventTypes
    BY EventKinds
  <2>2. CASE link = "idle"
    BY <2>2 DEF Disconnect, TypeOK
  <2>3. CASE link # "idle"
    BY <2>1, <2>3, QueueTypes DEF Disconnect
  <2>4. QED
    BY <2>2, <2>3
<1>6. QED
  BY <1>1, <1>2, <1>3, <1>4, <1>5

LEMMA TypeOfRadio == ASSUME TypeOK, RadioStep PROVE TypeOK'
<1> USE DEF router, iface, conn, task, timer, lease, ap, unit
<1>1. CASE AssocSucceeds
  <2>1. events' \in Seq(EventTypes) /\ Len(events') <= MAX_EVENTS
    BY <1>1, QueueTypes, EventKinds DEF AssocSucceeds
  <2>2. QED
    BY <1>1, <2>1 DEF AssocSucceeds, TypeOK
<1>2. CASE LinkFails
  <2>1. events' \in Seq(EventTypes) /\ Len(events') <= MAX_EVENTS
    BY <1>2, QueueTypes, EventKinds DEF LinkFails
  <2>2. QED
    BY <1>2, <2>1 DEF LinkFails, TypeOK
<1>3. CASE DhcpOffer
  <2>1. PICK l \in Leases :
         /\ addr' = "LEASE"
         /\ dns' = IF l.dns = "NONE" THEN dns ELSE l.dns
         /\ Post([type |-> "gotIp", ip |-> "LEASE", gw |-> l.gw])
    BY <1>3 DEF DhcpOffer
  <2>2. l.gw \in BOOLEAN /\ l.dns \in Resolvers /\ "LEASE" \in Addresses \ {"NONE"}
    BY NetAssumption DEF Resolvers, Addresses
  <2>3. events' \in Seq(EventTypes) /\ Len(events') <= MAX_EVENTS
    BY <2>1, <2>2, QueueTypes, EventKinds
  <2>4. QED
    BY <1>3, <2>1, <2>2, <2>3 DEF DhcpOffer, TypeOK
<1>4. CASE LeaseExpires
  BY <1>4, IfaceTypes DEF LeaseExpires, TypeOK
<1>5. CASE IpLostTimer
  <2>1. events' \in Seq(EventTypes) /\ Len(events') <= MAX_EVENTS
    BY <1>5, QueueTypes, EventKinds DEF IpLostTimer, TypeOK
  <2>2. lost' \in BOOLEAN /\ UNCHANGED <<router, link, addr, dns, dhcp, unit>>
    BY <1>5 DEF IpLostTimer
  <2>3. QED
    BY <2>1, <2>2 DEF TypeOK
<1>6. QED
  BY <1>1, <1>2, <1>3, <1>4, <1>5 DEF RadioStep

LEMMA TypeOfHandler ==
  ASSUME TypeInv, event_handler, clients_connected_to_ap' \in -MaxChanges..MaxChanges
  PROVE  TypeOK'
<1> USE DEF router, iface, conn, task, timer, lease, ap, TypeInv
<1>0. events # <<>> /\ Head(events) \in EventTypes
      /\ Tail(events) \in Seq(EventTypes) /\ Len(Tail(events)) <= MAX_EVENTS
  BY QueueTypes DEF event_handler, Handles, IgnoresWifiEvent, HandleScanDone, HandleConnected,
     HandleDisconnected, IgnoresDisconnect, HandleApClient, HandleGotIp, HandleLostIp
<1>1. CASE IgnoresWifiEvent
  <2>1. /\ addr' \in Addresses /\ dns' \in Resolvers /\ lost' \in BOOLEAN
        /\ dhcp' \in {"INIT", "STARTED", "STOPPED"} /\ dropped' \in BOOLEAN
    BY <1>1, IfaceTypes DEF IgnoresWifiEvent, TypeOK
  <2>2. QED
    BY <1>0, <1>1, <2>1 DEF IgnoresWifiEvent, TypeOK
<1>2. CASE HandleScanDone
  <2>1. is_scanning' \in BOOLEAN
    BY <1>2 DEF HandleScanDone
  <2>2. QED
    BY <1>0, <1>2, <2>1 DEF HandleScanDone, TypeOK
<1>3. CASE HandleConnected
  <2>1. retry' \in BOOLEAN /\ ipTimer' \in BOOLEAN
    BY <1>3 DEF HandleConnected
  <2>2. QED
    BY <1>0, <1>3, <2>1, IfaceTypes, NetAssumption DEF HandleConnected, TypeOK
<1>4. CASE HandleDisconnected
  <2>1. s_retry_num' \in 0..SOFTAP_RETRIES + 1 /\ apMode' \in BOOLEAN
    BY <1>4, NetAssumption DEF HandleDisconnected, TypeOK
  <2>2. is_connected' \in BOOLEAN /\ ipTimer' \in BOOLEAN /\ retry' \in BOOLEAN
    BY <1>4 DEF HandleDisconnected
  <2>3. QED
    BY <1>0, <1>4, <2>1, <2>2, IfaceTypes DEF HandleDisconnected, TypeOK
<1>5. CASE IgnoresDisconnect
  BY <1>0, <1>5, IfaceTypes DEF IgnoresDisconnect, TypeOK
<1>6. CASE HandleApClient
  BY <1>0, <1>6 DEF HandleApClient, TypeOK
<1>7. CASE HandleGotIp
  <2>1. events' \in Seq(EventTypes) /\ Len(events') <= MAX_EVENTS
    BY <1>0, <1>7, EventKinds, QueueTypes, AppendProperties DEF HandleGotIp, TypeOK
  <2>2. Head(events).ip \in Addresses /\ Head(events).gw \in BOOLEAN
    BY <1>0, <1>7 DEF HandleGotIp, Handles, EventTypes
  <2>3. [ip |-> Head(events).ip, gw |-> Head(events).gw, dns |-> dns] \in AddrConfigs
    BY <2>2 DEF AddrConfigs, TypeOK
  <2>4. lastLease' \in AddrConfigs
    BY <1>7, <2>3, PolicyTypes DEF HandleGotIp, TypeOK
  <2>5. s_reassert' \in [have_fallback : BOOLEAN, bound : AddrConfigs]
    BY <1>7, PolicyTypes DEF HandleGotIp, LeaseWins
  <2>6. /\ s_addr_is_fallback' \in BOOLEAN /\ probeDue' \in BOOLEAN /\ surveyDone' \in BOOLEAN
        /\ ipTimer' \in BOOLEAN /\ apMode' \in BOOLEAN /\ apClient' \in BOOLEAN
        /\ is_connected' \in BOOLEAN
    BY <1>7 DEF HandleGotIp
  <2>7. QED
    BY <1>7, <2>1, <2>4, <2>5, <2>6, NetAssumption DEF HandleGotIp, TypeOK
<1>8. CASE HandleLostIp
  <2>1. s_reassert' \in [have_fallback : BOOLEAN, bound : AddrConfigs]
    BY <1>8, PolicyTypes DEF HandleLostIp, LeaseWins
  <2>2. is_connected' \in BOOLEAN /\ probeDue' \in BOOLEAN /\ ipTimer' \in BOOLEAN
    BY <1>8 DEF HandleLostIp
  <2>3. QED
    BY <1>0, <1>8, <2>1, <2>2, IfaceTypes, NetAssumption DEF HandleLostIp, TypeOK
<1>9. QED
  BY <1>1, <1>2, <1>3, <1>4, <1>5, <1>6, <1>7, <1>8 DEF event_handler

LEMMA TypeOfTimer == ASSUME TypeOK, BindInv, ip_timeout_callback PROVE TypeOK'
<1> USE DEF router, radio, iface, conn, task, timer, lease, ap, unitButLadder, Ladder
<1>1. CASE TimerWhileConnected
  <2>1. ipTimer' \in BOOLEAN /\ dhcp_retry_count' \in 0..DHCP_ESCALATION_CYCLE
    BY <1>1, NetAssumption DEF TimerWhileConnected, TypeOK
  <2>2. /\ addr' \in Addresses /\ dns' \in Resolvers /\ lost' \in BOOLEAN
        /\ dhcp' \in {"INIT", "STARTED", "STOPPED"}
    BY <1>1, IfaceTypes DEF TimerWhileConnected, TypeOK
  <2>3. QED
    BY <1>1, <2>1, <2>2 DEF TimerWhileConnected, TypeOK
<1>2. CASE TimerTimesOut
  <2>1. dhcp_retry_count' \in 0..DHCP_ESCALATION_CYCLE
    BY <1>2, NetAssumption DEF TimerTimesOut, TypeOK
  <2>2. ipTimer' \in BOOLEAN
    BY <1>2 DEF TimerTimesOut
  <2>3. QED
    BY <1>2, <2>1, <2>2 DEF TimerTimesOut, TypeOK
<1>3. CASE try_ip_fallback_ladder
  <2>1. bind' \in AddrConfigs
    BY <1>3, PolicyTypes, NetAssumption DEF try_ip_fallback_ladder, TypeOK
  <2>2. s_addr_is_fallback' \in BOOLEAN /\ ladder' \in {"failed", "apply"}
    BY <1>3 DEF try_ip_fallback_ladder, TypeOK
  <2>3. QED
    BY <1>3, <2>1, <2>2 DEF try_ip_fallback_ladder, TypeOK
<1>4. CASE ApplyAddress
  BY <1>4, IfaceTypes DEF ApplyAddress, TypeOK, BindInv
<1>5. CASE ApplyFails
  <2>1. s_addr_is_fallback' \in BOOLEAN
    BY <1>5 DEF ApplyFails
  <2>2. QED
    BY <1>5, <2>1, PolicyTypes DEF ApplyFails, TypeOK
<1>6. CASE ApplySucceeds
  <2>1. [bind EXCEPT !.ip = addr] \in AddrConfigs
    BY DEF TypeOK, AddrConfigs
  <2>2. s_reassert' \in [have_fallback : BOOLEAN, bound : AddrConfigs] /\ apMode' \in BOOLEAN
    BY <1>6, <2>1 DEF ApplySucceeds, TypeOK
  <2>3. QED
    BY <1>6, <2>2, PolicyTypes DEF ApplySucceeds, TypeOK
<1>7. CASE LadderDone
  BY <1>7, NetAssumption DEF LadderDone, TypeOK
<1>8. CASE LadderFailed
  <2>1. /\ addr' \in Addresses /\ dns' \in Resolvers /\ lost' \in BOOLEAN
        /\ dhcp' \in {"INIT", "STARTED", "STOPPED"}
    BY <1>8, IfaceTypes DEF LadderFailed, TypeOK
  <2>2. /\ link' \in {"idle", "connecting", "up"}
        /\ events' \in Seq(EventTypes) /\ Len(events') <= MAX_EVENTS
    BY <1>8, IfaceTypes DEF LadderFailed, TypeOK
  <2>3. /\ is_connected' \in BOOLEAN /\ ipTimer' \in BOOLEAN /\ apMode' \in BOOLEAN
        /\ survey' \in {"no", "scan", "rejoin"}
        /\ ladder' \in {"bounce", "rejoin", "no"}
    BY <1>8 DEF LadderFailed, TypeOK
  <2>4. QED
    BY <1>8, <2>1, <2>2, <2>3 DEF LadderFailed, TypeOK
<1>9. CASE LadderBounces
  BY <1>9, IfaceTypes DEF LadderBounces, TypeOK
<1>10. CASE LadderRejoins
  BY <1>10, IfaceTypes DEF LadderRejoins, TypeOK
<1>11. QED
  BY <1>1, <1>2, <1>3, <1>4, <1>5, <1>6, <1>7, <1>8, <1>9, <1>10 DEF ip_timeout_callback

LEMMA TypeOfOthers ==
  ASSUME TypeOK, BindInv,
         \/ ip_reassert_task \/ mesh_survey_task \/ wifi_retry_timer_cb \/ ScanEnds
         \/ RouterChanges \/ AddressVanishes \/ UserStep
  PROVE  TypeOK'
<1> USE DEF router, radio, iface, conn, task, timer, lease, ap, unit, Changes
<1>0. changes > 0 => changes - 1 \in 0..MaxChanges
  BY NetAssumption DEF TypeOK
<1>1. CASE ip_reassert_check
  BY <1>1 DEF ip_reassert_check, TypeOK
<1>2. CASE Reassert
  <2>1. watch \in AddrConfigs /\ watch.ip # "NONE" /\ StopAndSet(watch) /\ watch' = Unset
    BY <1>2 DEF Reassert, TypeOK, BindInv
  <2>2. /\ addr' \in Addresses /\ dns' \in Resolvers /\ lost' \in BOOLEAN
        /\ dhcp' \in {"INIT", "STARTED", "STOPPED"}
        /\ events' \in Seq(EventTypes) /\ Len(events') <= MAX_EVENTS
    BY <2>1, IfaceTypes
  <2>3. QED
    BY <1>2, <2>1, <2>2, PolicyTypes DEF Reassert, TypeOK
<1>3. CASE SurveyScans
  BY <1>3, IfaceTypes DEF SurveyScans, TypeOK
<1>4. CASE SurveyRejoins
  BY <1>4, IfaceTypes, QueueTypes, EventKinds DEF SurveyRejoins, TypeOK
<1>5. CASE wifi_retry_timer_cb
  <2>1. retry' \in BOOLEAN /\ link' \in {"idle", "connecting", "up"}
    BY <1>5, IfaceTypes DEF wifi_retry_timer_cb, TypeOK
  <2>2. QED
    BY <1>5, <2>1 DEF wifi_retry_timer_cb, TypeOK
<1>6. CASE ScanEnds
  <2>1. is_scanning' \in BOOLEAN /\ events' \in Seq(EventTypes) /\ Len(events') <= MAX_EVENTS
    BY <1>6, QueueTypes, EventKinds DEF ScanEnds, TypeOK
  <2>2. QED
    BY <1>6, <2>1 DEF ScanEnds, TypeOK
<1>7. CASE RouterChanges
  <2>1. apOn' \in BOOLEAN /\ serverOn' \in BOOLEAN
    BY <1>7 DEF RouterChanges, TypeOK
  <2>2. QED
    BY <1>0, <1>7, <2>1 DEF RouterChanges, TypeOK
<1>8. CASE AddressVanishes
  BY <1>0, <1>8, IfaceTypes DEF AddressVanishes, TypeOK
<1>9. CASE wifi_scan
  <2>1. scans' \in 0..MaxScans
    BY <1>9, NetAssumption DEF wifi_scan, TypeOK
  <2>2. /\ link' \in {"idle", "connecting", "up"}
        /\ events' \in Seq(EventTypes) /\ Len(events') <= MAX_EVENTS
    BY <1>9, IfaceTypes DEF wifi_scan, TypeOK
  <2>3. QED
    BY <1>0, <1>9, <2>1, <2>2 DEF wifi_scan, TypeOK
<1>10. CASE toggle_wifi_softap
  <2>1. apMode' \in BOOLEAN /\ apClient' \in BOOLEAN
        /\ events' \in Seq(EventTypes) /\ Len(events') <= MAX_EVENTS
    BY <1>10, QueueTypes, EventKinds DEF toggle_wifi_softap, TypeOK
  <2>2. QED
    BY <1>0, <1>10, <2>1 DEF toggle_wifi_softap, TypeOK
<1>11. CASE ApClientMoves
  <2>1. apClient' \in BOOLEAN
    BY <1>11 DEF ApClientMoves
  <2>2. events' \in Seq(EventTypes) /\ Len(events') <= MAX_EVENTS
    BY <1>11, QueueTypes, EventKinds DEF ApClientMoves
  <2>3. QED
    BY <1>0, <1>11, <2>1, <2>2 DEF ApClientMoves, TypeOK
<1>12. CASE wifi_apply_hostname
  <2>1. addr' \in Addresses /\ lost' \in BOOLEAN
    BY <1>12, IfaceTypes DEF wifi_apply_hostname, TypeOK
  <2>2. QED
    BY <1>0, <1>12, <2>1 DEF wifi_apply_hostname, TypeOK
<1>13. QED
  BY <1>1, <1>2, <1>3, <1>4, <1>5, <1>6, <1>7, <1>8, <1>9, <1>10, <1>11, <1>12
     DEF ip_reassert_task, mesh_survey_task, UserStep
-----------------------------------------------------------------------------
(* The count of the access point's clients. *)

\* What counts: the events of clients, a client that is there, and what is left of the
\* changes.
LEMMA CountKept ==
  ASSUME TypeInv, UNCHANGED <<apClient, clients_connected_to_ap, changes>>,
         Count(events', "apJoin") = Count(events, "apJoin"),
         Count(events', "apLeave") = Count(events, "apLeave")
  PROVE  CountInv'
  BY DEF TypeInv, CountInv, Departs

LEMMA CountOfPost ==
  ASSUME TypeOK
  PROVE  \A e \in EventTypes, t \in {"apJoin", "apLeave"} :
           /\ Post(e) => Count(events', t) = Count(events, t) + (IF e.type = t THEN 1 ELSE 0)
           /\ Count(events, t) \in Nat
<1> TAKE e \in EventTypes, t \in {"apJoin", "apLeave"}
<1>1. events \in Seq(EventTypes)
  BY DEF TypeOK
<1>2. Count(events, t) \in Nat
  BY <1>1, AtAppend
<1>3. Count(Append(events, e), t) = Count(events, t) + (IF e.type = t THEN 1 ELSE 0)
  BY <1>1, CountAppend
<1>4. QED
  BY <1>2, <1>3 DEF Post

LEMMA CountOfHandled ==
  ASSUME TypeOK, events # <<>>
  PROVE  \A t : /\ Count(Tail(events), t) = Count(events, t) - (IF Head(events).type = t THEN 1 ELSE 0)
                /\ Count(events, t) \in Nat
<1> TAKE t
<1>1. events \in Seq(EventTypes) /\ Head(events) \in EventTypes /\ Tail(events) \in Seq(EventTypes)
  BY HeadTailProperties DEF TypeOK
<1>2. Count(events, t) \in Nat /\ Count(Tail(events), t) \in Nat
  BY <1>1, AtAppend
<1>3. Count(events, t) = Count(Tail(events), t) + (IF Head(events).type = t THEN 1 ELSE 0)
  BY <1>1, CountTail
<1>4. QED
  BY <1>2, <1>3

\* Posting an event that is no client's, or handling one, leaves the counts alone.
LEMMA OtherEvents ==
  ASSUME TypeInv
  PROVE  /\ \A e \in EventTypes, t \in {"apJoin", "apLeave"} :
              Post(e) /\ e.type \notin {"apJoin", "apLeave"} => Count(events', t) = Count(events, t)
         /\ events # <<>> /\ Head(events).type \notin {"apJoin", "apLeave"} =>
              \A t \in {"apJoin", "apLeave"} : Count(Tail(events), t) = Count(events, t)
<1>1. TypeOK
  BY DEF TypeInv
<1>2. \A e \in EventTypes, t \in {"apJoin", "apLeave"} :
        Post(e) /\ e.type \notin {"apJoin", "apLeave"} => Count(events', t) = Count(events, t)
  <2> TAKE e \in EventTypes, t \in {"apJoin", "apLeave"}
  <2>1. Count(events, t) \in Nat
    BY <1>1, CountOfPost
  <2>2. Post(e) => Count(events', t) = Count(events, t) + (IF e.type = t THEN 1 ELSE 0)
    BY <1>1, CountOfPost
  <2>3. QED
    BY <2>1, <2>2
<1>3. events # <<>> /\ Head(events).type \notin {"apJoin", "apLeave"} =>
        \A t \in {"apJoin", "apLeave"} : Count(Tail(events), t) = Count(events, t)
  <2> SUFFICES ASSUME events # <<>>, Head(events).type \notin {"apJoin", "apLeave"},
                      NEW t \in {"apJoin", "apLeave"}
               PROVE  Count(Tail(events), t) = Count(events, t)
    OBVIOUS
  <2>1. /\ Count(Tail(events), t) = Count(events, t) - (IF Head(events).type = t THEN 1 ELSE 0)
        /\ Count(events, t) \in Nat
    BY <1>1, CountOfHandled
  <2>2. QED
    BY <2>1
<1>4. QED
  BY <1>2, <1>3

LEMMA PlainPosts ==
  ASSUME TypeInv
  PROVE  /\ \A t \in {"connected", "disconnected", "lostIp", "scanDone"} : Post([type |-> t]) =>
              /\ Count(events', "apJoin") = Count(events, "apJoin")
              /\ Count(events', "apLeave") = Count(events, "apLeave")
         /\ \A ip \in Addresses \ {"NONE"}, gw \in BOOLEAN :
              Post([type |-> "gotIp", ip |-> ip, gw |-> gw]) =>
                /\ Count(events', "apJoin") = Count(events, "apJoin")
                /\ Count(events', "apLeave") = Count(events, "apLeave")
         /\ Disconnect => /\ Count(events', "apJoin") = Count(events, "apJoin")
                          /\ Count(events', "apLeave") = Count(events, "apLeave")
         /\ \A b \in AddrConfigs : b.ip # "NONE" /\ StopAndSet(b) =>
              /\ Count(events', "apJoin") = Count(events, "apJoin")
              /\ Count(events', "apLeave") = Count(events, "apLeave")
<1>1. \A t \in {"connected", "disconnected", "lostIp", "scanDone"} : Post([type |-> t]) =>
        /\ Count(events', "apJoin") = Count(events, "apJoin")
        /\ Count(events', "apLeave") = Count(events, "apLeave")
  <2> TAKE t \in {"connected", "disconnected", "lostIp", "scanDone"}
  <2> HAVE Post([type |-> t])
  <2>1. [type |-> t] \in EventTypes /\ [type |-> t].type \notin {"apJoin", "apLeave"}
    BY EventKinds
  <2>2. QED
    BY <2>1, OtherEvents
<1>2. \A ip \in Addresses \ {"NONE"}, gw \in BOOLEAN :
        Post([type |-> "gotIp", ip |-> ip, gw |-> gw]) =>
          /\ Count(events', "apJoin") = Count(events, "apJoin")
          /\ Count(events', "apLeave") = Count(events, "apLeave")
  <2> TAKE ip \in Addresses \ {"NONE"}, gw \in BOOLEAN
  <2> DEFINE e == [type |-> "gotIp", ip |-> ip, gw |-> gw]
  <2>1. e \in EventTypes /\ e.type \notin {"apJoin", "apLeave"}
    BY EventKinds
  <2> HIDE DEF e
  <2>2. QED
    BY <2>1, OtherEvents DEF e
<1>3. Disconnect => /\ Count(events', "apJoin") = Count(events, "apJoin")
                    /\ Count(events', "apLeave") = Count(events, "apLeave")
  BY <1>1 DEF Disconnect
<1>4. \A b \in AddrConfigs : b.ip # "NONE" /\ StopAndSet(b) =>
        /\ Count(events', "apJoin") = Count(events, "apJoin")
        /\ Count(events', "apLeave") = Count(events, "apLeave")
  <2> TAKE b \in AddrConfigs
  <2> HAVE b.ip # "NONE" /\ StopAndSet(b)
  <2>1. b.ip \in Addresses \ {"NONE"} /\ b.gw \in BOOLEAN
    BY DEF AddrConfigs
  <2>2. QED
    BY <1>2, <2>1 DEF StopAndSet
<1>5. QED
  BY <1>1, <1>2, <1>3, <1>4

LEMMA CountOfRadio == ASSUME TypeInv, RadioStep PROVE CountInv'
<1> USE DEF router, unit, ap, TypeInv
<1>1. UNCHANGED <<apClient, clients_connected_to_ap, changes>>
  BY DEF RadioStep, AssocSucceeds, LinkFails, DhcpOffer, LeaseExpires, IpLostTimer
<1>2. /\ Count(events', "apJoin") = Count(events, "apJoin")
      /\ Count(events', "apLeave") = Count(events, "apLeave")
  <2>1. CASE AssocSucceeds
    BY <2>1, PlainPosts DEF AssocSucceeds
  <2>2. CASE LinkFails
    BY <2>2, PlainPosts DEF LinkFails
  <2>3. CASE DhcpOffer
    <3>1. PICK l \in Leases : Post([type |-> "gotIp", ip |-> "LEASE", gw |-> l.gw])
      BY <2>3 DEF DhcpOffer
    <3>2. l.gw \in BOOLEAN /\ "LEASE" \in Addresses \ {"NONE"}
      BY NetAssumption DEF Addresses
    <3>3. QED
      BY <3>1, <3>2, PlainPosts
  <2>4. CASE LeaseExpires
    BY <2>4 DEF LeaseExpires
  <2>5. CASE IpLostTimer
    BY <2>5, PlainPosts DEF IpLostTimer
  <2>6. QED
    BY <2>1, <2>2, <2>3, <2>4, <2>5 DEF RadioStep
<1>3. QED
  BY <1>1, <1>2, CountKept

LEMMA CountOfHandler ==
  ASSUME TypeInv, event_handler
  PROVE  CountInv' /\ clients_connected_to_ap' \in -MaxChanges..MaxChanges
<1> USE DEF router, ap, TypeInv
<1>a. events # <<>> /\ Head(events) \in EventTypes /\ Tail(events) \in Seq(EventTypes)
      /\ changes' = changes /\ changes \in 0..MaxChanges /\ MaxChanges \in Nat
      /\ clients_connected_to_ap \in -MaxChanges..MaxChanges
  BY QueueTypes, NetAssumption DEF event_handler, Handles, IgnoresWifiEvent, HandleScanDone,
     HandleConnected, HandleDisconnected, IgnoresDisconnect, HandleApClient, HandleGotIp,
     HandleLostIp, TypeOK
<1> DEFINE nj == Count(events, "apJoin")
           nl == Count(events, "apLeave")
           tj == Count(Tail(events), "apJoin")
           tl == Count(Tail(events), "apLeave")
<1>b. /\ tj = nj - (IF Head(events).type = "apJoin" THEN 1 ELSE 0)
      /\ tl = nl - (IF Head(events).type = "apLeave" THEN 1 ELSE 0)
      /\ nj \in Nat /\ nl \in Nat
  BY <1>a, CountOfHandled
<1>c. tj \in Nat /\ tl \in Nat
  BY <1>a, AtAppend
<1>d. /\ clients_connected_to_ap + nj <= MaxChanges - changes
      /\ nl + Departs - clients_connected_to_ap <= MaxChanges - changes
      /\ Departs \in {0, 1}
  BY DEF CountInv, Departs
<1> HIDE DEF nj, nl, tj, tl
<1>1. CASE IgnoresWifiEvent
  <2>1. UNCHANGED <<apClient, clients_connected_to_ap>> /\ events' = Tail(events)
    BY <1>1 DEF IgnoresWifiEvent
  <2>2. Count(events', "apJoin") <= nj /\ Count(events', "apLeave") <= nl
    BY <1>b, <1>c, <2>1 DEF tj, tl
  <2>3. Count(events', "apJoin") \in Nat /\ Count(events', "apLeave") \in Nat
    BY <1>c, <2>1 DEF tj, tl
  <2>4. QED
    BY <1>a, <1>b, <1>d, <2>1, <2>2, <2>3 DEF CountInv, Departs
<1>2. CASE HandleScanDone \/ HandleConnected \/ HandleDisconnected \/ IgnoresDisconnect \/ HandleLostIp
  <2>1. UNCHANGED <<apClient, clients_connected_to_ap>> /\ events' = Tail(events)
        /\ Head(events).type \notin {"apJoin", "apLeave"}
    BY <1>2 DEF HandleScanDone, HandleConnected, HandleDisconnected, IgnoresDisconnect,
       HandleLostIp, Handles
  <2>2. QED
    BY <1>a, <2>1, OtherEvents, CountKept
<1>3. CASE HandleApClient
  <2>1. apClient' = apClient /\ events' = Tail(events) /\ Head(events).type \in {"apJoin", "apLeave"}
        /\ clients_connected_to_ap' =
             clients_connected_to_ap + (IF Head(events).type = "apJoin" THEN 1 ELSE -1)
    BY <1>3 DEF HandleApClient, Handles
  <2>2. Count(events', "apJoin") = tj /\ Count(events', "apLeave") = tl /\ Departs' = Departs
    BY <2>1 DEF tj, tl, Departs
  <2>3. CountInv'
    BY <1>a, <1>b, <1>c, <1>d, <2>1, <2>2 DEF CountInv
  <2>4. QED
    BY <1>a, <1>b, <1>c, <1>d, <2>1, <2>2, <2>3 DEF CountInv
<1>4. CASE HandleGotIp
  <2>1. Head(events).type \notin {"apJoin", "apLeave"} /\ apClient' = FALSE
        /\ clients_connected_to_ap' = clients_connected_to_ap
        /\ events' = IF apClient THEN Append(Tail(events), [type |-> "apLeave"]) ELSE Tail(events)
    BY <1>4 DEF HandleGotIp, Handles
  <2>2. tj = nj /\ tl = nl /\ Departs' = 0
    BY <1>b, <2>1 DEF Departs
  <2>3. CASE apClient
    <3> DEFINE e == [type |-> "apLeave"]
    <3>1. e \in EventTypes /\ e.type = "apLeave" /\ events' = Append(Tail(events), e)
      BY <2>1, <2>3, EventKinds
    <3> HIDE DEF e
    <3>2. Count(events', "apJoin") = tj /\ Count(events', "apLeave") = tl + 1
      <4>1. \A t : Count(events', t) = Count(Tail(events), t) + (IF e.type = t THEN 1 ELSE 0)
        BY <1>a, <3>1, CountAppend
      <4>2. QED
        BY <1>c, <3>1, <4>1 DEF tj, tl
    <3>3. Departs = 1
      BY <2>3 DEF Departs
    <3>4. QED
      BY <1>a, <1>b, <1>d, <2>1, <2>2, <3>2, <3>3 DEF CountInv
  <2>4. CASE ~apClient
    <3>1. Count(events', "apJoin") = tj /\ Count(events', "apLeave") = tl
      BY <2>1, <2>4 DEF tj, tl
    <3>2. QED
      BY <1>a, <1>b, <1>d, <2>1, <2>2, <3>1 DEF CountInv
  <2>5. QED
    BY <2>3, <2>4
<1>5. QED
  BY <1>1, <1>2, <1>3, <1>4 DEF event_handler

LEMMA CountOfTimer == ASSUME TypeInv, BindInv, ip_timeout_callback PROVE CountInv'
<1> USE DEF router, radio, conn, lease, ap, unitButLadder
<1>1. UNCHANGED <<apClient, clients_connected_to_ap, changes>>
  BY DEF ip_timeout_callback, TimerWhileConnected, TimerTimesOut, try_ip_fallback_ladder,
     ApplyAddress, ApplyFails, ApplySucceeds, LadderDone, LadderFailed, LadderBounces, LadderRejoins
<1>2. /\ Count(events', "apJoin") = Count(events, "apJoin")
      /\ Count(events', "apLeave") = Count(events, "apLeave")
  <2>1. CASE ApplyAddress
    <3>1. bind \in AddrConfigs /\ bind.ip # "NONE" /\ StopAndSet(bind)
      BY <2>1 DEF ApplyAddress, TypeInv, TypeOK, BindInv, Ladder
    <3>2. QED
      BY <3>1, PlainPosts
  <2>2. CASE LadderFailed
    <3>1. Disconnect \/ UNCHANGED events
      BY <2>2 DEF LadderFailed
    <3>2. QED
      BY <3>1, PlainPosts
  <2>3. CASE ~ApplyAddress /\ ~LadderFailed
    <3>1. events' = events
      BY <2>3 DEF ip_timeout_callback, TimerWhileConnected, TimerTimesOut, try_ip_fallback_ladder,
         ApplyFails, ApplySucceeds, LadderDone, LadderBounces, LadderRejoins
    <3>2. QED
      BY <3>1
  <2>4. QED
    BY <2>1, <2>2, <2>3
<1>3. QED
  BY <1>1, <1>2, CountKept

LEMMA CountOfOthers ==
  ASSUME TypeInv, BindInv,
         \/ ip_reassert_task \/ mesh_survey_task \/ wifi_retry_timer_cb \/ ScanEnds
         \/ RouterChanges \/ AddressVanishes \/ UserStep
  PROVE  CountInv'
<1> USE DEF router, radio, conn, lease, ap, unit
<1> DEFINE Same == /\ Count(events', "apJoin") = Count(events, "apJoin")
                   /\ Count(events', "apLeave") = Count(events, "apLeave")
           nj == Count(events, "apJoin")
           nl == Count(events, "apLeave")
<1>a. /\ TypeOK /\ changes \in 0..MaxChanges /\ MaxChanges \in Nat
      /\ clients_connected_to_ap \in -MaxChanges..MaxChanges
      /\ clients_connected_to_ap + nj <= MaxChanges - changes
      /\ nl + Departs - clients_connected_to_ap <= MaxChanges - changes
      /\ Departs = IF apClient THEN 1 ELSE 0
  BY NetAssumption DEF TypeInv, TypeOK, CountInv, Departs
<1>b. nj \in Nat /\ nl \in Nat
  BY <1>a, CountOfPost, EventKinds
<1>c. \A t \in {"apJoin", "apLeave"} : Post([type |-> t]) =>
        /\ Count(events', "apJoin") = nj + (IF t = "apJoin" THEN 1 ELSE 0)
        /\ Count(events', "apLeave") = nl + (IF t = "apLeave" THEN 1 ELSE 0)
  <2> TAKE t \in {"apJoin", "apLeave"}
  <2> DEFINE e == [type |-> t]
  <2>1. e \in EventTypes /\ e.type = t
    BY EventKinds
  <2> HIDE DEF e
  <2>2. Post(e) => /\ Count(events', "apJoin") = nj + (IF e.type = "apJoin" THEN 1 ELSE 0)
                   /\ Count(events', "apLeave") = nl + (IF e.type = "apLeave" THEN 1 ELSE 0)
    BY <1>a, <2>1, CountOfPost
  <2>3. QED
    BY <2>1, <2>2 DEF e
<1> HIDE DEF nj, nl
<1>1. CASE Reassert
  <2>1. watch \in AddrConfigs /\ watch.ip # "NONE" /\ StopAndSet(watch)
    BY <1>1 DEF Reassert, TypeInv, TypeOK, BindInv
  <2>2. Same
    BY <2>1, PlainPosts
  <2>3. QED
    BY <1>1, <2>2, CountKept DEF Reassert
<1>2. CASE SurveyScans \/ SurveyRejoins \/ ScanEnds
  <2>1. Same
    <3>1. CASE SurveyScans
      BY <3>1, PlainPosts DEF SurveyScans
    <3>2. CASE SurveyRejoins
      BY <3>2, PlainPosts DEF SurveyRejoins
    <3>3. CASE ScanEnds
      BY <3>3, PlainPosts DEF ScanEnds
    <3>4. QED
      BY <1>2, <3>1, <3>2, <3>3
  <2>2. UNCHANGED <<apClient, clients_connected_to_ap, changes>>
    BY <1>2 DEF SurveyScans, SurveyRejoins, ScanEnds
  <2>3. QED
    BY <2>1, <2>2, CountKept
<1>3. CASE ip_reassert_check \/ wifi_retry_timer_cb
  <2>1. UNCHANGED <<events, apClient, clients_connected_to_ap, changes>>
    BY <1>3 DEF ip_reassert_check, wifi_retry_timer_cb
  <2>2. QED
    BY <2>1, CountKept
<1>4. CASE RouterChanges \/ AddressVanishes \/ wifi_scan \/ wifi_apply_hostname
  <2>1. changes' = changes - 1 /\ UNCHANGED <<apClient, clients_connected_to_ap>>
    BY <1>4 DEF RouterChanges, AddressVanishes, wifi_scan, wifi_apply_hostname, Changes
  <2>2. Same
    <3>1. CASE wifi_scan
      BY <3>1, PlainPosts DEF wifi_scan
    <3>2. CASE ~wifi_scan
      BY <1>4, <3>2 DEF RouterChanges, AddressVanishes, wifi_apply_hostname
    <3>3. QED
      BY <3>1, <3>2
  <2>3. Departs' = Departs /\ Count(events', "apJoin") = nj /\ Count(events', "apLeave") = nl
    BY <2>1, <2>2 DEF Departs, nj, nl
  <2>4. QED
    BY <1>a, <1>b, <2>1, <2>3 DEF CountInv
<1>5. CASE toggle_wifi_softap
  <2>1. /\ changes' = changes - 1 /\ apClient' = FALSE
        /\ clients_connected_to_ap' = clients_connected_to_ap
        /\ IF apClient THEN Post([type |-> "apLeave"]) ELSE UNCHANGED events
    BY <1>5 DEF toggle_wifi_softap, Changes
  <2>2. Departs' = 0 /\ Count(events', "apJoin") = nj
    BY <1>b, <1>c, <2>1 DEF Departs, nj
  <2>3. Count(events', "apLeave") = nl + Departs
    BY <1>a, <1>b, <1>c, <2>1 DEF nl
  <2>4. QED
    BY <1>a, <1>b, <2>1, <2>2, <2>3 DEF CountInv
<1>6. CASE ApClientMoves
  <2>1. /\ changes' = changes - 1 /\ apClient' = ~apClient
        /\ clients_connected_to_ap' = clients_connected_to_ap
        /\ Post([type |-> IF apClient THEN "apLeave" ELSE "apJoin"])
    BY <1>6 DEF ApClientMoves, Changes
  <2>2. CASE apClient
    <3>1. Departs' = 0 /\ Departs = 1
      BY <1>a, <2>1, <2>2 DEF Departs
    <3>2. Count(events', "apJoin") = nj /\ Count(events', "apLeave") = nl + 1
      BY <1>b, <1>c, <2>1, <2>2
    <3>3. QED
      BY <1>a, <1>b, <2>1, <3>1, <3>2 DEF CountInv
  <2>3. CASE ~apClient
    <3>1. Departs' = 1 /\ Departs = 0
      BY <1>a, <2>1, <2>3 DEF Departs
    <3>2. Count(events', "apJoin") = nj + 1 /\ Count(events', "apLeave") = nl
      BY <1>b, <1>c, <2>1, <2>3
    <3>3. QED
      BY <1>a, <1>b, <2>1, <3>1, <3>2 DEF CountInv
  <2>4. QED
    BY <2>2, <2>3
<1>7. QED
  BY <1>1, <1>2, <1>3, <1>4, <1>5, <1>6 DEF ip_reassert_task, mesh_survey_task, UserStep

LEMMA TypeStep == ASSUME TypeInv, BindInv, [Next]_vars PROVE TypeInv'
<1>0. TypeOK
  BY DEF TypeInv
<1>1. CASE RadioStep
  BY <1>0, <1>1, TypeOfRadio, CountOfRadio DEF TypeInv
<1>2. CASE event_handler
  BY <1>2, TypeOfHandler, CountOfHandler DEF TypeInv
<1>3. CASE ip_timeout_callback
  BY <1>0, <1>3, TypeOfTimer, CountOfTimer DEF TypeInv
<1>4. CASE \/ ip_reassert_task \/ mesh_survey_task \/ wifi_retry_timer_cb \/ ScanEnds
           \/ RouterChanges \/ AddressVanishes \/ UserStep
  BY <1>0, <1>4, TypeOfOthers, CountOfOthers DEF TypeInv
<1>5. CASE UNCHANGED vars
  BY <1>5 DEF vars, router, radio, iface, unit, conn, timer, task, lease, ap, TypeInv, TypeOK,
     CountInv, Departs
<1>6. QED
  BY <1>1, <1>2, <1>3, <1>4, <1>5 DEF Next

LEMMA InitHolds == Init => IInv
<1> SUFFICES ASSUME Init PROVE IInv
  OBVIOUS
<1>1. events = <<>> /\ events \in Seq(EventTypes) /\ Len(events) = 0
  BY EmptySeq DEF Init
<1>2. lastLease \in AddrConfigs
  <2>1. \A l \in Leases : [ip |-> "LEASE", gw |-> l.gw, dns |-> l.dns] \in AddrConfigs
    BY NetAssumption DEF AddrConfigs, Addresses, Resolvers
  <2>2. QED
    BY <2>1, PolicyTypes DEF Init
<1>3. /\ apOn \in BOOLEAN /\ serverOn \in BOOLEAN /\ lost \in BOOLEAN /\ is_connected \in BOOLEAN
      /\ retry \in BOOLEAN /\ ipTimer \in BOOLEAN /\ surveyDone \in BOOLEAN
      /\ s_addr_is_fallback \in BOOLEAN /\ probeDue \in BOOLEAN /\ apMode \in BOOLEAN
      /\ apClient \in BOOLEAN /\ is_scanning \in BOOLEAN /\ dropped \in BOOLEAN
  BY DEF Init
<1>4. s_reassert \in [have_fallback : BOOLEAN, bound : AddrConfigs]
  BY PolicyTypes DEF Init
<1>5. TypeOK
  BY <1>1, <1>2, <1>3, <1>4, PolicyTypes, NetAssumption DEF Init, TypeOK, Addresses, Resolvers
<1>6. \A t : At(events, t) = {} /\ Count(events, t) = 0
  BY <1>1, FS_EmptySet DEF At, Count
<1>7. CountInv
  BY <1>6, NetAssumption DEF Init, CountInv, Departs
<1>8. BindInv /\ TruthInv
  BY <1>6 DEF Init, BindInv, TruthInv, Answered
<1>9. QED
  BY <1>5, <1>7, <1>8 DEF IInv, TypeInv

LEMMA BindStep == ASSUME TypeInv, BindInv, [Next]_vars PROVE BindInv'
<1> USE DEF router, radio, iface, conn, task, timer, lease, ap, unit, unitButLadder
<1>1. CASE try_ip_fallback_ladder
  BY <1>1 DEF try_ip_fallback_ladder, net_policy_select_fallback, net_ipv4_is_usable, Ladder,
     BindInv, Unset
<1>2. CASE ApplySucceeds
  <2>1. s_reassert'.bound.ip = addr /\ ladder' = "finish" /\ watch' = watch /\ addr # "NONE"
    BY <1>2 DEF ApplySucceeds, Ladder, TypeInv, TypeOK, AddrConfigs
  <2>2. QED
    BY <2>1 DEF BindInv
<1>3. CASE ip_reassert_check
  BY <1>3 DEF ip_reassert_check, net_policy_should_reassert, BindInv
<1>4. CASE HandleGotIp
  BY <1>4 DEF HandleGotIp, LeaseWins, BindInv
<1>5. CASE HandleLostIp
  BY <1>5 DEF HandleLostIp, LeaseWins, BindInv
<1>6. CASE Reassert
  BY <1>6 DEF Reassert, BindInv
<1>7. CASE \/ TimerTimesOut \/ ApplyAddress \/ ApplyFails \/ LadderDone \/ LadderFailed
           \/ LadderBounces \/ LadderRejoins
  <2>1. ladder' # "apply"
    BY <1>7 DEF TimerTimesOut, ApplyAddress, ApplyFails, LadderDone, LadderFailed, LadderBounces,
       LadderRejoins, Ladder
  <2>2. UNCHANGED <<s_reassert, watch>>
    BY <1>7 DEF TimerTimesOut, ApplyAddress, ApplyFails, LadderDone, LadderFailed, LadderBounces,
       LadderRejoins
  <2>3. QED
    BY <2>1, <2>2 DEF BindInv
<1>8. CASE \/ RadioStep \/ IgnoresWifiEvent \/ HandleScanDone \/ HandleConnected
           \/ HandleDisconnected \/ IgnoresDisconnect \/ HandleApClient \/ TimerWhileConnected
  <2>1. UNCHANGED <<ladder, bind, s_reassert, watch>>
    BY <1>8 DEF RadioStep, AssocSucceeds, LinkFails, DhcpOffer, LeaseExpires, IpLostTimer,
       IgnoresWifiEvent, HandleScanDone, HandleConnected, HandleDisconnected, IgnoresDisconnect,
       HandleApClient, TimerWhileConnected
  <2>2. QED
    BY <2>1 DEF BindInv
<1>9. CASE \/ mesh_survey_task \/ wifi_retry_timer_cb \/ ScanEnds \/ RouterChanges
           \/ AddressVanishes \/ UserStep \/ UNCHANGED vars
  <2>1. UNCHANGED <<ladder, bind, s_reassert, watch>>
    BY <1>9 DEF mesh_survey_task, SurveyScans, SurveyRejoins, wifi_retry_timer_cb, ScanEnds,
       RouterChanges, AddressVanishes, UserStep, wifi_scan, toggle_wifi_softap, ApClientMoves,
       wifi_apply_hostname, vars
  <2>2. QED
    BY <2>1 DEF BindInv
<1>10. QED
  BY <1>1, <1>2, <1>3, <1>4, <1>5, <1>6, <1>7, <1>8, <1>9
     DEF Next, event_handler, ip_timeout_callback, ip_reassert_task

\* Every variable keeps its type: the queue its length, the timeouts their cycle, and the
\* count of the access point's clients never leaves what the changes allow, though events
\* are ignored and may pass each other.
THEOREM TypeCorrect == Spec => []TypeOK
<1>1. Init => TypeInv /\ BindInv
  BY InitHolds DEF IInv
<1>2. (TypeInv /\ BindInv) /\ [Next]_vars => (TypeInv /\ BindInv)'
  BY TypeStep, BindStep
<1>3. TypeInv => TypeOK
  BY DEF TypeInv
<1>4. QED
  BY <1>1, <1>2, <1>3, PTL DEF Spec
-----------------------------------------------------------------------------
(* Truth. *)

\* An address that goes starts the lost timer.
LEMMA DropIsLoud ==
  ASSUME TypeInv
  PROVE  /\ DropAddress \/ NetifDown => addr' = "NONE" /\ (lost' <=> lost \/ addr # "NONE")
         /\ dhcpc_start \/ dhcpc_stop =>
              \/ addr' = addr /\ lost' = lost
              \/ addr' = "NONE" /\ (lost' <=> lost \/ addr # "NONE")
  BY DEF DropAddress, NetifDown, dhcpc_start, dhcpc_stop

\* A step that handles no event and posts none of an address, and that leaves the link or
\* reports its loss.
LEMMA TruthKept ==
  ASSUME TypeInv, TruthInv,
         \/ addr' = addr /\ lost' = lost
         \/ addr' = "NONE" /\ (lost' <=> lost \/ addr # "NONE"),
         is_connected' => is_connected,
         \/ events' = events /\ (link = "up" => link' = "up")
         \/ \E e \in EventTypes : /\ e.type # "gotIp" /\ events' = Append(events, e)
                                  /\ link = "up" /\ link' # "up" => e.type = "disconnected"
  PROVE  TruthInv'
<1>1. /\ At(events, "lostIp") # {} => At(events', "lostIp") # {}
      /\ At(events, "disconnected") # {} => At(events', "disconnected") # {}
      /\ Answered(events) => Answered(events')
      /\ link = "up" /\ link' # "up" => At(events', "disconnected") # {}
  <2>1. CASE events' = events /\ (link = "up" => link' = "up")
    BY <2>1
  <2>2. CASE \E e \in EventTypes : /\ e.type # "gotIp" /\ events' = Append(events, e)
                                   /\ link = "up" /\ link' # "up" => e.type = "disconnected"
    BY <2>2, NewsAppend DEF TypeInv, TypeOK
  <2>3. QED
    BY <2>1, <2>2
<1>2. QED
  BY <1>1 DEF TruthInv

\* A step that handles an event other than of an address, or of its loss.
LEMMA TruthHandled ==
  ASSUME TypeInv, TruthInv, events # <<>>, events' = Tail(events), link' = link,
         is_connected' => is_connected, Head(events).type \notin {"gotIp", "lostIp"},
         \/ addr' = addr /\ lost' = lost
         \/ addr' = "NONE" /\ (lost' <=> lost \/ addr # "NONE"),
         Head(events).type = "disconnected" => addr' = "NONE"
  PROVE  TruthInv'
<1>1. /\ At(events, "lostIp") # {} => At(events', "lostIp") # {}
      /\ Head(events).type # "disconnected" /\ At(events, "disconnected") # {} =>
            At(events', "disconnected") # {}
      /\ Answered(events) => Answered(events')
  BY NewsTail DEF TypeInv, TypeOK
<1>2. QED
  BY <1>1 DEF TruthInv

\* A step that binds an address: the interface, if it is up, has one, and says so.
LEMMA TruthBound ==
  ASSUME TypeInv, TruthInv, NEW b \in AddrConfigs, b.ip # "NONE", StopAndSet(b),
         link' = link, is_connected' = is_connected
  PROVE  TruthInv'
<1>1. CASE link = "up"
  <2>1. addr' # "NONE" /\ link' = "up"
    BY <1>1 DEF StopAndSet
  <2>2. QED
    BY <2>1 DEF TruthInv
<1>2. CASE link # "up"
  <2>1. /\ events' = events
        /\ \/ addr' = addr /\ lost' = lost
           \/ addr' = "NONE" /\ (lost' <=> lost \/ addr # "NONE")
    BY <1>2, DropIsLoud DEF StopAndSet
  <2>2. QED
    BY <2>1, TruthKept
<1>3. QED
  BY <1>1, <1>2

\* Posting an event that is no address's.
LEMMA PostKeepsTruth ==
  ASSUME TypeInv, TruthInv, NEW t \in {"connected", "disconnected", "scanDone", "apJoin", "apLeave"},
         Post([type |-> t]), link = "up" /\ link' # "up" => t = "disconnected",
         \/ addr' = addr /\ lost' = lost
         \/ addr' = "NONE" /\ (lost' <=> lost \/ addr # "NONE"),
         is_connected' => is_connected
  PROVE  TruthInv'
<1> DEFINE e == [type |-> t]
<1>1. e \in EventTypes /\ e.type = t /\ events' = Append(events, e)
  BY EventKinds DEF Post
<1> HIDE DEF e
<1>2. \E d \in EventTypes : /\ d.type # "gotIp" /\ events' = Append(events, d)
                            /\ link = "up" /\ link' # "up" => d.type = "disconnected"
  BY <1>1
<1>3. QED
  BY <1>2, TruthKept

\* Leaving the network, which is reported, or staying.
LEMMA DisconnectKeepsTruth ==
  ASSUME TypeInv, TruthInv, Disconnect \/ UNCHANGED <<link, events>>,
         \/ addr' = addr /\ lost' = lost
         \/ addr' = "NONE" /\ (lost' <=> lost \/ addr # "NONE"),
         is_connected' => is_connected
  PROVE  TruthInv'
<1>1. CASE UNCHANGED <<link, events>>
  BY <1>1, TruthKept
<1>2. CASE Post([type |-> "disconnected"])
  BY <1>2, PostKeepsTruth
<1>3. QED
  BY <1>1, <1>2 DEF Disconnect

LEMMA TruthOfRadio == ASSUME TypeInv, TruthInv, RadioStep PROVE TruthInv'
<1> USE DEF router, iface, unit, conn
<1>1. CASE AssocSucceeds
  <2>1. Post([type |-> "connected"]) /\ link' = "up"
        /\ UNCHANGED <<addr, lost, is_connected>>
    BY <1>1 DEF AssocSucceeds
  <2>2. QED
    BY <2>1, PostKeepsTruth
<1>2. CASE LinkFails
  <2>1. Post([type |-> "disconnected"]) /\ UNCHANGED <<addr, lost, is_connected>>
    BY <1>2 DEF LinkFails
  <2>2. QED
    BY <2>1, PostKeepsTruth
<1>3. CASE DhcpOffer
  BY <1>3 DEF DhcpOffer, OfferComes, TruthInv
<1>4. CASE LeaseExpires
  <2>1. UNCHANGED <<link, events, is_connected>> /\ DropAddress
    BY <1>4 DEF LeaseExpires
  <2>2. QED
    BY <2>1, DropIsLoud, TruthKept
<1>5. CASE IpLostTimer
  <2>1. events = <<>> /\ ~lost' /\ UNCHANGED <<link, addr, is_connected>>
        /\ IF addr = "NONE" THEN Post([type |-> "lostIp"]) ELSE UNCHANGED events
    BY <1>5 DEF IpLostTimer, Settled, Calm
  <2>2. CASE addr = "NONE"
    <3> DEFINE e == [type |-> "lostIp"]
    <3>1. e \in EventTypes /\ e.type = "lostIp" /\ events' = Append(events, e)
          /\ events \in Seq(EventTypes)
      BY <2>1, <2>2, EventKinds DEF Post, TypeInv, TypeOK
    <3> HIDE DEF e
    <3>2. At(events', "lostIp") # {} /\ (Answered(events) => Answered(events'))
      BY <3>1, NewsAppend
    <3>3. Answered(events)
      BY <2>1, EmptySeq DEF Answered, At
    <3>4. QED
      BY <2>1, <2>2, <3>2, <3>3 DEF TruthInv
  <2>3. CASE addr # "NONE"
    BY <2>1, <2>3 DEF TruthInv
  <2>4. QED
    BY <2>2, <2>3
<1>6. QED
  BY <1>1, <1>2, <1>3, <1>4, <1>5 DEF RadioStep

LEMMA TruthOfHandler == ASSUME TypeInv, TruthInv, event_handler PROVE TruthInv'
<1> USE DEF router, iface, conn
<1>0. events # <<>> /\ events \in Seq(EventTypes)
  BY DEF TypeInv, TypeOK, event_handler, Handles, IgnoresWifiEvent, HandleScanDone,
     HandleConnected, HandleDisconnected, IgnoresDisconnect, HandleApClient, HandleGotIp,
     HandleLostIp
<1>1. CASE IgnoresWifiEvent
  <2>1. /\ events' = Tail(events) /\ link' = link /\ is_connected' = is_connected
        /\ Head(events).type \in {"connected", "disconnected", "apJoin", "apLeave"}
    BY <1>1 DEF IgnoresWifiEvent
  <2>2. CASE Head(events).type = "connected"
    <3>1. dhcpc_start
      BY <1>0, <1>1, <2>2 DEF IgnoresWifiEvent, Handles
    <3>2. QED
      BY <1>0, <2>1, <2>2, <3>1, DropIsLoud, TruthHandled
  <2>3. CASE Head(events).type = "disconnected"
    <3>1. NetifDown
      BY <1>0, <1>1, <2>3 DEF IgnoresWifiEvent, Handles
    <3>2. QED
      BY <1>0, <2>1, <2>3, <3>1, DropIsLoud, TruthHandled
  <2>4. CASE Head(events).type \in {"apJoin", "apLeave"}
    <3>1. addr' = addr /\ lost' = lost
      BY <1>0, <1>1, <2>4 DEF IgnoresWifiEvent, Handles
    <3>2. QED
      BY <1>0, <2>1, <2>4, <3>1, TruthHandled
  <2>5. QED
    BY <2>1, <2>2, <2>3, <2>4
<1>2. CASE HandleScanDone \/ HandleApClient
  <2>1. /\ events' = Tail(events) /\ UNCHANGED <<link, is_connected, addr, lost>>
        /\ Head(events).type \in {"scanDone", "apJoin", "apLeave"}
    BY <1>2 DEF HandleScanDone, HandleApClient, Handles
  <2>2. QED
    BY <1>0, <2>1, TruthHandled
<1>3. CASE HandleConnected
  <2>1. /\ events' = Tail(events) /\ UNCHANGED <<link, is_connected>> /\ dhcpc_start
        /\ Head(events).type = "connected"
    BY <1>3 DEF HandleConnected, Handles
  <2>2. QED
    BY <1>0, <2>1, DropIsLoud, TruthHandled
<1>4. CASE HandleDisconnected \/ IgnoresDisconnect
  <2>1. /\ events' = Tail(events) /\ link' = link /\ NetifDown
        /\ is_connected' => is_connected
        /\ Head(events).type = "disconnected"
    BY <1>4 DEF HandleDisconnected, IgnoresDisconnect, Handles
  <2>2. QED
    BY <1>0, <2>1, DropIsLoud, TruthHandled
<1>5. CASE HandleGotIp
  <2>1. /\ UNCHANGED <<link, addr, lost>> /\ Head(events).type = "gotIp"
        /\ events' = IF apClient THEN Append(Tail(events), [type |-> "apLeave"]) ELSE Tail(events)
    BY <1>5 DEF HandleGotIp, Handles
  <2>2. /\ At(events, "disconnected") # {} => At(Tail(events), "disconnected") # {}
        /\ Answered(events) => Answered(Tail(events)) /\ At(Tail(events), "lostIp") # {}
        /\ Tail(events) \in Seq(EventTypes)
    BY <1>0, <2>1, NewsTail, HeadTailProperties
  <2>3. /\ At(events, "disconnected") # {} => At(events', "disconnected") # {}
        /\ Answered(events) => Answered(events') /\ At(events', "lostIp") # {}
    <3>1. CASE ~apClient
      BY <2>1, <2>2, <3>1
    <3>2. CASE apClient
      <4> DEFINE e == [type |-> "apLeave"]
      <4>1. e \in EventTypes /\ e.type # "gotIp" /\ events' = Append(Tail(events), e)
        BY <2>1, <3>2, EventKinds
      <4> HIDE DEF e
      <4>2. QED
        BY <2>2, <4>1, NewsAppend
    <3>3. QED
      BY <3>1, <3>2
  <2>4. QED
    BY <2>1, <2>3 DEF TruthInv
<1>6. CASE HandleLostIp
  <2>1. /\ ~is_connected' /\ events' = Tail(events) /\ link' = link /\ DropAddress
        /\ Head(events).type = "lostIp"
    BY <1>6 DEF HandleLostIp, Handles
  <2>2. /\ Answered(events) => Answered(events')
    BY <1>0, <2>1, NewsTail
  <2>3. addr' = "NONE" /\ (lost' <=> lost \/ addr # "NONE")
    BY <2>1, DropIsLoud
  <2>4. QED
    BY <2>1, <2>2, <2>3 DEF TruthInv
<1>7. QED
  BY <1>1, <1>2, <1>3, <1>4, <1>5, <1>6 DEF event_handler

LEMMA TruthOfTimer == ASSUME TypeInv, BindInv, TruthInv, ip_timeout_callback PROVE TruthInv'
<1> USE DEF router, radio, iface, conn, unitButLadder
<1>1. CASE TimerWhileConnected \/ LadderBounces
  <2>1. UNCHANGED <<link, events, is_connected>> /\ (dhcpc_start \/ (addr' = addr /\ lost' = lost))
    BY <1>1 DEF TimerWhileConnected, LadderBounces
  <2>2. QED
    BY <2>1, DropIsLoud, TruthKept
<1>2. CASE TimerTimesOut \/ try_ip_fallback_ladder \/ ApplyFails \/ LadderDone
  <2>1. UNCHANGED <<link, events, is_connected, addr, lost>>
    BY <1>2 DEF TimerTimesOut, try_ip_fallback_ladder, ApplyFails, LadderDone
  <2>2. QED
    BY <2>1, TruthKept
<1>3. CASE ApplyAddress
  <2>1. bind \in AddrConfigs /\ bind.ip # "NONE" /\ StopAndSet(bind)
        /\ UNCHANGED <<link, is_connected>>
    BY <1>3 DEF ApplyAddress, TypeInv, TypeOK, BindInv, Ladder
  <2>2. QED
    BY <2>1, TruthBound
<1>4. CASE ApplySucceeds
  <2>1. addr # "NONE" /\ UNCHANGED <<link, events, addr, lost>>
    BY <1>4 DEF ApplySucceeds
  <2>2. QED
    BY <2>1 DEF TruthInv
<1>5. CASE LadderFailed
  <2>1. /\ dhcpc_stop \/ (addr' = addr /\ lost' = lost)
        /\ Disconnect \/ UNCHANGED <<link, events>>
        /\ is_connected' => is_connected
    BY <1>5 DEF LadderFailed
  <2>2. QED
    BY <2>1, DropIsLoud, DisconnectKeepsTruth
<1>6. CASE LadderRejoins
  <2>1. UNCHANGED <<events, is_connected, addr, lost>> /\ (link = "up" => link' = "up")
    BY <1>6 DEF LadderRejoins, Connect
  <2>2. QED
    BY <2>1, TruthKept
<1>7. QED
  BY <1>1, <1>2, <1>3, <1>4, <1>5, <1>6 DEF ip_timeout_callback

LEMMA TruthOfOthers ==
  ASSUME TypeInv, BindInv, TruthInv,
         \/ ip_reassert_task \/ mesh_survey_task \/ wifi_retry_timer_cb \/ ScanEnds
         \/ RouterChanges \/ AddressVanishes \/ UserStep
  PROVE  TruthInv'
<1> USE DEF router, radio, iface, conn, unit
<1>1. CASE ip_reassert_check \/ RouterChanges
  <2>1. UNCHANGED <<link, events, is_connected, addr, lost>>
    BY <1>1 DEF ip_reassert_check, RouterChanges
  <2>2. QED
    BY <2>1, TruthKept
<1>2. CASE Reassert
  <2>1. watch \in AddrConfigs /\ watch.ip # "NONE" /\ StopAndSet(watch)
        /\ UNCHANGED <<link, is_connected>>
    BY <1>2 DEF Reassert, TypeInv, TypeOK, BindInv
  <2>2. QED
    BY <2>1, TruthBound
<1>3. CASE SurveyScans \/ wifi_scan
  <2>1. UNCHANGED <<is_connected, addr, lost>> /\ (Disconnect \/ UNCHANGED <<link, events>>)
    BY <1>3 DEF SurveyScans, wifi_scan
  <2>2. QED
    BY <2>1, DisconnectKeepsTruth
<1>4. CASE SurveyRejoins \/ ScanEnds
  <2>1. UNCHANGED <<is_connected, addr, lost>> /\ (link = "up" => link' = "up")
        /\ (Post([type |-> "scanDone"]) \/ UNCHANGED events)
    BY <1>4 DEF SurveyRejoins, ScanEnds, Connect
  <2>2. QED
    BY <2>1, PostKeepsTruth, TruthKept
<1>5. CASE wifi_retry_timer_cb
  <2>1. UNCHANGED <<events, is_connected, addr, lost>> /\ (link = "up" => link' = "up")
    BY <1>5 DEF wifi_retry_timer_cb, Connect
  <2>2. QED
    BY <2>1, TruthKept
<1>6. CASE toggle_wifi_softap
  <2>1. UNCHANGED <<link, is_connected, addr, lost>>
        /\ (Post([type |-> "apLeave"]) \/ UNCHANGED events)
    BY <1>6 DEF toggle_wifi_softap
  <2>2. QED
    BY <2>1, PostKeepsTruth, TruthKept
<1>7. CASE ApClientMoves
  <2>1. UNCHANGED <<link, is_connected, addr, lost>>
        /\ (Post([type |-> "apLeave"]) \/ Post([type |-> "apJoin"]))
    BY <1>7 DEF ApClientMoves
  <2>2. QED
    BY <2>1, PostKeepsTruth
<1>8. CASE AddressVanishes \/ wifi_apply_hostname
  <2>1. UNCHANGED <<link, events, is_connected>> /\ (DropAddress \/ (addr' = addr /\ lost' = lost))
    BY <1>8 DEF AddressVanishes, wifi_apply_hostname
  <2>2. QED
    BY <2>1, DropIsLoud, TruthKept
<1>9. QED
  BY <1>1, <1>2, <1>3, <1>4, <1>5, <1>6, <1>7, <1>8
     DEF ip_reassert_task, mesh_survey_task, UserStep

LEMMA TruthStep == ASSUME IInv, [Next]_vars PROVE TruthInv'
<1>1. CASE UNCHANGED vars
  BY <1>1 DEF vars, radio, iface, unit, conn, IInv, TruthInv
<1>2. QED
  BY <1>1, TruthOfRadio, TruthOfHandler, TruthOfTimer, TruthOfOthers DEF Next, IInv

\* connect.c:1720, 1743: a unit that calls itself connected, its events handled and the lost
\* timer quiet, is associated and has an address: whichever events it ignored, whatever the
\* ladder, the watchdog and the survey were doing, and however often it lost the network.
THEOREM ConnectedMeansOnline == Spec => []ConnectedIsTrue
<1>1. Init => IInv
  BY InitHolds
<1>2. IInv /\ [Next]_vars => IInv'
  BY TypeStep, BindStep, TruthStep DEF IInv
<1>3. IInv => ConnectedIsTrue
  <2>1. events = <<>> => \A t : At(events, t) = {}
    BY EmptySeq DEF At
  <2>2. QED
    BY <2>1 DEF IInv, TruthInv, ConnectedIsTrue
<1>4. QED
  BY <1>1, <1>2, <1>3, PTL DEF Spec
=============================================================================
