------------------------------ MODULE MCMachine ------------------------------
(***************************************************************************)
(* Machine with values for its constants, and two of its components alone, *)
(* with what the code is said to do and does not.                          *)
(***************************************************************************)
EXTENDS Machine

Pair(primary, fallback) == [p \in {"primary", "fallback"} |->
                              IF p = "primary" THEN primary ELSE fallback]
\* Every pair of pools in which both V2 pools use the same kind of channel.
SameChannel == {Pair(p, f) : p \in {"V1", "EXT"}, f \in {"V1", "EXT"}}
               \cup {Pair(p, f) : p \in {"V1", "STD"}, f \in {"V1", "STD"}}
\* A failover from a pool with a standard channel to one with an extended channel.
MixedChannels == {Pair("STD", "EXT")}

Session(s, n, p, r) == [shares |-> s, notifies |-> n, pauses |-> p, reconnects |-> r]
Sessions == {Session(1, 0, 0, 1), Session(1, 0, 1, 0), Session(0, 2, 0, 1), Session(2, 0, 0, 0)}
Offer(s, j, p) == [shares |-> s, jobs |-> j, prevs |-> p]
Offers == {Offer(3, 1, 1), Offer(1, 5, 3)}

Plan(d, e, s, b, f, a) == [driver |-> d, edits |-> e, stops |-> s, breaks |-> b,
                           flatlines |-> f, accessory |-> a]
AttemptsOf == [d \in {"BM1366", "BM1368", "BM1370", "BM1373", "BM1397"} |->
                 IF d = "BM1373" THEN 2 ELSE 1]
Links == {Plan("BM1366", 2, 0, 0, 1, 0), Plan("BM1370", 1, 1, 0, 1, 0),
          Plan("BM1373", 0, 1, 2, 1, 0), Plan("BM1368", 0, 1, 0, 0, 1),
          Plan("BM1397", 0, 1, 2, 1, 0)}

Rail(r, f, h, s, e) == [rise |-> r, failures |-> f, faults |-> h, stops |-> s, edits |-> e]
Rails == {Rail(1, 0, 1, 2, 2), Rail(2, 2, 1, 1, 1), Rail(2, 0, 0, 2, 1)}
Air(c, f, least, manual) == [changes |-> c, failures |-> f, min |-> least, manual |-> manual]
Airs == {Air(4, 0, 1, 0), Air(3, 1, 2, 5), Air(3, 1, 0, 3)}
Watch(large, timeout, e, p) == [large |-> large, timeout |-> timeout, events |-> e, presses |-> p]
Watches == {Watch(FALSE, -1, 4, 1), Watch(FALSE, 0, 3, 2), Watch(FALSE, 1, 2, 1),
            Watch(TRUE, 0, 2, 1)}
Trial(d, n, o, p, b, calm) == [defects |-> d, nonces |-> n, overheats |-> o, presses |-> p,
                               boots |-> b, calm |-> calm]
Trials == {Trial(1, 3, 1, 1, 1, TRUE), Trial(0, 4, 0, 1, 1, TRUE), Trial(0, 3, 1, 1, 0, FALSE)}
\* A test in which the chips may get too hot for the monitor.
HotTrials == {Trial(0, 3, 1, 0, 0, FALSE)}
-----------------------------------------------------------------------------
MixedSpec == part = "switch" /\ Init /\ [][Next]_<<part, v>>
HotSpec == part = "test" /\ Init /\ [][Next]_<<part, v>>

\* create_jobs_task.c:154: "Protocol unchanged - item matches current_work_protocol. Safe to
\* cast": no item is used as a type with pointers in it that it does not have
\* (ProtocolSwitch!NoWildPointer).
NoWildPointer == part = "switch" => Switch!NoWildPointer

\* The end of a test cuts the power of the chips only after the monitor has gone, however
\* hot they get (SelfTest!MonitorGoesFirst).
MonitorGoesFirst == part = "test" => Test!MonitorGoesFirst
=============================================================================
