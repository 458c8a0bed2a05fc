------------------------------ MODULE NetPolicy ------------------------------
(***************************************************************************)
(* The decisions of components/connect/net_recovery_policy.c as operators. *)
(* An address is one of two: LEASE, which the DHCP server hands out, and   *)
(* STATIC, which the operator configured; a resolver is the server's or    *)
(* one the unit chose for itself. NONE stands for 0.0.0.0 and for an empty *)
(* setting. A gateway and its netmask come and go together.                *)
(***************************************************************************)
EXTENDS Integers

Addresses == {"NONE", "LEASE", "STATIC"}
Resolvers == {"NONE", "SERVER", "OWN"}

\* net_addr_config_t, and net_last_lease_t as NVS keeps it.
AddrConfigs == [ip : Addresses, gw : BOOLEAN, dns : Resolvers]
Unset == [ip |-> "NONE", gw |-> FALSE, dns |-> "NONE"]

net_ipv4_is_usable(ip) == ip # "NONE"

\* What is written to NVS when `lease` is remembered over `known`: a field is
\* written only when the lease supplied it, a resolver only when it was the
\* server's.
net_policy_capture_lease(known, lease, dnsCameFromLease) ==
    [ip  |-> IF net_ipv4_is_usable(lease.ip) THEN lease.ip ELSE known.ip,
     gw  |-> known.gw \/ (net_ipv4_is_usable(lease.ip) /\ lease.gw),
     dns |-> IF /\ net_ipv4_is_usable(lease.ip)
                /\ dnsCameFromLease /\ lease.dns # "NONE"
             THEN lease.dns ELSE known.dns]

\* The address to bind when DHCP fails: the last lease if it is complete, then
\* the operator's address if it is enabled, else none.
net_policy_select_fallback(last, useOperatorStatic) ==
    IF net_ipv4_is_usable(last.ip) /\ last.gw
    THEN [last EXCEPT !.dns = IF last.dns # "NONE" THEN last.dns ELSE "OWN"]
    ELSE IF useOperatorStatic
    THEN [ip |-> "STATIC", gw |-> TRUE, dns |-> "OWN"]
    ELSE Unset

net_policy_should_reassert(haveFallback, currentIp, dhcpRunning) ==
    haveFallback /\ ~net_ipv4_is_usable(currentIp) /\ ~dhcpRunning
==============================================================================
