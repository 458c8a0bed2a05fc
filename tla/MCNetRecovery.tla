---------------------------- MODULE MCNetRecovery ----------------------------
(***************************************************************************)
(* Instances of NetRecovery.                                               *)
(***************************************************************************)
EXTENDS NetRecovery

MCLeases == {[gw |-> TRUE, dns |-> "SERVER"]}
MCStaticChoices == BOOLEAN
==============================================================================
