----------------------- MODULE MCProtocolCoordinator -----------------------
(* Instances of ProtocolCoordinator for TLC. *)
EXTENDS ProtocolCoordinator

Config(primary, fallback, has, user, slow) ==
  [protocol |-> [p \in Pools |-> IF p = "primary" THEN primary ELSE fallback],
   hasFallback |-> has, userFallback |-> user, slowStops |-> slow]

\* Only a running fallback is ever stopped; these are the pools whose fallback
\* speaks V1, which checks the flag in its receive loop.
V1Fallback == {Config(p, "V1", h, u, s) : p \in Protocols, h, u, s \in BOOLEAN}
V2Fallback == {Config("V1", "V2", TRUE, FALSE, TRUE)}
=============================================================================
