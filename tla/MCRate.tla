------------------------------- MODULE MCRate -------------------------------
(***************************************************************************)
(* The rate limiter for two clients and the unlock path, which two of the  *)
(* patterns match.  As under DefaultRateLimitConfig, the two limits differ *)
(* and every limiter is full again well before a sweep may delete it.      *)
(***************************************************************************)
EXTENDS RateHistory, TLC

CONSTANTS c1, c2, w1, w2

MCClients == {c1, c2}
MCWorkers == {w1, w2}
MCRoutes == {"patches", "unlock"}
MCPaths == {"/v1/patches/a/1/unlock"}
MCMatches == [path \in MCPaths |-> {"patches", "unlock"}]
MCLimits == [r \in MCRoutes |-> IF r = "patches" THEN 2 ELSE 1]
MCSymmetry == Permutations(MCWorkers) \cup Permutations(MCClients)

=============================================================================
