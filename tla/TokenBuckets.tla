---------------------------- MODULE TokenBuckets ----------------------------
(***************************************************************************)
(* What the rate limiter promises: one token bucket for each client and    *)
(* route, and one for the server, that only time refills.  No bucket is    *)
(* ever forgotten.                                                         *)
(***************************************************************************)
EXTENDS Naturals

CONSTANTS Buckets, Rate, Burst, GlobalRate, GlobalBurst

VARIABLES tokens, global

vars == <<tokens, global>>

Refilled(n, rate, burst) == IF n + rate > burst THEN burst ELSE n + rate

Init ==
    /\ tokens = [b \in Buckets |-> Burst[b]]
    /\ global = GlobalBurst

Tick ==
    /\ tokens' = [b \in Buckets |-> Refilled(tokens[b], Rate[b], Burst[b])]
    /\ global' = Refilled(global, GlobalRate, GlobalBurst)

TakeGlobal == global > 0 /\ global' = global - 1 /\ UNCHANGED tokens

Take(b) ==
    /\ tokens[b] > 0
    /\ tokens' = [tokens EXCEPT ![b] = @ - 1]
    /\ UNCHANGED global

Next == Tick \/ TakeGlobal \/ \E b \in Buckets : Take(b)

Spec == Init /\ [][Next]_vars

=============================================================================
