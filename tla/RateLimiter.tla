---------------------------- MODULE RateLimiter ----------------------------
(***************************************************************************)
(* The rate limiting middleware (internal/middleware/ratelimit.go): one    *)
(* limiter for the whole server, and one for each client and route that    *)
(* exists from the client's first request until a sweep finds it idle.     *)
(*                                                                         *)
(* Time advances in ticks.  A limiter's tokens are counted whole, and it   *)
(* is refilled by each tick instead of lazily by the next Allow.           *)
(***************************************************************************)
EXTENDS Naturals

CONSTANTS
    Clients,        \* client addresses (an IPv6 /64 counts as one)
    Routes,         \* the limited patterns, and one for "no pattern matches"
    Paths,          \* request paths
    Matches,        \* path -> the routes whose pattern it contains
    Rate, Burst,    \* route -> tokens per tick and capacity of its limiters
    GlobalRate, GlobalBurst,
    IdleLimit,      \* ticks without a request after which a sweep may delete
    Workers,        \* goroutines that serve requests
    None            \* no request, no visitor

Buckets == Clients \X Routes

ASSUME RatesAssumption ==
    /\ Rate \in [Routes -> Nat] /\ Burst \in [Routes -> Nat]
    /\ GlobalRate \in Nat /\ GlobalBurst \in Nat /\ IdleLimit \in Nat
ASSUME MatchesAssumption == Matches \in [Paths -> (SUBSET Routes) \ {{}}]

\* In DefaultRateLimitConfig every limiter is full again after a minute, and
\* a visitor is kept for five.
ASSUME FullBeforeSweep == \A r \in Routes : Burst[r] <= Rate[r] * IdleLimit

Visitors == [tokens : Nat, idle : 0..(IdleLimit + 1)]

ASSUME NoneAssumption == None \notin Visitors /\ None \notin Clients \X Paths

VARIABLES
    global,     \* tokens of the server's limiter
    visitors,   \* client and route -> limiter and time since it was last used
    serving     \* worker -> client and path of the request past the global limit

vars == <<global, visitors, serving>>

Init ==
    /\ global = GlobalBurst
    /\ visitors = [b \in Buckets |-> None]
    /\ serving = [w \in Workers |-> None]

\* Variant: tokens pile up while nobody takes them.
RefilledUncapped(n, rate, burst) == n + rate

Refilled(n, rate, burst) == IF n + rate > burst THEN burst ELSE n + rate

\* Variant: the server's limiter is asked and not taken from.
GlobalAllowFree(w, c, path) ==
    /\ serving[w] = None
    /\ global > 0
    /\ serving' = [serving EXCEPT ![w] = <<c, path>>]
    /\ UNCHANGED <<global, visitors>>

\* global.Allow, for a request of any client; a refused one changes nothing.
GlobalAllow(w, c, path) ==
    /\ serving[w] = None
    /\ global > 0
    /\ global' = global - 1
    /\ serving' = [serving EXCEPT ![w] = <<c, path>>]
    /\ UNCHANGED visitors

GlobalRefuse(w, c, path) ==
    /\ serving[w] = None
    /\ global = 0
    /\ UNCHANGED vars

\* getVisitor: a limiter that is not there is created full.
Tokens(b) == IF visitors[b] = None THEN Burst[b[2]] ELSE visitors[b].tokens

\* matchRoute ranges over a Go map: of the patterns a path contains, any may
\* be found first.  The visitor's limiter admits the request or refuses it.
Visitor(w, route) == <<serving[w][1], route>>

\* Variant: the token is taken from a copy of the limiter.
AllowOnCopy(w, route) ==
    LET b == Visitor(w, route) IN
    /\ serving[w] # None
    /\ route \in Matches[serving[w][2]]
    /\ visitors' = [visitors EXCEPT ![b] = [tokens |-> Tokens(b), idle |-> 0]]
    /\ serving' = [serving EXCEPT ![w] = None]
    /\ UNCHANGED global

VisitorAllow(w, route) ==
    LET b == Visitor(w, route) IN
    /\ serving[w] # None
    /\ route \in Matches[serving[w][2]]
    /\ visitors' = [visitors EXCEPT ![b] =
          [tokens |-> IF Tokens(b) > 0 THEN Tokens(b) - 1 ELSE 0, idle |-> 0]]
    /\ serving' = [serving EXCEPT ![w] = None]
    /\ UNCHANGED global

\* Variant: the sweep forgets every visitor.
SweepAll ==
    /\ visitors' = [b \in Buckets |-> None]
    /\ UNCHANGED <<global, serving>>

\* sweep deletes every visitor that was not seen for more than the limit.
Sweep ==
    /\ visitors' = [b \in Buckets |->
          IF visitors[b] # None /\ visitors[b].idle > IdleLimit THEN None ELSE visitors[b]]
    /\ UNCHANGED <<global, serving>>

Tick ==
    /\ global' = Refilled(global, GlobalRate, GlobalBurst)
    /\ visitors' = [b \in Buckets |->
          IF visitors[b] = None THEN None
          ELSE [tokens |-> Refilled(visitors[b].tokens, Rate[b[2]], Burst[b[2]]),
                idle |-> Refilled(visitors[b].idle, 1, IdleLimit + 1)]]
    /\ UNCHANGED serving

Next ==
    \/ \E w \in Workers :
          \/ \E route \in Routes : VisitorAllow(w, route)
          \/ \E c \in Clients, path \in Paths :
                GlobalAllow(w, c, path) \/ GlobalRefuse(w, c, path)
    \/ Sweep
    \/ Tick

Spec == Init /\ [][Next]_vars

TypeOK ==
    /\ global \in 0..GlobalBurst
    /\ visitors \in [Buckets -> Visitors \cup {None}]
    /\ serving \in [Workers -> (Clients \X Paths) \cup {None}]
    /\ \A b \in Buckets : Tokens(b) <= Burst[b[2]]

\* Forgetting idle clients gives nobody an extra request: the limiter behaves
\* as if every bucket existed from the start and for ever (ratelimit.go:109,
\* sweep, against the full limiter getVisitor creates at ratelimit.go:94).
Promise == INSTANCE TokenBuckets WITH
    Rate <- [b \in Buckets |-> Rate[b[2]]],
    Burst <- [b \in Buckets |-> Burst[b[2]]],
    tokens <- [b \in Buckets |-> Tokens(b)]

ImplementsBuckets == Promise!Spec

\* What makes it so: a limiter that was idle for a while has been refilled
\* for that long.
IdleIsFull ==
    \A b \in Buckets : visitors[b] # None =>
        \/ visitors[b].tokens = Burst[b[2]]
        \/ visitors[b].tokens >= Rate[b[2]] * visitors[b].idle

=============================================================================
