---------------------------- MODULE RateHistory ----------------------------
(***************************************************************************)
(* RateLimiter watched through a window of time: history variables that    *)
(* count what one client was granted since a moment that may be any.       *)
(***************************************************************************)
EXTENDS RateLimiter, FiniteSets

CONSTANT MaxAge     \* bound on the length of the window, in ticks

ASSUME FiniteAssumption == IsFiniteSet(Routes) /\ IsFiniteSet(Workers)

VARIABLES
    age,        \* ticks since the window was opened
    passed,     \* client and route -> requests its limiter admitted since
    served,     \* client and path -> requests admitted since
    admitted    \* requests of all clients admitted since

counts == <<passed, served, admitted>>
allVars == <<vars, age, counts>>

RInit ==
    /\ Init
    /\ age = 0
    /\ passed = [b \in Buckets |-> 0]
    /\ served = [q \in Clients \X Paths |-> 0]
    /\ admitted = 0

\* The window may be opened anew at any moment.
Reopen ==
    /\ age' = 0
    /\ passed' = [b \in Buckets |-> 0]
    /\ served' = [q \in Clients \X Paths |-> 0]
    /\ admitted' = 0
    /\ UNCHANGED vars

\* The request is admitted if the visitor's limiter has a token.
Count(w, route) ==
    IF Tokens(Visitor(w, route)) > 0
    THEN /\ passed' = [passed EXCEPT ![Visitor(w, route)] = @ + 1]
         /\ served' = [served EXCEPT ![serving[w]] = @ + 1]
         /\ admitted' = admitted + 1
    ELSE UNCHANGED counts

RNext ==
    \/ Reopen
    \/ \E w \in Workers, route \in Routes :
          VisitorAllow(w, route) /\ Count(w, route) /\ UNCHANGED age
    \/ /\ \/ \E w \in Workers, c \in Clients, path \in Paths :
                GlobalAllow(w, c, path) \/ GlobalRefuse(w, c, path)
          \/ Sweep
       /\ UNCHANGED <<age, counts>>
    \/ Tick /\ age < MaxAge /\ age' = age + 1 /\ UNCHANGED counts

RSpec == RInit /\ [][RNext]_allVars

-----------------------------------------------------------------------------
\* In any window of time, a client is granted no more of a route than the
\* limiter's burst and its rate over that window (ratelimit.go:45, the limits
\* of DefaultRateLimitConfig), sweeps included.
WindowBound ==
    \A b \in Buckets : passed[b] <= Burst[b[2]] + Rate[b[2]] * age

\* The tokens that the limiters of the routes a path matches give to one client.
TokensFor(path) ==
    UNION {{route} \X (1..(Burst[route] + Rate[route] * age)) : route \in Matches[path]}

\* A path that several patterns match is counted against any one of them, as
\* the map iteration chooses: what bounds the path is the sum of their limits,
\* not its own (ratelimit.go:120, matchRoute).
PathBound ==
    \A c \in Clients : \A path \in Paths : served[<<c, path>>] <= Cardinality(TokensFor(path))

\* All clients together get no more in any window than the server's limiter
\* grants and the requests that were past it when the window opened, although
\* the two limiters are taken from at different moments (ratelimit.go:137).
ServerBound == admitted <= GlobalBurst + GlobalRate * age + Cardinality(Workers)

=============================================================================
