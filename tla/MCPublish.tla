----------------------------- MODULE MCPublish -----------------------------
(***************************************************************************)
(* Publish on two concurrent requests, in two instances that one run       *)
(* explores: a machine key whose owner keeps changing it, and a single     *)
(* package that its requests and those of a bearer token contend for on    *)
(* both publish paths; and bearer tokens only, with two packages of which  *)
(* one depends on the other.                                               *)
(***************************************************************************)
EXTENDS PublishHistory

CONSTANTS a, b, k1, w1, w2

VARIABLE scenario   \* which of the two

TwoNames == {a, b}
OneVersion == {"1"}
OneKey == {k1}
TwoWorkers == {w1, w2}

Request(kind, key, name, deps) ==
    [kind |-> kind, key |-> key, id |-> <<name, "1">>, deps |-> deps]

KeyRequests == {Request("proxy", k1, a, {}), Request("official", k1, a, {})}

RivalRequests == {Request("proxy", Token, a, {}), Request("official", Token, a, {})}

DepRequests ==
    {Request("proxy", Token, a, {b}), Request("official", Token, a, {b}),
     Request("proxy", Token, b, {})}

AllRequests == KeyRequests \cup RivalRequests \cup DepRequests

Asks(w, requests) == pc[w] # "idle" => req[w] \in requests

\* In the gates' instance the owner acts and the readers do not; in the
\* dependencies' it is the other way round.
Unread(id) == data[id].downloads = 0 /\ data[id].status \in {"", "active"}

Within ==
    CASE scenario = "gates" -> /\ Asks(w1, KeyRequests) /\ Asks(w2, RivalRequests)
                               /\ \A id \in Ids : Exists(data, id) => Unread(id)
      [] scenario = "dependencies" -> /\ \A w \in Workers : Asks(w, DepRequests)
                                      /\ ~keys[k1].claimed

MInit == HInit /\ scenario \in {"gates", "dependencies"}

MNext == HNext /\ UNCHANGED scenario /\ Within'

MSpec ==
    /\ MInit /\ [][MNext]_<<allVars, scenario>>
    /\ \A w \in Workers : WF_allVars(HandlerStep(w) /\ Remember)

=============================================================================
