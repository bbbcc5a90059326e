-------------------------- MODULE IdentityHistory --------------------------
(***************************************************************************)
(* Identity with history variables: what was known when a request came,    *)
(* and which failures and overlaps there were since.                       *)
(***************************************************************************)
EXTENDS Identity

VARIABLES
    lost,       \* keys with a put that failed
    knew,       \* worker -> its key was known when its request came
    unread,     \* worker -> its read of S3 failed
    broken      \* machines with signups that overlapped, failed or were cut off

history == <<lost, knew, unread, broken>>
allVars == <<vars, history>>

IInit ==
    /\ Init
    /\ lost = {}
    /\ knew = [w \in Workers |-> FALSE]
    /\ unread = [w \in Workers |-> FALSE]
    /\ broken = {}

\* S3 holds the key or, as in a deployment without S3, the server does.
Known(i, k) == k \in known[i] \/ (s3 /\ k \in known[Bucket])

Signing(w, k) == job[w] # None /\ job[w].kind = "signup" /\ job[w].key = k

IReceive(w) ==
    /\ ReceiveStep(w)
    /\ LET k == job'[w].key IN
       /\ knew' = [knew EXCEPT ![w] = Known(job'[w].at, k)]
       /\ broken' = broken \cup
             {m \in {k} : job'[w].kind = "signup" /\ \E v \in Workers : Signing(v, m)}
    /\ unread' = [unread EXCEPT ![w] = FALSE]
    /\ UNCHANGED lost

IKeyStep(w) ==
    /\ KeyStep(w)
    /\ lost' = IF At(w, "putKey") /\ failures' # failures THEN lost \cup {job[w].key} ELSE lost
    /\ unread' = [unread EXCEPT ![w] = @ \/ (At(w, "get") /\ failures' # failures)]
    /\ UNCHANGED <<knew, broken>>

ISignupStep(w) ==
    /\ SignupStep(w)
    /\ broken' = IF failures' # failures THEN broken \cup {job[w].key} ELSE broken
    /\ UNCHANGED <<lost, knew, unread>>

IReply(w) ==
    /\ Reply(w)
    /\ knew' = [knew EXCEPT ![w] = FALSE]
    /\ unread' = [unread EXCEPT ![w] = FALSE]
    /\ UNCHANGED <<lost, broken>>

IRestart(i) ==
    /\ Restart(i)
    /\ broken' = broken \cup
          {k \in Keys : \E w \in Workers : Signing(w, k) /\ ~Answered(w) /\ job[w].at = i}
    /\ knew' = [w \in Workers |-> knew[w] /\ job'[w] # None]
    /\ unread' = [w \in Workers |-> unread[w] /\ job'[w] # None]
    /\ UNCHANGED lost

INext ==
    \/ \E w \in Workers : IReceive(w) \/ IKeyStep(w) \/ ISignupStep(w) \/ IReply(w)
    \/ \E i \in Servers : IRestart(i)

ISpec == IInit /\ [][INext]_allVars

-----------------------------------------------------------------------------
\* Types; and without S3 nothing waits for it or is held by it.
TypeOK ==
    /\ known \in [Places -> SUBSET Keys]
    /\ linked \subseteq Keys
    /\ profile \in [Places -> [Keys -> Profiles \cup {None}]]
    /\ status \in [Places -> [Keys -> Profiles \cup {None}]]
    /\ failures \in 0..MaxFailures
    /\ \A w \in Workers : job[w] # None =>
          job[w].at \in Servers /\ job[w].key \in Keys /\ job[w].step \in Steps
    /\ ~s3 => /\ known[Bucket] = {}
              /\ \A w \in Workers : ~At(w, "get")

\* A key that an owner has linked can be checked by every server, also by one
\* that starts later, unless its put failed: Register has put it to S3 before
\* the web UI links it (sshauth.go:185, ui.go:218 and 232).
LinkedKeyIsStored == s3 => \A k \in linked \ lost : k \in known[Bucket]

\* A well signed publish is admitted, and a status request told of the key, on
\* whatever server it comes to, if the key was stored in S3 or known to that
\* server when it came and no read of S3 failed: through the two lookups of
\* the middleware, the read in between, and restarts before it; without S3,
\* that holds of the keys of SSH_TRUSTED_KEYS from the start (sshauth.go:199
\* and 234, sshmiddleware.go:61 and 66, main.go:66).
KnownKeyIsAdmitted ==
    \A w \in Workers :
        Answered(w) /\ (knew[w] \/ (~s3 /\ job[w].key \in Trusted)) /\ ~unread[w] =>
            /\ job[w].kind = "publish" /\ job[w].signed => job[w].step = "admitted"
            /\ job[w].kind = "status" => job[w].step = "done"

\* Nobody is let in without a signature, and nobody at all reaches the admin
\* endpoints: the scope of every key is "publish", and there are no tokens
\* (sshauth.go:69, sshmiddleware.go:72, main.go:62).
OnlySignersPublish ==
    \A w \in Workers :
        At(w, "admitted") => job[w].kind = "publish" /\ job[w].signed

\* After signups that neither overlapped nor failed nor were cut off, the
\* profile and the status that are stored come from the same one: in S3, and
\* without S3 on every server (handlers.go:1004, SaveProfile then SaveStatus).
SignupIsWhole ==
    \A k \in Keys \ broken :
        (\A w \in Workers : Signing(w, k) => Answered(w)) =>
            \A x \in IF s3 THEN Places ELSE Servers : profile[x][k] = status[x][k]

=============================================================================
