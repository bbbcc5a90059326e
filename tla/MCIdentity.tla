----------------------------- MODULE MCIdentity -----------------------------
(***************************************************************************)
(* Two servers and two requests at once.  One run explores three           *)
(* instances: requests about a trusted key, requests about another key,    *)
(* and signups of a machine.                                               *)
(***************************************************************************)
EXTENDS IdentityHistory, TLC

CONSTANTS i1, i2, w1, w2, k1, k2, p1, p2

VARIABLE scenario   \* which of the three

TwoServers == {i1, i2}
TwoWorkers == {w1, w2}
TwoKeys == {k1, k2}
OneKey == {k1}
TwoProfiles == {p1, p2}

\* Servers, requests and profiles are alike; the keys are not.
MCSymmetry ==
    Permutations(TwoServers) \cup Permutations(TwoWorkers) \cup Permutations(TwoProfiles)

Within ==
    \A w \in Workers : job[w] # None =>
        CASE scenario = "signup"  -> job[w].kind = "signup" /\ job[w].key = k2
          [] scenario = "trusted" -> job[w].kind # "signup" /\ job[w].key = k1
          [] scenario = "key"     -> job[w].kind # "signup" /\ job[w].key = k2

MInit == IInit /\ scenario \in {"signup", "trusted", "key"}

MSpec == MInit /\ [][INext /\ UNCHANGED scenario /\ Within']_<<allVars, scenario>>

=============================================================================
