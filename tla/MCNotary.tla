------------------------------ MODULE MCNotary ------------------------------
(***************************************************************************)
(* Two publishers of one version, one variant, one host besides GitHub's   *)
(* and two files, in two instances that one run explores: versions that    *)
(* are checked and downloaded while hosts change, and versions that are    *)
(* validated again and unlocked while the issue tracker comes and goes.    *)
(***************************************************************************)
EXTENDS NotaryHistory, TLC

CONSTANTS w1, w2, u1, u2, t1, f1, f2, c1, c2

VARIABLE scenario   \* which of the two

OneId == {"a@1"}
OneVariant == {"linux/amd64"}
TwoHosts == {u1, u2}
TwoWorkers == {w1, w2}

Plain == [form |-> "object", breaks |-> {}, issues |-> None, codes |-> {}]
Absent == [Plain EXCEPT !.form = "absent"]

ManifestsToValidate ==
    {Absent, [Plain EXCEPT !.form = "null"],
     [Plain EXCEPT !.issues = t1, !.codes = {c1}],
     [Plain EXCEPT !.breaks = {"A2", "A8"}],
     [Plain EXCEPT !.codes = {Malformed}]}

Proxy(variant, default, url, sum, manifest) ==
    [kind |-> "proxy", id |-> "a@1", url |-> url, sum |-> sum, file |-> f1,
     urls |-> [k \in Keys |-> IF k = Default THEN default ELSE variant],
     manifest |-> manifest]

Official(sum, file, manifest) ==
    [Proxy(None, None, None, sum, manifest) EXCEPT !.kind = "official", !.file = file]

HostedPublications ==
    {Proxy(u1, u2, None, f1, Absent), Proxy(None, None, u1, f2, Absent),
     Proxy(None, None, None, f1, Absent), Official(None, f2, Absent),
     Official(None, f2, Plain)}

CheckedPublications ==
    {Proxy(None, u1, None, f1, m) : m \in ManifestsToValidate}
        \cup {Official(None, f1, m) : m \in ManifestsToValidate}
        \cup {Proxy(None, u1, None, Malformed, Plain), Official(Malformed, f1, Absent)}

AllPublications == HostedPublications \cup CheckedPublications

Within ==
    CASE scenario = "hosting" ->
            /\ \A w \in Workers : pc[w] # "idle" => req[w] \in HostedPublications
            /\ client.step # "idle" => client.q.kind \in {"check", "download"}
            /\ up = Trackers /\ served[u2] = [status |-> "ok", file |-> f1, gives |-> "hash"]
      [] scenario = "validation" ->
            /\ \A w \in Workers : pc[w] # "idle" => req[w] \in CheckedPublications
            /\ \E w \in Workers : pc[w] = "idle"
            /\ client.step # "idle" => client.q.kind \in {"validate", "unlock"}
            /\ served[u1] = [status |-> "ok", file |-> f1, gives |-> "hash"]
            /\ served[u2] = served[u1]

MCSymmetry == Permutations(Workers)

MInit ==
    /\ NInit /\ scenario \in {"hosting", "validation"} /\ Within
    /\ served[u1].file = f1
    /\ \A u \in Urls \ {u1} : served[u] = [status |-> "ok", file |-> f1, gives |-> "hash"]

MSpec == MInit /\ [][NNext /\ UNCHANGED scenario /\ Within']_<<allVars, scenario>>

=============================================================================
