----------------------------- MODULE MCS3Owners -----------------------------
(***************************************************************************)
(* Owners over a bucket, in three instances that one run explores: one     *)
(* account with commands on one key through two servers, where the gates   *)
(* are also asked for a key that nobody has; one account with commands on  *)
(* two keys through one server; and two accounts that share a key.         *)
(***************************************************************************)
EXTENDS S3OwnerHistory

CONSTANTS i1, i2, o1, o2, k1, k2

VARIABLE scenario   \* which of the three

TwoServers == {i1, i2}
TwoAccounts == {o1, o2}
TwoKeys == {k1, k2}
FourKinds == {"login", "add", "remove", "revoke"}
SixObjects == 1..6

OneAccount == \A i \in Servers : ~Commanding(i, o2)
OneServer == cmd[i2] = None /\ reload[i2] = None
OneKey == \A i \in Servers : cmd[i] # None => cmd[i].key # k2

Within ==
    CASE scenario = "servers"  -> OneAccount /\ OneKey
      [] scenario = "keys"     -> OneAccount /\ OneServer
      [] scenario = "accounts" -> OneServer /\ OneKey /\ \A i \in Servers : reload[i] # None => reload[i].key # k2

MInit == HInit /\ scenario \in {"servers", "keys", "accounts"}

MSpec == MInit /\ [][HNext /\ UNCHANGED scenario /\ Within']_<<allVars, scenario>>

\* Nothing is asked of an account once it was disturbed.
StillCalm == \A o \in Accounts : calm[o]

=============================================================================
