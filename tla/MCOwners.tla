------------------------------ MODULE MCOwners ------------------------------
(***************************************************************************)
(* The owner store in two small instances that one run explores: one       *)
(* browser session of one account with two keys, whose slice grows twice   *)
(* and shrinks; and two accounts that claim the same key, one of them from *)
(* two sessions.                                                           *)
(***************************************************************************)
EXTENDS OwnerCommands

CONSTANTS o1, o2, s1, s2, s3, k1, k2

VARIABLE scenario   \* which of the two

TwoOwners == {o1, o2}
ThreeSessions == {s1, s2, s3}
ThreeOwnerOf == [s \in ThreeSessions |-> IF s = s3 THEN o2 ELSE o1]
TwoKeys == {k1, k2}

Within ==
    CASE scenario = "arrays" -> \A s \in {s2, s3} : login[s] = None /\ picked[s] = None
      [] scenario = "sharing" -> \A x \in Sessions : k2 \notin LinkedKeys(x)

MInit == CInit /\ scenario \in {"arrays", "sharing"}

MSpec == MInit /\ [][CNext /\ UNCHANGED scenario /\ Within']_<<allVars, scenario>>

=============================================================================
