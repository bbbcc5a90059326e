------------------------------ MODULE MCReads ------------------------------
(***************************************************************************)
(* Three names with up to two versions.  One run explores two instances: a *)
(* resolution for the first name, over every store with one version of     *)
(* each and manifests that form cycles and self-dependencies, while a      *)
(* package is published; and a client's walk over stores of up to four     *)
(* packages, with pages of one or two, while two packages are published.   *)
(***************************************************************************)
EXTENDS ReadsHistory

VARIABLE scenario   \* which of the two

ThreeNames == 1..3
TwoVersions == 1..2
SomeManifests == {{}, {3}, {1, 2}, {2, 3}}
PageSizes == {0, 1}

Within ==
    CASE scenario = "dependencies" -> /\ walk = Idle /\ published <= 1
                                      /\ resolver # Idle => root[1] = 1
      [] scenario = "pages" -> /\ resolver = Idle
                               /\ Cardinality(Stored) <= 4 /\ \A p \in Stored : data[p] = {}

MInit ==
    /\ RInit
    /\ \/ scenario = "dependencies" /\ data[<<1, 1>>] # None
             /\ \A n \in Names : data[<<n, 2>>] = None
             /\ \A p \in Stored : data[p] \in Manifests
       \/ scenario = "pages" /\ Within

MSpec ==
    /\ MInit /\ [][RNext /\ UNCHANGED scenario /\ Within']_<<allVars, scenario>>
    /\ WF_allVars(RResolve)

=============================================================================
