------------------------------- MODULE MCFile -------------------------------
(***************************************************************************)
(* The file store under two concurrent callers and two packages of one     *)
(* version each, all with the same content.                                *)
(***************************************************************************)
EXTENDS FileHistory, TLC

CONSTANTS a, b, w1, w2, u1

MCNames == {a, b}
MCVers == {"1"}
MCWorkers == {w1, w2}
MCUploads == {u1}

MCSymmetry == Permutations(MCWorkers) \cup Permutations(MCNames)

=============================================================================
