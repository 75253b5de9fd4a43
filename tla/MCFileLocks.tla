----------------------------- MODULE MCFileLocks -----------------------------
(* Instances of FileLocks that TLC can check. *)
EXTENDS FileLocks, TLC

CONSTANTS p1, p2, p3, f1, f2, b1, b2

TwoProcs == {p1, p2}
ThreeProcs == {p1, p2, p3}
NoPairs == {}
TwoSymmetry == Permutations(TwoProcs) \cup Permutations({f1, f2}) \cup Permutations({b1, b2})
=============================================================================
