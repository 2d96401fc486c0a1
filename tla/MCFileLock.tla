----------------------------- MODULE MCFileLock -----------------------------
(* TLC instances of FileLock. *)
EXTENDS FileLock, TLC

CONSTANTS c1, c2, c3

ThreeContenders == {c1, c2, c3}
Symmetry == Permutations(ThreeContenders)

=============================================================================
