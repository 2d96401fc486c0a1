---------------------------- MODULE MCSyncServer ----------------------------
(* TLC instances of SyncServer. *)
EXTENDS SyncServer, TLC

CONSTANTS d1, d2, small, big, huge

OneSmallOneBig == (small :> 1) @@ (big :> 2)
TwoBig == (huge :> 2) @@ (big :> 2)
BigOnly == (big :> 2)
TwoVersions == [pg \in BOOLEAN |-> 2]
ThreeOnPostgres == [pg \in BOOLEAN |-> IF pg THEN 3 ELSE 2]
NoneLost == [pg \in BOOLEAN |-> 0]
OneLostInMemory == [pg \in BOOLEAN |-> IF pg THEN 0 ELSE 1]
Symmetric == Permutations({d1, d2})
=============================================================================
