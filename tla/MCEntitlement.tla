------------------------------ MODULE MCEntitlement ---------------------------
(* TLC instances of Entitlement and the Billing it builds on. *)
EXTENDS Entitlement, TLC

CONSTANTS sub1, sub2, acct1, acct2
TwoSubs == {sub1, sub2}
TwoAccounts == {acct1, acct2}
AnyOrder == Permutations(TwoSubs) \cup Permutations(TwoAccounts)
=============================================================================
