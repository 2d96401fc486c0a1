-------------------------- MODULE MCConnectorShare --------------------------
(* TLC instances of ConnectorShare. *)
EXTENDS ConnectorShare, TLC
Swap == Permutations(Devices)
=============================================================================
