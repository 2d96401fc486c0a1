--------------------------- MODULE MCConnectorDocs ---------------------------
EXTENDS ConnectorDocs, TLC
Swap == Permutations(Devices)
=============================================================================
