--------------------------- MODULE MCVaultLedger ---------------------------
EXTENDS VaultLedger, TLC

Symmetry == Permutations(Controllers)
=============================================================================
