----------------------------- MODULE MCBILVault -----------------------------
EXTENDS BILVault, TLC

CONSTANTS short, long

MCPools  == {short, long}
MCToken  == short :> "nft" @@ long :> "nft"
MCApy    == short :> 1 @@ long :> 1
MCPeriod == short :> 2 @@ long :> 3
=============================================================================
