--------------------------- MODULE MCPositionBook ---------------------------
EXTENDS PositionBook, TLC

CONSTANTS short, long

MCPools    == {short, long}
OneToken   == short :> "nft" @@ long :> "nft"
TwoTokens  == short :> "nftA" @@ long :> "nftB"
MCApy      == short :> 1 @@ long :> 3
MCPeriod   == short :> 1 @@ long :> 3
=============================================================================
