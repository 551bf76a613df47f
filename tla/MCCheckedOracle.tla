-------------------------- MODULE MCCheckedOracle --------------------------
EXTENDS CheckedOracle, TLC

\* A feed coarser than the oracle, a finer one, and one with too many decimals.
CONSTANTS coarse, fine, odd

MCFeeds    == {coarse, fine, odd}
MCDecimals == coarse :> 0 @@ fine :> 2 @@ odd :> 3
MCPrices   == {-1, 0} \cup 1 .. 28
=============================================================================
