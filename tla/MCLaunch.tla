----------------------------- MODULE MCLaunch -----------------------------
(* The reserves the proposals name, as the configuration had them when each  *)
(* was made.                                                                 *)
EXTENDS Launch

MCReserveAssets ==
  << "DOT", "HOLLAR", "USDC", "USDT", "GDOT", "2-POOL-GDOT", "VDOT", "TBTC", "PAXG",
     "2-POOL-GETH", "ETH", "3-POOL", "2-POOL-HUSDC", "2-POOL-HUSDT", "2-POOL-HUSDS",
     "2-POOL-HUSDE", "2-POOL-GSOL", "SOL", "EURC", "2-POOL-HEURC", "HYPE", "ZEC", "SPY",
     "PRIME", "APYUSD", "SIGIL", "BIL", "STHDX" >>
=============================================================================
