----------------------------- MODULE Listings -----------------------------
(* The proposals that list new reserves (tasks/proposals), as functions of  *)
(* the chain c they are built from.  A token that does not exist yet gets an *)
(* asset id at its predicted address: n for the first reserve the proposal   *)
(* initialises, n + 3 for the second, because a reserve has three tokens.    *)
EXTENDS MarketReview

\* The calls that run when the referendum passes, and the batches it schedules.
Proposal(now, later) == [now |-> now, later |-> later]
Now(calls) == Proposal(calls, << >>)
NonEmpty(batches) == Without(batches, {<< >>})

-----------------------------------------------------------------------------
(* GIGA tokens: a reserve, a pool of its aToken with a staked asset, and the *)
(* share of that pool as a second reserve                                    *)

GigaSolAssets(c) == << RegisterAt("gSOL", c.nonce), RegisterAt("aSOL", c.nonce + 3),
                       Register("2-POOL-GSOL") >>

GigaSolMarket(c) ==
  ReviewRateStrategies(c, Everything)
  \o InitReserve(c, "2-POOL-GSOL") \o InitReserve(c, "SOL")
  \o ReviewEMode(c, "SolEMode")
  \o << SetAssetEModeCategory("SOL", "SolEMode"), SetAssetEModeCategory("2-POOL-GSOL", "SolEMode") >>

GigaSolPool ==
  SetOraclePrice("JITOSOL_SOL")
  \o << CreatePool("2-POOL-GSOL", {"jitoSOL", "aSOL"}),
        Sell("treasury", "SOL", "aSOL"),
        Transfer("treasury", "omnipool", "aSOL"),
        Transfer("treasury", "omnipool", "jitoSOL"),
        AddLiquidity("omnipool", "2-POOL-GSOL", {"jitoSOL", "aSOL"}),
        SellAll("omnipool", "2-POOL-GSOL", "gSOL") >>

\* Seeded fault: goes on when the omnipool refuses the token.
GigaSolTokenDispatched ==
  << dispatchAs(AddToken("gSOL")), AddCurrency("gSOL"), AddCurrency("2-POOL-GSOL"),
     CreateGlobalFarm, CreateYieldFarm(127, "gSOL") >>

GigaSolToken ==
  << AddToken("gSOL"), AddCurrency("gSOL"), AddCurrency("2-POOL-GSOL"),
     CreateGlobalFarm, CreateYieldFarm(127, "gSOL") >>

GigaSolLaunch(c) == Now(GigaSolAssets(c) \o GigaSolMarket(c) \o GigaSolPool \o GigaSolToken)

GigaEthAssets(c) == << RegisterAt("gETH", c.nonce), RegisterAt("aETH", c.nonce + 3),
                       Register("2-POOL-GETH") >>

GigaEthMarket(c) ==
  ReviewRateStrategies(c, Everything)
  \o InitReserve(c, "2-POOL-GETH") \o InitReserve(c, "ETH")
  \o ReviewEMode(c, "EthEMode")
  \o << SetAssetEModeCategory("ETH", "EthEMode"), SetAssetEModeCategory("2-POOL-GETH", "EthEMode") >>

GigaEthPool ==
  << CreatePool("2-POOL-GETH", {"wstETH", "aETH"}),
     Sell("treasury", "ETH", "aETH"),
     Transfer("treasury", "omnipool", "aETH"),
     Transfer("treasury", "omnipool", "wstETH"),
     AddLiquidity("omnipool", "2-POOL-GETH", {"wstETH", "aETH"}),
     SellAll("omnipool", "2-POOL-GETH", "gETH") >>

GigaEthToken ==
  << AddToken("gETH"), AddCurrency("gETH"), AddCurrency("2-POOL-GETH"),
     CreateGlobalFarm, CreateYieldFarm(99, "gETH"), Route({}, "2-POOL-GDOT", "gDOT") >>

GigaEthLaunch(c) == Now(GigaEthAssets(c) \o GigaEthMarket(c) \o GigaEthPool \o GigaEthToken)

GigaDotAssets(c) ==
  << RegisterAt("gDOT", c.nonce), Register("GDOT"), CreatePool("GDOT", {"VDOT", "aDOT"}),
     AddLiquidity("treasury", "GDOT", {"VDOT", "aDOT"}) >>

\* Every call that sets up incentives is put off by two blocks, in a batch of its own.
GigaDotIncentives(c) == Each(LAMBDA call : << call >>, ReviewIncentive(c, "GDOT", {c.nonce}))

GigaDotLaunch(c) ==
  Proposal(GigaDotAssets(c) \o ReviewRateStrategies(c, Everything) \o InitReserve(c, "GDOT")
           \o ReviewEmissionAdmin(c, "GDOT")
           \o << SellAll("treasury", "GDOT", "gDOT"), Transfer("treasury", "pot", "gDOT"),
                 AddCurrency("gDOT"), AddCurrency("GDOT") >>,
           GigaDotIncentives(c))

-----------------------------------------------------------------------------
(* HOLLAR pools and other shares *)

\* Seeded fault: forgets that the first reserve takes three nonces.
HeurcAssetsInARow(c) == << RegisterAt("aEURC", c.nonce), RegisterAt("HEURC", c.nonce + 1),
                           Register("2-POOL-HEURC") >>

HeurcAssets(c) == << RegisterAt("aEURC", c.nonce), RegisterAt("HEURC", c.nonce + 3),
                     Register("2-POOL-HEURC") >>

HeurcMarket(c) ==
  ReviewRateStrategies(c, Everything)
  \o InitReserve(c, "EURC") \o InitReserve(c, "2-POOL-HEURC")
  \o << CreatePool("2-POOL-HEURC", {"HOLLAR", "aEURC"}),
        AddCurrency("aEURC"), AddCurrency("HEURC"), AddCurrency("2-POOL-HEURC") >>

\* Seeded fault: the incentives go to the token of the other reserve.
HeurcLaterOffByThree(c) ==
  << SetEModeCategory("EUROZONE"), SetAssetEModeCategory("EURC", "EUROZONE"),
     SetAssetEModeCategory("2-POOL-HEURC", "EUROZONE") >>
  \o ReviewEmissionAdmin(c, "2-POOL-HEURC")
  \o ReviewIncentive(c, "2-POOL-HEURC", {c.nonce})

\* "Deferred to later block ... so reserves are fully committed first".
HeurcLater(c) ==
  << SetEModeCategory("EUROZONE"), SetAssetEModeCategory("EURC", "EUROZONE"),
     SetAssetEModeCategory("2-POOL-HEURC", "EUROZONE") >>
  \o ReviewEmissionAdmin(c, "2-POOL-HEURC")
  \o ReviewIncentive(c, "2-POOL-HEURC", {c.nonce + 3})

HeurcLast ==
  << Transfer("treasury", "pot", "gDOT"),
     Sell("treasury", "EURC", "aEURC"),
     AddLiquidity("treasury", "2-POOL-HEURC", {"HOLLAR", "aEURC"}),
     SellAll("treasury", "2-POOL-HEURC", "HEURC"),
     Schedule("dca", "HEURC") >>

HeurcLaunch(c) == Proposal(HeurcAssets(c) \o HeurcMarket(c), NonEmpty(<<HeurcLater(c), HeurcLast>>))

HollarPools == << "2-POOL-HUSDC", "2-POOL-HUSDT", "2-POOL-HUSDS", "2-POOL-HUSDE" >>
HollarTokens == << "HUSDC", "HUSDT", "HUSDS", "HUSDE" >>
ForHollarPools(Op(_)) == Op(1) \o Op(2) \o Op(3) \o Op(4)

HollarPoolsNow(c) ==
  ForHollarPools(LAMBDA i : InitReserve(c, HollarPools[i]))
  \o ForHollarPools(LAMBDA i : << RegisterAt(HollarTokens[i], c.nonce + 3 * (i - 1)),
                                  AddCurrency(HollarTokens[i]),
                                  Route({}, HollarPools[i], HollarTokens[i]) >>)
HollarPoolsLater(c) ==
  ForHollarPools(LAMBDA i : ReviewEmissionAdmin(c, HollarPools[i])
                            \o ReviewIncentive(c, HollarPools[i], {c.nonce + 3 * (i - 1)}))
HollarPoolsLast ==
  ForHollarPools(LAMBDA i : << SellAll("treasury", HollarPools[i], HollarTokens[i]),
                               Schedule("dca", HollarTokens[i]) >>)
  \o << Transfer("treasury", "pot", "gDOT") >>

HollarPoolsLaunch(c) == Proposal(HollarPoolsNow(c), <<HollarPoolsLater(c), HollarPoolsLast>>)

ThreePoolLaunch(c) ==
  Now(InitReserve(c, "3-POOL")
      \o ReviewEmissionAdmin(c, "3-POOL") \o ReviewIncentive(c, "3-POOL", {c.nonce})
      \o << Transfer("treasury", "pot", "gDOT"), RegisterAt("a3-Pool", c.nonce),
            AddCurrency("a3-Pool"), Route({}, "3-POOL", "a3-Pool") >>)

-----------------------------------------------------------------------------
(* Single assets.  n is the nonce the proposal is built for: the chain's, or *)
(* ATOKEN_NONCE for zec-mm and spy-mm.                                       *)

\* The asset is in the omnipool already, or the routes are refused.
Wrapped(c, r, a, n, routing) ==
  Now(InitReserve(c, r)
      \o << RegisterAt(a, n), AddCurrency(a), Route({InOmnipool(r)}, r, a) >>
      \o routing \o << SellAll("treasury", r, a) >>)

UpdateRouting(a) == << [Call EXCEPT !.needs = {Registered(a)}, !.gets = {<<"ice", a>>}] >>

HypeMM(c) == Wrapped(c, "HYPE", "aHYPE", c.nonce, << >>)
ZecMM(c, n) == Wrapped(c, "ZEC", "aZEC", n, UpdateRouting("aZEC"))
SpyMM(c, n) == Wrapped(c, "SPY", "aSPY", n, UpdateRouting("aSPY"))

Isolate(r, yes) ==
  [Set("isolationBorrow", r) EXCEPT !.gets = IF yes THEN @ ELSE {},
                                    !.drops = IF yes THEN {} ELSE {Follows("isolationBorrow", r)}]

\* Seeded fault: sets the ceiling of a reserve that does not exist yet.
CeilingFirst(c, r) ==
  ReviewDebtCeiling(c, ReserveAssets) \o InitReserve(c, r) \o ReviewReserveFactors(c, Everything)

IsolatedReserve(c, r) ==
  InitReserve(c, r) \o ReviewReserveFactors(c, Everything) \o ReviewDebtCeiling(c, ReserveAssets)

IsolatedAssets(c, r, a, share) ==
  << RegisterAt(a, c.nonce), AddCurrency(a), Register(share), AddCurrency(share),
     CreatePool(share, {r, "HOLLAR"}) >>

Prime(c) ==
  Now(<< Isolate("USDC", FALSE), Isolate("USDT", FALSE), Isolate("HOLLAR", TRUE) >>
      \o IsolatedReserve(c, "PRIME") \o SetOraclePrice("PRIME")
      \o IsolatedAssets(c, "PRIME", "aPRIME", "2-Pool-PRIME")
      \o << AddLiquidity("treasury", "2-Pool-PRIME", {"PRIME", "HOLLAR"}) >>)

BorrowHollar == [dispatchAs(Call) EXCEPT !.needs = {Listed("HOLLAR")}, !.gets = {Holds("treasury", "HOLLAR")}]

ApyUsd(c) ==
  Now(IsolatedReserve(c, "APYUSD") \o SetOraclePrice("APYUSD")
      \o IsolatedAssets(c, "APYUSD", "aAPYUSD", "2-Pool-apyUSD")
      \o << BorrowHollar, AddLiquidity("treasury", "2-Pool-apyUSD", {"APYUSD", "HOLLAR"}),
            Route({}, "APYUSD", "aAPYUSD") >>)

\* A motion of the technical committee freezes the pool and whitelists the proposal
\* that opens it again and seeds it.
ApyUsdMotion == [Call EXCEPT !.needs = {Pool("2-Pool-apyUSD")},
                             !.gets = {Frozen("2-Pool-apyUSD"), <<"whitelisted", "apyusd-liquidity">>}]
ApyUsdSeed ==
  << [Call EXCEPT !.needs = {Pool("2-Pool-apyUSD"), <<"whitelisted", "apyusd-liquidity">>},
                  !.drops = {Frozen("2-Pool-apyUSD"), <<"whitelisted", "apyusd-liquidity">>}],
     AddLiquidity("treasury", "2-Pool-apyUSD", {"APYUSD", "HOLLAR"}) >>

SigilLaunch(c) ==
  Now(<< Register("SIGIL"), [Call EXCEPT !.needs = {Registered("SIGIL")},
                                         !.gets = {Holds("treasury", "SIGIL")}] >>
      \o InitReserve(c, "SIGIL")
      \o << RegisterAt("aSIGIL", c.nonce), Sell("treasury", "SIGIL", "aSIGIL") >>)

\* generateProposal takes five arguments: the sell that tbtc-prop passes sixth is dropped.
TbtcProp(c) ==
  Now(InitReserve(c, "TBTC") \o ReviewRateStrategies(c, Everything)
      \o ReviewReserveFactors(c, Everything) \o ReviewReserveConfigs(c)
      \o ReviewSupplyCaps(c, Everything) \o ReviewBorrowCaps(c, Everything)
      \o << RegisterAt("atBTC", c.nonce), AddCurrency("atBTC") >>)

PaxgProp(c) ==
  Now(InitReserve(c, "PAXG") \o ReviewRateStrategies(c, Everything)
      \o ReviewReserveFactors(c, Everything) \o ReviewReserveConfigs(c)
      \o ReviewSupplyCaps(c, Everything) \o ReviewBorrowCaps(c, Everything)
      \o << RegisterAt("apaxg", c.nonce), AddCurrency("apaxg") >>)

\* avDOT is registered by a later run, when the token has been recorded.
VdotProp(c) ==
  Now(InitReserve(c, "VDOT") \o ReviewRateStrategies(c, Everything)
      \o ReviewEMode(c, "StableEMode") \o ReviewEMode(c, "DotEMode")
      \o << SetAssetEModeCategory("VDOT", "DotEMode") >>
      \o ReviewReserveConfigs(c)
      \o ReviewSupplyCaps(c, Everything) \o ReviewBorrowCaps(c, Everything)
      \o If(ATokensOf(c, "VDOT") # {},
            Each(LAMBDA n : RegisterAt("avDOT", n), << CHOOSE n \in ATokensOf(c, "VDOT") : TRUE >>)))
=============================================================================
