------------------------------ MODULE Upkeep ------------------------------
(* The proposals that bring the settings of listed reserves in line with    *)
(* the configuration (tasks/proposals), as functions of the chain c.        *)
EXTENDS Listings

One(r) == << r >>
PricePrime == SetOraclePrice("PRIME")
PriceWstEth == SetOraclePrice("WSTETH")
PriceJitoSol == SetOraclePrice("JITOSOL_SOL")
InEMode(r, name) == << SetAssetEModeCategory(r, name) >>

-----------------------------------------------------------------------------
(* Caps *)

UpdateCaps(c) == ReviewSupplyCaps(c, Everything) \o ReviewBorrowCaps(c, Everything)

GigaHydration(c) == UpdateCaps(c) \o ReviewIncentive(c, "2-POOL-GDOT", {})

UpdateOraclesAndCaps(c) ==
  PricePrime \o PriceJitoSol \o PriceWstEth
  \o ReviewSupplyCaps(c, One("PRIME")) \o ReviewDebtCeiling(c, One("PRIME"))
  \o << [aaveManagerCall(Call) EXCEPT !.gets = {<<"bucket", "HOLLAR">>}] >>

UpdatePrimeParams(c) ==
  PricePrime \o ReviewSupplyCaps(c, One("PRIME")) \o ReviewDebtCeiling(c, One("PRIME"))

UpdateReserveOracle(c) == SetReserveOracle("VDOT") \o ReviewSupplyCaps(c, Everything)

VdotBiggening(c) == ReviewSupplyCaps(c, Everything) \o ReviewEMode(c, "DotEMode")

(* Rates and factors *)

ReserveFactorAndUtilization(c) ==
  ReviewReserveFactors(c, Everything) \o ReviewRateStrategies(c, Everything)

ReserveFactorProp(c) ==
  ReviewReserveFactors(c, Everything) \o << Set("fee", "VDOT") >>
  \o ReviewSupplyCaps(c, Everything) \o ReviewBorrowCaps(c, Everything) \o ReviewReserveConfigs(c)

ReduceStablesBorrowRate(c) ==
  ReviewReserveFactors(c, Everything) \o ReviewRateStrategies(c, Everything)
  \o ReviewSupplyCaps(c, Everything)
  \o ForHollarPools(LAMBDA i : ReviewIncentive(c, HollarPools[i], {}))
  \o PriceWstEth \o << [aaveManagerCall(Call) EXCEPT !.gets = {<<"bucket", "HOLLAR">>}] >>

DotRateStrategy(c) == ReviewRateStrategies(c, One("DOT"))
PrimeRateStrategy(c) == ReviewRateStrategies(c, One("PRIME"))
Halvening(c) == ReviewRateStrategies(c, One("DOT")) \o PricePrime

(* Collateral, e-mode and isolation *)

GigaDotUpdate(c) ==
  ReviewSupplyCaps(c, Everything) \o ReviewEMode(c, "DotEMode") \o InEMode("2-POOL-GDOT", "DotEMode")
  \o ReviewEmissionAdmin(c, "2-POOL-GDOT") \o ReviewIncentive(c, "2-POOL-GDOT", {})

HTokenCollateral(c) ==
  ReviewReserveConfigs(c) \o UpdateCaps(c)
  \o ForHollarPools(LAMBDA i : InEMode(HollarPools[i], "StableEMode")
                               \o ReviewIncentive(c, HollarPools[i], {}))
  \o ReviewReserveFactors(c, Everything) \o PriceWstEth

ThreePoolCollateral(c) ==
  ReviewReserveConfigs(c) \o UpdateCaps(c) \o InEMode("3-POOL", "StableEMode")
  \o ReviewRateStrategies(c, Everything) \o PriceWstEth

UpdateDotEMode(c) == ReviewEMode(c, "DotEMode")

DisableStablesIsolationBorrow == << Isolate("USDC", FALSE), Isolate("USDT", FALSE) >>

UpdateIsolationParams(c) ==
  << Isolate("USDC", TRUE), Isolate("USDT", TRUE) >> \o ReviewDebtCeiling(c, ReserveAssets)

(* Incentives and prices *)

HollarPoolsUpdate(c) ==
  ForHollarPools(LAMBDA i : << SellAll("treasury", HollarPools[i], HollarTokens[i]) >>)
  \o UpdateCaps(c)
  \o ForHollarPools(LAMBDA i : ReviewEmissionAdmin(c, HollarPools[i])
                               \o ReviewIncentive(c, HollarPools[i], {}))

UpdateHollarIncentives(c) == ForHollarPools(LAMBDA i : ReviewIncentive(c, HollarPools[i], {}))
UpdateGdotIncentives(c) == ReviewIncentive(c, "2-POOL-GDOT", {})
Update3PoolIncentives(c) == ReviewIncentive(c, "3-POOL", {})
UpdateMultiIncentives(c, r, s) == ReviewIncentive(c, r, {}) \o ReviewIncentive(c, s, {})

UpdateManualOraclePrices == PricePrime \o PriceJitoSol \o PriceWstEth

UpdateWstEthOracle ==
  PriceWstEth \o << [Call EXCEPT !.needs = {Pool("2-POOL-GETH")}, !.gets = {<<"pegSource", "2-POOL-GETH">>}] >>

\* Stops and lowers gDOT rewards, starts PRIME rewards on three HOLLAR shares, and
\* moves the collector's balances to the treasury, a transfer for each asset held
\* when the proposal is built.
Swept(c) == Without(ReserveAssets, { r \in Items(ReserveAssets) : Holds("collector", r) \notin c.facts })
RewardsRefresh(c) ==
  << [aaveManagerCall(Call) EXCEPT !.needs = {EmissionAdmin}, !.gets = {<<"emission", "lower">>}],
     [aaveManagerCall(Call) EXCEPT !.gets = {<<"emissionAdmin", "PRIME">>}],
     [aaveManagerCall(Call) EXCEPT !.needs = {<<"emissionAdmin", "PRIME">>},
        !.gets = { <<"primeReward", r>> : r \in {"2-POOL-HUSDT", "2-POOL-HUSDC", "2-POOL-HEURC"} }] >>
  \o Each(LAMBDA r : [Transfer("collector", "treasury", r) EXCEPT !.drops = {Holds("collector", r)}],
          Swept(c))
=============================================================================
