------------------------------ MODULE Launch ------------------------------
(***************************************************************************)
(* Governance proposals from the day they are built to the day they run:    *)
(* each is put together from the chain as it is, waits, and is enacted,     *)
(* rejected or refused, while others get ahead of it.                       *)
(***************************************************************************)
EXTENDS Satellite

CONSTANTS MaxReferenda,
          Strict  \* may the registry and the router look at what they are given

ASSUME ReferendaAssumption == MaxReferenda \in Nat

\* What the proposals list is in the configuration, as collateral, and of it PRIME and APYUSD
\* alone have a debt ceiling (markets/*/reservesConfigs.ts; stHDX has one in the main market,
\* where nothing lists it, and none in its own).
NewReserves ==
  {"GDOT", "TBTC", "VDOT", "PAXG", "2-POOL-GETH", "ETH", "3-POOL", "2-POOL-GSOL", "SOL", "EURC",
   "2-POOL-HEURC", "HYPE", "ZEC", "SPY", "PRIME", "APYUSD", "SIGIL", "BIL", "STHDX"}
  \cup { HollarPools[i] : i \in 1..4 }
ASSUME ConfigAssumption ==
  /\ ReserveAssets \in Seq(STRING)
  /\ \A r \in NewReserves : Configured(r) /\ r \notin Unborrowed
  /\ Isolated \subseteq {"PRIME", "APYUSD"}

VARIABLES chain,      \* [facts, nonce, farm, lost, strict]
          era,        \* which proposals are being made at this time
          referenda   \* in the order they were built
vars == <<chain, era, referenda>>

-----------------------------------------------------------------------------
(* The proposals of an era; later ones rely on what earlier ones left.      *)

Launches == << {"gigadot-launch", "tbtc-prop", "vdot-prop", "paxg-prop"},
               {"gigaeth-launch", "3pool-launch", "hollar-pools-launch"},
               {"gigasol-launch", "heurc-launch", "hype-mm", "zec-mm", "spy-mm", "prime",
                "apyusd", "sigil-launch"},
               {"apyusd-motion", "apyusd-liquidity"},
               {"bil", "submit-bil-proposal", "bil-stablepool-patch", "recovery-gho-cross-refs"},
               {"gigahdx-launch", "submit-gigahdx-proposal", "recovery-gho-cross-refs",
                "set-gigahdx-pool", "approve-gigahdx-as-controller", "set-sthdx-oracle"} >>
Upkeeps == << {},
  {"update-caps", "gigahydration", "bifrosto-vdot-oracle",
   "vdot-biggening", "reserve-factor-and-utilization-prop", "reserve-factor-prop",
   "dot-rate-strategy", "gigadot-update", "update-gdot-incentives", "update-dot-emode"},
  {"update-caps", "reduce-stables-borrow-rate", "htoken-collateral", "3pool-collateral",
   "hollar-pools-update", "update-hollar-incentives", "update-3pool-incentives",
   "update-multi-incentives", "update-manual-oracle-prices", "update-wsteth-oracle",
   "rewards-refresh"},
  {"update-oracles-and-caps", "update-prime-params", "prime-rate-strategy", "halvening",
   "disable-stables-isolation-borrow", "update-isolation-params", "update-caps"},
  {}, {} >>
Proposals == Launches[era] \cup Upkeeps[era]

Built(p, c, n) ==
  CASE p = "gigadot-launch"      -> GigaDotLaunch(c)
    [] p = "tbtc-prop"           -> TbtcProp(c)
    [] p = "vdot-prop"           -> VdotProp(c)
    [] p = "paxg-prop"           -> PaxgProp(c)
    [] p = "gigaeth-launch"      -> GigaEthLaunch(c)
    [] p = "3pool-launch"        -> ThreePoolLaunch(c)
    [] p = "hollar-pools-launch" -> HollarPoolsLaunch(c)
    [] p = "gigasol-launch"      -> GigaSolLaunch(c)
    [] p = "heurc-launch"        -> HeurcLaunch(c)
    [] p = "hype-mm"             -> HypeMM(c)
    [] p = "zec-mm"              -> ZecMM(c, n)
    [] p = "spy-mm"              -> SpyMM(c, n)
    [] p = "prime"               -> Prime(c)
    [] p = "apyusd"              -> ApyUsd(c)
    [] p = "apyusd-motion"       -> Now(<< ApyUsdMotion >>)
    [] p = "apyusd-liquidity"    -> Now(ApyUsdSeed)
    [] p = "sigil-launch"        -> SigilLaunch(c)
    [] p = "update-caps"         -> Now(UpdateCaps(c))
    [] p = "gigahydration"       -> Now(GigaHydration(c))
    [] p = "update-oracles-and-caps" -> Now(UpdateOraclesAndCaps(c))
    [] p = "update-prime-params" -> Now(UpdatePrimeParams(c))
    [] p = "bifrosto-vdot-oracle" -> Now(UpdateReserveOracle(c))
    [] p = "vdot-biggening"      -> Now(VdotBiggening(c))
    [] p = "reserve-factor-and-utilization-prop" -> Now(ReserveFactorAndUtilization(c))
    [] p = "reserve-factor-prop" -> Now(ReserveFactorProp(c))
    [] p = "reduce-stables-borrow-rate" -> Now(ReduceStablesBorrowRate(c))
    [] p = "dot-rate-strategy"   -> Now(DotRateStrategy(c))
    [] p = "prime-rate-strategy" -> Now(PrimeRateStrategy(c))
    [] p = "halvening"           -> Now(Halvening(c))
    [] p = "gigadot-update"      -> Now(GigaDotUpdate(c))
    [] p = "htoken-collateral"   -> Now(HTokenCollateral(c))
    [] p = "3pool-collateral"    -> Now(ThreePoolCollateral(c))
    [] p = "update-dot-emode"    -> Now(UpdateDotEMode(c))
    [] p = "disable-stables-isolation-borrow" -> Now(DisableStablesIsolationBorrow)
    [] p = "update-isolation-params" -> Now(UpdateIsolationParams(c))
    [] p = "hollar-pools-update" -> Now(HollarPoolsUpdate(c))
    [] p = "update-hollar-incentives" -> Now(UpdateHollarIncentives(c))
    [] p = "update-gdot-incentives" -> Now(UpdateGdotIncentives(c))
    [] p = "update-3pool-incentives" -> Now(Update3PoolIncentives(c))
    [] p = "update-multi-incentives" -> Now(UpdateMultiIncentives(c, "3-POOL", "2-POOL-GDOT"))
    [] p = "update-manual-oracle-prices" -> Now(UpdateManualOraclePrices)
    [] p = "update-wsteth-oracle" -> Now(UpdateWstEthOracle)
    [] p = "rewards-refresh"     -> Now(RewardsRefresh(c))
    [] p = "bil"                 -> BilLaunch(c)
    [] p = "submit-bil-proposal" -> BilSubmission(c)
    [] p = "bil-stablepool-patch" -> StablepoolPatch(c)
    [] p = "gigahdx-launch"      -> GigaHdxLaunch(c)
    [] p = "submit-gigahdx-proposal" -> GigaHdxSubmission(c)
    [] p = "recovery-gho-cross-refs" -> Recovery(c)
    [] p = "set-gigahdx-pool"    -> SetGigaHdxPool(c)
    [] p = "approve-gigahdx-as-controller" -> ApproveController(c)
    [] p = "set-sthdx-oracle"    -> SetStHdxOracle

-----------------------------------------------------------------------------
(* The chain at the start of an era.  What is listed was configured, except *)
(* perhaps for DOT and PRIME, whose configuration has been edited since.     *)

OldReserves(e) ==
  << "DOT", "HOLLAR", "USDC", "USDT" >>
  \o (IF e > 1 THEN << "2-POOL-GDOT", "VDOT" >> ELSE << >>)
  \o (IF e > 2 THEN HollarPools \o << "3-POOL" >> ELSE << >>)
  \o (IF e > 3 THEN << "PRIME", "APYUSD" >> ELSE << >>)
OldTokens(e) ==
  << "aDOT", "aHOLLAR", "aUSDC", "aUSDT", "gDOT", "avDOT" >> \o HollarTokens \o << "a3-Pool", "aPRIME", "aAPYUSD" >>
Settings == {"rate", "supplyCap", "borrowCap", "factor", "ltv", "ceiling", "fee"}
Underlyings == {"DOT", "VDOT", "jitoSOL", "SOL", "wstETH", "ETH", "HOLLAR", "EURC", "HYPE", "ZEC",
                "SPY", "PRIME", "APYUSD", "TBTC", "PAXG", "3-POOL", "USDC", "USDT"}
               \cup { HollarPools[i] : i \in 1..4 }
Funds == Underlyings \cup {"aDOT"}

Reserve(r, a, n) ==
  {Registered(r), Registered(a), Located(a, n), Listed(r), AToken(r, n), Collateral(r)}
  \cup { Follows(s, r) : s \in Settings }
Facts(e) ==
  (UNION { Reserve(OldReserves(e)[i], OldTokens(e)[i], 3 * (i - 1)) : i \in 1..Len(OldReserves(e)) })
  \cup { Registered(u) : u \in Underlyings }
  \cup { Holds("treasury", u) : u \in IF e = 1 THEN Funds ELSE Funds \cup {"gDOT"} }
  \cup { InOmnipool(u) : u \in {"HYPE", "ZEC", "SPY"} }
  \cup {Holds("collector", "DOT"), Category("StableEMode")}
  \cup (IF e > 1 THEN {RiskAdmin, EmissionAdmin} ELSE {})
  \cup (IF e > 2 THEN {Pool("2-POOL-GETH")} ELSE {})
  \cup (IF e > 3 THEN {Pool("2-Pool-apyUSD")} ELSE {})

Edited == { Follows(s, "DOT") : s \in Settings }
          \cup { Follows(s, "PRIME") : s \in Settings \ {"ceiling"} }

\* In era 5 BIL and in era 6 stHDX gets a market of its own.  There is nothing in it, or the
\* collateral alone, its ids perhaps registered for an earlier deployment; or it is as a
\* batch leaves it that registers the collateral too late: HOLLAR's token is where the
\* collateral's should be, and the facilitator where HOLLAR's token should be.
Satellites == [e \in {5, 6} |-> IF e = 5 THEN [r |-> "BIL", a |-> "aBIL"] ELSE [r |-> "STHDX", a |-> "GIGAHDX"]]
SatelliteFacts ==
  {Registered("HOLLAR"), Currency("HOLLAR"), Holds("treasury", "HOLLAR"), Holds("source", "HDX"), RiskAdmin}
SatelliteStarts(e) ==
  LET r == Satellites[e].r  a == Satellites[e].a
      collateral == {Registered(r), AtVault, Listed(r), AToken(r, 0), Collateral(r)}
                    \cup { Follows(s, r) : s \in Settings }
  IN { [facts |-> SatelliteFacts, nonce |-> 0],
       [facts |-> SatelliteFacts \cup {Registered(r)}, nonce |-> 0],
       [facts |-> SatelliteFacts \cup collateral, nonce |-> 3],
       [facts |-> SatelliteFacts \cup collateral \cup {Registered(a)}, nonce |-> 3],
       [facts |-> SatelliteFacts \cup {Registered(r), AtVault, Registered(a), Located(a, 0), Listed("HOLLAR"),
                                       AToken("HOLLAR", 0), Facilitator(3)}, nonce |-> 3] }
Starts(e) ==
  IF e > 4 THEN SatelliteStarts(e)
  ELSE { [facts |-> f, nonce |-> 3 * Len(OldReserves(e))] : f \in {Facts(e), Facts(e) \ Edited} }

Init ==
  /\ era \in 1..6
  /\ \E start \in Starts(era), strict \in Strict :
       chain = [facts  |-> start.facts,
                nonce  |-> start.nonce,
                farm   |-> IF era = 3 THEN 127 ELSE 99,
                lost   |-> {},
                strict |-> strict]
  /\ referenda = << >>

\* Reserves that pending proposals will initialise, by which ATOKEN_NONCE may be raised.
Lists(p) == CASE p \in {"gigasol-launch", "gigaeth-launch", "heurc-launch"} -> 2
              [] p = "hollar-pools-launch" -> 4
              [] p \in {"hype-mm", "zec-mm", "spy-mm", "prime", "apyusd", "sigil-launch"} -> 1
              [] OTHER -> 0
Pending(r) == r.status = "pending"
Bases(p) ==
  IF p \in {"zec-mm", "spy-mm"}
    THEN {chain.nonce} \cup
         { chain.nonce + 3 * Lists(referenda[k].prop) : k \in { j \in DOMAIN referenda : Pending(referenda[j]) } }
    ELSE {chain.nonce}

\* The task prints a preimage, or exits.
Build(p) ==
  /\ Len(referenda) < MaxReferenda
  /\ \E n \in Bases(p) :
       LET plan == Built(p, chain, n) IN
       /\ ~Exits(plan.now) /\ \A i \in 1..Len(plan.later) : ~Exits(plan.later[i])
       /\ referenda' = Append(referenda,
            [prop |-> p, status |-> "pending", seen |-> chain, base |-> n, at |-> 0,
             fresh |-> FALSE, left |-> << >>, lost |-> {}])
  /\ UNCHANGED <<chain, era>>

\* The referendum passes and its batch runs: all of it, or a failing root call
\* reverts it.  Each run starts with nothing lost.
Enact(k) ==
  LET r    == referenda[k]
      plan == Built(r.prop, r.seen, r.base)
      res  == Dispatch(plan.now, chain)
  IN /\ Pending(r)
     /\ chain' = [res.c EXCEPT !.lost = {}]
     /\ referenda' = [referenda EXCEPT ![k] =
          [r EXCEPT !.status = IF res.ok THEN "passed" ELSE "refused",
                    !.at = chain.nonce, !.fresh = (chain = r.seen), !.seen = << >>,
                    !.left = IF res.ok THEN plan.later ELSE << >>,
                    !.lost = res.c.lost]]
     /\ UNCHANGED era

\* The scheduler runs the next batch of a referendum that passed.
Follow(k) ==
  LET r   == referenda[k]
      res == Dispatch(Head(r.left), chain)
  IN /\ r.left # << >>
     /\ chain' = [res.c EXCEPT !.lost = {}]
     /\ referenda' = [referenda EXCEPT ![k] = [r EXCEPT !.left = Tail(@), !.lost = @ \cup res.c.lost]]
     /\ UNCHANGED era

Reject(k) ==
  /\ Pending(referenda[k])
  /\ referenda' = [referenda EXCEPT ![k] = [@ EXCEPT !.status = "rejected", !.seen = << >>]]
  /\ UNCHANGED <<chain, era>>

Next == \/ \E p \in Proposals : Build(p)
        \/ \E k \in DOMAIN referenda : Enact(k) \/ Follow(k) \/ Reject(k)

Spec == Init /\ [][Next]_vars

-----------------------------------------------------------------------------
(* Properties *)

\* Which token each proposal means by an id.
Means == [gDOT |-> "GDOT", atBTC |-> "TBTC", apaxg |-> "PAXG", gETH |-> "2-POOL-GETH",
          aETH |-> "ETH", gSOL |-> "2-POOL-GSOL", aSOL |-> "SOL", aEURC |-> "EURC",
          HEURC |-> "2-POOL-HEURC", HUSDC |-> "2-POOL-HUSDC", HUSDT |-> "2-POOL-HUSDT",
          HUSDS |-> "2-POOL-HUSDS", HUSDE |-> "2-POOL-HUSDE", aHYPE |-> "HYPE", aZEC |-> "ZEC",
          aSPY |-> "SPY", aPRIME |-> "PRIME", aAPYUSD |-> "APYUSD", aSIGIL |-> "SIGIL",
          aBIL |-> "BIL", GIGAHDX |-> "STHDX"]
NewTokens(p) ==
  CASE p = "gigadot-launch" -> {"gDOT"}            [] p = "tbtc-prop" -> {"atBTC"}
    [] p = "paxg-prop" -> {"apaxg"}                [] p = "gigaeth-launch" -> {"gETH", "aETH"}
    [] p = "gigasol-launch" -> {"gSOL", "aSOL"}    [] p = "heurc-launch" -> {"aEURC", "HEURC"}
    [] p = "hollar-pools-launch" -> {"HUSDC", "HUSDT", "HUSDS", "HUSDE"}
    [] p = "hype-mm" -> {"aHYPE"}                  [] p = "zec-mm" -> {"aZEC"}
    [] p = "spy-mm" -> {"aSPY"}                    [] p = "prime" -> {"aPRIME"}
    [] p = "apyusd" -> {"aAPYUSD"}                 [] p = "sigil-launch" -> {"aSIGIL"}
    [] p \in {"bil", "submit-bil-proposal"} -> {"aBIL"}
    [] p \in {"gigahdx-launch", "submit-gigahdx-proposal"} -> {"GIGAHDX"}
    [] OTHER -> {}
Passed(k) == referenda[k].status = "passed"
Finished(k) == Passed(k) /\ referenda[k].left = << >>
OnTime(k) == referenda[k].base = referenda[k].at

\* A predicted address is the token's own whenever the proposal runs at the nonce it
\* was built for, whatever else has happened meanwhile (hype-mm.ts:19-20).
PredictionHolds ==
  \A k \in DOMAIN referenda : Passed(k) /\ OnTime(k) =>
    \A a \in NewTokens(referenda[k].prop) : IsPair(Means[a], a, chain)

\* A market launched on time has its collateral and HOLLAR, and a HOLLAR token that it
\* listed is a facilitator and knows its debt token (bil.ts:162-281); a recovery that
\* passed leaves no HOLLAR token that is not (recovery-gho-cross-refs.ts:1-20).
MarketHollarTokens == { n \in 0..chain.nonce : AToken("HOLLAR", n) \in chain.facts }
SatelliteWired ==
  era > 4 => \A k \in DOMAIN referenda : Passed(k) /\ OnTime(k) =>
    /\ NewTokens(referenda[k].prop) # {} =>
         /\ {Listed("HOLLAR"), Listed(Satellites[era].r)} \subseteq chain.facts
         /\ \A n \in MarketHollarTokens : n >= referenda[k].base => Wired(n) \subseteq chain.facts
    /\ referenda[k].prop = "recovery-gho-cross-refs" =>
         \A n \in MarketHollarTokens : Wired(n) \subseteq chain.facts

\* Incentives of a proposal that ran on time go to a token of the reserve they are
\* meant for, also those that are set up some blocks later.
IncentivesReachReserve ==
  (\A k \in DOMAIN referenda : Passed(k) => OnTime(k)) =>
    \A f \in chain.facts : f[1] = "incentive" => AToken(f[2], f[3]) \in chain.facts

\* The swallowed calls of a GIGA launch come before a root call that only succeeds if
\* they did: it goes through altogether or not at all, also when others got ahead.
GigaAllOrNothing ==
  \A k \in DOMAIN referenda : \A a \in {"gSOL", "gETH"} :
    Passed(k) /\ a \in NewTokens(referenda[k].prop) =>
      /\ InOmnipool(a) \in chain.facts
      /\ \A b \in NewTokens(referenda[k].prop) : IsPair(Means[b], b, chain)
      /\ Seeded(Means[a]) \in chain.facts /\ Collateral(Means[a]) \in chain.facts

\* A proposal that runs on the chain it was built from and for loses nothing to the silence
\* of the dispatchers, except debt ceilings of assets that are no reserves yet, what a
\* market that is launched again has already, and what bil-stablepool-patch does, which
\* only asks whether the id of aBIL is registered.
LaunchedAgain(k) == era > 4 /\ \E n \in MarketHollarTokens : n < referenda[k].base
FreshNothingLost ==
  \A k \in DOMAIN referenda :
    Passed(k) /\ referenda[k].fresh /\ OnTime(k) /\ ~LaunchedAgain(k)
      /\ referenda[k].prop # "bil-stablepool-patch" =>
    referenda[k].lost \subseteq { Follows("ceiling", r) : r \in Isolated }

\* Between proposals, whatever order they come in, no isolated asset is collateral
\* without its debt ceiling.
IsolatedHasCeiling ==
  \A r \in Isolated : Collateral(r) \in chain.facts => Follows("ceiling", r) \in chain.facts

\* After a review of the caps, the factors or the collateral settings of the market
\* every reserve follows the configuration, also one that was listed meanwhile.
Reviews(p) ==
  CASE p \in {"update-caps", "gigahydration", "hollar-pools-update"} -> {"supplyCap", "borrowCap"}
    [] p \in {"htoken-collateral", "reserve-factor-prop"} -> {"supplyCap", "borrowCap", "ltv", "factor"}
    [] p = "3pool-collateral" -> {"supplyCap", "borrowCap", "ltv", "rate"}
    [] p = "reserve-factor-and-utilization-prop" -> {"factor", "rate"}
    [] p = "reduce-stables-borrow-rate" -> {"factor", "rate", "supplyCap"}
    [] p \in {"vdot-biggening", "bifrosto-vdot-oracle", "gigadot-update"} -> {"supplyCap"}
    [] OTHER -> {}
ReviewedIsConfigured ==
  \A k \in DOMAIN referenda : Passed(k) =>
    \A s \in Reviews(referenda[k].prop), i \in DOMAIN ReserveAssets :
      Listed(ReserveAssets[i]) \in chain.facts => Follows(s, ReserveAssets[i]) \in chain.facts
=============================================================================
