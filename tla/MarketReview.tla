--------------------------- MODULE MarketReview ---------------------------
(* The tasks that compare the market with the configuration and add what    *)
(* is missing to the batch (tasks/misc): pure functions of the chain as it  *)
(* is when the proposal is built.                                           *)
EXTENDS GovCalls

CONSTANTS ReserveAssets,  \* the configured symbols, in order
          Unborrowed,     \* reserves with baseLTVAsCollateral "-1"
          Incentivized    \* the keys of IncentivesConfig

If(condition, calls) == IF condition THEN calls ELSE << >>
Each(Op(_), rs) == [i \in 1..Len(rs) |-> Op(rs[i])]
Items(rs) == { rs[i] : i \in 1..Len(rs) }
\* rs without the items in out.
Without(rs, out) ==
  LET kept[i \in 0..Len(rs)] ==
        IF i = 0 THEN << >>
        ELSE IF rs[i] \in out THEN kept[i - 1] ELSE Append(kept[i - 1], rs[i])
  IN kept[Len(rs)]

\* exit(1): there will be no proposal.
Exit == << [Call EXCEPT !.needs = {<<"exit", 1>>}] >>
Exits(calls) == \E i \in 1..Len(calls) : calls[i] = Exit[1]

Configured(r) == \E i \in 1..Len(ReserveAssets) : ReserveAssets[i] = r

\* Seeded fault: configures before it initialises.
InitReserveBackwards(c, r) ==
  IF ~Configured(r) THEN << >> ELSE
    << SetAssetSources(r) >>
    \o If(Collateral(r) \notin c.facts /\ r \notin Unborrowed,
          If(RiskAdmin \notin c.facts, << AddRiskAdmin >>) \o << ConfigureReserves(r) >>)
    \o If(Listed(r) \notin c.facts, << InitReserves(r) >>)
    \o << Set("fee", r) >>

\* A symbol that is not configured is reported and passed over.
InitReserve(c, r) ==
  IF ~Configured(r) THEN << >> ELSE
    << SetAssetSources(r) >>
    \o If(Listed(r) \notin c.facts, << InitReserves(r) >>)
    \o If(Collateral(r) \notin c.facts /\ r \notin Unborrowed,
          If(RiskAdmin \notin c.facts, << AddRiskAdmin >>) \o << ConfigureReserves(r) >>)
    \o << Set("fee", r) >>

-----------------------------------------------------------------------------
(* The reviews of one setting; rs narrows them to some reserves (checkOnly, *)
(* only).  Without fix they only report.                                    *)

Everything == Without(ReserveAssets, {"HOLLAR"})
Off(c, setting, rs) ==
  Without(rs, { r \in Items(rs) : Listed(r) \notin c.facts \/ Follows(setting, r) \in c.facts })
Fix(setting, rs) == Each(LAMBDA r : Set(setting, r), rs)

\* The market has a reserve, among those to be looked at, that the configuration does not know.
Unknown(c, rs) ==
  \E fact \in c.facts : /\ fact[1] = "listed" /\ ~Configured(fact[2])
                       /\ \/ rs = Everything /\ fact[2] # "HOLLAR"
                          \/ fact[2] \in Items(rs)
\* It ends these tasks: exit(3), for the rates a TypeError.
Review(c, setting, rs) == If(Unknown(c, rs), Exit) \o Fix(setting, Off(c, setting, rs))

ReviewSupplyCaps(c, rs) == Review(c, "supplyCap", rs)
ReviewBorrowCaps(c, rs) == Review(c, "borrowCap", rs)
ReviewReserveFactors(c, rs) == Review(c, "factor", rs)
\* The new strategy contract is deployed on the spot, by the deployer.
ReviewRateStrategies(c, rs) == Review(c, "rate", rs)
\* Here it is passed over.
ReviewReserveConfigs(c) == Fix("ltv", Off(c, "ltv", ReserveAssets))

\* Goes through the configured symbols, also those that are no reserves yet.
ReviewDebtCeiling(c, rs) ==
  Fix("ceiling", Without(rs, { r \in Items(rs) : \/ Follows("ceiling", r) \in c.facts
                                                \/ (Listed(r) \notin c.facts /\ r \notin Isolated) }))

ReviewEMode(c, name) == If(Category(name) \notin c.facts, << SetEModeCategory(name) >>)
ReviewEmissionAdmin(c, r) ==
  IF r \notin Incentivized THEN Exit ELSE If(EmissionAdmin \notin c.facts, << SetEmissionAdmin >>)

\* The token of a reserve that is not there yet is the predicted one, if any.
ATokensOf(c, r) == { n \in 0..c.nonce : AToken(r, n) \in c.facts }
ReviewIncentive(c, r, predicted) ==
  LET tokens == IF ATokensOf(c, r) # {} THEN ATokensOf(c, r) ELSE predicted IN
  IF r \notin Incentivized \/ tokens = {} THEN Exit
  ELSE LET n == CHOOSE k \in tokens : TRUE IN
       If(<<"incentive", r, n>> \notin c.facts, << ConfigureAssets(r, n) >>)

SetOraclePrice(oracle) == << [aaveManagerCall(Call) EXCEPT !.gets = {<<"price", oracle>>}] >>
SetReserveOracle(r) == IF Configured(r) THEN << SetAssetSources(r) >> ELSE Exit
=============================================================================
