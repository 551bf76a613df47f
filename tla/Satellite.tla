----------------------------- MODULE Satellite -----------------------------
(* The proposals that open a money market of its own for one collateral,    *)
(* BIL or stHDX, in which HOLLAR can be borrowed, as functions of the chain  *)
(* c they are built from.  c.nonce is that of the market's PoolConfigurator. *)
(* The HOLLAR token of the market becomes a facilitator of HOLLAR and is     *)
(* told of its debt token, all at addresses predicted from the nonce.        *)
EXTENDS Upkeep

Provider == <<"provider", "registered">>
Approved == <<"approved", "pool">>
PoolContract == <<"gigaHdx", "pool">>
AtVault == <<"at", "vault">>          \* asset 550 is the share of the vault
Named(name) == <<"name", name>>
Facilitator(n) == <<"facilitator", n>>
References(n) == { <<setting, n>> : setting \in {"debtToken", "ghoTreasury", "ghoAToken",
                                                 "discountStrategy", "discountToken"} }
Wired(n) == {Facilitator(n)} \cup References(n)

-----------------------------------------------------------------------------
(* The collateral and the HOLLAR reserve *)

RegisterProvider == [aaveManagerCall(Call) EXCEPT !.bans = {Provider}, !.gets = {Provider}]
Collateralise(c, r) == InitReserve(c, r) \o ReviewReserveFactors(c, Everything)
BilCollateral(c) == Collateralise(c, "BIL") \o If(Provider \notin c.facts, << RegisterProvider >>)

Borrowing == [aaveManagerCall(Call) EXCEPT !.needs = {Listed("HOLLAR")}, !.gets = {<<"borrowing", "HOLLAR">>}]
HollarReserve == << InitReserves("HOLLAR"), SetAssetSources("HOLLAR") >>
HollarReserveBorrowed == << InitReserves("HOLLAR"), Borrowing, SetAssetSources("HOLLAR") >>

\* Where the tokens will be: the collateral's at the nonce unless it is listed, HOLLAR's
\* three contracts later, or at the nonce if only HOLLAR is to be initialised.
CollateralToken(c, r) ==
  IF Listed(r) \in c.facts THEN CHOOSE n \in ATokensOf(c, r) : TRUE ELSE c.nonce
HollarToken(c, r) == IF Listed(r) \in c.facts THEN c.nonce ELSE c.nonce + 3

AddFacilitator(n) ==
  [aaveManagerCall(Call) EXCEPT !.bans = {Facilitator(n)}, !.gets = {Facilitator(n)}]
NewFacilitator(c, n) == If(Facilitator(n) \notin c.facts, << AddFacilitator(n) >>)

\* setVariableDebtToken and setAToken can be called once.  At an address without code
\* a call does nothing.
SetReference(setting, n) ==
  [aaveManagerCall(Call) EXCEPT !.needs = {AToken("HOLLAR", n)}, !.gets = {<<setting, n>>}]
SetOnce(setting, n) == [SetReference(setting, n) EXCEPT !.bans = {<<setting, n>>}]
SetReferences(n) ==
  << SetOnce("debtToken", n), SetReference("ghoTreasury", n), SetOnce("ghoAToken", n),
     SetReference("discountStrategy", n), SetReference("discountToken", n) >>

-----------------------------------------------------------------------------
(* Root calls *)

\* Names are unique in the registry as ids are.
AsNamed(call, name) == [call EXCEPT !.bans = @ \cup {Named(name)}, !.gets = @ \cup {Named(name)}]

UserAsset(c, call, id, n) ==
  IF Registered(id) \notin c.facts THEN << call >>
  ELSE If(Located(id, n) \notin c.facts, << Relocate(id, n) >>)
BilAsset(c, n) == UserAsset(c, AsNamed(RegisterAt("aBIL", n), "BIL"), "aBIL", n)
GigaHdxAsset(c, n) == UserAsset(c, RegisterAt("GIGAHDX", n), "GIGAHDX", n)

VaultShare(c, name) ==
  IF Registered("BIL") \notin c.facts
    THEN << [AsNamed(Register("BIL"), name) EXCEPT !.gets = @ \cup {AtVault}] >>
    ELSE If(AtVault \notin c.facts, << [Call EXCEPT !.needs = {Registered("BIL")}, !.gets = {AtVault}] >>)

FeeCurrency(c, id) == If(Currency(id) \notin c.facts, << AddCurrency(id) >>)
ApprovePool(c) == If(Approved \notin c.facts, << [Call EXCEPT !.gets = {Approved}] >>)
SetPoolContract(c) == If(PoolContract \notin c.facts, << [Call EXCEPT !.gets = {PoolContract}] >>)

-----------------------------------------------------------------------------
(* The pool of aBIL and HOLLAR: created and, one block later, filled by the  *)
(* treasury, which first gets the fees of the main market.                   *)

PoolRoute(asset) ==
  [Call EXCEPT !.needs = {Pool("2-Pool-BIL")}, !.gets = {<<"route", asset>>}]
DistributeFees == [aaveManagerCall(Call) EXCEPT !.gets = {Holds("collector", "HOLLAR")}]

StablepoolNow ==
  << SetAssetSources("BIL"), Register("2-Pool-BIL"), AddCurrency("2-Pool-BIL"),
     CreatePool("2-Pool-BIL", {"aBIL", "HOLLAR"}) >>
  \o << PoolRoute("aBIL"), PoolRoute("aBIL"), PoolRoute("2-Pool-BIL"), PoolRoute("2-Pool-BIL") >>
  \o << DistributeFees, Transfer("collector", "treasury", "HOLLAR") >>

ApproveZap == [dispatchAs(Call) EXCEPT !.gets = {<<"allowance", "zap">>}]
DepositAndSupply ==
  [dispatchAs(Call) EXCEPT !.needs = {Holds("treasury", "HOLLAR"), <<"allowance", "zap">>, Listed("BIL")},
     !.pairs = {<<"BIL", "aBIL">>}, !.gets = {Holds("treasury", "aBIL")}]
StablepoolLater ==
  << ApproveZap, DepositAndSupply, AddLiquidity("treasury", "2-Pool-BIL", {"aBIL", "HOLLAR"}) >>

\* It throws unless HOLLAR pays fees; that there is a pool already, bil.ts forgives.
StablepoolTxs(c) ==
  IF Currency("HOLLAR") \notin c.facts THEN Now(Exit) ELSE Proposal(StablepoolNow, << StablepoolLater >>)
StablepoolInline(c) ==
  IF Registered("2-Pool-BIL") \in c.facts THEN Now(<< >>) ELSE StablepoolTxs(c)
StablepoolPatch(c) ==
  IF Registered("2-Pool-BIL") \in c.facts \/ Registered("aBIL") \notin c.facts
    THEN Now(Exit) ELSE StablepoolTxs(c)

-----------------------------------------------------------------------------
(* The proposals *)

\* Seeded fault: the share of the vault is registered with the other assets.
BilLaunchNotHoisted(c) ==
  LET n == CollateralToken(c, "BIL")  h == HollarToken(c, "BIL")  pool == StablepoolInline(c) IN
  Proposal(BilCollateral(c) \o HollarReserve \o NewFacilitator(c, h) \o SetReferences(h)
           \o VaultShare(c, "uBIL")
           \o BilAsset(c, n) \o FeeCurrency(c, "aBIL") \o ApprovePool(c) \o pool.now, pool.later)

\* The registration is moved to the front: initReserves fails, and is not heard of,
\* while the underlying asset is not registered.
BilLaunch(c) ==
  LET n == CollateralToken(c, "BIL")  h == HollarToken(c, "BIL")  pool == StablepoolInline(c) IN
  Proposal(VaultShare(c, "uBIL")
           \o BilCollateral(c) \o HollarReserve \o NewFacilitator(c, h) \o SetReferences(h)
           \o BilAsset(c, n) \o FeeCurrency(c, "aBIL") \o ApprovePool(c) \o pool.now, pool.later)

\* submit-bil-proposal.ts gives both assets the same name.
BilSubmission(c) ==
  LET n == CollateralToken(c, "BIL")  h == HollarToken(c, "BIL") IN
  Now(VaultShare(c, "BIL")
      \o BilCollateral(c) \o HollarReserveBorrowed \o NewFacilitator(c, h) \o SetReferences(h)
      \o BilAsset(c, n) \o FeeCurrency(c, "BIL") \o FeeCurrency(c, "aBIL") \o ApprovePool(c))

\* Balances of a source account go to the treasury, which tops two accounts up for ever.
Funding == << [Transfer("source", "treasury", "HDX") EXCEPT !.drops = {Holds("source", "HDX")}],
              [Call EXCEPT !.gets = {<<"funding", "gigahdx">>}],
              [Call EXCEPT !.gets = {<<"funding", "gigahdx-rewards">>}] >>
StakedHdx(c) == If(Registered("STHDX") \notin c.facts, << Register("STHDX") >>)

GigaHdxLaunch(c) ==
  LET n == CollateralToken(c, "STHDX")  h == HollarToken(c, "STHDX")
      hollar == Listed("HOLLAR") \in c.facts
  IN Now(StakedHdx(c) \o Collateralise(c, "STHDX")
         \o If(~hollar, HollarReserveBorrowed) \o NewFacilitator(c, h) \o If(~hollar, SetReferences(h))
         \o GigaHdxAsset(c, n) \o SetPoolContract(c) \o ApprovePool(c) \o Funding)

GigaHdxSubmission(c) ==
  LET n == CollateralToken(c, "STHDX")  h == HollarToken(c, "STHDX") IN
  Now(StakedHdx(c) \o Collateralise(c, "STHDX")
      \o HollarReserveBorrowed \o << AddFacilitator(h) >> \o SetReferences(h)
      \o GigaHdxAsset(c, n) \o SetPoolContract(c) \o ApprovePool(c))

\* The address of the real token was read off the chain.
Recovery(c) ==
  IF ATokensOf(c, "HOLLAR") = {} THEN Now(Exit)
  ELSE LET h == CHOOSE n \in ATokensOf(c, "HOLLAR") : TRUE IN
       Now(<< AddFacilitator(h) >> \o SetReferences(h))

\* Scripts of one call each, which end if there is nothing to do.
OrNothing(calls) == Now(IF calls = << >> THEN Exit ELSE calls)
SetGigaHdxPool(c) == OrNothing(SetPoolContract(c))
ApproveController(c) == OrNothing(ApprovePool(c))
SetStHdxOracle == Now(<< SetAssetSources("STHDX") >>)
=============================================================================
