----------------------------- MODULE GovCalls -----------------------------
(***************************************************************************)
(* What the calls of a governance proposal do to the chain.  A proposal is  *)
(* a batch of calls that was put together from what the chain looked like   *)
(* on one day and runs on another (helpers/hydration-proposal.js).  The     *)
(* chain is a set of facts, the nonce of the PoolConfigurator, which fixes  *)
(* the addresses of the tokens it will deploy, and the next farm id.        *)
(***************************************************************************)
EXTENDS Naturals, Sequences

CONSTANT Isolated  \* reserves with a debt ceiling in ReservesConfig

-----------------------------------------------------------------------------
(* Facts.  An underlying asset has the name of its reserve. *)

Registered(id) == <<"registered", id>>
Located(id, n) == <<"located", id, n>>   \* the registry says the token is the n-th contract
Listed(r) == <<"listed", r>>
AToken(r, n) == <<"aToken", r, n>>
Collateral(r) == <<"collateral", r>>
Follows(setting, r) == <<setting, r>>    \* the chain's setting is the one of ReservesConfig
RiskAdmin == <<"riskAdmin", "helper">>
EmissionAdmin == <<"emissionAdmin", "gDOT">>
Category(name) == <<"category", name>>
Holds(acct, id) == <<"holds", acct, id>>
Pool(id) == <<"pool", id>>
Seeded(id) == <<"seeded", id>>
InOmnipool(id) == <<"omnipool", id>>
Currency(id) == <<"currency", id>>
Frozen(id) == <<"frozen", id>>

-----------------------------------------------------------------------------
(* Calls *)

Call == [soft  |-> FALSE,  \* dispatched as somebody: its failure does not fail the batch
         needs |-> {}, bans |-> {}, gets |-> {}, drops |-> {},
         lists |-> {},     \* the reserve it initialises
         pairs |-> {},     \* <<u, a>>: token a must be the aToken of reserve u
         hops  |-> {},     \* the same, if the router looks
         site  |-> {},     \* numbers of contracts that get an id, one each if the registry looks
         code  |-> {},     \* numbers of contracts that must have been deployed
         moves |-> {},     \* ids that leave the contract they were at
         farm  |-> 0]      \* the farm it is to add to

\* utility.dispatchAs, dispatcher.dispatchAsTreasury, dispatchAsAaveManager: a failing
\* inner call is an event, not an error (spy-mm.ts:28-30).
dispatchAs(c) == [c EXCEPT !.soft = TRUE]
aaveManagerCall(c) == [c EXCEPT !.soft = TRUE]

\* assetRegistry.register, without and with the location of an ERC-20.
Register(id) == [Call EXCEPT !.bans = {Registered(id)}, !.gets = {Registered(id)}]
RegisterAt(id, n) == [Register(id) EXCEPT !.gets = {Registered(id), Located(id, n)}, !.site = {n}]
\* assetRegistry.update, of the location alone.
Relocate(id, n) ==
  [Call EXCEPT !.needs = {Registered(id)}, !.moves = {id}, !.gets = {Located(id, n)}, !.site = {n}]

AddCurrency(id) == [Call EXCEPT !.needs = {Registered(id)}, !.bans = {Currency(id)},
                                !.gets = {Currency(id)}]
CreatePool(id, assets) ==
  [Call EXCEPT !.needs = { Registered(a) : a \in assets \cup {id} }, !.bans = {Pool(id)},
               !.gets = {Pool(id)}]
AddToken(id) == [Call EXCEPT !.needs = {Registered(id), Holds("omnipool", id)},
                             !.bans = {InOmnipool(id)}, !.gets = {InOmnipool(id)}]
CreateGlobalFarm == [Call EXCEPT !.gets = {<<"globalFarm", "next">>}]
CreateYieldFarm(n, id) == [dispatchAs(Call) EXCEPT !.farm = n, !.needs = {InOmnipool(id)},
                                                   !.gets = {<<"yieldFarm", id>>}]
\* router.forceInsertRoute: it ends with the Aave hop u -> a; the hops before exist.
Route(needs, u, a) == [Call EXCEPT !.needs = needs, !.hops = {<<u, a>>}, !.gets = {<<"route", a>>}]

Transfer(acct, dest, id) ==
  [dispatchAs(Call) EXCEPT !.needs = {Holds(acct, id)}, !.gets = {Holds(dest, id)}]
Sell(acct, u, a) ==
  [dispatchAs(Call) EXCEPT !.needs = {Holds(acct, u)}, !.pairs = {<<u, a>>},
                           !.gets = {Holds(acct, a)}]
SellAll(acct, u, a) == [Sell(acct, u, a) EXCEPT !.drops = {Holds(acct, u)}]
AddLiquidity(acct, id, assets) ==
  [dispatchAs(Call) EXCEPT !.needs = {Pool(id)} \cup { Holds(acct, a) : a \in assets },
                           !.bans = {Frozen(id)},
                           !.gets = {Holds(acct, id), Seeded(id)}]
Schedule(what, id) == [dispatchAs(Call) EXCEPT !.needs = {Registered(id)},
                                               !.gets = {<<what, id>>}]

\* Calls of the Aave manager.  setAssetSources asks for nothing.
SetAssetSources(r) == [aaveManagerCall(Call) EXCEPT !.gets = {<<"source", r>>}]
Underlying(r) == Registered(r)
InitReserves(r) ==
  [aaveManagerCall(Call) EXCEPT !.needs = {Underlying(r)}, !.bans = {Listed(r)},
                                !.gets = {Listed(r), Follows("rate", r)}
                                         \cup (IF r \in Isolated THEN {} ELSE {Follows("ceiling", r)}),
                                !.lists = {r}]
AddRiskAdmin == [aaveManagerCall(Call) EXCEPT !.gets = {RiskAdmin}]

\* Seeded fault: leaves out the reserve factor.
ConfigureWithoutFactor(r) ==
  [aaveManagerCall(Call) EXCEPT !.needs = {Listed(r), RiskAdmin},
     !.gets = {Collateral(r)} \cup { Follows(s, r) : s \in {"ltv", "supplyCap", "borrowCap"} }]

ConfigureReserves(r) ==
  [aaveManagerCall(Call) EXCEPT !.needs = {Listed(r), RiskAdmin},
     !.gets = {Collateral(r)}
              \cup { Follows(s, r) : s \in {"ltv", "supplyCap", "borrowCap", "factor"} }]

Set(setting, r) == [aaveManagerCall(Call) EXCEPT !.needs = {Listed(r)}, !.gets = {Follows(setting, r)}]
SetEModeCategory(name) == [aaveManagerCall(Call) EXCEPT !.gets = {Category(name)}]
SetAssetEModeCategory(r, name) ==
  [aaveManagerCall(Call) EXCEPT !.needs = {Listed(r), Category(name)}, !.gets = {<<"inEMode", r>>}]
SetEmissionAdmin == [aaveManagerCall(Call) EXCEPT !.gets = {EmissionAdmin}]
ConfigureAssets(r, n) ==
  [aaveManagerCall(Call) EXCEPT !.needs = {EmissionAdmin}, !.code = {n},
                                !.gets = {<<"incentive", r, n>>}]

-----------------------------------------------------------------------------
(* Running them.  c is [facts, nonce, farm, lost, strict]: what a swallowed  *)
(* call would have brought about, and is not there already, is lost; strict *)
(* says whether the registry and the router look at what they are given.     *)

IsPair(u, a, c) == \E n \in 0..c.nonce : {Located(a, n), AToken(u, n)} \subseteq c.facts

Works(call, c) ==
  /\ call.needs \subseteq c.facts
  /\ call.bans \cap c.facts = {}
  /\ \A p \in call.pairs : IsPair(p[1], p[2], c)
  /\ \A n \in call.code : n < c.nonce
  /\ c.strict => /\ \A p \in call.hops : IsPair(p[1], p[2], c)
                 /\ \A f \in c.facts : f[1] = "located" => f[3] \notin call.site
  /\ call.farm < c.farm

LocatedAnywhere(ids, c) == { f \in c.facts : f[1] = "located" /\ f[2] \in ids }

\* initReserves deploys three proxies, the aToken first.
Done(call, c) ==
  [c EXCEPT !.facts = (@ \ (call.drops \cup LocatedAnywhere(call.moves, c)))
                      \cup call.gets \cup { AToken(r, c.nonce) : r \in call.lists },
            !.nonce = IF call.lists = {} THEN @ ELSE @ + 3,
            !.farm  = IF call = CreateGlobalFarm THEN @ + 1 ELSE @]

\* batchAll: the first failing call reverts all, but a dispatched call fails alone.
After(before, call, c) ==
  IF ~before.ok THEN before
  ELSE IF Works(call, before.c) THEN [before EXCEPT !.c = Done(call, @)]
  ELSE IF call.soft THEN [before EXCEPT !.c.lost = @ \cup (call.gets \ before.c.facts)]
  ELSE [c |-> c, ok |-> FALSE]

\* The state after each call of the batch.
Course(batch, c) ==
  LET run[i \in 0..Len(batch)] ==
        IF i = 0 THEN [c |-> c, ok |-> TRUE] ELSE After(run[i - 1], batch[i], c)
  IN run
Dispatch(batch, c) == Course(batch, c)[Len(batch)]
=============================================================================
