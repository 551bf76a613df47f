----------------------------- MODULE DeployAll -----------------------------
(***************************************************************************)
(* The deployment of a market and the hand-over of its admin rights: of BIL *)
(* (scripts/bil/deploy-all.sh, phases 0b to 5b) from the moment the vault   *)
(* is deployed, or of GIGAHDX (scripts/gigahdx/deploy-all.sh, phases 1 to   *)
(* 5).  The scripts are data: each is a sequence of steps over a set of     *)
(* facts, kept on the chain or on the deployer's disk.  A script may die at *)
(* any step, with or without a transaction still under way; the operator    *)
(* then retries the script or runs deploy-all.sh again.                     *)
(***************************************************************************)
EXTENDS Naturals, Sequences

CONSTANTS Deployer,    \* the key deploy-all.sh runs with
          Gov,         \* the EVM account of governance
          Emergency,   \* EMERGENCY_ADMIN of the network
          Helper,      \* ReservesSetupHelper
          Guardian,    \* GUARDIAN_ADDRESS
          Keeper,      \* KEEPER_ADDRESS
          MaxFailures  \* how many times a script dies or a finished run is repeated

Account == {Deployer, Gov, Emergency, Helper, Guardian, Keeper}

\* The deployer is none of the others, and no account is one of the marks of a fact.
ASSUME DeployerIsOther ==
  Deployer \notin {Gov, Emergency, Helper, Guardian, Keeper, "set", "saved"}
ASSUME FailuresAssumption == MaxFailures \in Nat

VARIABLES market,    \* "BIL" or "GIGAHDX"; never changes
          facts,     \* <<contract or "disk", role or item, account or "set">>
          phase,     \* index in Pipeline of the script that runs
          step,      \* index of its next step
          sent,      \* has the transaction of that step been sent
          flight,    \* positions of sent transactions not yet on chain, in nonce order
          status,    \* of deploy-all.sh: "running", "failed", "done"
          failures
vars == <<market, facts, phase, step, sent, flight, status, failures>>

-----------------------------------------------------------------------------
(* Steps *)

Pap(id) == <<"pap", id, "set">>
Disk(artifact) == <<"disk", artifact, "saved">>

\* What a step may say of itself; most steps say little of it.
Plain == [tx     |-> FALSE,  \* sends a transaction (otherwise: writes to disk)
          looks  |-> FALSE,  \* looks first, and is left out with `unless` there and
          unless |-> {},     \* nothing to drop
          lax    |-> FALSE,  \* left out when the deployer has no right to it
          blind  |-> FALSE,  \* goes on when its transaction reverts
          span   |-> 0,      \* steps left out together with it
          needs  |-> {},     \* the script throws without these facts
          bans   |-> {},     \* and with one of these
          gets   |-> {},
          drops  |-> {},
          auth   |-> {}]     \* the transaction reverts without these, and with a ban

Once(fn, n) == [Plain EXCEPT !.looks = TRUE, !.unless = {Disk(fn)}, !.span = n]
Save(artifact) == [Plain EXCEPT !.gets = {Disk(artifact)}]
Deploy(artifact, owned) ==
  [Plain EXCEPT !.looks = TRUE, !.unless = {Disk(artifact)}, !.gets = {Disk(artifact)} \cup owned]
Require(fs) == [Plain EXCEPT !.needs = fs]
Tx(gets, auth) == [Plain EXCEPT !.tx = TRUE, !.gets = gets, !.auth = auth]

\* An implementation that is initialised already reverts, which is swallowed, with a
\* reason or without one.
Initialized(artifact) == <<artifact, "initialized", "set">>
Initialize(artifact) ==
  [Tx({Initialized(artifact)}, {}) EXCEPT !.looks = TRUE, !.unless = {Initialized(artifact)}]

\* Swallowed only when the node says why a call reverts, which Hydration's does not; and
\* a receipt never says it.
RevertsExplained == <<"node", "explainsReverts", "set">>
InitializeStrictly(artifact) ==
  [Initialize(artifact) EXCEPT !.unless = {Initialized(artifact), RevertsExplained},
                               !.bans = {Initialized(artifact)}]

SetPap(id) == Tx({Pap(id)}, {<<"PAP", "owner", Deployer>>})
SetPapIfUnset(id) == [SetPap(id) EXCEPT !.looks = TRUE, !.unless = {Pap(id)}]

Grant(contract, role, a) ==
  [Tx({<<contract, role, a>>}, {<<contract, "DEFAULT_ADMIN", Deployer>>})
     EXCEPT !.looks = TRUE, !.unless = {<<contract, role, a>>}]
Remove(role) ==
  [Plain EXCEPT !.tx = TRUE, !.looks = TRUE, !.drops = {<<"ACL", role, Deployer>>},
                !.auth = {<<"ACL", "DEFAULT_ADMIN", Deployer>>}]
Renounce(contract, role) ==
  [Plain EXCEPT !.tx = TRUE, !.looks = TRUE, !.drops = {<<contract, role, Deployer>>}]
HandOver(contract, title) ==
  [Plain EXCEPT !.tx = TRUE, !.looks = TRUE, !.unless = {<<contract, title, Gov>>},
                !.gets = {<<contract, title, Gov>>}, !.drops = {<<contract, title, Deployer>>},
                !.auth = {<<contract, "owner", Deployer>>}]
TransferOwnableTo(contract) == [HandOver(contract, "owner") EXCEPT !.lax = TRUE]

\* viem's receipts are not looked at, so a reverted transaction goes unnoticed.
VaultGrant(role, a) == [Grant("vault", role, a) EXCEPT !.blind = TRUE]
VaultRenounce(role) == [Renounce("vault", role) EXCEPT !.blind = TRUE]

-----------------------------------------------------------------------------
(* Phase 0b: scripts/post-deploy-bil-vault.mjs without NEW_ADMIN *)

SanityCheck == Require({<<"vault", "ADMIN", Deployer>>})
SeedDeposit == [Tx({<<"vault", "position", "set">>}, {})
                  EXCEPT !.looks = TRUE, !.unless = {<<"vault", "position", "set">>}]

PostDeploy ==
  << SanityCheck, VaultGrant("GUARDIAN", Guardian), VaultGrant("CLAIM_OPERATOR", Keeper),
     SeedDeposit >>

(* Phase 1: the functions of hardhat-deploy with the tag "market" and those  *)
(* they depend on.  A function that returned true once is on record and      *)
(* never run again.                                                          *)

MarketsRegistry ==
  << Once("PoolAddressesProviderRegistry.id", 2), Save("PoolAddressesProviderRegistry"),
     Save("PoolAddressesProviderRegistry.id") >>

Logics == {"SupplyLogic", "BorrowLogic", "LiquidationLogic", "EModeLogic", "BridgeLogic",
           "ConfiguratorLogic", "FlashLoanLogic", "PoolLogic"}
LogicLibraries ==
  << Once("LogicLibraries.id", 10), Deploy("SupplyLogic", {}), Deploy("BorrowLogic", {}),
     Deploy("LiquidationLogic", {}), Deploy("EModeLogic", {}), Deploy("BridgeLogic", {}),
     Deploy("ConfiguratorLogic", {}), Require({Disk("BorrowLogic")}),
     Deploy("FlashLoanLogic", {}), Deploy("PoolLogic", {}), Save("LogicLibraries.id") >>

Treasury ==
  << Once("Treasury.id", 4), Save("TreasuryProxy"), Save("TreasuryController"),
     Save("TreasuryImpl"), Save("Treasury.id") >>

\* addMarketToRegistry: left to governance when the registry is governance's.
AddMarketToRegistry ==
  [Tx({<<"Registry", "provider", "set">>}, {<<"Registry", "owner", Deployer>>})
     EXCEPT !.looks = TRUE, !.unless = {<<"Registry", "provider", "set">>}, !.lax = TRUE]

SetupAddressesProvider ==
  << Once("PoolAddressesProvider.id", 6),
     Deploy("PoolAddressesProvider", {<<"PAP", "owner", Deployer>>}),
     SetPap("MARKET_ID"), AddMarketToRegistry, Save("PoolDataProvider"),
     SetPapIfUnset("DATA_PROVIDER"), Save("PoolAddressesProvider.id") >>

\* Returns nothing, so that it is not on record and runs every time.
PoolImplementation ==
  << Require({Disk("PoolAddressesProvider")} \cup { Disk(l) : l \in Logics }),
     Deploy("Pool-Implementation", {}), InitializeStrictly("Pool-Implementation") >>

PoolConfigurator ==
  << Once("PoolConfigurator.id", 5), Require({Disk("PoolAddressesProvider"), Disk("ConfiguratorLogic")}),
     Deploy("PoolConfigurator-Implementation", {}), Initialize("PoolConfigurator-Implementation"),
     Deploy("ReservesSetupHelper", {}), Save("PoolConfigurator.id") >>

InitAcl ==
  << Once("ACLManager.id", 6),
     [Tx({<<"PAP", "aclAdmin", Deployer>>}, {<<"PAP", "owner", Deployer>>})
        EXCEPT !.drops = {<<"PAP", "aclAdmin", Gov>>}],
     Deploy("ACLManager", {<<"ACL", "DEFAULT_ADMIN", Deployer>>}),
     SetPap("ACL_MANAGER"),
     Tx({<<"ACL", "POOL_ADMIN", Deployer>>}, {<<"ACL", "DEFAULT_ADMIN", Deployer>>}),
     Tx({<<"ACL", "EMERGENCY_ADMIN", Deployer>>}, {<<"ACL", "DEFAULT_ADMIN", Deployer>>}),
     Save("ACLManager.id") >>

DeployOracles ==
  << Once("Oracles.id", 3), Require({Disk("PoolAddressesProvider")}), Deploy("AaveOracle", {}),
     Save("Oracles.id") >>

InitOracles ==
  << Once("InitOracles.id", 3), Require({Disk("PoolAddressesProvider"), Disk("AaveOracle")}),
     SetPapIfUnset("PRICE_ORACLE"), Save("InitOracles.id") >>

\* Seeded fault: the artifact of the pool is saved only by the run that attaches it.
InitPoolSavingOnce ==
  << Once("PoolInitalization.id", 6),
     [SetPapIfUnset("POOL") EXCEPT !.span = 1], Save("Pool-Proxy"),
     SetPapIfUnset("POOL_CONFIGURATOR"), Save("PoolConfigurator-Proxy"),
     Tx({<<"Pool", "flashLoanPremiums", "set">>}, {<<"ACL", "POOL_ADMIN", Deployer>>}),
     Save("PoolInitalization.id") >>

InitPool ==
  << Once("PoolInitalization.id", 6),
     SetPapIfUnset("POOL"), Save("Pool-Proxy"),
     SetPapIfUnset("POOL_CONFIGURATOR"), Save("PoolConfigurator-Proxy"),
     Tx({<<"Pool", "flashLoanPremiums", "set">>}, {<<"ACL", "POOL_ADMIN", Deployer>>}),
     Save("PoolInitalization.id") >>

\* The artifact is written only by the run that attaches the proxy.
Incentives ==
  << Once("Incentives.id", 6),
     Deploy("EmissionManager", {<<"EmissionManager", "owner", Deployer>>}),
     [SetPapIfUnset("INCENTIVES_CONTROLLER") EXCEPT !.span = 1], Save("IncentivesProxy"),
     Require({Disk("IncentivesProxy")}),
     Tx({<<"EmissionManager", "controller", "set">>}, {<<"EmissionManager", "owner", Deployer>>}),
     Save("Incentives.id") >>

TokensImplementations ==
  << Once("TokenImplementations.id", 10), Require({Disk("PoolAddressesProvider")}),
     Deploy("AToken", {}), Initialize("AToken"),
     Deploy("DelegationAwareAToken", {}), Initialize("DelegationAwareAToken"),
     Deploy("StableDebtToken", {}), Initialize("StableDebtToken"),
     Deploy("VariableDebtToken", {}), Initialize("VariableDebtToken"),
     Save("TokenImplementations.id") >>

\* The underlying of the only reserve is registered by the launch proposal, which then
\* initialises the reserve; here it does not answer decimals() yet.
InitReserves ==
  << Once("ReservesInit.id", 4), Require({Disk("PoolAddressesProvider")}),
     Deploy("ReserveStrategy", {}), Require({Disk("IncentivesProxy")}), Save("ReservesInit.id") >>

\* The mock it may deploy is for test networks.
InitPeriphery == << Once("PeripheryInit.id", 1), Save("PeripheryInit.id") >>

(* Phases 2 to 4 *)

Core == { Disk(a) : a \in { "Pool-Proxy", "Pool-Implementation", "PoolAddressesProvider",
            "PoolAddressesProviderRegistry", "PoolConfigurator-Implementation",
            "PoolConfigurator-Proxy", "ACLManager", "AaveOracle", "TreasuryProxy" } }
DeployBILOracleAdapter == << Deploy("BILOracleAdapter", {}) >>
DeployBILDepositZap == << Require({Disk("Pool-Proxy")}), Deploy("BILDepositZap", {}) >>
DeployLockableAToken == << Require({Disk("PoolAddressesProvider")}), Deploy("LockableAToken", {}) >>
DeployUSDOracleAdapter == << Deploy("STHDX-USDOracleAdapter", {}) >>
ImportGho == << Require(Core), Save("GhoAToken") >>

(* Phase 5 *)

MarketRole == {"DEFAULT_ADMIN", "POOL_ADMIN", "RISK_ADMIN", "EMERGENCY_ADMIN"}

\* Seeded fault: the deployer gives up its role in the same script, before the last step.
TransferAndRenounce ==
  << Require({Disk("ACLManager")}),
     Renounce("ACL", "DEFAULT_ADMIN"), Grant("ACL", "DEFAULT_ADMIN", Gov) >>

\* Seeded fault: the owner of the addresses provider is forgotten.
TransferKeepingProvider ==
  << Require({Disk("ACLManager")}),
     Grant("ACL", "DEFAULT_ADMIN", Gov), Grant("ACL", "POOL_ADMIN", Gov),
     Grant("ACL", "RISK_ADMIN", Gov), Grant("ACL", "EMERGENCY_ADMIN", Gov),
     Grant("ACL", "EMERGENCY_ADMIN", Emergency), HandOver("PAP", "aclAdmin"),
     TransferOwnableTo("EmissionManager"), TransferOwnableTo("Registry") >>

TransferAdminToGovernance ==
  << Require({Disk("ACLManager")}),
     Grant("ACL", "DEFAULT_ADMIN", Gov), Grant("ACL", "POOL_ADMIN", Gov),
     Grant("ACL", "RISK_ADMIN", Gov), Grant("ACL", "EMERGENCY_ADMIN", Gov),
     Grant("ACL", "EMERGENCY_ADMIN", Emergency),
     HandOver("PAP", "aclAdmin"), HandOver("PAP", "owner"),
     TransferOwnableTo("EmissionManager"), TransferOwnableTo("Registry") >>

GrantRiskAdmin == << Grant("ACL", "RISK_ADMIN", Helper) >>

RevokeDeployer ==
  << Require({<<"ACL", "DEFAULT_ADMIN", Gov>>, <<"ACL", "POOL_ADMIN", Gov>>}),
     Remove("EMERGENCY_ADMIN"), Remove("POOL_ADMIN"), Remove("RISK_ADMIN"),
     Renounce("ACL", "DEFAULT_ADMIN"),
     [Plain EXCEPT !.bans = { <<"ACL", r, Deployer>> : r \in MarketRole }] >>

(* Phase 5b: the same script as 0b, now with NEW_ADMIN *)

\* Seeded fault: renounces before it grants.
RotateVaultRenouncingFirst ==
  << SanityCheck, VaultRenounce("DEFAULT_ADMIN"), VaultGrant("DEFAULT_ADMIN", Gov) >>

RotateVault ==
  << SanityCheck, VaultGrant("GUARDIAN", Guardian), VaultGrant("CLAIM_OPERATOR", Keeper),
     SeedDeposit,
     VaultGrant("DEFAULT_ADMIN", Gov), VaultGrant("ADMIN", Gov), VaultGrant("UPGRADER", Gov),
     VaultRenounce("UPGRADER"), VaultRenounce("ADMIN"), VaultRenounce("DEFAULT_ADMIN") >>

(* GIGAHDX has the same three scripts over contracts of its own *)

GigaTransferAdminToGovernance == TransferAdminToGovernance
GigaGrantRiskAdmin == GrantRiskAdmin
GigaRevokeDeployer == RevokeDeployer

MarketTag ==
  << MarketsRegistry, LogicLibraries, Treasury, SetupAddressesProvider, PoolImplementation,
     PoolConfigurator, InitAcl, DeployOracles, InitOracles, InitPool, Incentives,
     TokensImplementations, InitReserves, InitPeriphery >>

BILPipeline ==
  << PostDeploy >> \o MarketTag
  \o << DeployBILOracleAdapter, DeployBILDepositZap, ImportGho,
        TransferAdminToGovernance, GrantRiskAdmin, RevokeDeployer, RotateVault >>
GigaPipeline ==
  MarketTag
  \o << DeployLockableAToken, DeployUSDOracleAdapter, ImportGho,
        GigaTransferAdminToGovernance, GigaGrantRiskAdmin, GigaRevokeDeployer >>
Pipeline == [BIL |-> BILPipeline, GIGAHDX |-> GigaPipeline]

-----------------------------------------------------------------------------
(* Running them *)

Scripts == Pipeline[market]
StepAt(p) == Scripts[p[1]][p[2]]
Here == <<phase, step>>

Needless(s) == s.unless \subseteq facts /\ s.drops \cap facts = {}
LeftOut(s) == (s.looks /\ Needless(s)) \/ (s.lax /\ ~(s.auth \subseteq facts))
Allowed(s) == s.needs \subseteq facts /\ s.bans \cap facts = {}
Succeeds(s) == s.auth \subseteq facts /\ s.bans \cap facts = {}
After(s) == (facts \ s.drops) \cup s.gets

\* The position n steps on; at the end of a script the next one starts.
Advance(n) ==
  IF step + n =< Len(Scripts[phase])
    THEN step' = step + n /\ UNCHANGED <<phase, status>>
    ELSE IF phase < Len(Scripts)
      THEN phase' = phase + 1 /\ step' = 1 /\ UNCHANGED status
      ELSE status' = "done" /\ UNCHANGED <<phase, step>>

Running == status = "running" /\ ~sent

\* The step reads that there is nothing to do.
LeaveOut ==
  LET s == StepAt(Here) IN
  /\ Running /\ LeftOut(s)
  /\ Advance(1 + s.span)
  /\ UNCHANGED <<market, facts, sent, flight, failures>>

\* A step on disk, or hardhat-deploy's deploy, which records what it deployed.
WriteDisk ==
  LET s == StepAt(Here) IN
  /\ Running /\ ~LeftOut(s) /\ ~s.tx /\ Allowed(s)
  /\ facts' = After(s)
  /\ Advance(1)
  /\ UNCHANGED <<market, sent, flight, failures>>

Send ==
  LET s == StepAt(Here) IN
  /\ Running /\ ~LeftOut(s) /\ s.tx /\ Allowed(s)
  /\ flight' = Append(flight, Here)
  /\ sent' = TRUE
  /\ UNCHANGED <<market, facts, phase, step, status, failures>>

\* The oldest transaction gets on chain; it is this run's if it is the last one sent.
Land ==
  /\ flight # << >>
  /\ LET s  == StepAt(Head(flight))
         ok == Succeeds(s) IN
       /\ facts' = IF ok THEN After(s) ELSE facts
       /\ flight' = Tail(flight)
       /\ IF sent /\ Len(flight) = 1
            THEN /\ sent' = FALSE
                 /\ IF ok \/ s.blind THEN Advance(1)
                                     ELSE status' = "failed" /\ UNCHANGED <<phase, step>>
            ELSE UNCHANGED <<phase, step, sent, status>>
  /\ UNCHANGED <<market, failures>>

\* A required fact is not there: an error, and exit code 1.
Throw ==
  LET s == StepAt(Here) IN
  /\ Running /\ ~LeftOut(s) /\ ~Allowed(s)
  /\ status' = "failed"
  /\ UNCHANGED <<market, facts, phase, step, sent, flight, failures>>

\* A call to the node fails or times out, the process is killed.  The
\* transaction under way may still land later or be lost.
Die ==
  /\ status = "running" /\ failures < MaxFailures
  /\ status' = "failed" /\ sent' = FALSE
  /\ failures' = failures + 1
  /\ flight' \in {flight, IF sent THEN SubSeq(flight, 1, Len(flight) - 1) ELSE flight}
  /\ UNCHANGED <<market, facts, phase, step>>

\* Phase 1 is one command: hardhat deploy runs all of MarketTag.
MarketFirst == IF market = "BIL" THEN 2 ELSE 1
InMarketTag == MarketFirst =< phase /\ phase < MarketFirst + Len(MarketTag)

\* retry() of deploy-all.sh runs the command again.
Retry ==
  /\ status = "failed"
  /\ status' = "running" /\ step' = 1
  /\ phase' = IF InMarketTag THEN MarketFirst ELSE phase
  /\ UNCHANGED <<market, facts, sent, flight, failures>>

\* The operator runs deploy-all.sh again.
Rerun ==
  /\ \/ status = "failed" /\ UNCHANGED failures
     \/ status = "done" /\ failures < MaxFailures /\ failures' = failures + 1
  /\ status' = "running" /\ phase' = 1 /\ step' = 1
  /\ UNCHANGED <<market, facts, sent, flight>>

\* Phase 0a has deployed the vault, with the deployer in its three roles; phase 0.5 has
\* copied what the main market deployed, or not.  The registry is shared and
\* governance's, or the deployer's own.  The node explains reverts or not.
Reusable(m) == Logics \cup {"ReservesSetupHelper"} \cup
               (IF m = "BIL" THEN {"PoolConfigurator-Implementation", "ReserveStrategy"} ELSE {})
VaultRole == {"DEFAULT_ADMIN", "ADMIN", "UPGRADER"}
Init ==
  /\ market \in {"BIL", "GIGAHDX"}
  /\ \E owner \in {Gov, Deployer}, reused \in {{}, Reusable(market)},
        node \in {{}, {RevertsExplained}} :
       facts = (IF market = "BIL" THEN { <<"vault", r, Deployer>> : r \in VaultRole } ELSE {})
               \cup {<<"Registry", "owner", owner>>}
               \cup { Disk(a) : a \in reused }
               \cup { Initialized(a) : a \in reused \cap {"PoolConfigurator-Implementation"} }
               \cup node
  /\ phase = 1 /\ step = 1 /\ sent = FALSE /\ flight = << >>
  /\ status = "running" /\ failures = 0

Progress == LeaveOut \/ WriteDisk \/ Send \/ Land \/ Throw
Next == Progress \/ Die \/ Retry \/ Rerun

Spec == Init /\ [][Next]_vars
FairSpec == Spec /\ WF_vars(Progress) /\ WF_vars(Retry \/ (status = "failed" /\ Rerun))

-----------------------------------------------------------------------------
(* Properties *)

Fact(contract, role, a) == <<contract, role, a>> \in facts

TypeOK ==
  /\ market \in DOMAIN Pipeline
  /\ phase \in 1..Len(Scripts) /\ step \in 1..Len(Scripts[phase])
  /\ sent \in BOOLEAN /\ status \in {"running", "failed", "done"}
  /\ \A i \in 1..Len(flight) : /\ flight[i][1] \in 1..Len(Scripts)
                               /\ flight[i][2] \in 1..Len(Scripts[flight[i][1]])
                               /\ StepAt(flight[i]).tx
  /\ failures \in 0..MaxFailures

\* Whatever dies when, and whatever transaction lands late, somebody can grant
\* every role of the market: revoke-deployer.ts:12-13 promises that it "can never
\* brick the market by removing the last admin".
MarketHasAdmin ==
  Disk("ACLManager") \in facts =>
    \E a \in {Deployer, Gov} : Fact("ACL", "DEFAULT_ADMIN", a)

\* The same for the vault, whose script grants before it renounces
\* (post-deploy-bil-vault.mjs:288) but never looks whether a grant succeeded.
VaultHasAdmin ==
  market = "BIL" => \A r \in VaultRole : \E a \in {Deployer, Gov} : Fact("vault", r, a)

\* At the end the deployer is nothing any more, in the market and in the vault,
\* and governance is all that it was (deploy-all.sh phases 5 and 5b).
HandedOver ==
  status = "done" =>
    /\ \A f \in facts : f[3] # Deployer
    /\ \A r \in MarketRole : Fact("ACL", r, Gov)
    /\ market = "BIL" => \A r \in VaultRole : Fact("vault", r, Gov)
    /\ Fact("PAP", "owner", Gov) /\ Fact("PAP", "aclAdmin", Gov)
    /\ Fact("EmissionManager", "owner", Gov) /\ Fact("Registry", "owner", Gov)
    /\ Fact("ACL", "RISK_ADMIN", Helper) /\ Fact("ACL", "EMERGENCY_ADMIN", Emergency)

\* The three states in which no number of re-runs helps.
IncentivesArtifactLost ==
  Pap("INCENTIVES_CONTROLLER") \in facts /\ Disk("IncentivesProxy") \notin facts
DeployerLockedOut == market = "BIL" /\ ~Fact("vault", "ADMIN", Deployer)
ReinitialisationThrows ==
  /\ RevertsExplained \notin facts /\ Initialized("Pool-Implementation") \in facts
  /\ \E p \in phase..Len(Scripts) : Scripts[p] = PoolImplementation

\* What is left of deploy-all.sh:43 "Re-runnable": repeated often enough it gets to the
\* end, wherever it died, unless it died in one of three places: between attaching the
\* incentives proxy and writing its artifact; after giving up ADMIN_ROLE of the vault,
\* without which its own script refuses to run; and, on a node that keeps the reason
\* of a revert to itself, anywhere in phase 1 once the pool's implementation is
\* initialised (or later, when deploy-all.sh starts from the beginning).
RerunsGetThere ==
  \/ <>(status = "done")
  \/ <>[]IncentivesArtifactLost \/ <>[]DeployerLockedOut \/ <>[]ReinitialisationThrows
=============================================================================
