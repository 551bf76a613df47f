--------------------------- MODULE DeployAllProofs ---------------------------
(***************************************************************************)
(* The market and the vault never lose their last admin, however often the *)
(* deployment dies and whatever transactions land late; and a deployment   *)
(* that gets to its end leaves nothing with the deployer.                  *)
(*                                                                         *)
(* Two scripts take rights away from the deployer, and they have passed a  *)
(* point by then at which governance has them: a guard in RevokeDeployer,  *)
(* the three grants in RotateVault.  IInv says so of the script that runs  *)
(* and of every transaction still in flight.                               *)
(*                                                                         *)
(* HandInv says what the deployer can hold at all, and that what the steps *)
(* of the hand-over behind the run have done is still so.  InitAcl alone   *)
(* could undo it; once it is on record it neither runs again nor has a     *)
(* transaction under way.                                                  *)
(***************************************************************************)
EXTENDS DeployAll, SequenceTheorems, TLAPS

Admin(a) == <<"ACL", "DEFAULT_ADMIN", a>>
Vault(r, a) == <<"vault", r, a>>

\* What the steps of most scripts have in common: they take no right away in the access
\* control of the market and in the vault, and whoever deploys the first is its admin.
Tame(s) ==
  /\ s.span \in Nat /\ s.tx \in BOOLEAN
  /\ \A f \in s.drops : f[1] # "ACL" /\ f[1] # "vault"
  /\ Disk("ACLManager") \in s.gets => Admin(Deployer) \in s.gets
TameScript(sc) == Len(sc) \in Nat \ {0} /\ \A j \in 1..Len(sc) : Tame(sc[j])

-----------------------------------------------------------------------------
(* Steps *)

LEMMA TameOnce == ASSUME NEW fn, NEW n \in Nat PROVE Tame(Once(fn, n))
  BY DEF Tame, Once, Plain, Disk
LEMMA TameSave == ASSUME NEW a, a # "ACLManager" PROVE Tame(Save(a))
  BY DEF Tame, Save, Plain, Disk
LEMMA TameDeploy ==
  ASSUME NEW a, NEW owned, a = "ACLManager" => Admin(Deployer) \in owned,
         Disk("ACLManager") \notin owned
  PROVE  Tame(Deploy(a, owned))
  BY DEF Tame, Deploy, Plain, Disk
LEMMA TameRequire == ASSUME NEW fs PROVE Tame(Require(fs))
  BY DEF Tame, Require, Plain, Disk
LEMMA TameTx ==
  ASSUME NEW gets, NEW auth, Disk("ACLManager") \notin gets PROVE Tame(Tx(gets, auth))
  BY DEF Tame, Tx, Plain, Disk
LEMMA TameInitialize == ASSUME NEW a PROVE Tame(Initialize(a))
  BY DEF Tame, Initialize, Initialized, Tx, Plain, Disk
LEMMA TameInitializeStrictly == ASSUME NEW a PROVE Tame(InitializeStrictly(a))
  BY DEF Tame, InitializeStrictly, Initialize, Initialized, Tx, Plain, Disk
LEMMA TameSetPap == ASSUME NEW id PROVE Tame(SetPap(id))
  BY DEF Tame, SetPap, Tx, Plain, Disk, Pap
LEMMA TameSetPapIfUnset == ASSUME NEW id PROVE Tame(SetPapIfUnset(id))
  BY DEF Tame, SetPapIfUnset, SetPap, Tx, Plain, Disk, Pap
LEMMA TameSetPapOnce == ASSUME NEW id PROVE Tame([SetPapIfUnset(id) EXCEPT !.span = 1])
  BY DEF Tame, SetPapIfUnset, SetPap, Tx, Plain, Disk, Pap
LEMMA TameGrant == ASSUME NEW c, c # "disk", NEW r, NEW a PROVE Tame(Grant(c, r, a))
  BY DEF Tame, Grant, Tx, Plain, Disk
LEMMA TameVaultGrant == ASSUME NEW r, NEW a PROVE Tame(VaultGrant(r, a))
  BY DEF Tame, VaultGrant, Grant, Tx, Plain, Disk
LEMMA TameHandOver ==
  ASSUME NEW c, c \notin {"ACL", "vault", "disk"}, NEW t PROVE Tame(HandOver(c, t))
  BY DEF Tame, HandOver, Plain, Disk
LEMMA TameTransferOwnableTo ==
  ASSUME NEW c, c \notin {"ACL", "vault", "disk"} PROVE Tame(TransferOwnableTo(c))
  BY DEF Tame, TransferOwnableTo, HandOver, Plain, Disk
LEMMA TameAddMarket == Tame(AddMarketToRegistry)
  BY DEF Tame, AddMarketToRegistry, Tx, Plain, Disk

-----------------------------------------------------------------------------
(* Scripts *)

LEMMA TamePostDeploy == TameScript(PostDeploy)
<1>1. Tame(SanityCheck)
  BY TameRequire DEF SanityCheck
<1>2. Tame(SeedDeposit)
  BY DEF Tame, SeedDeposit, Tx, Plain, Disk
<1> QED BY <1>1, <1>2, TameVaultGrant DEF TameScript, PostDeploy
LEMMA TameMarketsRegistry == TameScript(MarketsRegistry)
  BY TameOnce, TameSave DEF TameScript, MarketsRegistry
LEMMA TameLogicLibraries == TameScript(LogicLibraries)
  BY TameOnce, TameSave, TameDeploy, TameRequire DEF TameScript, LogicLibraries
LEMMA TameTreasury == TameScript(Treasury)
  BY TameOnce, TameSave DEF TameScript, Treasury
LEMMA TameSetupAddressesProvider == TameScript(SetupAddressesProvider)
<1>1. Tame(Deploy("PoolAddressesProvider", {<<"PAP", "owner", Deployer>>}))
  BY TameDeploy DEF Disk
<1> QED BY <1>1, TameOnce, TameSave, TameSetPap, TameSetPapIfUnset, TameAddMarket
        DEF TameScript, SetupAddressesProvider
LEMMA TamePoolImplementation == TameScript(PoolImplementation)
  BY TameDeploy, TameRequire, TameInitializeStrictly DEF TameScript, PoolImplementation
LEMMA TamePoolConfigurator == TameScript(PoolConfigurator)
  BY TameOnce, TameSave, TameDeploy, TameRequire, TameInitialize DEF TameScript, PoolConfigurator
LEMMA TameInitAcl == TameScript(InitAcl)
<1> DEFINE setAclAdmin == [Tx({<<"PAP", "aclAdmin", Deployer>>}, {<<"PAP", "owner", Deployer>>})
                            EXCEPT !.drops = {<<"PAP", "aclAdmin", Gov>>}]
<1>1. Tame(setAclAdmin)
  BY DEF Tame, Tx, Plain, Disk
<1>2. Tame(Deploy("ACLManager", {<<"ACL", "DEFAULT_ADMIN", Deployer>>}))
  BY TameDeploy DEF Disk, Admin
<1>3. /\ Tame(Tx({<<"ACL", "POOL_ADMIN", Deployer>>}, {<<"ACL", "DEFAULT_ADMIN", Deployer>>}))
      /\ Tame(Tx({<<"ACL", "EMERGENCY_ADMIN", Deployer>>}, {<<"ACL", "DEFAULT_ADMIN", Deployer>>}))
  BY TameTx DEF Disk
<1>4. InitAcl = << Once("ACLManager.id", 6), setAclAdmin,
                   Deploy("ACLManager", {<<"ACL", "DEFAULT_ADMIN", Deployer>>}), SetPap("ACL_MANAGER"),
                   Tx({<<"ACL", "POOL_ADMIN", Deployer>>}, {<<"ACL", "DEFAULT_ADMIN", Deployer>>}),
                   Tx({<<"ACL", "EMERGENCY_ADMIN", Deployer>>}, {<<"ACL", "DEFAULT_ADMIN", Deployer>>}),
                   Save("ACLManager.id") >>
  BY DEF InitAcl
<1>5. Tame(Once("ACLManager.id", 6)) /\ Tame(Save("ACLManager.id")) /\ Tame(SetPap("ACL_MANAGER"))
  BY TameOnce, TameSave, TameSetPap
<1> HIDE DEF setAclAdmin
<1> QED BY <1>1, <1>2, <1>3, <1>4, <1>5 DEF TameScript
LEMMA TameDeployOracles == TameScript(DeployOracles)
  BY TameOnce, TameSave, TameDeploy, TameRequire DEF TameScript, DeployOracles
LEMMA TameInitOracles == TameScript(InitOracles)
  BY TameOnce, TameSave, TameRequire, TameSetPapIfUnset DEF TameScript, InitOracles
LEMMA TameInitPool == TameScript(InitPool)
<1>1. Tame(Tx({<<"Pool", "flashLoanPremiums", "set">>}, {<<"ACL", "POOL_ADMIN", Deployer>>}))
  BY TameTx DEF Disk
<1> QED BY <1>1, TameOnce, TameSave, TameSetPapIfUnset DEF TameScript, InitPool
LEMMA TameIncentives == TameScript(Incentives)
<1>1. Tame(Deploy("EmissionManager", {<<"EmissionManager", "owner", Deployer>>}))
  BY TameDeploy DEF Disk
<1>2. Tame(Tx({<<"EmissionManager", "controller", "set">>}, {<<"EmissionManager", "owner", Deployer>>}))
  BY TameTx DEF Disk
<1> QED BY <1>1, <1>2, TameOnce, TameSave, TameRequire, TameSetPapOnce DEF TameScript, Incentives
LEMMA TameTokensImplementations == TameScript(TokensImplementations)
  BY TameOnce, TameSave, TameDeploy, TameRequire, TameInitialize DEF TameScript, TokensImplementations
LEMMA TameInitReserves == TameScript(InitReserves)
  BY TameOnce, TameSave, TameDeploy, TameRequire DEF TameScript, InitReserves
LEMMA TameInitPeriphery == TameScript(InitPeriphery)
  BY TameOnce, TameSave DEF TameScript, InitPeriphery
LEMMA TameTasks ==
  /\ TameScript(DeployBILOracleAdapter) /\ TameScript(DeployBILDepositZap)
  /\ TameScript(DeployLockableAToken) /\ TameScript(DeployUSDOracleAdapter)
  BY TameDeploy, TameRequire
     DEF TameScript, DeployBILOracleAdapter, DeployBILDepositZap, DeployLockableAToken,
         DeployUSDOracleAdapter
LEMMA TameImportGho == TameScript(ImportGho)
  BY TameSave, TameRequire DEF TameScript, ImportGho
LEMMA TameTransfer == TameScript(TransferAdminToGovernance)
  BY TameRequire, TameGrant, TameHandOver, TameTransferOwnableTo
     DEF TameScript, TransferAdminToGovernance
LEMMA TameGrantRiskAdmin == TameScript(GrantRiskAdmin)
  BY TameGrant DEF TameScript, GrantRiskAdmin

\* What is true of every script: rights in the access control of the market and in the
\* vault are taken from the deployer alone, and only by the two scripts at these steps.
SafeScript(sc) ==
  /\ Len(sc) \in Nat \ {0}
  /\ \A j \in 1..Len(sc) :
       /\ sc[j].span \in Nat /\ sc[j].tx \in BOOLEAN
       /\ Disk("ACLManager") \in sc[j].gets => Admin(Deployer) \in sc[j].gets
       /\ \A f \in sc[j].drops : f[1] \in {"ACL", "vault"} => f[3] = Deployer
       /\ Admin(Deployer) \in sc[j].drops => sc = RevokeDeployer /\ j > 1
       /\ \A r \in VaultRole : Vault(r, Deployer) \in sc[j].drops => sc = RotateVault /\ j > 7

LEMMA TameIsSafe == ASSUME NEW sc, TameScript(sc) PROVE SafeScript(sc)
  BY DEF TameScript, Tame, SafeScript, Admin, Vault

\* The guard of revoke-deployer.ts comes first, and cannot be left out.
LEMMA RevokeGuard ==
  /\ Len(RevokeDeployer) = 6
  /\ ~RevokeDeployer[1].tx /\ ~RevokeDeployer[1].looks /\ ~RevokeDeployer[1].lax
  /\ Admin(Gov) \in RevokeDeployer[1].needs
  BY DEF RevokeDeployer, Require, Plain, Admin

\* The steps after it take rights from the deployer, and nothing else.
Fine(s, rights) == /\ s.span = 0 /\ s.tx \in BOOLEAN /\ s.gets = {}
                   /\ s.drops = { <<"ACL", r, Deployer>> : r \in rights }

LEMMA RevokeIsSafe == SafeScript(RevokeDeployer)
<1>1. \A r : Fine(Remove(r), {r})
  BY DEF Remove, Plain, Fine
<1>2. Fine(Renounce("ACL", "DEFAULT_ADMIN"), {"DEFAULT_ADMIN"})
  BY DEF Renounce, Plain, Fine
<1>3. /\ Fine(RevokeDeployer[1], {}) /\ Fine(RevokeDeployer[6], {})
      /\ RevokeDeployer[2] = Remove("EMERGENCY_ADMIN") /\ RevokeDeployer[3] = Remove("POOL_ADMIN")
      /\ RevokeDeployer[4] = Remove("RISK_ADMIN")
      /\ RevokeDeployer[5] = Renounce("ACL", "DEFAULT_ADMIN")
  BY DEF RevokeDeployer, Require, Plain, Fine
<1>4. /\ Fine(RevokeDeployer[2], {"EMERGENCY_ADMIN"}) /\ Fine(RevokeDeployer[3], {"POOL_ADMIN"})
      /\ Fine(RevokeDeployer[4], {"RISK_ADMIN"}) /\ Fine(RevokeDeployer[5], {"DEFAULT_ADMIN"})
  BY <1>1, <1>2, <1>3
<1>5. ASSUME NEW j \in 1..6
      PROVE  \E rights : Fine(RevokeDeployer[j], rights) /\ (rights # {} => j > 1)
  <2>1. CASE j = 1
    BY <1>3, <2>1
  <2>2. CASE j = 6
    BY <1>3, <2>2
  <2>3. CASE j \in 2..5
    <3>1. j = 2 \/ j = 3 \/ j = 4 \/ j = 5
      BY <2>3
    <3>2. \E rights : Fine(RevokeDeployer[j], rights)
      BY <1>4, <3>1
    <3> QED BY <2>3, <3>2
  <2> QED BY <2>1, <2>2, <2>3
<1>6. ASSUME NEW j \in 1..6
      PROVE  LET s == RevokeDeployer[j] IN
             /\ s.span = 0 /\ s.tx \in BOOLEAN /\ s.gets = {}
             /\ \A f \in s.drops : f[1] = "ACL" /\ f[3] = Deployer
             /\ s.drops # {} => j > 1
  BY <1>5 DEF Fine
<1>7. ASSUME NEW j \in 1..6
      PROVE  LET s == RevokeDeployer[j] IN
             /\ s.span \in Nat
             /\ Disk("ACLManager") \in s.gets => Admin(Deployer) \in s.gets
             /\ \A f \in s.drops : f[1] \in {"ACL", "vault"} => f[3] = Deployer
             /\ Admin(Deployer) \in s.drops => j > 1
             /\ \A r \in VaultRole : Vault(r, Deployer) \notin s.drops
  <2> USE <1>6
  <2>1. ASSUME NEW r \in VaultRole PROVE Vault(r, Deployer) \notin RevokeDeployer[j].drops
    <3>1. Vault(r, Deployer)[1] = "vault"
      BY DEF Vault
    <3> QED BY <3>1
  <2> QED BY <2>1
<1> QED BY <1>6, <1>7, RevokeGuard DEF SafeScript

\* RotateVault grants at steps 5 to 7 and renounces after that.
Grants(s, r) == /\ s.gets = {Vault(r, Gov)} /\ s.unless = {Vault(r, Gov)}
                /\ s.auth = {Vault("DEFAULT_ADMIN", Deployer)} /\ s.bans = {}
Calm(s, rights) == /\ s.span = 0 /\ s.lax = FALSE /\ s.tx \in BOOLEAN
                   /\ Disk("ACLManager") \notin s.gets
                   /\ s.drops = { Vault(r, Deployer) : r \in rights }

LEMMA RotateSteps ==
  /\ Len(RotateVault) = 10
  /\ ~RotateVault[1].tx
  /\ \A j \in 1..7 : Calm(RotateVault[j], {})
  /\ \A j \in 8..10 : \E r : Calm(RotateVault[j], {r})
  /\ \A j \in 5..7 : RotateVault[j].tx /\ RotateVault[j].looks
  /\ Grants(RotateVault[5], "DEFAULT_ADMIN") /\ Grants(RotateVault[6], "ADMIN")
  /\ Grants(RotateVault[7], "UPGRADER")
<1>1. \A r, a : LET s == VaultGrant(r, a) IN Calm(s, {}) /\ s.tx /\ s.looks
  BY DEF VaultGrant, Grant, Tx, Plain, Calm, Disk
<1>2. \A r : Grants(VaultGrant(r, Gov), r)
  BY DEF VaultGrant, Grant, Tx, Plain, Grants, Vault
<1>3. \A r : Calm(VaultRenounce(r), {r})
  BY DEF VaultRenounce, Renounce, Plain, Calm, Vault
<1>4. Calm(SanityCheck, {}) /\ SanityCheck.tx = FALSE
  BY DEF SanityCheck, Require, Plain, Calm
<1>5. Calm(SeedDeposit, {})
  BY DEF SeedDeposit, Tx, Plain, Calm, Disk
<1>6. /\ Len(RotateVault) = 10
      /\ RotateVault[1] = SanityCheck /\ RotateVault[4] = SeedDeposit
      /\ RotateVault[2] = VaultGrant("GUARDIAN", Guardian)
      /\ RotateVault[3] = VaultGrant("CLAIM_OPERATOR", Keeper)
      /\ RotateVault[5] = VaultGrant("DEFAULT_ADMIN", Gov)
      /\ RotateVault[6] = VaultGrant("ADMIN", Gov) /\ RotateVault[7] = VaultGrant("UPGRADER", Gov)
      /\ RotateVault[8] = VaultRenounce("UPGRADER") /\ RotateVault[9] = VaultRenounce("ADMIN")
      /\ RotateVault[10] = VaultRenounce("DEFAULT_ADMIN")
  BY DEF RotateVault
<1>7. ASSUME NEW j \in 1..7 PROVE Calm(RotateVault[j], {})
  <2>1. j \in {1, 2, 3, 4, 5, 6, 7}
    OBVIOUS
  <2> QED BY <1>1, <1>4, <1>5, <1>6, <2>1
<1>8. ASSUME NEW j \in 8..10 PROVE \E r : Calm(RotateVault[j], {r})
  <2>1. j \in {8, 9, 10}
    OBVIOUS
  <2> QED BY <1>3, <1>6, <2>1
<1>9. ASSUME NEW j \in 5..7 PROVE RotateVault[j].tx /\ RotateVault[j].looks
  <2>1. j \in {5, 6, 7}
    OBVIOUS
  <2> QED BY <1>1, <1>6, <2>1
<1> QED BY <1>2, <1>4, <1>6, <1>7, <1>8, <1>9

LEMMA RotateIsSafe == SafeScript(RotateVault)
<1>1. ASSUME NEW j \in 1..10
      PROVE  LET s == RotateVault[j] IN
             /\ s.span = 0 /\ s.tx \in BOOLEAN /\ Disk("ACLManager") \notin s.gets
             /\ \A f \in s.drops : f[1] = "vault" /\ f[3] = Deployer
             /\ s.drops # {} => j > 7
  <2>1. CASE j \in 1..7
    BY <2>1, RotateSteps DEF Calm
  <2>2. CASE j \in 8..10
    BY <2>2, RotateSteps DEF Calm, Vault
  <2> QED BY <2>1, <2>2
<1>2. ASSUME NEW j \in 1..10
      PROVE  LET s == RotateVault[j] IN
             /\ s.span \in Nat
             /\ \A f \in s.drops : f[1] \in {"ACL", "vault"} => f[3] = Deployer
             /\ Admin(Deployer) \notin s.drops
             /\ \A r \in VaultRole : Vault(r, Deployer) \in s.drops => j > 7
  <2> USE <1>1
  <2>1. Admin(Deployer) \notin RotateVault[j].drops
    <3>1. Admin(Deployer)[1] = "ACL"
      BY DEF Admin
    <3> QED BY <3>1
  <2> QED BY <2>1
<1>3. Len(RotateVault) = 10
  BY RotateSteps
<1> QED BY <1>1, <1>2, <1>3 DEF SafeScript

\* Every script of the two pipelines is safe.
LEMMA PipelinesSafe ==
  ASSUME NEW m \in {"BIL", "GIGAHDX"}
  PROVE  /\ Len(Pipeline[m]) \in Nat \ {0}
         /\ \A i \in 1..Len(Pipeline[m]) : SafeScript(Pipeline[m][i])
<1> DEFINE Safe == { sc \in { PostDeploy, MarketsRegistry, LogicLibraries, Treasury,
      SetupAddressesProvider, PoolImplementation, PoolConfigurator, InitAcl, DeployOracles,
      InitOracles, InitPool, Incentives, TokensImplementations, InitReserves, InitPeriphery,
      DeployBILOracleAdapter, DeployBILDepositZap, DeployLockableAToken, DeployUSDOracleAdapter,
      ImportGho, TransferAdminToGovernance, GrantRiskAdmin, RevokeDeployer, RotateVault } :
      SafeScript(sc) }
<1>1. MarketTag \in Seq(Safe) /\ Len(MarketTag) = 14
  BY TameIsSafe, TameMarketsRegistry, TameLogicLibraries, TameTreasury,
     TameSetupAddressesProvider, TamePoolImplementation, TamePoolConfigurator, TameInitAcl,
     TameDeployOracles, TameInitOracles, TameInitPool, TameIncentives,
     TameTokensImplementations, TameInitReserves, TameInitPeriphery
     DEF MarketTag
<1>2. << PostDeploy >> \in Seq(Safe)
  BY TameIsSafe, TamePostDeploy
<1>3. << DeployBILOracleAdapter, DeployBILDepositZap, ImportGho,
         TransferAdminToGovernance, GrantRiskAdmin, RevokeDeployer, RotateVault >> \in Seq(Safe)
  BY TameIsSafe, TameTasks, TameImportGho, TameTransfer, TameGrantRiskAdmin, RevokeIsSafe, RotateIsSafe
<1>4. << DeployLockableAToken, DeployUSDOracleAdapter, ImportGho,
         GigaTransferAdminToGovernance, GigaGrantRiskAdmin, GigaRevokeDeployer >> \in Seq(Safe)
  BY TameIsSafe, TameTasks, TameImportGho, TameTransfer, TameGrantRiskAdmin, RevokeIsSafe
     DEF GigaTransferAdminToGovernance, GigaGrantRiskAdmin, GigaRevokeDeployer
<1> HIDE DEF Safe
<1>5. BILPipeline \in Seq(Safe) /\ Len(BILPipeline) # 0
  BY <1>1, <1>2, <1>3 DEF BILPipeline
<1>6. GigaPipeline \in Seq(Safe) /\ Len(GigaPipeline) # 0
  BY <1>1, <1>4 DEF GigaPipeline
<1>7. Pipeline[m] \in Seq(Safe) /\ Len(Pipeline[m]) # 0
  BY <1>5, <1>6 DEF Pipeline
<1>8. Len(Pipeline[m]) \in Nat \ {0} /\ \A i \in 1..Len(Pipeline[m]) : Pipeline[m][i] \in Safe
  BY <1>7
<1> QED BY <1>8 DEF Safe

-----------------------------------------------------------------------------
(* The inductive invariant *)

Market == {"BIL", "GIGAHDX"}
At(m, p) == Pipeline[m][p[1]][p[2]]
Result(s, fs) == (fs \ s.drops) \cup s.gets

Valid(m, p) == /\ p \in Nat \X Nat
               /\ p[1] \in 1..Len(Pipeline[m]) /\ p[2] \in 1..Len(Pipeline[m][p[1]])

\* What a script has made sure of before it gets to position p.
Ready(m, p, fs) ==
  /\ Pipeline[m][p[1]] = RevokeDeployer /\ p[2] > 1 => Admin(Gov) \in fs
  /\ m = "BIL" /\ Pipeline[m][p[1]] = RotateVault =>
       /\ p[2] > 5 => Vault("DEFAULT_ADMIN", Gov) \in fs
       /\ p[2] > 6 => Vault("ADMIN", Gov) \in fs
       /\ p[2] > 7 => Vault("UPGRADER", Gov) \in fs

Governed(fs) == \A r \in VaultRole : Vault(r, Gov) \in fs
FactsInv(m, fs) ==
  /\ Disk("ACLManager") \in fs => Admin(Deployer) \in fs \/ Admin(Gov) \in fs
  /\ m = "BIL" => Governed(fs) \/ \A r \in VaultRole : Vault(r, Deployer) \in fs

FlightInv(m, fl, fs) ==
  /\ fl \in Seq(Nat \X Nat)
  /\ \A i \in 1..Len(fl) : Valid(m, fl[i]) /\ At(m, fl[i]).tx /\ Ready(m, fl[i], fs)

IInv ==
  /\ market \in Market /\ Valid(market, Here)
  /\ sent \in BOOLEAN /\ status \in {"running", "failed", "done"}
  /\ failures \in 0..MaxFailures
  /\ FactsInv(market, facts) /\ Ready(market, Here, facts) /\ FlightInv(market, flight, facts)
  /\ sent => status = "running" /\ flight # << >> /\ flight[Len(flight)] = Here

-----------------------------------------------------------------------------
(* One step *)

\* The script a valid position is in is safe, and so is the step there.
LEMMA SafeAt ==
  ASSUME NEW m \in Market, NEW p, Valid(m, p)
  PROVE  /\ SafeScript(Pipeline[m][p[1]])
         /\ At(m, p).span \in Nat /\ At(m, p).tx \in BOOLEAN
         /\ Disk("ACLManager") \in At(m, p).gets => Admin(Deployer) \in At(m, p).gets
         /\ \A f \in At(m, p).drops : f[1] \in {"ACL", "vault"} => f[3] = Deployer
         /\ Admin(Deployer) \in At(m, p).drops =>
              Pipeline[m][p[1]] = RevokeDeployer /\ p[2] > 1
         /\ \A r \in VaultRole : Vault(r, Deployer) \in At(m, p).drops =>
              Pipeline[m][p[1]] = RotateVault /\ p[2] > 7
<1>1. SafeScript(Pipeline[m][p[1]])
  BY PipelinesSafe DEF Valid, Market
<1>2. p[2] \in 1..Len(Pipeline[m][p[1]])
  BY DEF Valid
<1> QED BY <1>1, <1>2 DEF SafeScript, At

\* Nothing takes a right from governance.
LEMMA GovKept ==
  ASSUME NEW m \in Market, NEW p, Valid(m, p), NEW fs
  PROVE  /\ Admin(Gov) \in fs => Admin(Gov) \in Result(At(m, p), fs)
         /\ \A r : Vault(r, Gov) \in fs => Vault(r, Gov) \in Result(At(m, p), fs)
<1>1. Admin(Gov)[1] = "ACL" /\ Admin(Gov)[3] = Gov
  BY DEF Admin
<1>2. \A r : Vault(r, Gov)[1] = "vault" /\ Vault(r, Gov)[3] = Gov
  BY DEF Vault
<1>3. Gov # Deployer
  BY DeployerIsOther
<1> QED BY <1>1, <1>2, <1>3, SafeAt DEF Result

LEMMA ReadyKept ==
  ASSUME NEW m \in Market, NEW p, Valid(m, p), NEW fs, NEW q, Ready(m, q, fs)
  PROVE  Ready(m, q, Result(At(m, p), fs))
  BY GovKept DEF Ready

LEMMA FactsKept ==
  ASSUME NEW m \in Market, NEW p, Valid(m, p), NEW fs, FactsInv(m, fs), Ready(m, p, fs)
  PROVE  FactsInv(m, Result(At(m, p), fs))
<1> DEFINE s == At(m, p)
           new == Result(s, fs)
<1>1. Disk("ACLManager") \in new => Admin(Deployer) \in new \/ Admin(Gov) \in new
  <2>1. CASE Disk("ACLManager") \in s.gets
    BY <2>1, SafeAt DEF Result
  <2>2. CASE Disk("ACLManager") \notin s.gets /\ Disk("ACLManager") \in new
    <3>1. Admin(Deployer) \in fs \/ Admin(Gov) \in fs
      BY <2>2 DEF FactsInv, Result
    <3>2. CASE Admin(Gov) \in fs
      BY <3>2, GovKept
    <3>3. CASE Admin(Deployer) \in fs /\ Admin(Deployer) \in s.drops
      <4>1. Admin(Gov) \in fs
        BY <3>3, SafeAt DEF Ready
      <4> QED BY <4>1, GovKept
    <3>4. CASE Admin(Deployer) \in fs /\ Admin(Deployer) \notin s.drops
      BY <3>4 DEF Result
    <3> QED BY <3>1, <3>2, <3>3, <3>4
  <2> QED BY <2>1, <2>2
<1>2. ASSUME m = "BIL"
      PROVE  Governed(new) \/ \A r \in VaultRole : Vault(r, Deployer) \in new
  <2>1. CASE Governed(fs)
    BY <2>1, GovKept DEF Governed
  <2>2. CASE /\ \A r \in VaultRole : Vault(r, Deployer) \in fs
             /\ \A r \in VaultRole : Vault(r, Deployer) \notin s.drops
    BY <2>2 DEF Result
  <2>3. CASE \E r \in VaultRole : Vault(r, Deployer) \in s.drops
    <3>1. Pipeline[m][p[1]] = RotateVault /\ p[2] > 7 /\ p[2] \in Nat
      BY <2>3, SafeAt DEF Valid
    <3>2. p[2] > 5 /\ p[2] > 6
      BY <3>1
    <3>3. Governed(fs)
      BY <1>2, <3>1, <3>2 DEF Ready, Governed, VaultRole
    <3> QED BY <3>3, <2>1
  <2>4. Governed(fs) \/ \A r \in VaultRole : Vault(r, Deployer) \in fs
    BY <1>2 DEF FactsInv
  <2> QED BY <2>1, <2>2, <2>3, <2>4
<1> QED BY <1>1, <1>2 DEF FactsInv

\* Past a step of RevokeDeployer the guard at its head has been passed.
LEMMA RevokeOn ==
  ASSUME NEW m \in Market, NEW p, Valid(m, p), NEW fs, NEW new, Ready(m, p, fs),
         Admin(Gov) \in fs => Admin(Gov) \in new,
         Pipeline[m][p[1]] = RevokeDeployer,
         At(m, p).needs \subseteq fs \/ At(m, p).looks \/ At(m, p).lax \/ At(m, p).tx
  PROVE  Admin(Gov) \in new
<1>1. CASE p[2] > 1
  BY <1>1 DEF Ready
<1>2. CASE p[2] = 1
  <2>1. At(m, p) = RevokeDeployer[1]
    BY <1>2 DEF At
  <2> QED BY <2>1, RevokeGuard
<1> QED BY <1>1, <1>2 DEF Valid

\* RotateVault leaves a step behind it with the right granted, or with nothing to grant.
LEMMA RotateOn ==
  ASSUME NEW m, m = "BIL", NEW p, Valid(m, p), NEW fs, NEW new, Ready(m, p, fs),
         \A r : Vault(r, Gov) \in fs => Vault(r, Gov) \in new,
         Pipeline[m][p[1]] = RotateVault,
         \/ At(m, p).gets \subseteq new
         \/ At(m, p).looks /\ At(m, p).unless \subseteq new
         \/ Governed(new)
  PROVE  Ready(m, <<p[1], p[2] + 1>>, new)
<1> DEFINE s == At(m, p)
<1>0. p[2] \in Nat /\ RotateVault # RevokeDeployer
  <2>1. Len(RotateVault) = 10 /\ Len(RevokeDeployer) = 6
    BY RotateSteps, RevokeGuard
  <2>2. RotateVault # RevokeDeployer
    BY <2>1
  <2> QED BY <2>2 DEF Valid
<1>1. ASSUME NEW r, Grants(s, r), r \in VaultRole PROVE Vault(r, Gov) \in new
  BY <1>1 DEF Grants, Governed
<1>2. /\ p[2] = 5 => Grants(s, "DEFAULT_ADMIN")
      /\ p[2] = 6 => Grants(s, "ADMIN")
      /\ p[2] = 7 => Grants(s, "UPGRADER")
  BY RotateSteps DEF At
<1>3. p[2] + 1 > 5 => Vault("DEFAULT_ADMIN", Gov) \in new
  BY <1>0, <1>1, <1>2 DEF Ready, VaultRole
<1>4. p[2] + 1 > 6 => Vault("ADMIN", Gov) \in new
  BY <1>0, <1>1, <1>2 DEF Ready, VaultRole
<1>5. p[2] + 1 > 7 => Vault("UPGRADER", Gov) \in new
  BY <1>0, <1>1, <1>2 DEF Ready, VaultRole
<1> QED BY <1>0, <1>3, <1>4, <1>5 DEF Ready

\* The position a script goes on to, with the facts `new` read or made by the step at p.
LEMMA GoesOn ==
  ASSUME NEW m \in Market, NEW p, Valid(m, p), NEW fs, NEW new, Ready(m, p, fs),
         Admin(Gov) \in fs => Admin(Gov) \in new,
         \A r : Vault(r, Gov) \in fs => Vault(r, Gov) \in new,
         At(m, p).needs \subseteq fs \/ At(m, p).looks \/ At(m, p).lax \/ At(m, p).tx,
         \/ At(m, p).gets \subseteq new
         \/ At(m, p).looks /\ At(m, p).unless \subseteq new
         \/ At(m, p).lax
         \/ m = "BIL" /\ Governed(new),
         NEW n \in Nat, n = 1 \/ n = 1 + At(m, p).span
  PROVE  Ready(m, <<p[1], p[2] + n>>, new)
<1>1. CASE Pipeline[m][p[1]] = RevokeDeployer
  <2>1. Admin(Gov) \in new
    BY <1>1, RevokeOn
  <2>2. RevokeDeployer # RotateVault
    <3>1. Len(RotateVault) = 10 /\ Len(RevokeDeployer) = 6
      BY RotateSteps, RevokeGuard
    <3> QED BY <3>1
  <2> QED BY <1>1, <2>1, <2>2 DEF Ready
<1>2. CASE Pipeline[m][p[1]] = RotateVault /\ m = "BIL"
  <2>1. At(m, p).span = 0 /\ ~At(m, p).lax
    <3>1. p[2] \in 1..10
      BY <1>2, RotateSteps DEF Valid
    <3>2. \E rights : Calm(RotateVault[p[2]], rights)
      <4>1. CASE p[2] \in 1..7
        BY <4>1, RotateSteps
      <4>2. CASE p[2] \in 8..10
        BY <4>2, RotateSteps
      <4> QED BY <3>1, <4>1, <4>2
    <3> QED BY <1>2, <3>2 DEF Calm, At
  <2>2. n = 1
    BY <2>1
  <2>3. Ready(m, <<p[1], p[2] + 1>>, new)
    BY <1>2, <2>1, RotateOn
  <2> QED BY <2>2, <2>3
<1>3. CASE /\ Pipeline[m][p[1]] # RevokeDeployer
           /\ ~(Pipeline[m][p[1]] = RotateVault /\ m = "BIL")
  BY <1>3 DEF Ready
<1> QED BY <1>1, <1>2, <1>3

-----------------------------------------------------------------------------
(* Transactions in flight *)

LEMMA FlightKept ==
  ASSUME NEW m \in Market, NEW p, Valid(m, p), NEW fs, NEW fl, FlightInv(m, fl, fs)
  PROVE  FlightInv(m, fl, Result(At(m, p), fs))
  BY ReadyKept DEF FlightInv

LEMMA FlightAppend ==
  ASSUME NEW m, NEW p, Valid(m, p), NEW fs, Ready(m, p, fs), At(m, p).tx,
         NEW fl, FlightInv(m, fl, fs)
  PROVE  /\ FlightInv(m, Append(fl, p), fs)
         /\ Append(fl, p) # << >> /\ Append(fl, p)[Len(Append(fl, p))] = p
<1>1. p \in Nat \X Nat /\ fl \in Seq(Nat \X Nat)
  BY DEF Valid, FlightInv
<1>2. /\ Append(fl, p) \in Seq(Nat \X Nat) /\ Len(Append(fl, p)) = Len(fl) + 1
      /\ \A i \in 1..Len(fl) : Append(fl, p)[i] = fl[i]
      /\ Append(fl, p)[Len(fl) + 1] = p
  BY <1>1
<1>3. ASSUME NEW i \in 1..Len(fl) + 1
      PROVE  /\ Valid(m, Append(fl, p)[i]) /\ At(m, Append(fl, p)[i]).tx
             /\ Ready(m, Append(fl, p)[i], fs)
  <2>1. CASE i = Len(fl) + 1
    <3>1. Append(fl, p)[i] = p
      BY <1>2, <2>1
    <3> QED BY <3>1
  <2>2. CASE i \in 1..Len(fl)
    <3>1. Append(fl, p)[i] = fl[i]
      BY <1>2, <2>2
    <3> QED BY <2>2, <3>1 DEF FlightInv
  <2>3. Len(fl) \in Nat
    BY <1>1
  <2>4. i = Len(fl) + 1 \/ i \in 1..Len(fl)
    BY <2>3
  <2> QED BY <2>1, <2>2, <2>4
<1>4. FlightInv(m, Append(fl, p), fs)
  BY <1>2, <1>3 DEF FlightInv
<1>5. Append(fl, p) # << >>
  BY <1>1
<1> QED BY <1>2, <1>4, <1>5

LEMMA FlightTail ==
  ASSUME NEW m, NEW fs, NEW fl, FlightInv(m, fl, fs), fl # << >>
  PROVE  FlightInv(m, Tail(fl), fs)
<1>1. fl \in Seq(Nat \X Nat)
  BY DEF FlightInv
<1>2. /\ Tail(fl) \in Seq(Nat \X Nat) /\ Len(Tail(fl)) = Len(fl) - 1
      /\ \A i \in 1..Len(Tail(fl)) : Tail(fl)[i] = fl[i + 1] /\ i + 1 \in 1..Len(fl)
  BY <1>1
<1> QED BY <1>2 DEF FlightInv

LEMMA FlightCut ==
  ASSUME NEW m, NEW fs, NEW fl, FlightInv(m, fl, fs), fl # << >>
  PROVE  FlightInv(m, SubSeq(fl, 1, Len(fl) - 1), fs)
<1>1. fl \in Seq(Nat \X Nat) /\ Len(fl) \in Nat \ {0}
  BY DEF FlightInv
<1> DEFINE cut == SubSeq(fl, 1, Len(fl) - 1)
<1>2. /\ cut \in Seq(Nat \X Nat) /\ Len(cut) = Len(fl) - 1
      /\ \A i \in 1..Len(cut) : cut[i] = fl[i] /\ i \in 1..Len(fl)
  <2>1. Len(fl) - 1 \in 0..Len(fl) /\ \A i \in 1..Len(fl) - 1 : fl[i] \in Nat \X Nat
    BY <1>1
  <2>2. cut \in Seq(Nat \X Nat) /\ Len(cut) = IF 1 <= Len(fl) - 1 THEN Len(fl) - 1 - 1 + 1 ELSE 0
    BY <2>1, SubSeqProperties
  <2>3. ASSUME NEW i \in 1..Len(cut) PROVE cut[i] = fl[i] /\ i \in 1..Len(fl)
    <3>1. i \in 1..Len(fl) - 1 /\ 1 + i - 1 = i /\ i \in 1..(Len(fl) - 1) - 1 + 1
      BY <1>1, <2>2
    <3>2. \A k \in 1..(Len(fl) - 1) - 1 + 1 : cut[k] = fl[1 + k - 1]
      BY <2>1, SubSeqProperties
    <3> HIDE DEF cut
    <3> QED BY <1>1, <3>1, <3>2
  <2> HIDE DEF cut
  <2>4. Len(cut) = Len(fl) - 1
    <3> DEFINE n == Len(fl)
    <3>1. n \in Nat \ {0} /\ Len(cut) = IF 1 <= n - 1 THEN n - 1 - 1 + 1 ELSE 0
      BY <1>1, <2>2
    <3> HIDE DEF n
    <3>2. Len(cut) = n - 1
      BY <3>1
    <3> QED BY <3>2 DEF n
  <2> QED BY <2>2, <2>3, <2>4
<1> HIDE DEF cut
<1>3. FlightInv(m, cut, fs)
  BY <1>2 DEF FlightInv
<1> QED BY <1>3 DEF cut

-----------------------------------------------------------------------------
(* Every action preserves IInv *)

\* At the start of a script nothing has been made sure of yet.
LEMMA StartOfScript ==
  ASSUME NEW m \in Market, NEW i \in 1..Len(Pipeline[m]), NEW fs
  PROVE  Valid(m, <<i, 1>>) /\ Ready(m, <<i, 1>>, fs)
<1>1. i \in Nat /\ SafeScript(Pipeline[m][i])
  BY PipelinesSafe DEF Market
<1>2. 1 \in 1..Len(Pipeline[m][i])
  BY <1>1 DEF SafeScript
<1> QED BY <1>1, <1>2 DEF Valid, Ready

LEMMA Advancing ==
  ASSUME IInv, market' = market, NEW n \in Nat \ {0}, Advance(n), NEW new,
         Ready(market, <<phase, step + n>>, new), Ready(market, Here, new)
  PROVE  Valid(market, Here') /\ Ready(market, Here', new) /\ status' \in {"running", "failed", "done"}
<1>1. /\ phase \in 1..Len(Pipeline[market]) /\ step \in 1..Len(Pipeline[market][phase])
      /\ market \in Market /\ Valid(market, Here) /\ status \in {"running", "failed", "done"}
  BY DEF IInv, Valid, Here
<1>2. Len(Pipeline[market]) \in Nat /\ Len(Pipeline[market][phase]) \in Nat
  BY <1>1, PipelinesSafe DEF SafeScript, Market
<1>3. CASE step + n =< Len(Pipeline[market][phase])
  <2>1. phase' = phase /\ step' = step + n /\ status' = status
    BY <1>3 DEF Advance, Scripts
  <2>2. Valid(market, <<phase, step + n>>)
    BY <1>1, <1>2, <1>3 DEF Valid
  <2> QED BY <1>1, <2>1, <2>2 DEF Here
<1>4. CASE ~(step + n =< Len(Pipeline[market][phase])) /\ phase < Len(Pipeline[market])
  <2>1. phase' = phase + 1 /\ step' = 1 /\ status' = status
    BY <1>4 DEF Advance, Scripts
  <2>2. phase + 1 \in 1..Len(Pipeline[market])
    BY <1>1, <1>2, <1>4
  <2> QED BY <1>1, <2>1, <2>2, StartOfScript DEF Here
<1>5. CASE ~(step + n =< Len(Pipeline[market][phase])) /\ ~(phase < Len(Pipeline[market]))
  BY <1>1, <1>5 DEF Advance, Scripts, Here
<1> QED BY <1>3, <1>4, <1>5

LEMMA LeaveOutKeeps == ASSUME IInv, LeaveOut PROVE IInv'
<1> DEFINE s == At(market, Here)
<1>1. /\ market \in Market /\ Valid(market, Here) /\ Ready(market, Here, facts)
      /\ s.span \in Nat
  BY SafeAt DEF IInv
<1>2. /\ (s.looks /\ s.unless \subseteq facts) \/ s.lax
      /\ Advance(1 + s.span) /\ sent = FALSE
      /\ UNCHANGED <<market, facts, sent, flight, failures>>
  BY DEF LeaveOut, Running, LeftOut, Needless, StepAt, Scripts, At, IInv
<1>3. Ready(market, <<phase, step + (1 + s.span)>>, facts)
  <2> DEFINE n == 1 + s.span
  <2>1. n \in Nat
    BY <1>1
  <2>2. s.looks \/ s.lax
    BY <1>2
  <2>3. (s.looks /\ s.unless \subseteq facts) \/ s.lax
    BY <1>2
  <2>4. Ready(market, <<Here[1], Here[2] + n>>, facts)
    BY <1>1, <2>1, <2>2, <2>3, GoesOn
  <2> QED BY <2>4 DEF Here
<1>4. /\ Valid(market, Here') /\ Ready(market, Here', facts)
      /\ status' \in {"running", "failed", "done"}
  BY <1>1, <1>2, <1>3, Advancing
<1> QED BY <1>2, <1>4 DEF IInv

LEMMA WriteDiskKeeps == ASSUME IInv, WriteDisk PROVE IInv'
<1> DEFINE s == At(market, Here)
           new == Result(s, facts)
<1>1. market \in Market /\ Valid(market, Here) /\ Ready(market, Here, facts)
  BY DEF IInv
<1>2. /\ s.needs \subseteq facts /\ sent = FALSE
      /\ facts' = new /\ Advance(1)
      /\ UNCHANGED <<market, sent, flight, failures>>
  BY DEF WriteDisk, Running, Allowed, StepAt, Scripts, At, After, Result, IInv
<1>3. /\ FactsInv(market, new) /\ FlightInv(market, flight, new) /\ Ready(market, Here, new)
      /\ Admin(Gov) \in facts => Admin(Gov) \in new
      /\ \A r : Vault(r, Gov) \in facts => Vault(r, Gov) \in new
  BY <1>1, FactsKept, FlightKept, ReadyKept, GovKept DEF IInv
<1>4. Ready(market, <<phase, step + 1>>, new)
  <2>1. s.gets \subseteq new
    BY DEF Result
  <2>2. Ready(market, <<Here[1], Here[2] + 1>>, new)
    BY <1>1, <1>2, <1>3, <2>1, GoesOn
  <2> QED BY <2>2 DEF Here
<1>5. /\ Valid(market, Here') /\ Ready(market, Here', new)
      /\ status' \in {"running", "failed", "done"}
  BY <1>1, <1>2, <1>3, <1>4, Advancing
<1> QED BY <1>2, <1>3, <1>5 DEF IInv

\* A transaction that reverts is gone past only where there is nothing left to grant.
LEMMA Landing ==
  ASSUME NEW m \in Market, NEW p, Valid(m, p), NEW fs, FactsInv(m, fs), Ready(m, p, fs),
         At(m, p).tx
  PROVE  /\ Ready(m, <<p[1], p[2] + 1>>, Result(At(m, p), fs))
         /\ ~(At(m, p).auth \subseteq fs /\ At(m, p).bans \cap fs = {}) =>
              Ready(m, <<p[1], p[2] + 1>>, fs)
<1>0. p[2] \in Nat \ {0} /\ RotateVault # RevokeDeployer
  <2>1. Len(RotateVault) = 10 /\ Len(RevokeDeployer) = 6
    BY RotateSteps, RevokeGuard
  <2>2. RotateVault # RevokeDeployer
    BY <2>1
  <2> QED BY <2>2 DEF Valid
<1>1. Ready(m, <<p[1], p[2] + 1>>, Result(At(m, p), fs))
  <2> DEFINE new == Result(At(m, p), fs)
  <2>1. /\ At(m, p).gets \subseteq new
        /\ Admin(Gov) \in fs => Admin(Gov) \in new
        /\ \A r : Vault(r, Gov) \in fs => Vault(r, Gov) \in new
    BY GovKept DEF Result
  <2> HIDE DEF new
  <2>2. Ready(m, <<p[1], p[2] + 1>>, new)
    BY <2>1, GoesOn
  <2> QED BY <2>2 DEF new
<1>2. ASSUME ~(At(m, p).auth \subseteq fs /\ At(m, p).bans \cap fs = {})
      PROVE  Ready(m, <<p[1], p[2] + 1>>, fs)
  <2>1. CASE Pipeline[m][p[1]] = RevokeDeployer
    <3>1. p[2] # 1
      BY <2>1, RevokeGuard DEF At
    <3> QED BY <1>0, <2>1, <3>1 DEF Ready
  <2>2. CASE Pipeline[m][p[1]] = RotateVault /\ m = "BIL" /\ p[2] \in 5..7
    <3>1. At(m, p).auth = {Vault("DEFAULT_ADMIN", Deployer)} /\ At(m, p).bans = {}
      BY <2>2, RotateSteps DEF At, Grants
    <3>2. Governed(fs)
      BY <1>2, <2>2, <3>1 DEF FactsInv, VaultRole
    <3> QED BY <1>0, <2>2, <3>2 DEF Ready, Governed, VaultRole
  <2>3. CASE Pipeline[m][p[1]] = RotateVault /\ m = "BIL" /\ p[2] \notin 5..7
    <3>1. p[2] < 5 \/ p[2] > 7
      BY <1>0, <2>3
    <3> QED BY <1>0, <2>3, <3>1 DEF Ready
  <2>4. CASE /\ Pipeline[m][p[1]] # RevokeDeployer
             /\ ~(Pipeline[m][p[1]] = RotateVault /\ m = "BIL")
    BY <2>4 DEF Ready
  <2> QED BY <2>1, <2>2, <2>3, <2>4
<1> QED BY <1>1, <1>2

LEMMA SendKeeps == ASSUME IInv, Send PROVE IInv'
<1>1. /\ At(market, Here).tx
      /\ flight' = Append(flight, Here) /\ sent' = TRUE /\ status = "running"
      /\ UNCHANGED <<market, facts, phase, step, status, failures>>
  BY DEF Send, Running, StepAt, Scripts, At
<1>2. Here' = Here
  BY <1>1 DEF Here
<1>3. /\ FlightInv(market, flight', facts)
      /\ flight' # << >> /\ flight'[Len(flight')] = Here
  BY <1>1, FlightAppend DEF IInv
<1> QED BY <1>1, <1>2, <1>3 DEF IInv

LEMMA LandKeeps == ASSUME IInv, Land PROVE IInv'
<1> DEFINE p == flight[1]
           s == At(market, p)
           ok == s.auth \subseteq facts /\ s.bans \cap facts = {}
<1>1. /\ flight # << >> /\ flight \in Seq(Nat \X Nat) /\ market \in Market
      /\ FactsInv(market, facts)
  BY DEF Land, IInv, FlightInv
<1>2. Valid(market, p) /\ s.tx /\ Ready(market, p, facts)
  <2>1. 1 \in 1..Len(flight)
    BY <1>1
  <2> QED BY <2>1 DEF IInv, FlightInv
<1>3. /\ facts' = IF ok THEN Result(s, facts) ELSE facts
      /\ flight' = Tail(flight) /\ market' = market /\ failures' = failures
      /\ \/ sent /\ Len(flight) = 1 /\ (ok \/ s.blind) /\ sent' = FALSE /\ Advance(1)
         \/ sent /\ Len(flight) = 1 /\ sent' = FALSE /\ status' = "failed" /\ UNCHANGED <<phase, step>>
         \/ ~(sent /\ Len(flight) = 1) /\ UNCHANGED <<phase, step, sent, status>>
  <2>1. Head(flight) = p
    BY <1>1
  <2> QED BY <2>1 DEF Land, Succeeds, StepAt, Scripts, At, After, Result
<1>4. /\ FactsInv(market, facts') /\ FlightInv(market, flight, facts')
      /\ Ready(market, Here, facts') /\ Ready(market, p, facts')
      /\ Admin(Gov) \in facts => Admin(Gov) \in facts'
      /\ \A r : Vault(r, Gov) \in facts => Vault(r, Gov) \in facts'
  <2>1. CASE ok
    <3> HIDE DEF s, p, ok
    <3>1. facts' = Result(At(market, p), facts)
      BY <1>3, <2>1 DEF s
    <3> QED BY <1>1, <1>2, <3>1, FactsKept, FlightKept, ReadyKept, GovKept DEF IInv
  <2>2. CASE ~ok
    <3>1. facts' = facts
      BY <1>3, <2>2
    <3> QED BY <1>1, <1>2, <3>1 DEF IInv
  <2> QED BY <2>1, <2>2
<1>5. FlightInv(market, flight', facts')
  BY <1>1, <1>3, <1>4, FlightTail
<1>6. CASE sent /\ Len(flight) = 1 /\ sent' = FALSE /\ Advance(1)
  <2>1. p = Here
    BY <1>6 DEF IInv
  <2>3. Ready(market, <<p[1], p[2] + 1>>, facts')
    BY <1>1, <1>2, <1>3, Landing
  <2>4. Ready(market, <<phase, step + 1>>, facts')
    BY <2>1, <2>3 DEF Here
  <2>5. /\ Valid(market, Here') /\ Ready(market, Here', facts')
        /\ status' \in {"running", "failed", "done"}
    BY <1>3, <1>4, <1>6, <2>4, Advancing
  <2> QED BY <1>1, <1>3, <1>4, <1>5, <1>6, <2>5 DEF IInv
<1>7. CASE sent /\ Len(flight) = 1 /\ sent' = FALSE /\ status' = "failed" /\ UNCHANGED <<phase, step>>
  <2>1. Here' = Here
    BY <1>7 DEF Here
  <2> QED BY <1>1, <1>3, <1>4, <1>5, <1>7, <2>1 DEF IInv
<1>8. CASE ~(sent /\ Len(flight) = 1) /\ UNCHANGED <<phase, step, sent, status>>
  <2>1. Here' = Here
    BY <1>8 DEF Here
  <2>2. ASSUME sent PROVE flight' # << >> /\ flight'[Len(flight')] = Here
    <3>1. Len(flight) # 1 /\ flight[Len(flight)] = Here
      BY <1>8, <2>2 DEF IInv
    <3>2. Len(flight) \in Nat /\ Len(flight) # 0
      BY <1>1
    <3>3. Len(flight') = Len(flight) - 1
      BY <1>1, <1>3
    <3>4. \A n \in Nat : n # 0 /\ n # 1 => n - 1 \in 1..n - 1 /\ n - 1 + 1 = n
      OBVIOUS
    <3>5. flight' \in Seq(Nat \X Nat) /\ \A i \in 1..Len(flight) - 1 : flight'[i] = flight[i + 1]
      BY <1>1, <1>3
    <3>6. flight'[Len(flight')] = flight[Len(flight)]
      BY <3>1, <3>2, <3>3, <3>4, <3>5
    <3>7. flight' # << >>
      <4>1. Len(flight') # 0
        BY <3>1, <3>2, <3>3
      <4> QED BY <4>1
    <3> QED BY <3>1, <3>6, <3>7
  <2> QED BY <1>1, <1>3, <1>4, <1>5, <1>8, <2>1, <2>2 DEF IInv
<1> QED BY <1>3, <1>6, <1>7, <1>8

LEMMA RestKeeps == ASSUME IInv, Throw \/ Die \/ Retry \/ Rerun \/ UNCHANGED vars PROVE IInv'
<1>1. CASE Throw
  <2>1. Here' = Here
    BY <1>1 DEF Throw, Here
  <2> QED BY <1>1, <2>1 DEF Throw, Running, IInv
<1>2. CASE Die
  <2>1. /\ Here' = Here /\ failures' \in 0..MaxFailures
        /\ status' = "failed" /\ sent' = FALSE /\ market' = market /\ facts' = facts
    BY <1>2, FailuresAssumption DEF Die, Here, IInv
  <2>2. FlightInv(market, flight', facts)
    <3>1. CASE flight' = flight
      BY <3>1 DEF IInv
    <3>2. CASE sent /\ flight' = SubSeq(flight, 1, Len(flight) - 1)
      BY <3>2, FlightCut DEF IInv
    <3> QED BY <1>2, <3>1, <3>2 DEF Die
  <2> QED BY <2>1, <2>2 DEF IInv
<1>3. CASE Retry
  <2>1. Here' = <<phase', 1>> /\ phase' \in 1..Len(Pipeline[market])
    <3>1. phase \in 1..Len(Pipeline[market])
      BY DEF Here, IInv, Valid
    <3>2. phase' \in Nat /\ 1 <= phase' /\ phase' <= phase
      BY <1>3, <3>1 DEF Retry, InMarketTag, MarketFirst
    <3> QED BY <1>3, <3>1, <3>2 DEF Retry, Here
  <2>2. Valid(market, Here') /\ Ready(market, Here', facts)
    BY <2>1, StartOfScript DEF IInv
  <2> QED BY <1>3, <2>2 DEF Retry, IInv
<1>4. CASE Rerun
  <2>1. Here' = <<1, 1>> /\ 1 \in 1..Len(Pipeline[market])
    BY <1>4, PipelinesSafe DEF Rerun, Here, IInv, Market
  <2>2. Valid(market, Here') /\ Ready(market, Here', facts)
    BY <2>1, StartOfScript DEF IInv
  <2>3. failures' \in 0..MaxFailures
    BY <1>4, FailuresAssumption DEF Rerun, IInv
  <2> QED BY <1>4, <2>2, <2>3 DEF Rerun, IInv
<1>5. CASE UNCHANGED vars
  <2>1. Here' = Here
    BY <1>5 DEF vars, Here
  <2> QED BY <1>5, <2>1 DEF vars, IInv
<1> QED BY <1>1, <1>2, <1>3, <1>4, <1>5

-----------------------------------------------------------------------------
(* Results *)

LEMMA InitHolds == ASSUME Init PROVE IInv
<1>1. market \in Market /\ Here = <<1, 1>> /\ Len(Pipeline[market]) \in Nat \ {0}
  BY PipelinesSafe DEF Init, Here, Market
<1>2. Valid(market, Here) /\ Ready(market, Here, facts)
  <2>1. 1 \in 1..Len(Pipeline[market])
    BY <1>1
  <2> QED BY <1>1, <2>1, StartOfScript
<1>3. FactsInv(market, facts)
  <2>1. Disk("ACLManager") \notin facts
    <3>1. PICK owner \in {Gov, Deployer}, reused \in {{}, Reusable(market)}, node \in {{}, {RevertsExplained}} :
            facts = (IF market = "BIL" THEN { <<"vault", r, Deployer>> : r \in VaultRole } ELSE {})
                    \cup {<<"Registry", "owner", owner>>}
                    \cup { Disk(a) : a \in reused }
                    \cup { Initialized(a) : a \in reused \cap {"PoolConfigurator-Implementation"} }
                    \cup node
      BY DEF Init
    <3>2. "ACLManager" \notin reused
      BY <3>1 DEF Reusable, Logics
    <3> QED BY <3>1, <3>2 DEF Disk, Initialized, RevertsExplained
  <2>2. market = "BIL" => \A r \in VaultRole : Vault(r, Deployer) \in facts
    BY DEF Init, Vault
  <2> QED BY <2>1, <2>2 DEF FactsInv
<1>4. FlightInv(market, flight, facts)
  <2>1. flight = << >>
    BY DEF Init
  <2> QED BY <2>1 DEF FlightInv
<1>5. sent = FALSE /\ status = "running" /\ failures = 0
  BY DEF Init
<1>6. 0 \in 0..MaxFailures
  BY FailuresAssumption
<1>7. /\ sent \in BOOLEAN /\ status \in {"running", "failed", "done"} /\ failures \in 0..MaxFailures
      /\ sent => status = "running" /\ flight # << >> /\ flight[Len(flight)] = Here
  BY <1>5, <1>6
<1> QED BY <1>1, <1>2, <1>3, <1>4, <1>7 DEF IInv

LEMMA NextKeeps == ASSUME IInv, [Next]_vars PROVE IInv'
<1>1. CASE LeaveOut
  BY <1>1, LeaveOutKeeps
<1>2. CASE WriteDisk
  BY <1>2, WriteDiskKeeps
<1>3. CASE Send
  BY <1>3, SendKeeps
<1>4. CASE Land
  BY <1>4, LandKeeps
<1>5. CASE Throw \/ Die \/ Retry \/ Rerun \/ UNCHANGED vars
  BY <1>5, RestKeeps
<1> QED BY <1>1, <1>2, <1>3, <1>4, <1>5 DEF Next, Progress

LEMMA Invariance == Spec => []IInv
<1>1. Init => IInv
  BY InitHolds
<1>2. IInv /\ [Next]_vars => IInv'
  BY NextKeeps
<1> QED BY <1>1, <1>2, PTL DEF Spec

\* The script that runs and every transaction in flight stay at positions of the
\* pipeline, and only steps that send a transaction are in flight.
THEOREM TypeCorrect == Spec => []TypeOK
<1>1. IInv => TypeOK
  <2>1. DOMAIN Pipeline = Market
    BY DEF Pipeline, Market
  <2> QED BY <2>1 DEF IInv, TypeOK, Valid, Here, FlightInv, StepAt, Scripts, At
<1> QED BY <1>1, Invariance, PTL

\* The access control of the market always has an admin, the deployer or governance:
\* with any number of failed and repeated runs, whoever the six accounts are.
THEOREM MarketAlwaysHasAdmin == Spec => []MarketHasAdmin
<1>1. IInv => MarketHasAdmin
  BY DEF IInv, FactsInv, MarketHasAdmin, Fact, Admin
<1> QED BY <1>1, Invariance, PTL

\* Every role of the vault is always held by the deployer or by governance, although
\* a grant of the script that reverts goes unnoticed.
THEOREM VaultAlwaysHasAdmin == Spec => []VaultHasAdmin
<1>1. IInv => VaultHasAdmin
  BY DEF IInv, FactsInv, Governed, VaultHasAdmin, Fact, Vault
<1> QED BY <1>1, Invariance, PTL

-----------------------------------------------------------------------------
(* The hand-over.  Where the scripts that matter for it are in the pipelines. *)

AclAt(m) == IF m = "BIL" THEN 8 ELSE 7
IncentivesAt(m) == IF m = "BIL" THEN 12 ELSE 11
TransferAt(m) == IF m = "BIL" THEN 19 ELSE 18
GrantAt(m) == IF m = "BIL" THEN 20 ELSE 19
RevokeAt(m) == IF m = "BIL" THEN 21 ELSE 20
RotateAt == 22
Last(m) == IF m = "BIL" THEN 22 ELSE 20

AclRecord == Disk("ACLManager.id")
IncentivesRecord == Disk("Incentives.id")
Owner(c, a) == <<c, "owner", a>>
AclAdmin(a) == <<"PAP", "aclAdmin", a>>
Artifact(c) == IF c = "PAP" THEN Disk("PoolAddressesProvider") ELSE Disk("EmissionManager")
Founded == {"PAP", "EmissionManager"}
Ownable == Founded \cup {"Registry"}

\* All that the deployer may ever hold.
AclRights == { <<"ACL", r, Deployer>> : r \in {"DEFAULT_ADMIN", "POOL_ADMIN", "EMERGENCY_ADMIN"} }
Holdings(m) ==
  AclRights \cup {AclAdmin(Deployer)} \cup { Owner(c, Deployer) : c \in Ownable }
  \cup (IF m = "BIL" THEN { Vault(r, Deployer) : r \in VaultRole } ELSE {})

\* A step that deploys a contract, whose owner is then the deployer.
Founds(s, c) ==
  /\ ~s.tx /\ s.looks /\ s.unless = {Artifact(c)} /\ s.drops = {}
  /\ s.gets = {Artifact(c), Owner(c, Deployer)}
\* A transaction that makes governance its owner.
Hands(s, c) ==
  /\ s.tx /\ s.auth = {Owner(c, Deployer)}
  /\ s.gets = {Owner(c, Gov)} /\ s.drops = {Owner(c, Deployer)}

\* What the steps of every script but InitAcl have in common: they drop rights of the
\* deployer only, give it none but the ownership of what they deploy, and pass an
\* ownership on to governance alone.
Orderly(s) ==
  /\ \A f \in s.drops : f[3] = Deployer
  /\ \A f \in s.gets : f[3] = Deployer => \E c \in Founded : f = Owner(c, Deployer) /\ Founds(s, c)
  /\ \A c \in Founded : Artifact(c) \in s.gets => Founds(s, c)
  /\ \A c \in Ownable : Owner(c, Gov) \in s.gets \/ Owner(c, Deployer) \in s.drops => Hands(s, c)
  /\ AclRecord \notin s.gets /\ IncentivesRecord \notin s.gets
OrderlyScript(sc) == Len(sc) \in Nat /\ \A j \in 1..Len(sc) : Orderly(sc[j])

\* What the steps of InitAcl have in common: they drop nothing but governance as the admin
\* of the access control, and give the deployer nothing but rights in it.
Founding(s) ==
  /\ s.drops \subseteq {AclAdmin(Gov)}
  /\ \A f \in s.gets : f[3] = Deployer => f \in AclRights \cup {AclAdmin(Deployer)}
  /\ \A f \in s.gets : f[2] # "owner" /\ f # IncentivesRecord
  /\ \A c \in Founded : Artifact(c) \notin s.gets
  /\ s.tx => AclRecord \notin s.gets

LEMMA OthersDiffer ==
  /\ \A a, b : Disk(a) = Disk(b) <=> a = b
  /\ \A a : Disk(a)[1] = "disk" /\ Disk(a)[3] = "saved"
  /\ "saved" # Deployer /\ "set" # Deployer /\ Gov # Deployer
  /\ Emergency # Deployer /\ Helper # Deployer /\ Guardian # Deployer /\ Keeper # Deployer
  BY DeployerIsOther DEF Disk

\* A step that drops nothing, and gets nothing the hand-over is about.
Indifferent(s) ==
  /\ s.drops = {}
  /\ \A f \in s.gets : /\ f[3] # Deployer /\ f[2] # "owner"
                       /\ f \notin {AclRecord, IncentivesRecord, Artifact("PAP"), Artifact("EmissionManager")}
LEMMA IndifferentIsOrderly == ASSUME NEW s, Indifferent(s) PROVE Orderly(s)
<1>1. \A c \in Ownable : Owner(c, Gov)[2] = "owner"
  BY DEF Owner
<1> QED BY <1>1 DEF Indifferent, Orderly, Founded

Named == {"ACLManager.id", "Incentives.id", "PoolAddressesProvider", "EmissionManager", "owner"}
LEMMA OrderlyDisk ==
  ASSUME NEW a, a \notin Named
  PROVE  Orderly(Save(a)) /\ Orderly(Deploy(a, {}))
<1>1. /\ Save(a).drops = {} /\ Save(a).gets = {Disk(a)}
      /\ Deploy(a, {}).drops = {} /\ Deploy(a, {}).gets = {Disk(a)}
  BY DEF Save, Deploy, Plain
<1>2. Disk(a)[2] = a /\ Disk(a)[3] # Deployer
  BY OthersDiffer DEF Disk
<1>3. Indifferent(Save(a)) /\ Indifferent(Deploy(a, {}))
  BY <1>1, <1>2, OthersDiffer DEF Indifferent, Named, AclRecord, IncentivesRecord, Artifact
<1> QED BY <1>3, IndifferentIsOrderly

\* A fact on chain that is no ownership and no right of the deployer.
LEMMA OrderlyFact ==
  ASSUME NEW s, s.drops = {}, NEW c, NEW item, NEW a, s.gets = {<<c, item, a>>},
         a # Deployer, c # "disk", item # "owner"
  PROVE  Orderly(s)
<1>1. <<c, item, a>>[1] = c /\ <<c, item, a>>[2] = item /\ <<c, item, a>>[3] = a
  OBVIOUS
<1>2. Indifferent(s)
  BY <1>1, OthersDiffer DEF Indifferent, AclRecord, IncentivesRecord, Artifact
<1> QED BY <1>2, IndifferentIsOrderly

LEMMA OrderlyOnce == ASSUME NEW fn, NEW n PROVE Orderly(Once(fn, n))
<1>1. Indifferent(Once(fn, n))
  BY DEF Indifferent, Once, Plain
<1> QED BY <1>1, IndifferentIsOrderly
LEMMA OrderlyRequire == ASSUME NEW fs PROVE Orderly(Require(fs))
<1>1. Indifferent(Require(fs))
  BY DEF Indifferent, Require, Plain
<1> QED BY <1>1, IndifferentIsOrderly
LEMMA OrderlyInitialize ==
  ASSUME NEW a, a # "disk"
  PROVE  Orderly(Initialize(a)) /\ Orderly(InitializeStrictly(a))
<1>1. /\ Initialize(a).drops = {} /\ Initialize(a).gets = {<<a, "initialized", "set">>}
      /\ InitializeStrictly(a).drops = {}
      /\ InitializeStrictly(a).gets = {<<a, "initialized", "set">>}
  BY DEF Initialize, InitializeStrictly, Initialized, Tx, Plain
<1>2. "set" # Deployer
  BY OthersDiffer
<1> HIDE DEF Initialize, InitializeStrictly
<1> QED BY <1>1, <1>2, OrderlyFact
LEMMA OrderlyPap ==
  ASSUME NEW id, id # "owner"
  PROVE  Orderly(SetPap(id)) /\ Orderly(SetPapIfUnset(id))
<1>1. ASSUME NEW s \in {SetPap(id), SetPapIfUnset(id)}
      PROVE  s.drops = {} /\ s.gets = {<<"pap", id, "set">>}
  BY <1>1 DEF SetPap, SetPapIfUnset, Tx, Plain, Pap
<1>2. "set" # Deployer /\ "pap" # "disk"
  BY OthersDiffer
<1>3. ASSUME NEW s, s.drops = {}, s.gets = {<<"pap", id, "set">>} PROVE Orderly(s)
  BY <1>2, <1>3, OrderlyFact
<1> QED BY <1>1, <1>3
LEMMA OrderlyGrant ==
  ASSUME NEW c, c # "disk", NEW r, r # "owner", NEW a, a # Deployer
  PROVE  Orderly(Grant(c, r, a))
<1>1. Grant(c, r, a).drops = {} /\ Grant(c, r, a).gets = {<<c, r, a>>}
  BY DEF Grant, Tx, Plain
<1> QED BY <1>1, OrderlyFact
LEMMA OrderlyVaultGrant ==
  ASSUME NEW r, r # "owner", NEW a, a # Deployer
  PROVE  Orderly(VaultGrant(r, a))
<1>1. VaultGrant(r, a).drops = {} /\ VaultGrant(r, a).gets = {<<"vault", r, a>>}
  BY DEF VaultGrant, Grant, Tx, Plain
<1> QED BY <1>1, OrderlyFact

\* A right taken from the deployer.
LEMMA OrderlyStrip ==
  ASSUME NEW s, s.gets = {}, NEW c, NEW r, r # "owner", s.drops = {<<c, r, Deployer>>}
  PROVE  Orderly(s)
<1>1. <<c, r, Deployer>>[2] = r /\ <<c, r, Deployer>>[3] = Deployer
  OBVIOUS
<1>2. \A o : Owner(o, Deployer)[2] = "owner"
  BY DEF Owner
<1>3. \A o : Owner(o, Deployer) \notin s.drops
  BY <1>1, <1>2
<1> QED BY <1>1, <1>3 DEF Orderly
LEMMA OrderlyRenounce ==
  ASSUME NEW c, NEW r, r # "owner"
  PROVE  Orderly(Renounce(c, r)) /\ Orderly(Remove(r)) /\ Orderly(VaultRenounce(r))
<1>1. /\ Renounce(c, r).gets = {} /\ Renounce(c, r).drops = {<<c, r, Deployer>>}
      /\ Remove(r).gets = {} /\ Remove(r).drops = {<<"ACL", r, Deployer>>}
      /\ VaultRenounce(r).gets = {} /\ VaultRenounce(r).drops = {<<"vault", r, Deployer>>}
  BY DEF Renounce, Remove, VaultRenounce, Plain
<1> QED BY <1>1, OrderlyStrip

LEMMA OrderlyHands == ASSUME NEW s, NEW c \in Ownable, Hands(s, c) PROVE Orderly(s)
<1>1. s.gets = {Owner(c, Gov)} /\ s.drops = {Owner(c, Deployer)}
  BY DEF Hands
<1>2. /\ Owner(c, Deployer)[3] = Deployer /\ Owner(c, Gov)[3] = Gov /\ Gov # Deployer
      /\ Owner(c, Gov)[2] = "owner"
  BY OthersDiffer DEF Owner
<1>3. \A d : Owner(d, Gov) = Owner(c, Gov) \/ Owner(d, Deployer) = Owner(c, Deployer) => d = c
  BY DEF Owner
<1>4. /\ AclRecord # Owner(c, Gov) /\ IncentivesRecord # Owner(c, Gov)
      /\ \A d \in Founded : Artifact(d) # Owner(c, Gov)
  BY <1>2 DEF AclRecord, IncentivesRecord, Artifact, Disk
<1> QED BY <1>1, <1>2, <1>3, <1>4 DEF Orderly
LEMMA OrderlyHandOver ==
  /\ \A c : Hands(HandOver(c, "owner"), c) /\ Hands(TransferOwnableTo(c), c)
  /\ \A c \in Ownable : Orderly(HandOver(c, "owner")) /\ Orderly(TransferOwnableTo(c))
  /\ Orderly(HandOver("PAP", "aclAdmin"))
<1>1. \A c : Hands(HandOver(c, "owner"), c) /\ Hands(TransferOwnableTo(c), c)
  BY DEF Hands, HandOver, TransferOwnableTo, Plain, Owner
<1>2. Orderly(HandOver("PAP", "aclAdmin"))
  <2> DEFINE s == HandOver("PAP", "aclAdmin")
  <2>1. s.gets = {AclAdmin(Gov)} /\ s.drops = {AclAdmin(Deployer)}
    BY DEF HandOver, Plain, AclAdmin
  <2>2. /\ AclAdmin(Gov)[1] = "PAP" /\ AclAdmin(Gov)[2] = "aclAdmin" /\ AclAdmin(Gov)[3] # Deployer
        /\ AclAdmin(Deployer)[2] = "aclAdmin" /\ AclAdmin(Deployer)[3] = Deployer
        /\ \A c, a : Owner(c, a)[2] = "owner"
        /\ AclRecord[1] = "disk" /\ IncentivesRecord[1] = "disk" /\ \A c : Artifact(c)[1] = "disk"
    BY OthersDiffer DEF AclAdmin, Owner, AclRecord, IncentivesRecord, Artifact
  <2> HIDE DEF s
  <2>3. Orderly(s)
    BY <2>1, <2>2 DEF Orderly
  <2> QED BY <2>3 DEF s
<1> QED BY <1>1, <1>2, OrderlyHands

LEMMA OrderlyFounding ==
  /\ Founds(Deploy("PoolAddressesProvider", {<<"PAP", "owner", Deployer>>}), "PAP")
  /\ Founds(Deploy("EmissionManager", {<<"EmissionManager", "owner", Deployer>>}), "EmissionManager")
  /\ \A s : \A c \in Founded : Founds(s, c) => Orderly(s)
<1>1. /\ Founds(Deploy("PoolAddressesProvider", {<<"PAP", "owner", Deployer>>}), "PAP")
      /\ Founds(Deploy("EmissionManager", {<<"EmissionManager", "owner", Deployer>>}), "EmissionManager")
  BY DEF Founds, Deploy, Plain, Artifact, Owner
<1>2. ASSUME NEW s, NEW c \in Founded, Founds(s, c) PROVE Orderly(s)
  <2>1. s.drops = {} /\ s.gets = {Artifact(c), Owner(c, Deployer)}
    BY <1>2 DEF Founds
  <2>2. /\ Owner(c, Deployer)[3] = Deployer /\ Gov # Deployer /\ Artifact(c)[3] # Deployer
        /\ Owner(c, Deployer)[2] = "owner" /\ \A d : Owner(d, Gov)[3] = Gov /\ Owner(d, Gov)[1] = d
        /\ Artifact(c)[1] = "disk"
    BY OthersDiffer DEF Owner, Artifact
  <2>3. /\ AclRecord # Artifact(c) /\ IncentivesRecord # Artifact(c)
        /\ \A d \in Founded : Artifact(d) = Artifact(c) => d = c
        /\ \A d \in Founded : Artifact(d)[1] = "disk" /\ Artifact(d)[2] # "owner"
        /\ AclRecord[2] # "owner" /\ IncentivesRecord[2] # "owner"
    BY <1>2, OthersDiffer DEF AclRecord, IncentivesRecord, Artifact, Founded, Disk
  <2>4. \A d \in Ownable : Owner(d, Gov) \notin s.gets /\ Owner(d, Deployer) \notin s.drops
    <3>1. \A d \in Ownable : d # "disk"
      BY DEF Ownable, Founded
    <3> QED BY <2>1, <2>2, <3>1
  <2> QED BY <1>2, <2>1, <2>2, <2>3, <2>4 DEF Orderly
<1> QED BY <1>1, <1>2

\* The scripts of MarketTag but InitAcl and Incentives.
LEMMA OrderlyMarketTag ==
  /\ Len(MarketTag) = 14 /\ MarketTag[7] = InitAcl /\ MarketTag[11] = Incentives
  /\ \A i \in 1..14 : i # 7 /\ i # 11 => OrderlyScript(MarketTag[i])
<1>1. OrderlyScript(MarketsRegistry) /\ OrderlyScript(Treasury) /\ OrderlyScript(InitPeriphery)
  BY OrderlyDisk, OrderlyOnce DEF OrderlyScript, MarketsRegistry, Treasury, InitPeriphery, Named
<1>2. OrderlyScript(LogicLibraries)
  BY OrderlyDisk, OrderlyOnce, OrderlyRequire DEF OrderlyScript, LogicLibraries, Named
<1>3. OrderlyScript(SetupAddressesProvider)
  <2>1. Orderly(AddMarketToRegistry)
    <3>1. AddMarketToRegistry.drops = {} /\ AddMarketToRegistry.gets = {<<"Registry", "provider", "set">>}
      BY DEF AddMarketToRegistry, Tx, Plain
    <3>2. "set" # Deployer
      BY OthersDiffer
    <3> QED BY <3>1, <3>2, OrderlyFact
  <2>2. Orderly(Deploy("PoolAddressesProvider", {<<"PAP", "owner", Deployer>>}))
    BY OrderlyFounding DEF Founded
  <2>3. Orderly(SetPap("MARKET_ID")) /\ Orderly(SetPapIfUnset("DATA_PROVIDER"))
    BY OrderlyPap
  <2>4. Orderly(Save("PoolDataProvider")) /\ Orderly(Save("PoolAddressesProvider.id"))
    BY OrderlyDisk DEF Named
  <2> QED BY <2>1, <2>2, <2>3, <2>4, OrderlyOnce DEF OrderlyScript, SetupAddressesProvider
<1>4. OrderlyScript(PoolImplementation) /\ OrderlyScript(PoolConfigurator)
  BY OrderlyDisk, OrderlyOnce, OrderlyRequire, OrderlyInitialize
     DEF OrderlyScript, PoolImplementation, PoolConfigurator, Named
<1>5. OrderlyScript(DeployOracles) /\ OrderlyScript(InitOracles) /\ OrderlyScript(InitReserves)
  <2>1. Orderly(SetPapIfUnset("PRICE_ORACLE")) /\ Orderly(Save("InitOracles.id"))
    BY OrderlyDisk, OrderlyPap DEF Named
  <2>2. OrderlyScript(InitOracles)
    BY <2>1, OrderlyOnce, OrderlyRequire DEF OrderlyScript, InitOracles
  <2> QED BY <2>2, OrderlyDisk, OrderlyOnce, OrderlyRequire
          DEF OrderlyScript, DeployOracles, InitReserves, Named
<1>6. OrderlyScript(InitPool)
  <2> DEFINE s == Tx({<<"Pool", "flashLoanPremiums", "set">>}, {<<"ACL", "POOL_ADMIN", Deployer>>})
  <2>1. Orderly(s)
    <3>1. s.drops = {} /\ s.gets = {<<"Pool", "flashLoanPremiums", "set">>}
      BY DEF Tx, Plain
    <3>2. "set" # Deployer
      BY OthersDiffer
    <3> QED BY <3>1, <3>2, OrderlyFact
  <2>2. Orderly(SetPapIfUnset("POOL")) /\ Orderly(SetPapIfUnset("POOL_CONFIGURATOR"))
    BY OrderlyPap
  <2>3. /\ Orderly(Save("Pool-Proxy")) /\ Orderly(Save("PoolConfigurator-Proxy"))
        /\ Orderly(Save("PoolInitalization.id"))
    BY OrderlyDisk DEF Named
  <2>4. InitPool = << Once("PoolInitalization.id", 6),
          SetPapIfUnset("POOL"), Save("Pool-Proxy"),
          SetPapIfUnset("POOL_CONFIGURATOR"), Save("PoolConfigurator-Proxy"), s,
          Save("PoolInitalization.id") >>
    BY DEF InitPool
  <2> HIDE DEF s
  <2> QED BY <2>1, <2>2, <2>3, <2>4, OrderlyOnce DEF OrderlyScript
<1>7. OrderlyScript(TokensImplementations)
  BY OrderlyDisk, OrderlyOnce, OrderlyRequire, OrderlyInitialize
     DEF OrderlyScript, TokensImplementations, Named
<1>8. /\ Len(MarketTag) = 14
      /\ MarketTag[1] = MarketsRegistry /\ MarketTag[2] = LogicLibraries /\ MarketTag[3] = Treasury
      /\ MarketTag[4] = SetupAddressesProvider /\ MarketTag[5] = PoolImplementation
      /\ MarketTag[6] = PoolConfigurator /\ MarketTag[7] = InitAcl /\ MarketTag[8] = DeployOracles
      /\ MarketTag[9] = InitOracles /\ MarketTag[10] = InitPool /\ MarketTag[11] = Incentives
      /\ MarketTag[12] = TokensImplementations /\ MarketTag[13] = InitReserves
      /\ MarketTag[14] = InitPeriphery
  BY DEF MarketTag
<1>9. ASSUME NEW i \in 1..14, i # 7, i # 11 PROVE OrderlyScript(MarketTag[i])
  <2>1. i \in {1, 2, 3, 4, 5, 6, 8, 9, 10, 12, 13, 14}
    BY <1>9
  <2> QED BY <1>1, <1>2, <1>3, <1>4, <1>5, <1>6, <1>7, <1>8, <2>1
<1> QED BY <1>8, <1>9

\* The scripts of the other phases.
LEMMA OrderlyPhases ==
  /\ OrderlyScript(PostDeploy) /\ OrderlyScript(RotateVault)
  /\ OrderlyScript(DeployBILOracleAdapter) /\ OrderlyScript(DeployBILDepositZap)
  /\ OrderlyScript(DeployLockableAToken) /\ OrderlyScript(DeployUSDOracleAdapter)
  /\ OrderlyScript(ImportGho)
  /\ OrderlyScript(TransferAdminToGovernance) /\ OrderlyScript(GrantRiskAdmin)
  /\ OrderlyScript(RevokeDeployer)
<1>1. Orderly(SanityCheck) /\ Orderly(SeedDeposit)
  <2>1. SeedDeposit.drops = {} /\ SeedDeposit.gets = {<<"vault", "position", "set">>}
    BY DEF SeedDeposit, Tx, Plain
  <2>2. "set" # Deployer
    BY OthersDiffer
  <2> QED BY <2>1, <2>2, OrderlyFact, OrderlyRequire DEF SanityCheck
<1>2. /\ Orderly(VaultGrant("GUARDIAN", Guardian)) /\ Orderly(VaultGrant("CLAIM_OPERATOR", Keeper))
      /\ \A r \in VaultRole : Orderly(VaultGrant(r, Gov)) /\ Orderly(VaultRenounce(r))
  BY OrderlyVaultGrant, OrderlyRenounce, OthersDiffer DEF VaultRole
<1>3. OrderlyScript(PostDeploy) /\ OrderlyScript(RotateVault)
  BY <1>1, <1>2 DEF OrderlyScript, PostDeploy, RotateVault, VaultRole
<1>4. /\ OrderlyScript(DeployBILOracleAdapter) /\ OrderlyScript(DeployBILDepositZap)
      /\ OrderlyScript(DeployLockableAToken) /\ OrderlyScript(DeployUSDOracleAdapter)
      /\ OrderlyScript(ImportGho)
  BY OrderlyDisk, OrderlyRequire
     DEF OrderlyScript, DeployBILOracleAdapter, DeployBILDepositZap, DeployLockableAToken,
         DeployUSDOracleAdapter, ImportGho, Named
<1>5. /\ \A r \in MarketRole : Orderly(Grant("ACL", r, Gov))
      /\ Orderly(Grant("ACL", "EMERGENCY_ADMIN", Emergency))
      /\ Orderly(Grant("ACL", "RISK_ADMIN", Helper))
  BY OrderlyGrant, OthersDiffer DEF MarketRole
<1>6. OrderlyScript(TransferAdminToGovernance) /\ OrderlyScript(GrantRiskAdmin)
  BY <1>5, OrderlyRequire, OrderlyHandOver
     DEF OrderlyScript, TransferAdminToGovernance, GrantRiskAdmin, MarketRole, Ownable, Founded
<1>7. OrderlyScript(RevokeDeployer)
  <2> DEFINE s == [Plain EXCEPT !.bans = { <<"ACL", r, Deployer>> : r \in MarketRole }]
  <2>1. Orderly(s)
    <3>1. s.drops = {} /\ s.gets = {}
      BY DEF Plain
    <3> QED BY <3>1, IndifferentIsOrderly DEF Indifferent
  <2>2. /\ Orderly(Remove("EMERGENCY_ADMIN")) /\ Orderly(Remove("POOL_ADMIN"))
        /\ Orderly(Remove("RISK_ADMIN")) /\ Orderly(Renounce("ACL", "DEFAULT_ADMIN"))
    BY OrderlyRenounce
  <2>3. RevokeDeployer = << Require({<<"ACL", "DEFAULT_ADMIN", Gov>>, <<"ACL", "POOL_ADMIN", Gov>>}),
          Remove("EMERGENCY_ADMIN"), Remove("POOL_ADMIN"), Remove("RISK_ADMIN"),
          Renounce("ACL", "DEFAULT_ADMIN"), s >>
    BY DEF RevokeDeployer
  <2> HIDE DEF s
  <2> QED BY <2>1, <2>2, <2>3, OrderlyRequire DEF OrderlyScript
<1> QED BY <1>3, <1>4, <1>6, <1>7

LEMMA Concatenation ==
  ASSUME NEW S, NEW a \in Seq(S), NEW b \in Seq(S)
  PROVE  /\ a \o b \in Seq(S) /\ Len(a \o b) = Len(a) + Len(b)
         /\ \A i \in 1..Len(a) : (a \o b)[i] = a[i]
         /\ \A i \in 1..Len(b) : (a \o b)[i + Len(a)] = b[i]
<1> DEFINE n == Len(a)
           k == Len(b)
<1>1. n \in Nat /\ k \in Nat
  OBVIOUS
<1>2. /\ a \o b \in Seq(S) /\ Len(a \o b) = n + k
      /\ \A i \in 1..n + k : (a \o b)[i] = IF i <= n THEN a[i] ELSE b[i - n]
  BY ConcatProperties
<1> HIDE DEF n, k
<1>3. \A i \in 1..k : i + n \in 1..n + k /\ ~(i + n <= n) /\ (i + n) - n = i
  BY <1>1
<1>4. \A i \in 1..n : i \in 1..n + k /\ i <= n
  BY <1>1
<1>5. /\ \A i \in 1..n : (a \o b)[i] = a[i]
      /\ \A i \in 1..k : (a \o b)[i + n] = b[i]
  BY <1>2, <1>3, <1>4
<1> QED BY <1>2, <1>5 DEF n, k

\* Where the scripts that matter are; all the others are orderly.
LEMMA Places ==
  ASSUME NEW m \in Market
  PROVE  /\ Len(Pipeline[m]) = Last(m)
         /\ Pipeline[m][AclAt(m)] = InitAcl /\ Pipeline[m][IncentivesAt(m)] = Incentives
         /\ Pipeline[m][TransferAt(m)] = TransferAdminToGovernance
         /\ Pipeline[m][GrantAt(m)] = GrantRiskAdmin /\ Pipeline[m][RevokeAt(m)] = RevokeDeployer
         /\ m = "BIL" => Pipeline[m][RotateAt] = RotateVault
         /\ \A i \in 1..Last(m) :
              i # AclAt(m) /\ i # IncentivesAt(m) => OrderlyScript(Pipeline[m][i])
<1>1. CASE m = "BIL"
  <2> DEFINE tail == << DeployBILOracleAdapter, DeployBILDepositZap, ImportGho,
                        TransferAdminToGovernance, GrantRiskAdmin, RevokeDeployer, RotateVault >>
  <2>1. /\ Len(BILPipeline) = 22 /\ BILPipeline[1] = PostDeploy
        /\ \A i \in 1..14 : BILPipeline[i + 1] = MarketTag[i]
        /\ \A i \in 1..7 : BILPipeline[i + 15] = tail[i]
    <3> DEFINE first == << PostDeploy >>
               head == first \o MarketTag
               all == {PostDeploy} \cup { MarketTag[i] : i \in 1..14 } \cup { tail[i] : i \in 1..7 }
    <3>1. (MarketTag \in Seq(all) /\ tail \in Seq(all)) /\ (Len(MarketTag) = 14 /\ Len(tail) = 7)
      <4>1. MarketTag \in Seq({ MarketTag[i] : i \in 1..14 }) /\ Len(MarketTag) = 14
        BY DEF MarketTag
      <4>2. tail \in Seq({ tail[i] : i \in 1..7 }) /\ Len(tail) = 7
        OBVIOUS
      <4> HIDE DEF tail
      <4> QED BY <4>1, <4>2
    <3> HIDE DEF tail
    <3>2. first \in Seq(all) /\ Len(first) = 1 /\ first[1] = PostDeploy
      OBVIOUS
    <3> HIDE DEF all, first
    <3>3. /\ head \in Seq(all) /\ Len(head) = 1 + 14
          /\ \A i \in 1..1 : head[i] = first[i]
          /\ \A i \in 1..14 : head[i + 1] = MarketTag[i]
      <4>1. first \in Seq(all) /\ MarketTag \in Seq(all)
        BY <3>1, <3>2
      <4>2. first \o MarketTag \in Seq(all)
        BY <4>1, Concatenation
      <4>3. Len(first \o MarketTag) = Len(first) + Len(MarketTag)
        BY <4>1, Concatenation
      <4>4. \A i \in 1..Len(first) : (first \o MarketTag)[i] = first[i]
        BY <4>1, Concatenation
      <4>5. \A i \in 1..Len(MarketTag) : (first \o MarketTag)[i + Len(first)] = MarketTag[i]
        BY <4>1, Concatenation
      <4> QED BY <3>1, <3>2, <4>2, <4>3, <4>4, <4>5
    <3> HIDE DEF head
    <3>4. /\ Len(head \o tail) = 15 + 7 /\ \A i \in 1..15 : (head \o tail)[i] = head[i]
          /\ \A i \in 1..7 : (head \o tail)[i + 15] = tail[i]
      <4>1. head \in Seq(all) /\ tail \in Seq(all)
        BY <3>1, <3>3
      <4>2. Len(head \o tail) = Len(head) + Len(tail)
        BY <4>1, Concatenation
      <4>3. \A i \in 1..Len(head) : (head \o tail)[i] = head[i]
        BY <4>1, Concatenation
      <4>4. \A i \in 1..Len(tail) : (head \o tail)[i + Len(head)] = tail[i]
        BY <4>1, Concatenation
      <4>5. Len(head) = 15
        BY <3>3
      <4> QED BY <3>1, <4>2, <4>3, <4>4, <4>5
    <3>5. 1 \in 1..1 /\ 1 \in 1..15 /\ \A i \in 1..14 : i + 1 \in 1..15
      OBVIOUS
    <3>6. BILPipeline = head \o tail
      BY DEF BILPipeline, head, first, tail
    <3>7. /\ \A i \in 1..14 : BILPipeline[i + 1] = MarketTag[i]
          /\ BILPipeline[1] = PostDeploy
      BY <3>2, <3>3, <3>4, <3>5, <3>6
    <3>8. 15 + 7 = 22
      OBVIOUS
    <3> QED BY <3>4, <3>6, <3>7, <3>8
  <2>2. Pipeline[m] = BILPipeline
    BY <1>1 DEF Pipeline
  <2>3. /\ tail[1] = DeployBILOracleAdapter /\ tail[2] = DeployBILDepositZap /\ tail[3] = ImportGho
        /\ tail[4] = TransferAdminToGovernance /\ tail[5] = GrantRiskAdmin
        /\ tail[6] = RevokeDeployer /\ tail[7] = RotateVault
    OBVIOUS
  <2> HIDE DEF tail
  <2>4. ASSUME NEW i \in 1..22, i # 8, i # 12 PROVE OrderlyScript(BILPipeline[i])
    <3>1. CASE i = 1
      BY <2>1, <3>1, OrderlyPhases
    <3>2. CASE i \in 2..15
      <4>1. i - 1 \in 1..14 /\ i - 1 # 7 /\ i - 1 # 11 /\ (i - 1) + 1 = i
        BY <2>4, <3>2
      <4> QED BY <2>1, <4>1, OrderlyMarketTag
    <3>3. CASE i \in 16..22
      <4>1. i - 15 \in 1..7 /\ (i - 15) + 15 = i
        BY <3>3
      <4>2. \A k \in 1..7 : OrderlyScript(tail[k])
        <5>1. \A k \in 1..7 : k \in {1, 2, 3, 4, 5, 6, 7}
          OBVIOUS
        <5> QED BY <2>3, <5>1, OrderlyPhases
      <4> QED BY <2>1, <4>1, <4>2
    <3> QED BY <3>1, <3>2, <3>3
  <2>5. /\ BILPipeline[8] = InitAcl /\ BILPipeline[12] = Incentives
        /\ BILPipeline[19] = TransferAdminToGovernance /\ BILPipeline[20] = GrantRiskAdmin
        /\ BILPipeline[21] = RevokeDeployer /\ BILPipeline[22] = RotateVault
    <3>1. 7 + 1 = 8 /\ 11 + 1 = 12 /\ 4 + 15 = 19 /\ 5 + 15 = 20 /\ 6 + 15 = 21 /\ 7 + 15 = 22
      OBVIOUS
    <3>2. BILPipeline[7 + 1] = InitAcl /\ BILPipeline[11 + 1] = Incentives
      BY <2>1, OrderlyMarketTag
    <3>3. /\ BILPipeline[4 + 15] = TransferAdminToGovernance /\ BILPipeline[5 + 15] = GrantRiskAdmin
          /\ BILPipeline[6 + 15] = RevokeDeployer /\ BILPipeline[7 + 15] = RotateVault
      BY <2>1, <2>3
    <3> QED BY <3>1, <3>2, <3>3
  <2> QED BY <1>1, <2>1, <2>2, <2>4, <2>5
          DEF AclAt, IncentivesAt, TransferAt, GrantAt, RevokeAt, RotateAt, Last
<1>2. CASE m = "GIGAHDX"
  <2> DEFINE tail == << DeployLockableAToken, DeployUSDOracleAdapter, ImportGho,
                        GigaTransferAdminToGovernance, GigaGrantRiskAdmin, GigaRevokeDeployer >>
  <2>1. /\ Len(GigaPipeline) = 20
        /\ \A i \in 1..14 : GigaPipeline[i] = MarketTag[i]
        /\ \A i \in 1..6 : GigaPipeline[i + 14] = tail[i]
    <3> DEFINE all == { MarketTag[i] : i \in 1..14 } \cup { tail[i] : i \in 1..6 }
    <3>1. (MarketTag \in Seq(all) /\ tail \in Seq(all)) /\ (Len(MarketTag) = 14 /\ Len(tail) = 6)
      <4>1. MarketTag \in Seq({ MarketTag[i] : i \in 1..14 }) /\ Len(MarketTag) = 14
        BY DEF MarketTag
      <4>2. tail \in Seq({ tail[i] : i \in 1..6 }) /\ Len(tail) = 6
        OBVIOUS
      <4> HIDE DEF tail
      <4> QED BY <4>1, <4>2
    <3> HIDE DEF tail, all
    <3>2. /\ Len(MarketTag \o tail) = 14 + 6 /\ \A i \in 1..14 : (MarketTag \o tail)[i] = MarketTag[i]
          /\ \A i \in 1..6 : (MarketTag \o tail)[i + 14] = tail[i]
      <4>1. MarketTag \in Seq(all) /\ tail \in Seq(all)
        BY <3>1
      <4>2. Len(MarketTag \o tail) = Len(MarketTag) + Len(tail)
        BY <4>1, Concatenation
      <4>3. \A i \in 1..Len(MarketTag) : (MarketTag \o tail)[i] = MarketTag[i]
        BY <4>1, Concatenation
      <4>4. \A i \in 1..Len(tail) : (MarketTag \o tail)[i + Len(MarketTag)] = tail[i]
        BY <4>1, Concatenation
      <4> QED BY <3>1, <4>2, <4>3, <4>4
    <3>3. GigaPipeline = MarketTag \o tail
      BY DEF GigaPipeline, tail
    <3>4. 14 + 6 = 20
      OBVIOUS
    <3> QED BY <3>2, <3>3, <3>4
  <2>2. Pipeline[m] = GigaPipeline
    BY <1>2 DEF Pipeline
  <2>3. /\ tail[1] = DeployLockableAToken /\ tail[2] = DeployUSDOracleAdapter /\ tail[3] = ImportGho
        /\ tail[4] = TransferAdminToGovernance /\ tail[5] = GrantRiskAdmin
        /\ tail[6] = RevokeDeployer
    BY DEF GigaTransferAdminToGovernance, GigaGrantRiskAdmin, GigaRevokeDeployer
  <2> HIDE DEF tail
  <2>4. ASSUME NEW i \in 1..20, i # 7, i # 11 PROVE OrderlyScript(GigaPipeline[i])
    <3>1. CASE i \in 1..14
      BY <2>1, <2>4, <3>1, OrderlyMarketTag
    <3>2. CASE i \in 15..20
      <4>1. i - 14 \in 1..6 /\ (i - 14) + 14 = i
        BY <3>2
      <4>2. \A k \in 1..6 : OrderlyScript(tail[k])
        <5>1. \A k \in 1..6 : k \in {1, 2, 3, 4, 5, 6}
          OBVIOUS
        <5> QED BY <2>3, <5>1, OrderlyPhases
      <4> QED BY <2>1, <4>1, <4>2
    <3> QED BY <3>1, <3>2
  <2>5. /\ GigaPipeline[7] = InitAcl /\ GigaPipeline[11] = Incentives
        /\ GigaPipeline[18] = TransferAdminToGovernance /\ GigaPipeline[19] = GrantRiskAdmin
        /\ GigaPipeline[20] = RevokeDeployer
    <3>1. 4 + 14 = 18 /\ 5 + 14 = 19 /\ 6 + 14 = 20
      OBVIOUS
    <3>2. GigaPipeline[7] = InitAcl /\ GigaPipeline[11] = Incentives
      BY <2>1, OrderlyMarketTag
    <3>3. /\ GigaPipeline[4 + 14] = TransferAdminToGovernance /\ GigaPipeline[5 + 14] = GrantRiskAdmin
          /\ GigaPipeline[6 + 14] = RevokeDeployer
      BY <2>1, <2>3
    <3> QED BY <3>1, <3>2, <3>3
  <2> QED BY <1>2, <2>1, <2>2, <2>4, <2>5
          DEF AclAt, IncentivesAt, TransferAt, GrantAt, RevokeAt, Last
<1> QED BY <1>1, <1>2 DEF Market

-----------------------------------------------------------------------------
(* The steps of the scripts that matter *)

LEMMA InitAclSteps ==
  /\ Len(InitAcl) = 7
  /\ \A j \in 1..7 : Founding(InitAcl[j]) /\ InitAcl[j].lax = FALSE
  /\ \A j \in 2..7 : InitAcl[j].span = 0
  /\ ~InitAcl[1].tx /\ InitAcl[1].looks /\ InitAcl[1].unless = {AclRecord} /\ InitAcl[1].drops = {}
  /\ InitAcl[1].span = 6
  /\ InitAcl[2].tx /\ ~InitAcl[2].looks
  /\ ~InitAcl[7].tx /\ ~InitAcl[7].looks /\ InitAcl[7].gets = {AclRecord}
  /\ \A j \in 1..6 : AclRecord \notin InitAcl[j].gets
<1> DEFINE s2 == [Tx({<<"PAP", "aclAdmin", Deployer>>}, {<<"PAP", "owner", Deployer>>})
                    EXCEPT !.drops = {<<"PAP", "aclAdmin", Gov>>}]
           s3 == Deploy("ACLManager", {<<"ACL", "DEFAULT_ADMIN", Deployer>>})
           s5 == Tx({<<"ACL", "POOL_ADMIN", Deployer>>}, {<<"ACL", "DEFAULT_ADMIN", Deployer>>})
           s6 == Tx({<<"ACL", "EMERGENCY_ADMIN", Deployer>>}, {<<"ACL", "DEFAULT_ADMIN", Deployer>>})
<1>1. InitAcl = << Once("ACLManager.id", 6), s2, s3, SetPap("ACL_MANAGER"), s5, s6, Save("ACLManager.id") >>
  BY DEF InitAcl
<1>2. LET s == Once("ACLManager.id", 6) IN
      /\ Founding(s) /\ s.lax = FALSE /\ s.span = 6
      /\ ~s.tx /\ s.looks /\ s.unless = {AclRecord} /\ s.drops = {}
  BY DEF Founding, Once, Plain, AclRecord
<1>3. LET s == Save("ACLManager.id") IN
      /\ Founding(s) /\ s.lax = FALSE /\ s.span = 0
      /\ ~s.tx /\ ~s.looks /\ s.gets = {AclRecord}
  <2> DEFINE s == Save("ACLManager.id")
  <2>1. /\ s.lax = FALSE /\ s.span = 0 /\ s.tx = FALSE /\ s.looks = FALSE
        /\ s.gets = {AclRecord} /\ s.drops = {}
    BY DEF Save, Plain, AclRecord
  <2>2. /\ AclRecord[3] # Deployer /\ AclRecord[2] # "owner" /\ AclRecord # IncentivesRecord
        /\ \A c \in Founded : Artifact(c) # AclRecord
    BY OthersDiffer DEF AclRecord, IncentivesRecord, Artifact, Disk
  <2> HIDE DEF s
  <2>3. Founding(s)
    BY <2>1, <2>2 DEF Founding
  <2> QED BY <2>1, <2>3 DEF s
<1>4. LET s == SetPap("ACL_MANAGER") IN Founding(s) /\ s.lax = FALSE /\ s.span = 0
  <2> DEFINE s == SetPap("ACL_MANAGER")
             f == Pap("ACL_MANAGER")
  <2>1. s.lax = FALSE /\ s.span = 0 /\ s.gets = {f} /\ s.drops = {}
    BY DEF SetPap, Tx, Plain
  <2>2. f[1] = "pap" /\ f[3] # Deployer /\ f[2] # "owner"
    BY OthersDiffer DEF Pap
  <2>3. AclRecord[1] = "disk" /\ IncentivesRecord[1] = "disk" /\ \A c : Artifact(c)[1] = "disk"
    BY OthersDiffer DEF AclRecord, IncentivesRecord, Artifact
  <2> HIDE DEF s, f
  <2>4. Founding(s)
    BY <2>1, <2>2, <2>3 DEF Founding
  <2> QED BY <2>1, <2>4 DEF s
<1>5. ASSUME NEW s, NEW f \in AclRights \cup {AclAdmin(Deployer)}, s.gets \in {{f}, {Disk("ACLManager"), f}},
             s.drops \subseteq {AclAdmin(Gov)}
      PROVE  Founding(s)
  <2>1. f[1] # "disk" /\ f[2] # "owner"
    BY DEF AclRights, AclAdmin
  <2>2. Disk("ACLManager")[3] # Deployer /\ Disk("ACLManager")[2] # "owner"
    BY OthersDiffer DEF Disk
  <2>3. AclRecord[1] = "disk" /\ IncentivesRecord[1] = "disk" /\ \A c : Artifact(c)[1] = "disk"
    BY OthersDiffer DEF AclRecord, IncentivesRecord, Artifact
  <2>4. /\ Disk("ACLManager") # AclRecord /\ Disk("ACLManager") # IncentivesRecord
        /\ \A c : Disk("ACLManager") # Artifact(c)
    BY OthersDiffer DEF AclRecord, IncentivesRecord, Artifact
  <2> QED BY <1>5, <2>1, <2>2, <2>3, <2>4 DEF Founding
<1>6. /\ s2.lax = FALSE /\ s2.span = 0 /\ s2.tx /\ ~s2.looks
      /\ s2.gets = {AclAdmin(Deployer)} /\ s2.drops = {AclAdmin(Gov)}
  BY DEF Tx, Plain, AclAdmin
<1>7. /\ s3.lax = FALSE /\ s3.span = 0 /\ s3.drops = {}
      /\ s3.gets = {Disk("ACLManager"), <<"ACL", "DEFAULT_ADMIN", Deployer>>}
  BY DEF Deploy, Plain
<1>8. /\ s5.lax = FALSE /\ s5.span = 0 /\ s5.drops = {} /\ s5.gets = {<<"ACL", "POOL_ADMIN", Deployer>>}
      /\ s6.lax = FALSE /\ s6.span = 0 /\ s6.drops = {} /\ s6.gets = {<<"ACL", "EMERGENCY_ADMIN", Deployer>>}
  BY DEF Tx, Plain
<1> HIDE DEF s2, s3, s5, s6
<1>9. Founding(s2) /\ Founding(s3) /\ Founding(s5) /\ Founding(s6)
  <2>1. /\ <<"ACL", "DEFAULT_ADMIN", Deployer>> \in AclRights
        /\ <<"ACL", "POOL_ADMIN", Deployer>> \in AclRights
        /\ <<"ACL", "EMERGENCY_ADMIN", Deployer>> \in AclRights
    BY DEF AclRights
  <2> QED BY <1>5, <1>6, <1>7, <1>8, <2>1
<1>10. /\ Len(InitAcl) = 7 /\ InitAcl[1] = Once("ACLManager.id", 6) /\ InitAcl[2] = s2
       /\ InitAcl[3] = s3 /\ InitAcl[4] = SetPap("ACL_MANAGER") /\ InitAcl[5] = s5
       /\ InitAcl[6] = s6 /\ InitAcl[7] = Save("ACLManager.id")
  BY <1>1
<1>11. ASSUME NEW j \in 1..7
       PROVE  Founding(InitAcl[j]) /\ InitAcl[j].lax = FALSE /\ (j # 1 => InitAcl[j].span = 0)
  <2>1. j \in {1, 2, 3, 4, 5, 6, 7}
    OBVIOUS
  <2> QED BY <1>2, <1>3, <1>4, <1>6, <1>7, <1>8, <1>9, <1>10, <2>1
<1>12. \A j \in 2..7 : j \in 1..7 /\ j # 1
  OBVIOUS
<1>13. ASSUME NEW j \in 1..6 PROVE AclRecord \notin InitAcl[j].gets
  <2>1. j \in {1, 2, 3, 4, 5, 6}
    OBVIOUS
  <2>2. Once("ACLManager.id", 6).gets = {} /\ SetPap("ACL_MANAGER").gets = {Pap("ACL_MANAGER")}
    BY DEF Once, SetPap, Tx, Plain
  <2>3. AclRecord # Pap("ACL_MANAGER") /\ AclRecord # Disk("ACLManager")
    BY DEF AclRecord, Disk, Pap
  <2>4. \A r : AclRecord # <<"ACL", r, Deployer>> /\ AclRecord # AclAdmin(Deployer)
    BY DEF AclRecord, Disk, AclAdmin
  <2> QED BY <1>6, <1>7, <1>8, <1>10, <2>1, <2>2, <2>3, <2>4
<1> QED BY <1>2, <1>3, <1>6, <1>10, <1>11, <1>12, <1>13

LEMMA IncentivesSteps ==
  /\ Len(Incentives) = 7
  /\ \A j \in 1..6 : Orderly(Incentives[j])
  /\ Incentives[7] = Save("Incentives.id")
  /\ \A j \in 1..7 : Incentives[j].lax = FALSE
  /\ Incentives[1].looks /\ Incentives[1].unless = {IncentivesRecord} /\ Incentives[1].span = 6
  /\ Founds(Incentives[2], "EmissionManager") /\ Incentives[2].span = 0
<1> DEFINE s2 == Deploy("EmissionManager", {<<"EmissionManager", "owner", Deployer>>})
           s3 == [SetPapIfUnset("INCENTIVES_CONTROLLER") EXCEPT !.span = 1]
           s6 == Tx({<<"EmissionManager", "controller", "set">>}, {<<"EmissionManager", "owner", Deployer>>})
<1>1. /\ Len(Incentives) = 7 /\ Incentives[1] = Once("Incentives.id", 6) /\ Incentives[2] = s2
      /\ Incentives[3] = s3 /\ Incentives[4] = Save("IncentivesProxy")
      /\ Incentives[5] = Require({Disk("IncentivesProxy")})
      /\ Incentives[6] = s6 /\ Incentives[7] = Save("Incentives.id")
  BY DEF Incentives
<1>2. LET s == Once("Incentives.id", 6) IN
      s.lax = FALSE /\ s.looks /\ s.unless = {IncentivesRecord} /\ s.span = 6
  BY DEF Once, Plain, IncentivesRecord
<1>3. \A a : Save(a).lax = FALSE /\ Require({Disk("IncentivesProxy")}).lax = FALSE
  BY DEF Save, Require, Plain
<1>4. s2.lax = FALSE /\ s2.span = 0 /\ s3.lax = FALSE /\ s6.lax = FALSE
  BY DEF Deploy, SetPapIfUnset, SetPap, Tx, Plain
<1>5. Founds(s2, "EmissionManager") /\ Orderly(s2)
  BY OrderlyFounding DEF Founded
<1>6. Orderly(s3) /\ Orderly(s6)
  <2>1. /\ s3.drops = {} /\ s3.gets = {<<"pap", "INCENTIVES_CONTROLLER", "set">>}
        /\ s6.drops = {} /\ s6.gets = {<<"EmissionManager", "controller", "set">>}
    BY DEF SetPapIfUnset, SetPap, Tx, Plain, Pap
  <2>2. "set" # Deployer
    BY OthersDiffer
  <2> HIDE DEF s3, s6
  <2> QED BY <2>1, <2>2, OrderlyFact
<1>7. Orderly(Save("IncentivesProxy"))
  BY OrderlyDisk DEF Named
<1>8. Orderly(Once("Incentives.id", 6)) /\ Orderly(Require({Disk("IncentivesProxy")}))
  BY OrderlyOnce, OrderlyRequire
<1> HIDE DEF s2, s3, s6
<1>9. ASSUME NEW j \in 1..7
      PROVE  Incentives[j].lax = FALSE /\ (j # 7 => Orderly(Incentives[j]))
  <2>1. j \in {1, 2, 3, 4, 5, 6, 7}
    OBVIOUS
  <2> QED BY <1>1, <1>2, <1>3, <1>4, <1>5, <1>6, <1>7, <1>8, <2>1
<1>10. \A j \in 1..6 : j \in 1..7 /\ j # 7
  OBVIOUS
<1> QED BY <1>1, <1>2, <1>4, <1>5, <1>9, <1>10

\* A step of the transfer: left out when it is done, and once done it is not undone by itself.
Transfers(s) ==
  /\ s.span = 0 /\ s.blind = FALSE /\ s.gets \cap s.drops = {}
  /\ \A f \in s.gets : f[3] # Deployer
  /\ \A f \in s.drops : f[3] = Deployer
  /\ s.looks => s.unless = s.gets
  /\ s.lax => \E c \in {"EmissionManager", "Registry"} : Hands(s, c)

LEMMA TransferSteps ==
  /\ Len(TransferAdminToGovernance) = 10 /\ Len(GrantRiskAdmin) = 1
  /\ \A j \in 1..10 : Transfers(TransferAdminToGovernance[j])
  /\ Transfers(GrantRiskAdmin[1])
  /\ LET T == TransferAdminToGovernance IN
     /\ T[2].gets = {<<"ACL", "DEFAULT_ADMIN", Gov>>} /\ T[3].gets = {<<"ACL", "POOL_ADMIN", Gov>>}
     /\ T[4].gets = {<<"ACL", "RISK_ADMIN", Gov>>} /\ T[5].gets = {<<"ACL", "EMERGENCY_ADMIN", Gov>>}
     /\ T[6].gets = {<<"ACL", "EMERGENCY_ADMIN", Emergency>>}
     /\ T[7].gets = {AclAdmin(Gov)} /\ T[7].drops = {AclAdmin(Deployer)}
     /\ Hands(T[8], "PAP") /\ Hands(T[9], "EmissionManager") /\ Hands(T[10], "Registry")
  /\ GrantRiskAdmin[1].gets = {<<"ACL", "RISK_ADMIN", Helper>>}
<1> DEFINE T == TransferAdminToGovernance
<1>1. \A r, a : /\ Grant("ACL", r, a).gets = {<<"ACL", r, a>>}
                /\ a # Deployer => Transfers(Grant("ACL", r, a))
  BY DEF Grant, Tx, Plain, Transfers
<1>2. /\ HandOver("PAP", "aclAdmin").gets = {AclAdmin(Gov)}
      /\ HandOver("PAP", "aclAdmin").drops = {AclAdmin(Deployer)}
      /\ Transfers(HandOver("PAP", "aclAdmin"))
  BY OthersDiffer DEF HandOver, Plain, Transfers, AclAdmin
<1>3. Transfers(HandOver("PAP", "owner"))
  BY OthersDiffer DEF HandOver, Plain, Transfers
<1>4. ASSUME NEW c \in {"EmissionManager", "Registry"} PROVE Transfers(TransferOwnableTo(c))
  <2>1. Hands(TransferOwnableTo(c), c)
    BY OrderlyHandOver
  <2>2. LET s == TransferOwnableTo(c) IN
        s.span = 0 /\ s.blind = FALSE /\ s.unless = s.gets
    BY DEF TransferOwnableTo, HandOver, Plain
  <2>3. /\ Owner(c, Gov)[3] # Deployer /\ Owner(c, Deployer)[3] = Deployer
        /\ {Owner(c, Gov)} \cap {Owner(c, Deployer)} = {}
    BY OthersDiffer DEF Owner
  <2>4. TransferOwnableTo(c).gets = {Owner(c, Gov)} /\ TransferOwnableTo(c).drops = {Owner(c, Deployer)}
    BY <2>1 DEF Hands
  <2> HIDE DEF TransferOwnableTo
  <2> QED BY <2>1, <2>2, <2>3, <2>4 DEF Transfers
<1>5. Transfers(Require({Disk("ACLManager")}))
  BY DEF Require, Plain, Transfers
<1>6. /\ Len(T) = 10 /\ T[1] = Require({Disk("ACLManager")})
      /\ T[2] = Grant("ACL", "DEFAULT_ADMIN", Gov) /\ T[3] = Grant("ACL", "POOL_ADMIN", Gov)
      /\ T[4] = Grant("ACL", "RISK_ADMIN", Gov) /\ T[5] = Grant("ACL", "EMERGENCY_ADMIN", Gov)
      /\ T[6] = Grant("ACL", "EMERGENCY_ADMIN", Emergency) /\ T[7] = HandOver("PAP", "aclAdmin")
      /\ T[8] = HandOver("PAP", "owner") /\ T[9] = TransferOwnableTo("EmissionManager")
      /\ T[10] = TransferOwnableTo("Registry")
      /\ Len(GrantRiskAdmin) = 1 /\ GrantRiskAdmin[1] = Grant("ACL", "RISK_ADMIN", Helper)
  BY DEF TransferAdminToGovernance, GrantRiskAdmin
<1> HIDE DEF T
<1>7. ASSUME NEW j \in 1..10 PROVE Transfers(T[j])
  <2>1. j \in {1, 2, 3, 4, 5, 6, 7, 8, 9, 10}
    OBVIOUS
  <2> QED BY <1>1, <1>2, <1>3, <1>4, <1>5, <1>6, <2>1, OthersDiffer
<1>8. Hands(T[8], "PAP") /\ Hands(T[9], "EmissionManager") /\ Hands(T[10], "Registry")
  BY <1>6, OrderlyHandOver
<1>9. Transfers(GrantRiskAdmin[1])
  BY <1>1, <1>6, OthersDiffer
<1> QED BY <1>1, <1>2, <1>6, <1>7, <1>8, <1>9 DEF T

LEMMA LastGuard ==
  /\ ~RevokeDeployer[6].tx /\ ~RevokeDeployer[6].looks /\ RevokeDeployer[6].gets = {}
  /\ AclRights \subseteq RevokeDeployer[6].bans
  /\ \A j \in 1..6 : RevokeDeployer[j].span = 0 /\ RevokeDeployer[j].lax = FALSE
<1>1. RevokeDeployer[6] = [Plain EXCEPT !.bans = { <<"ACL", r, Deployer>> : r \in MarketRole }]
  BY DEF RevokeDeployer
<1>2. /\ ~RevokeDeployer[6].tx /\ ~RevokeDeployer[6].looks /\ RevokeDeployer[6].gets = {}
      /\ RevokeDeployer[6].bans = { <<"ACL", r, Deployer>> : r \in MarketRole }
      /\ RevokeDeployer[6].span = 0 /\ RevokeDeployer[6].lax = FALSE
  BY <1>1 DEF Plain
<1>3. AclRights \subseteq RevokeDeployer[6].bans
  BY <1>2 DEF AclRights, MarketRole
<1>4. /\ \A r : Remove(r).span = 0 /\ Remove(r).lax = FALSE
      /\ Renounce("ACL", "DEFAULT_ADMIN").span = 0 /\ Renounce("ACL", "DEFAULT_ADMIN").lax = FALSE
      /\ \A fs : Require(fs).span = 0 /\ Require(fs).lax = FALSE
  BY DEF Remove, Renounce, Require, Plain
<1>5. /\ RevokeDeployer[1] = Require({<<"ACL", "DEFAULT_ADMIN", Gov>>, <<"ACL", "POOL_ADMIN", Gov>>})
      /\ RevokeDeployer[2] = Remove("EMERGENCY_ADMIN") /\ RevokeDeployer[3] = Remove("POOL_ADMIN")
      /\ RevokeDeployer[4] = Remove("RISK_ADMIN") /\ RevokeDeployer[5] = Renounce("ACL", "DEFAULT_ADMIN")
  BY DEF RevokeDeployer
<1>6. ASSUME NEW j \in 1..6 PROVE RevokeDeployer[j].span = 0 /\ RevokeDeployer[j].lax = FALSE
  <2>1. j \in {1, 2, 3, 4, 5, 6}
    OBVIOUS
  <2> QED BY <1>2, <1>4, <1>5, <2>1
<1> QED BY <1>2, <1>3, <1>6

LEMMA RotateEnd ==
  /\ \A j \in 8..10 : LET s == RotateVault[j] IN
        s.looks /\ s.tx /\ s.gets = {} /\ s.auth = {} /\ s.bans = {}
  /\ RotateVault[8].drops = {Vault("UPGRADER", Deployer)}
  /\ RotateVault[9].drops = {Vault("ADMIN", Deployer)}
  /\ RotateVault[10].drops = {Vault("DEFAULT_ADMIN", Deployer)}
<1>1. \A r : LET s == VaultRenounce(r) IN
             /\ s.looks /\ s.tx /\ s.gets = {} /\ s.auth = {} /\ s.bans = {}
             /\ s.drops = {Vault(r, Deployer)}
  BY DEF VaultRenounce, Renounce, Plain, Vault
<1>2. /\ RotateVault[8] = VaultRenounce("UPGRADER") /\ RotateVault[9] = VaultRenounce("ADMIN")
      /\ RotateVault[10] = VaultRenounce("DEFAULT_ADMIN")
  BY DEF RotateVault
<1>3. \A j \in 8..10 : j \in {8, 9, 10}
  OBVIOUS
<1> QED BY <1>1, <1>2, <1>3

-----------------------------------------------------------------------------
(* What the hand-over has got to *)

\* A contract that has an owner has one; the deployed ones have had one since.
OwnerInv(fs) ==
  /\ \A c \in Ownable : Owner(c, Gov) \in fs => Owner(c, Deployer) \notin fs
  /\ \A c \in Founded : Owner(c, Gov) \in fs \/ Owner(c, Deployer) \in fs <=> Artifact(c) \in fs
  /\ Owner("Registry", Gov) \in fs \/ Owner("Registry", Deployer) \in fs

RightsInv(m, fs) ==
  /\ \A f \in fs : f[3] = Deployer => f \in Holdings(m)
  /\ OwnerInv(fs)
  /\ IncentivesRecord \in fs => Artifact("EmissionManager") \in fs

\* What it takes to get past step j of script i.
Target(m, i, j, fs) ==
  LET s == At(m, <<i, j>>) IN
  /\ i = AclAt(m) /\ j = 7 => AclRecord \in fs
  /\ i = IncentivesAt(m) /\ j = 2 => Artifact("EmissionManager") \in fs
  /\ i \in {TransferAt(m), GrantAt(m)} => s.gets \subseteq fs /\ s.drops \cap fs = {}
  /\ i = RevokeAt(m) /\ j = 6 => AclRights \cap fs = {}
  /\ m = "BIL" /\ i = RotateAt /\ j > 7 => s.drops \cap fs = {}

Before(p, q) == p[1] < q[1] \/ (p[1] = q[1] /\ p[2] < q[2])
Reached(m, q, fs) ==
  \A i \in 1..Len(Pipeline[m]) : \A j \in 1..Len(Pipeline[m][i]) :
    Before(<<i, j>>, q) => Target(m, i, j, fs)

\* The position the run has got to; beyond the last script once it is done.
Front == IF status = "done" THEN <<Len(Pipeline[market]) + 1, 1>> ELSE Here

\* No transaction of InitAcl is under way once it is on record, and none is sent after.
AclInv ==
  /\ \A i \in 1..Len(flight) : flight[i][1] = AclAt(market) => AclRecord \notin facts
  /\ status = "running" /\ phase = AclAt(market) =>
       /\ step > 1 => AclRecord \notin facts
       /\ step > 2 /\ ~sent => flight = << >>

HandInv == RightsInv(market, facts) /\ Reached(market, Front, facts) /\ AclInv

-----------------------------------------------------------------------------
(* A step that is taken *)

Skips(s, fs) == (s.looks /\ s.unless \subseteq fs /\ s.drops \cap fs = {})
                \/ (s.lax /\ ~(s.auth \subseteq fs))
\* The step is taken with the facts fs: it is not left out, or its transaction lands.
Taken(s, fs) == IF s.tx THEN s.auth \subseteq fs ELSE ~Skips(s, fs)

\* The kinds of steps there are.
Kind(m, p, s) ==
  \/ p[1] # AclAt(m) /\ Orderly(s)
  \/ p[1] = AclAt(m) /\ Founding(s)
  \/ p = <<IncentivesAt(m), 7>> /\ s = Save("Incentives.id")

LEMMA AllKinds == ASSUME NEW m \in Market, NEW p, Valid(m, p) PROVE Kind(m, p, At(m, p))
<1>1. /\ p[1] \in 1..Len(Pipeline[m]) /\ p[2] \in 1..Len(Pipeline[m][p[1]])
      /\ p = <<p[1], p[2]>>
  BY DEF Valid
<1>2. CASE p[1] = AclAt(m)
  <2>1. Pipeline[m][p[1]] = InitAcl
    BY <1>2, Places
  <2> QED BY <1>1, <1>2, <2>1, InitAclSteps DEF Kind, At
<1>3. CASE p[1] = IncentivesAt(m)
  <2>1. Pipeline[m][p[1]] = Incentives /\ p[1] # AclAt(m)
    BY <1>3, Places DEF IncentivesAt, AclAt
  <2>2. p[2] = 7 \/ p[2] \in 1..6
    BY <1>1, <2>1, IncentivesSteps
  <2> QED BY <1>1, <1>3, <2>1, <2>2, IncentivesSteps DEF Kind, At
<1>4. CASE p[1] # AclAt(m) /\ p[1] # IncentivesAt(m)
  <2>1. OrderlyScript(Pipeline[m][p[1]])
    BY <1>1, <1>4, Places
  <2> QED BY <1>1, <1>4, <2>1 DEF Kind, At, OrderlyScript
<1> QED BY <1>2, <1>3, <1>4

LEMMA SaveIncentives ==
  LET s == Save("Incentives.id") IN s.drops = {} /\ s.gets = {IncentivesRecord} /\ ~s.tx /\ ~s.looks /\ ~s.lax
  BY DEF Save, Plain, IncentivesRecord

\* The facts on disk stay, whatever happens.
LEMMA DiskKept ==
  ASSUME NEW m, NEW p, NEW s, Kind(m, p, s), NEW fs, NEW a, Disk(a) \in fs
  PROVE  Disk(a) \in Result(s, fs)
<1>1. Disk(a)[3] # Deployer /\ Disk(a)[1] = "disk"
  BY OthersDiffer
<1>2. AclAdmin(Gov)[1] = "PAP"
  BY DEF AclAdmin
<1>3. Disk(a) \notin s.drops
  BY <1>1, <1>2, SaveIncentives DEF Kind, Orderly, Founding
<1> QED BY <1>3 DEF Result

LEMMA Facts ==
  /\ \A c, a : Owner(c, a)[1] = c /\ Owner(c, a)[2] = "owner" /\ Owner(c, a)[3] = a
  /\ \A c \in Founded : Artifact(c)[1] = "disk" /\ Artifact(c)[3] = "saved" /\ Artifact(c) # IncentivesRecord
  /\ \A c \in Founded : \A d \in Founded : Artifact(c) = Artifact(d) => c = d
  /\ IncentivesRecord[1] = "disk" /\ IncentivesRecord[3] = "saved"
  /\ \A a : AclAdmin(a)[1] = "PAP" /\ AclAdmin(a)[2] = "aclAdmin" /\ AclAdmin(a)[3] = a
  /\ \A c \in Ownable : c # "disk"
  BY OthersDiffer DEF Owner, Artifact, IncentivesRecord, AclAdmin, Founded, Ownable

LEMMA OwnerKept ==
  ASSUME NEW m, NEW p, NEW s, Kind(m, p, s), NEW fs, OwnerInv(fs), Taken(s, fs)
  PROVE  OwnerInv(Result(s, fs))
<1> DEFINE new == Result(s, fs)
<1> SUFFICES OwnerInv(new)
  OBVIOUS
<1>0. Gov # Deployer /\ "saved" # Deployer /\ new = (fs \ s.drops) \cup s.gets
  BY OthersDiffer DEF Result
<1> HIDE DEF new
<1>1. ASSUME NEW c \in Founded, Founds(s, c) PROVE OwnerInv(new)
  <2>1. /\ s.drops = {} /\ s.gets = {Artifact(c), Owner(c, Deployer)}
        /\ Artifact(c) \notin fs
    BY <1>1 DEF Founds, Taken, Skips
  <2>2. new = fs \cup {Artifact(c), Owner(c, Deployer)}
    BY <1>0, <2>1
  <2>3. \A d \in Ownable : d # c =>
          /\ Owner(d, Gov) \in new <=> Owner(d, Gov) \in fs
          /\ Owner(d, Deployer) \in new <=> Owner(d, Deployer) \in fs
    BY <2>2, Facts
  <2>4. \A d \in Founded : d # c => (Artifact(d) \in new <=> Artifact(d) \in fs)
    <3>1. \A d \in Founded : Artifact(d) # Owner(c, Deployer)
      BY <1>0, Facts
    <3> QED BY <2>2, <3>1, Facts
  <2>5. Owner(c, Gov) \notin new
    <3>1. Owner(c, Gov) # Owner(c, Deployer) /\ Owner(c, Gov) # Artifact(c)
      BY <1>0, Facts DEF Ownable
    <3> QED BY <2>1, <2>2, <3>1 DEF OwnerInv
  <2>6. Owner(c, Deployer) \in new /\ Artifact(c) \in new /\ c # "Registry"
    BY <2>2 DEF Founded
  <2> QED BY <2>3, <2>4, <2>5, <2>6 DEF OwnerInv, Ownable
<1>2. ASSUME NEW c \in Ownable, Hands(s, c) PROVE OwnerInv(new)
  <2>1. new = (fs \ {Owner(c, Deployer)}) \cup {Owner(c, Gov)} /\ Owner(c, Deployer) \in fs
    BY <1>0, <1>2 DEF Hands, Taken
  <2>2. \A d \in Ownable : d # c =>
          /\ Owner(d, Gov) \in new <=> Owner(d, Gov) \in fs
          /\ Owner(d, Deployer) \in new <=> Owner(d, Deployer) \in fs
    BY <2>1, Facts
  <2>3. \A d \in Founded : Artifact(d) \in new <=> Artifact(d) \in fs
    BY <1>0, <2>1, Facts
  <2>4. Owner(c, Gov) \in new /\ Owner(c, Deployer) \notin new
    BY <1>0, <2>1, Facts
  <2> QED BY <2>1, <2>2, <2>3, <2>4 DEF OwnerInv, Ownable
<1>3. CASE /\ \A c \in Ownable : /\ Owner(c, Gov) \notin s.gets /\ Owner(c, Deployer) \notin s.gets
                                 /\ Owner(c, Gov) \notin s.drops /\ Owner(c, Deployer) \notin s.drops
           /\ \A c \in Founded : Artifact(c) \notin s.gets /\ Artifact(c) \notin s.drops
  <2>1. /\ \A c \in Ownable : /\ Owner(c, Gov) \in new <=> Owner(c, Gov) \in fs
                              /\ Owner(c, Deployer) \in new <=> Owner(c, Deployer) \in fs
        /\ \A c \in Founded : Artifact(c) \in new <=> Artifact(c) \in fs
    BY <1>0, <1>3
  <2> QED BY <2>1 DEF OwnerInv, Ownable
<1>4. CASE Orderly(s)
  <2>1. \A c : Owner(c, Gov) \notin s.drops
    <3>1. \A f \in s.drops : f[3] = Deployer
      BY <1>4 DEF Orderly
    <3> QED BY <1>0, <3>1, Facts
  <2>2. \A c \in Founded : Artifact(c) \notin s.drops
    BY <1>0, <1>4, Facts DEF Orderly
  <2>3. \A c \in Ownable : Owner(c, Deployer) \in s.gets => \E d \in Founded : Founds(s, d)
    BY <1>4, Facts DEF Orderly
  <2>4. \A c \in Founded : Artifact(c) \in s.gets => Founds(s, c)
    BY <1>4 DEF Orderly
  <2>5. \A c \in Ownable : Owner(c, Gov) \in s.gets \/ Owner(c, Deployer) \in s.drops => Hands(s, c)
    BY <1>4 DEF Orderly
  <2> QED BY <1>1, <1>2, <1>3, <2>1, <2>2, <2>3, <2>4, <2>5
<1>5. CASE Founding(s)
  <2>1. \A f \in s.gets : f[2] # "owner"
    BY <1>5 DEF Founding
  <2>2. \A f \in s.drops : f[2] = "aclAdmin" /\ f[1] = "PAP"
    BY <1>5, Facts DEF Founding
  <2>3. \A c \in Founded : Artifact(c) \notin s.gets /\ Artifact(c)[1] # "PAP"
    BY <1>5, Facts DEF Founding
  <2> QED BY <1>3, <2>1, <2>2, <2>3, Facts
<1>6. CASE s = Save("Incentives.id")
  <2>1. s.drops = {} /\ s.gets = {IncentivesRecord}
    BY <1>6, SaveIncentives
  <2>2. /\ \A c \in Ownable : \A a : Owner(c, a) # IncentivesRecord
        /\ \A c \in Founded : Artifact(c) # IncentivesRecord
    BY Facts
  <2> QED BY <1>3, <2>1, <2>2
<1> QED BY <1>4, <1>5, <1>6 DEF Kind

LEMMA RightsKept ==
  ASSUME NEW m \in Market, NEW p, NEW s, Kind(m, p, s), NEW fs, RightsInv(m, fs), Taken(s, fs),
         p = <<IncentivesAt(m), 7>> => Artifact("EmissionManager") \in fs
  PROVE  RightsInv(m, Result(s, fs))
<1> DEFINE new == Result(s, fs)
<1>1. OwnerInv(new)
  BY OwnerKept DEF RightsInv
<1>2. ASSUME NEW f \in new, f[3] = Deployer PROVE f \in Holdings(m)
  <2>1. CASE f \in fs
    BY <1>2, <2>1 DEF RightsInv
  <2>2. CASE f \in s.gets /\ Orderly(s)
    <3>1. PICK c \in Founded : f = Owner(c, Deployer)
      BY <1>2, <2>2 DEF Orderly
    <3> QED BY <3>1 DEF Holdings, Ownable
  <2>3. CASE f \in s.gets /\ Founding(s)
    <3>1. f \in AclRights \cup {AclAdmin(Deployer)}
      BY <1>2, <2>3 DEF Founding
    <3> QED BY <3>1 DEF Holdings
  <2>4. CASE f \in s.gets /\ s = Save("Incentives.id")
    <3>1. f = IncentivesRecord
      BY <2>4, SaveIncentives
    <3> QED BY <1>2, <3>1, Facts, OthersDiffer
  <2>5. f \in fs \/ f \in s.gets
    BY <1>2 DEF Result
  <2> QED BY <2>1, <2>2, <2>3, <2>4, <2>5 DEF Kind
<1>3. ASSUME IncentivesRecord \in new PROVE Artifact("EmissionManager") \in new
  <2>1. Artifact("EmissionManager") \in fs
    <3>1. CASE IncentivesRecord \in fs
      BY <3>1 DEF RightsInv
    <3>2. CASE IncentivesRecord \in s.gets
      <4>1. ~Orderly(s) /\ ~Founding(s)
        BY <3>2 DEF Orderly, Founding
      <4> QED BY <4>1 DEF Kind
    <3> QED BY <1>3, <3>1, <3>2 DEF Result
  <2>2. Artifact("EmissionManager") = Disk("EmissionManager")
    BY DEF Artifact
  <2> QED BY <2>1, <2>2, DiskKept
<1> QED BY <1>1, <1>2, <1>3 DEF RightsInv

\* What has been reached stays so, if InitAcl takes no step once it is on record.
LEMMA ReachedKept ==
  ASSUME NEW m \in Market, NEW p, NEW s, Kind(m, p, s), NEW fs, RightsInv(m, fs), Taken(s, fs),
         p[1] = AclAt(m) => AclRecord \notin fs,
         NEW q, q[1] \in Nat, q[2] \in Nat, Reached(m, q, fs)
  PROVE  Reached(m, q, Result(s, fs))
<1> DEFINE new == Result(s, fs)
<1> SUFFICES ASSUME NEW i \in 1..Len(Pipeline[m]), NEW j \in 1..Len(Pipeline[m][i]), Before(<<i, j>>, q)
             PROVE  Target(m, i, j, new)
  BY DEF Reached
<1> DEFINE t == At(m, <<i, j>>)
<1>0. Target(m, i, j, fs) /\ Len(Pipeline[m]) = Last(m)
  BY Places DEF Reached
<1>1. ASSUME i > AclAt(m) PROVE p[1] # AclAt(m)
  <2>1. AclAt(m) \in 1..Len(Pipeline[m]) /\ Pipeline[m][AclAt(m)] = InitAcl
    BY <1>0, Places DEF AclAt, Last
  <2>2. 7 \in 1..Len(Pipeline[m][AclAt(m)])
    BY <2>1, InitAclSteps
  <2>3. Before(<<AclAt(m), 7>>, q)
    BY <1>1, <2>1 DEF Before, AclAt
  <2>4. Target(m, AclAt(m), 7, fs)
    BY <2>1, <2>2, <2>3 DEF Reached
  <2> QED BY <2>4 DEF Target
<1>2. i = AclAt(m) /\ j = 7 => AclRecord \in new
  <2>1. AclRecord \in fs => AclRecord \in new
    BY DiskKept DEF AclRecord
  <2> QED BY <1>0, <2>1 DEF Target
<1>3. i = IncentivesAt(m) /\ j = 2 => Artifact("EmissionManager") \in new
  <2>1. Artifact("EmissionManager") \in fs => Artifact("EmissionManager") \in new
    BY DiskKept DEF Artifact
  <2> QED BY <1>0, <2>1 DEF Target
<1>4. ASSUME i > AclAt(m)
      PROVE  Orderly(s) \/ s = Save("Incentives.id")
  BY <1>1, <1>4 DEF Kind
<1>5. ASSUME i \in {TransferAt(m), GrantAt(m)} PROVE t.gets \subseteq new /\ t.drops \cap new = {}
  <2>1. i > AclAt(m) /\ i # AclAt(m) /\ i # IncentivesAt(m)
    BY <1>5 DEF TransferAt, GrantAt, AclAt, IncentivesAt
  <2>2. Transfers(t) /\ Orderly(t)
    <3>1. /\ Pipeline[m][i] = TransferAdminToGovernance \/ Pipeline[m][i] = GrantRiskAdmin
          /\ OrderlyScript(Pipeline[m][i])
      BY <1>0, <1>5, <2>1, Places
    <3>2. t = Pipeline[m][i][j] /\ j \in 1..Len(Pipeline[m][i])
      BY DEF At
    <3>3. Orderly(t)
      BY <3>1, <3>2 DEF OrderlyScript
    <3>4. CASE Pipeline[m][i] = TransferAdminToGovernance
      <4>1. j \in 1..10
        BY <3>2, <3>4, TransferSteps
      <4> QED BY <3>2, <3>3, <3>4, <4>1, TransferSteps
    <3>5. CASE Pipeline[m][i] = GrantRiskAdmin
      <4>1. j = 1
        BY <3>2, <3>5, TransferSteps
      <4> QED BY <3>2, <3>3, <3>5, <4>1, TransferSteps
    <3> QED BY <3>1, <3>4, <3>5
  <2>3. t.gets \subseteq fs /\ t.drops \cap fs = {}
    BY <1>0, <1>5 DEF Target
  <2>4. \A f \in s.drops : f[3] = Deployer
    BY <1>4, <2>1, SaveIncentives DEF Orderly
  <2>5. t.gets \subseteq new
    BY <2>2, <2>3, <2>4 DEF Transfers, Result
  <2>6. ASSUME NEW f \in t.drops, f \in s.gets PROVE FALSE
    <3>1. f[3] = Deployer
      BY <2>2, <2>6 DEF Transfers
    <3>2. CASE s = Save("Incentives.id")
      <4>1. f = IncentivesRecord
        BY <2>6, <3>2, SaveIncentives
      <4> QED BY <3>1, <4>1, Facts, OthersDiffer
    <3>3. CASE Orderly(s)
      <4>1. PICK c \in Founded : f = Owner(c, Deployer) /\ Founds(s, c)
        BY <2>6, <3>1, <3>3 DEF Orderly
      <4>2. Artifact(c) \notin fs
        BY <4>1 DEF Founds, Taken, Skips
      <4>3. Hands(t, c)
        BY <2>2, <2>6, <4>1 DEF Orderly, Ownable
      <4>4. Owner(c, Gov) \in fs
        BY <2>3, <4>3 DEF Hands
      <4> QED BY <4>2, <4>4 DEF RightsInv, OwnerInv
    <3> QED BY <1>4, <2>1, <3>2, <3>3
  <2> QED BY <2>3, <2>5, <2>6 DEF Result
<1>6. ASSUME i = RevokeAt(m), j = 6 PROVE AclRights \cap new = {}
  <2>1. i > AclAt(m) /\ AclRights \cap fs = {}
    BY <1>0, <1>6 DEF RevokeAt, AclAt, Target
  <2>2. ASSUME NEW f \in AclRights, f \in s.gets PROVE FALSE
    <3>1. f[3] = Deployer /\ f[2] # "owner"
      BY <2>2 DEF AclRights
    <3> QED BY <1>4, <2>1, <2>2, <3>1, SaveIncentives, Facts, OthersDiffer DEF Orderly
  <2> QED BY <2>1, <2>2 DEF Result
<1>7. ASSUME m = "BIL", i = RotateAt, j > 7 PROVE t.drops \cap new = {}
  <2>1. i > AclAt(m) /\ t.drops \cap fs = {}
    BY <1>0, <1>7 DEF RotateAt, AclAt, Target
  <2>2. \E r \in VaultRole : t.drops = {Vault(r, Deployer)}
    <3>1. Pipeline[m][i] = RotateVault
      BY <1>7, Places
    <3>2. j \in 8..10
      BY <1>7, <3>1, RotateSteps
    <3>3. j = 8 \/ j = 9 \/ j = 10
      BY <3>2
    <3> QED BY <3>1, <3>3, RotateEnd DEF At, VaultRole
  <2>3. ASSUME NEW f \in t.drops, f \in s.gets PROVE FALSE
    <3>1. f[3] = Deployer /\ f[1] = "vault"
      BY <2>2, <2>3 DEF Vault
    <3>2. \A c \in Founded : c # "vault"
      BY DEF Founded
    <3> QED BY <1>4, <2>1, <2>3, <3>1, <3>2, SaveIncentives, Facts, OthersDiffer DEF Orderly
  <2> QED BY <2>1, <2>3 DEF Result
<1> QED BY <1>2, <1>3, <1>5, <1>6, <1>7 DEF Target

-----------------------------------------------------------------------------
(* Getting past a step *)

\* The steps that are left out leave nothing undone.
LEMMA PastSkipped ==
  ASSUME NEW m \in Market, NEW p, Valid(m, p), NEW fs, RightsInv(m, fs), Reached(m, p, fs),
         Skips(At(m, p), fs),
         NEW k \in 1..Len(Pipeline[m][p[1]]), p[2] <= k, k <= p[2] + At(m, p).span
  PROVE  Target(m, p[1], k, fs)
<1> DEFINE i == p[1]
           s == At(m, p)
<1>0. /\ i \in 1..Last(m) /\ p[2] \in 1..Len(Pipeline[m][i]) /\ k \in Nat
      /\ s = Pipeline[m][i][p[2]] /\ Len(Pipeline[m]) = Last(m)
  BY Places DEF Valid, At
<1>a. p[2] \in Nat
  BY DEF Valid
<1>1. ASSUME s.span = 0 PROVE At(m, <<i, k>>) = s
  <2>1. k = p[2]
    BY <1>a, <1>0, <1>1
  <2> QED BY <2>1 DEF At
<1>2. i = AclAt(m) /\ k = 7 => AclRecord \in fs
  <2> SUFFICES ASSUME i = AclAt(m), k = 7 PROVE AclRecord \in fs
    OBVIOUS
  <2>1. Pipeline[m][i] = InitAcl
    BY Places
  <2>2. p[2] \in 1..7 /\ s = InitAcl[p[2]] /\ s.lax = FALSE
    BY <1>0, <2>1, InitAclSteps
  <2>3. p[2] = 1
    <3>1. CASE p[2] = 7
      BY <2>2, <3>1, InitAclSteps DEF Skips
    <3>2. CASE p[2] \in 2..6
      <4>1. s.span = 0
        BY <2>2, <3>2, InitAclSteps
      <4> QED BY <3>2, <4>1
    <3> QED BY <2>2, <3>1, <3>2
  <2> QED BY <2>2, <2>3, InitAclSteps DEF Skips
<1>3. i = IncentivesAt(m) /\ k = 2 => Artifact("EmissionManager") \in fs
  <2> SUFFICES ASSUME i = IncentivesAt(m), k = 2 PROVE Artifact("EmissionManager") \in fs
    OBVIOUS
  <2>1. Pipeline[m][i] = Incentives
    BY Places
  <2>2. p[2] \in 1..7 /\ s = Incentives[p[2]] /\ s.lax = FALSE
    BY <1>0, <2>1, IncentivesSteps
  <2>3. p[2] = 1 \/ p[2] = 2
    BY <1>a, <2>2
  <2>4. CASE p[2] = 1
    <3>1. IncentivesRecord \in fs
      BY <2>2, <2>4, IncentivesSteps DEF Skips
    <3> QED BY <3>1 DEF RightsInv
  <2>5. CASE p[2] = 2
    BY <2>2, <2>5, IncentivesSteps DEF Skips, Founds
  <2> QED BY <2>3, <2>4, <2>5
<1>4. ASSUME i \in {TransferAt(m), GrantAt(m)}
      PROVE  At(m, <<i, k>>).gets \subseteq fs /\ At(m, <<i, k>>).drops \cap fs = {}
  <2>1. Transfers(s)
    <3>1. CASE i = TransferAt(m)
      <4>1. Pipeline[m][i] = TransferAdminToGovernance
        BY <3>1, Places
      <4> QED BY <1>0, <4>1, TransferSteps
    <3>2. CASE i = GrantAt(m)
      <4>1. Pipeline[m][i] = GrantRiskAdmin
        BY <3>2, Places
      <4>2. p[2] = 1
        BY <1>0, <4>1, TransferSteps
      <4> QED BY <1>0, <4>1, <4>2, TransferSteps
    <3> QED BY <1>4, <3>1, <3>2
  <2>2. At(m, <<i, k>>) = s
    BY <1>1, <2>1 DEF Transfers
  <2>3. CASE s.looks /\ s.unless \subseteq fs /\ s.drops \cap fs = {}
    BY <2>1, <2>2, <2>3 DEF Transfers
  <2>4. CASE s.lax /\ ~(s.auth \subseteq fs)
    <3>1. PICK c \in {"EmissionManager", "Registry"} : Hands(s, c)
      BY <2>1, <2>4 DEF Transfers
    <3>2. s.gets = {Owner(c, Gov)} /\ s.drops = {Owner(c, Deployer)} /\ Owner(c, Deployer) \notin fs
      BY <2>4, <3>1 DEF Hands
    <3>3. c = "EmissionManager" => Artifact(c) \in fs
      <4>1. /\ IncentivesAt(m) \in 1..Len(Pipeline[m])
            /\ Pipeline[m][IncentivesAt(m)] = Incentives
            /\ Before(<<IncentivesAt(m), 2>>, p)
        BY <1>0, <1>4, Places DEF IncentivesAt, TransferAt, GrantAt, Last, Before
      <4>2. 2 \in 1..Len(Pipeline[m][IncentivesAt(m)])
        BY <4>1, IncentivesSteps
      <4>3. Target(m, IncentivesAt(m), 2, fs)
        BY <4>1, <4>2 DEF Reached
      <4> QED BY <4>3 DEF Target
    <3>4. Owner(c, Gov) \in fs
      BY <3>2, <3>3 DEF RightsInv, OwnerInv, Founded
    <3> QED BY <2>2, <3>2, <3>4
  <2> QED BY <2>3, <2>4 DEF Skips
<1>5. i = RevokeAt(m) /\ k = 6 => AclRights \cap fs = {}
  <2> SUFFICES ASSUME i = RevokeAt(m), k = 6 PROVE FALSE
    OBVIOUS
  <2>1. Pipeline[m][i] = RevokeDeployer
    BY Places
  <2>2. p[2] \in 1..6 /\ s = RevokeDeployer[p[2]]
    BY <1>0, <2>1, RevokeGuard
  <2>3. s.lax = FALSE /\ s.span = 0
    BY <2>2, LastGuard
  <2>4. p[2] = 6
    BY <2>2, <2>3
  <2> QED BY <2>2, <2>3, <2>4, LastGuard DEF Skips
<1>6. ASSUME m = "BIL", i = RotateAt, k > 7 PROVE At(m, <<i, k>>).drops \cap fs = {}
  <2>1. Pipeline[m][i] = RotateVault
    BY <1>6, Places
  <2>2. p[2] \in 1..10 /\ s = RotateVault[p[2]]
    BY <1>0, <2>1, RotateSteps
  <2>3. s.span = 0 /\ s.lax = FALSE
    <3>1. CASE p[2] \in 1..7
      BY <2>2, <3>1, RotateSteps DEF Calm
    <3>2. CASE p[2] \in 8..10
      BY <2>2, <3>2, RotateSteps DEF Calm
    <3>3. p[2] \in 1..7 \/ p[2] \in 8..10
      BY <1>a, <2>2
    <3> QED BY <3>1, <3>2, <3>3
  <2> QED BY <1>1, <2>3 DEF Skips
<1> QED BY <1>2, <1>3, <1>4, <1>5, <1>6 DEF Target

\* Nor does a step that is taken,
LEMMA PastTaken ==
  ASSUME NEW m \in Market, NEW p, Valid(m, p), NEW fs, Taken(At(m, p), fs),
         ~At(m, p).tx => At(m, p).bans \cap fs = {}
  PROVE  Target(m, p[1], p[2], Result(At(m, p), fs))
<1> DEFINE i == p[1]
           j == p[2]
           s == At(m, p)
           new == Result(s, fs)
<1>0. /\ i \in 1..Last(m) /\ j \in 1..Len(Pipeline[m][i]) /\ At(m, <<i, j>>) = s
      /\ s = Pipeline[m][i][j] /\ s.gets \subseteq new
  BY Places DEF Valid, At, Result
<1>1. i = AclAt(m) /\ j = 7 => AclRecord \in new
  BY <1>0, Places, InitAclSteps
<1>2. i = IncentivesAt(m) /\ j = 2 => Artifact("EmissionManager") \in new
  BY <1>0, Places, IncentivesSteps DEF Founds
<1>3. i \in {TransferAt(m), GrantAt(m)} => s.gets \subseteq new /\ s.drops \cap new = {}
  <2> SUFFICES ASSUME i \in {TransferAt(m), GrantAt(m)} PROVE s.drops \cap new = {}
    BY <1>0
  <2>1. CASE i = TransferAt(m)
    <3>1. Pipeline[m][i] = TransferAdminToGovernance
      BY <2>1, Places
    <3>2. Transfers(s)
      BY <1>0, <3>1, TransferSteps
    <3> QED BY <3>2 DEF Transfers, Result
  <2>2. CASE i = GrantAt(m)
    <3>1. Pipeline[m][i] = GrantRiskAdmin
      BY <2>2, Places
    <3>2. j = 1
      BY <1>0, <3>1, TransferSteps
    <3>3. Transfers(s)
      BY <1>0, <3>1, <3>2, TransferSteps
    <3> QED BY <3>3 DEF Transfers, Result
  <2> QED BY <2>1, <2>2
<1>4. i = RevokeAt(m) /\ j = 6 => AclRights \cap new = {}
  <2> SUFFICES ASSUME i = RevokeAt(m), j = 6 PROVE AclRights \cap new = {}
    OBVIOUS
  <2>1. s = RevokeDeployer[6]
    BY <1>0, Places
  <2>2. s.gets = {} /\ AclRights \cap fs = {}
    BY <2>1, LastGuard
  <2> QED BY <2>2 DEF Result
<1>5. m = "BIL" /\ i = RotateAt /\ j > 7 => s.drops \cap new = {}
  <2> SUFFICES ASSUME m = "BIL", i = RotateAt, j > 7 PROVE s.drops \cap new = {}
    OBVIOUS
  <2>1. Pipeline[m][i] = RotateVault
    BY Places
  <2>2. j \in 8..10
    BY <1>0, <2>1, RotateSteps
  <2>3. s.gets = {}
    BY <1>0, <2>1, <2>2, RotateEnd
  <2> QED BY <2>3 DEF Result
<1> HIDE DEF new, s
<1>6. Target(m, i, j, new)
  BY <1>0, <1>1, <1>2, <1>3, <1>4, <1>5 DEF Target
<1> QED BY <1>6 DEF new, s

\* or one whose transaction reverts unnoticed: no such step is any of the hand-over's.
LEMMA PastReverted ==
  ASSUME NEW m \in Market, NEW p, Valid(m, p), NEW fs, At(m, p).tx,
         ~(At(m, p).auth \subseteq fs /\ At(m, p).bans \cap fs = {}), At(m, p).blind
  PROVE  Target(m, p[1], p[2], fs)
<1> DEFINE i == p[1]
           j == p[2]
           s == At(m, p)
<1>0. /\ i \in 1..Last(m) /\ j \in 1..Len(Pipeline[m][i]) /\ s = Pipeline[m][i][j]
  BY Places DEF Valid, At
<1>1. ~(i = AclAt(m) /\ j = 7) /\ ~(i = IncentivesAt(m) /\ j = 2) /\ ~(i = RevokeAt(m) /\ j = 6)
  <2>1. ~InitAcl[7].tx /\ ~Incentives[2].tx /\ ~RevokeDeployer[6].tx
    BY InitAclSteps, IncentivesSteps, LastGuard DEF Founds
  <2>2. /\ i = AclAt(m) => s = InitAcl[j]
        /\ i = IncentivesAt(m) => s = Incentives[j]
        /\ i = RevokeAt(m) => s = RevokeDeployer[j]
    BY <1>0, Places
  <2>3. s.tx
    OBVIOUS
  <2> HIDE DEF s
  <2> QED BY <2>1, <2>2, <2>3
<1>2. i # TransferAt(m)
  <2> SUFFICES ASSUME i = TransferAt(m) PROVE FALSE
    OBVIOUS
  <2>1. Pipeline[m][i] = TransferAdminToGovernance
    BY Places
  <2> QED BY <1>0, <2>1, TransferSteps DEF Transfers
<1>3. i # GrantAt(m)
  <2> SUFFICES ASSUME i = GrantAt(m) PROVE FALSE
    OBVIOUS
  <2>1. Pipeline[m][i] = GrantRiskAdmin
    BY Places
  <2>2. j = 1
    BY <1>0, <2>1, TransferSteps
  <2> QED BY <1>0, <2>1, <2>2, TransferSteps DEF Transfers
<1>4. ~(m = "BIL" /\ i = RotateAt /\ j > 7)
  <2> SUFFICES ASSUME m = "BIL", i = RotateAt, j > 7 PROVE FALSE
    OBVIOUS
  <2>1. Pipeline[m][i] = RotateVault
    BY Places
  <2>2. j \in 8..10
    BY <1>0, <2>1, RotateSteps
  <2> QED BY <1>0, <2>1, <2>2, RotateEnd
<1> QED BY <1>1, <1>2, <1>3, <1>4 DEF Target

LEMMA ReachedOn ==
  ASSUME NEW m \in Market, NEW p, Valid(m, p), NEW fs, Reached(m, p, fs), NEW n \in Nat,
         \A k \in 1..Len(Pipeline[m][p[1]]) : p[2] <= k /\ k < p[2] + n => Target(m, p[1], k, fs)
  PROVE  Reached(m, <<p[1], p[2] + n>>, fs)
<1> SUFFICES ASSUME NEW i \in 1..Len(Pipeline[m]), NEW j \in 1..Len(Pipeline[m][i]),
                    Before(<<i, j>>, <<p[1], p[2] + n>>)
             PROVE  Target(m, i, j, fs)
  BY DEF Reached
<1>1. p[1] \in Nat /\ p[2] \in Nat /\ i \in Nat /\ j \in Nat
  <2>1. Len(Pipeline[m]) \in Nat /\ Len(Pipeline[m][i]) \in Nat
    BY PipelinesSafe DEF SafeScript, Market
  <2> QED BY <2>1 DEF Valid
<1>2. CASE Before(<<i, j>>, p)
  BY <1>2 DEF Reached
<1>3. CASE ~Before(<<i, j>>, p)
  <2>1. i = p[1] /\ p[2] <= j /\ j < p[2] + n
    BY <1>1, <1>3 DEF Before
  <2> QED BY <2>1
<1> QED BY <1>2, <1>3

\* Where the run is after it has advanced.
LEMMA Onward ==
  ASSUME IInv, status = "running", market' = market, NEW n \in Nat \ {0}, Advance(n), NEW new,
         Reached(market, <<phase, step + n>>, new)
  PROVE  /\ Reached(market, Front', new)
         /\ \/ step' = 1
            \/ phase' = phase /\ step' = step + n /\ step + n <= Len(Pipeline[market][phase])
            \/ status' = "done"
         /\ step' \in Nat
<1>1. /\ market \in Market /\ phase \in Nat /\ step \in Nat
      /\ phase \in 1..Len(Pipeline[market]) /\ step \in 1..Len(Pipeline[market][phase])
      /\ Len(Pipeline[market]) \in Nat
      /\ \A i \in 1..Len(Pipeline[market]) : Len(Pipeline[market][i]) \in Nat
  BY PipelinesSafe DEF IInv, Valid, Here, SafeScript, Market
<1>2. CASE step + n =< Len(Pipeline[market][phase])
  <2>1. phase' = phase /\ step' = step + n /\ status' = status
    BY <1>2 DEF Advance, Scripts
  <2>2. Front' = <<phase, step + n>>
    BY <2>1 DEF Front, Here
  <2>3. Reached(market, Front', new)
    BY <2>2
  <2> QED BY <1>1, <1>2, <2>1, <2>3
<1>3. ASSUME ~(step + n =< Len(Pipeline[market][phase]))
      PROVE  Reached(market, <<phase + 1, 1>>, new)
  <2> SUFFICES ASSUME NEW i \in 1..Len(Pipeline[market]), NEW j \in 1..Len(Pipeline[market][i]),
                      Before(<<i, j>>, <<phase + 1, 1>>)
               PROVE  Target(market, i, j, new)
    BY DEF Reached
  <2>1. i \in Nat /\ j \in Nat /\ 1 <= j /\ j <= Len(Pipeline[market][i]) /\ Len(Pipeline[market][i]) \in Nat
    BY <1>1
  <2>2. i < phase \/ i = phase
    BY <1>1, <2>1 DEF Before
  <2>3. Before(<<i, j>>, <<phase, step + n>>)
    BY <1>1, <1>3, <2>1, <2>2 DEF Before
  <2> QED BY <2>3 DEF Reached
<1>4. CASE ~(step + n =< Len(Pipeline[market][phase])) /\ phase < Len(Pipeline[market])
  <2>1. phase' = phase + 1 /\ step' = 1 /\ status' = status
    BY <1>4 DEF Advance, Scripts
  <2>2. Front' = <<phase + 1, 1>>
    BY <2>1 DEF Front, Here
  <2>3. Reached(market, Front', new)
    BY <1>3, <1>4, <2>2
  <2> QED BY <2>1, <2>3
<1>5. CASE ~(step + n =< Len(Pipeline[market][phase])) /\ ~(phase < Len(Pipeline[market]))
  <2>1. status' = "done" /\ step' = step
    BY <1>5 DEF Advance, Scripts
  <2>2. Front' = <<Len(Pipeline[market]) + 1, 1>>
    BY <2>1 DEF Front
  <2>3. phase = Len(Pipeline[market])
    BY <1>1, <1>5
  <2> QED BY <1>1, <1>3, <1>5, <2>1, <2>2, <2>3
<1> QED BY <1>2, <1>4, <1>5

-----------------------------------------------------------------------------
(* Every action preserves HandInv *)

\* A run stands at a position of its market, where the step is of one of the kinds.
LEMMA Standing ==
  ASSUME IInv
  PROVE  /\ market \in Market /\ Valid(market, Here) /\ Kind(market, Here, At(market, Here))
         /\ phase \in Nat /\ step \in Nat /\ 1 <= step /\ Here[1] = phase /\ Here[2] = step
         /\ step <= Len(Pipeline[market][phase]) /\ Len(Pipeline[market][phase]) \in Nat
  BY AllKinds, PipelinesSafe DEF IInv, Valid, Here, SafeScript, Market

\* InitAcl has seven steps, and the run of it is at one of them.
LEMMA InInitAcl ==
  ASSUME IInv, phase = AclAt(market)
  PROVE  /\ step \in 1..7 /\ At(market, Here) = InitAcl[step]
         /\ Len(Pipeline[market][phase]) = 7
<1>1. Pipeline[market][phase] = InitAcl
  BY Standing, Places
<1> QED BY <1>1, Standing, InitAclSteps DEF At, Here

LEMMA LeaveOutHands == ASSUME IInv, HandInv, LeaveOut PROVE HandInv'
<1> DEFINE s == At(market, Here)
           n == 1 + s.span
<1>1. /\ Skips(s, facts) /\ Advance(n) /\ status = "running" /\ sent = FALSE
      /\ UNCHANGED <<market, facts, sent, flight, failures>>
  BY DEF LeaveOut, Running, LeftOut, Needless, Skips, StepAt, Scripts, At, IInv
<1>2. n \in Nat \ {0} /\ s.span \in Nat
  BY Standing, SafeAt
<1>3. Front = Here
  BY <1>1 DEF Front
<1>4. Reached(market, <<phase, step + n>>, facts)
  <2>1. ASSUME NEW k \in 1..Len(Pipeline[market][Here[1]]), Here[2] <= k, k < Here[2] + n
        PROVE  Target(market, Here[1], k, facts)
    <3>1. k <= Here[2] + s.span
      <4>1. k \in Nat
        BY Standing, <2>1
      <4> QED BY <1>2, <2>1, <4>1, Standing
    <3> QED BY <1>1, <1>3, <2>1, <3>1, Standing, PastSkipped DEF HandInv
  <2> HIDE DEF n
  <2>2. Reached(market, <<Here[1], Here[2] + n>>, facts)
    BY <1>2, <1>3, <2>1, Standing, ReachedOn DEF HandInv
  <2> QED BY <2>2, Standing
<1> HIDE DEF n
<1>5. /\ Reached(market, Front', facts)
      /\ \/ step' = 1
         \/ phase' = phase /\ step' = step + n /\ step + n <= Len(Pipeline[market][phase])
         \/ status' = "done"
      /\ step' \in Nat
  BY <1>1, <1>2, <1>4, Onward
<1>6. ASSUME status' = "running", phase' = AclAt(market), step' > 1
      PROVE  AclRecord \notin facts /\ flight = << >>
  <2>1. phase = AclAt(market) /\ step' = step + n /\ step + n <= 7
    <3>1. phase' = phase /\ step' = step + n /\ step + n <= Len(Pipeline[market][phase])
      BY <1>5, <1>6
    <3>2. phase = AclAt(market)
      BY <1>6, <3>1
    <3>3. Len(Pipeline[market][phase]) = 7
      BY <3>2, InInitAcl
    <3> QED BY <3>1, <3>2, <3>3
  <2>2. step \in 1..7 /\ s = InitAcl[step]
    BY <2>1, InInitAcl
  <2>3. step # 1
    <3> SUFFICES ASSUME step = 1 PROVE FALSE
      OBVIOUS
    <3>1. n = 7
      BY <2>2, InitAclSteps DEF n
    <3> QED BY <2>1, <3>1
  <2>4. step # 2
    <3> SUFFICES ASSUME step = 2 PROVE FALSE
      OBVIOUS
    <3>1. s.lax = FALSE /\ ~s.looks
      BY <2>2, InitAclSteps
    <3> QED BY <1>1, <3>1 DEF Skips
  <2> QED BY <1>1, <2>1, <2>2, <2>3, <2>4 DEF HandInv, AclInv
<1>7. AclInv'
  BY <1>1, <1>5, <1>6 DEF HandInv, AclInv
<1> QED BY <1>1, <1>5, <1>7 DEF HandInv

LEMMA WriteDiskHands == ASSUME IInv, HandInv, WriteDisk PROVE HandInv'
<1> DEFINE s == At(market, Here)
           new == Result(s, facts)
<1>1. /\ Taken(s, facts) /\ ~s.tx /\ s.bans \cap facts = {} /\ Advance(1)
      /\ status = "running" /\ sent = FALSE
      /\ facts' = new /\ UNCHANGED <<market, sent, flight, failures>>
  BY DEF WriteDisk, Running, LeftOut, Needless, Allowed, Taken, Skips, StepAt, Scripts, At, After,
         Result, IInv
<1>2. Front = Here
  BY <1>1 DEF Front
<1>3. ASSUME phase = AclAt(market) PROVE AclRecord \notin facts
  <2>1. step \in 1..7 /\ s = InitAcl[step]
    BY <1>3, InInitAcl
  <2>2. CASE step = 1
    BY <1>1, <2>1, <2>2, InitAclSteps DEF Taken, Skips
  <2>3. CASE step # 1
    BY <1>1, <1>3, <2>1, <2>3 DEF HandInv, AclInv
  <2> QED BY <2>2, <2>3
<1>4. Here = <<IncentivesAt(market), 7>> => Artifact("EmissionManager") \in facts
  <2> SUFFICES ASSUME Here = <<IncentivesAt(market), 7>> PROVE Artifact("EmissionManager") \in facts
    OBVIOUS
  <2>1. /\ phase = IncentivesAt(market) /\ step = 7
        /\ phase \in 1..Len(Pipeline[market]) /\ Pipeline[market][phase] = Incentives
    BY Standing, Places DEF Valid
  <2>2. 2 \in 1..Len(Pipeline[market][phase]) /\ Before(<<phase, 2>>, Here)
    BY <2>1, IncentivesSteps DEF Before, Here
  <2>3. Target(market, phase, 2, facts)
    BY <1>2, <2>1, <2>2 DEF HandInv, Reached
  <2> QED BY <2>1, <2>3 DEF Target
<1>5. RightsInv(market, new)
  BY <1>1, <1>4, Standing, RightsKept DEF HandInv
<1>6. Reached(market, Here, new)
  BY <1>1, <1>2, <1>3, Standing, ReachedKept DEF HandInv
<1>7. Reached(market, <<phase, step + 1>>, new)
  <2>1. Target(market, Here[1], Here[2], new)
    BY <1>1, Standing, PastTaken
  <2>2. \A k \in 1..Len(Pipeline[market][Here[1]]) :
          Here[2] <= k /\ k < Here[2] + 1 => Target(market, Here[1], k, new)
    <3>1. \A k \in 1..Len(Pipeline[market][Here[1]]) : Here[2] <= k /\ k < Here[2] + 1 => k = Here[2]
      BY Standing
    <3> HIDE DEF new
    <3> QED BY <2>1, <3>1
  <2> HIDE DEF new
  <2>3. Reached(market, <<Here[1], Here[2] + 1>>, new)
    BY <1>6, <2>2, Standing, ReachedOn
  <2> QED BY <2>3, Standing
<1> HIDE DEF new
<1>8. /\ Reached(market, Front', new)
      /\ \/ step' = 1
         \/ phase' = phase /\ step' = step + 1 /\ step + 1 <= Len(Pipeline[market][phase])
         \/ status' = "done"
      /\ step' \in Nat
  BY <1>1, <1>7, Onward
<1>9. AclRecord \in new => AclRecord \in facts \/ (phase = AclAt(market) /\ step = 7)
  <2>1. CASE Orderly(s) \/ s = Save("Incentives.id")
    <3>1. AclRecord \notin s.gets
      BY <2>1, SaveIncentives, OthersDiffer DEF Orderly, AclRecord, IncentivesRecord
    <3> QED BY <3>1 DEF new, Result
  <2>2. CASE phase = AclAt(market)
    <3>1. step \in 1..7 /\ s = InitAcl[step]
      BY <2>2, InInitAcl
    <3>2. step # 7 => AclRecord \notin s.gets
      BY <3>1, InitAclSteps
    <3> QED BY <2>2, <3>2 DEF new, Result
  <2> QED BY <2>1, <2>2, Standing DEF Kind
<1>10. phase = AclAt(market) /\ step > 2 => flight = << >>
  BY <1>1 DEF HandInv, AclInv
<1>11. \A i \in 1..Len(flight) : flight[i][1] = AclAt(market) => AclRecord \notin new
  <2>1. CASE flight = << >>
    BY <2>1
  <2>2. CASE flight # << >>
    BY <1>9, <1>10, <2>2 DEF HandInv, AclInv
  <2> QED BY <2>1, <2>2
<1>12. ASSUME status' = "running", phase' = AclAt(market), step' > 1
       PROVE  AclRecord \notin new /\ (step' > 2 => flight = << >>)
  <2>1. phase = AclAt(market) /\ step' = step + 1 /\ step + 1 <= 7
    <3>1. phase' = phase /\ step' = step + 1 /\ step + 1 <= Len(Pipeline[market][phase])
      BY <1>8, <1>12
    <3>2. phase = AclAt(market)
      BY <1>12, <3>1
    <3>3. Len(Pipeline[market][phase]) = 7
      BY <3>2, InInitAcl
    <3> QED BY <3>1, <3>2, <3>3
  <2>2. step \in 1..7 /\ s = InitAcl[step]
    BY <2>1, InInitAcl
  <2>3. step # 2
    BY <1>1, <2>2, InitAclSteps
  <2> QED BY <1>3, <1>9, <1>10, <2>1, <2>2, <2>3
<1>13. AclInv'
  BY <1>1, <1>8, <1>11, <1>12 DEF AclInv
<1> QED BY <1>1, <1>5, <1>8, <1>13 DEF HandInv

LEMMA SendHands == ASSUME IInv, HandInv, Send PROVE HandInv'
<1>1. /\ At(market, Here).tx /\ flight' = Append(flight, Here) /\ sent' = TRUE /\ status = "running"
      /\ sent = FALSE
      /\ UNCHANGED <<market, facts, phase, step, status, failures>>
  BY DEF Send, Running, StepAt, Scripts, At, IInv
<1>2. Front' = Front
  BY <1>1 DEF Front, Here
<1>3. phase = AclAt(market) => AclRecord \notin facts
  <2> SUFFICES ASSUME phase = AclAt(market) PROVE AclRecord \notin facts
    OBVIOUS
  <2>1. step \in 1..7 /\ At(market, Here) = InitAcl[step]
    BY InInitAcl
  <2>2. step # 1
    BY <1>1, <2>1, InitAclSteps
  <2> QED BY <1>1, <2>1, <2>2 DEF HandInv, AclInv
<1>4. ASSUME NEW i \in 1..Len(flight'), flight'[i][1] = AclAt(market)
      PROVE  AclRecord \notin facts
  <2>1. flight \in Seq(Nat \X Nat) /\ Here \in Nat \X Nat
    BY Standing DEF IInv, FlightInv, Valid
  <2>2. CASE i \in 1..Len(flight)
    <3>1. flight'[i] = flight[i]
      BY <1>1, <2>1, <2>2
    <3> QED BY <1>4, <2>2, <3>1 DEF HandInv, AclInv
  <2>3. CASE i = Len(flight) + 1
    <3>1. flight'[i] = Here
      BY <1>1, <2>1, <2>3
    <3> QED BY <1>3, <1>4, <3>1, Standing
  <2>4. Len(flight') = Len(flight) + 1
    BY <1>1, <2>1
  <2> QED BY <2>1, <2>2, <2>3, <2>4
<1>5. AclInv'
  BY <1>1, <1>4 DEF HandInv, AclInv
<1> QED BY <1>1, <1>2, <1>5 DEF HandInv

LEMMA LandHands == ASSUME IInv, HandInv, Land PROVE HandInv'
<1> DEFINE p == flight[1]
           s == At(market, p)
           ok == s.auth \subseteq facts /\ s.bans \cap facts = {}
<1>1. flight # << >> /\ flight \in Seq(Nat \X Nat) /\ market \in Market
  BY DEF Land, IInv, FlightInv
<1>2. Valid(market, p) /\ s.tx /\ Kind(market, p, s) /\ (p[1] = AclAt(market) => AclRecord \notin facts)
  <2>1. 1 \in 1..Len(flight)
    BY <1>1
  <2> QED BY <1>1, <2>1, AllKinds DEF IInv, FlightInv, HandInv, AclInv
<1>3. /\ facts' = IF ok THEN Result(s, facts) ELSE facts
      /\ flight' = Tail(flight) /\ market' = market
      /\ \/ sent /\ Len(flight) = 1 /\ (ok \/ s.blind) /\ sent' = FALSE /\ Advance(1)
         \/ sent /\ Len(flight) = 1 /\ sent' = FALSE /\ status' = "failed" /\ UNCHANGED <<phase, step>>
         \/ ~(sent /\ Len(flight) = 1) /\ UNCHANGED <<phase, step, sent, status>>
  <2>1. Head(flight) = p
    BY <1>1
  <2> QED BY <2>1 DEF Land, Succeeds, StepAt, Scripts, At, After, Result
<1>4. /\ RightsInv(market, facts') /\ Reached(market, Front, facts')
      /\ AclRecord \in facts' => AclRecord \in facts
  <2>1. CASE ok
    <3>1. Taken(s, facts) /\ p # <<IncentivesAt(market), 7>>
      <4>1. ASSUME p = <<IncentivesAt(market), 7>> PROVE FALSE
        <5>1. s = Save("Incentives.id")
          BY <1>1, <4>1, Places, IncentivesSteps DEF At
        <5> QED BY <1>2, <5>1, SaveIncentives
      <4> QED BY <1>2, <2>1, <4>1 DEF Taken
    <3>2. Front[1] \in Nat /\ Front[2] \in Nat
      BY Standing, PipelinesSafe DEF Front, Market
    <3> HIDE DEF s, p
    <3>3. RightsInv(market, Result(s, facts)) /\ Reached(market, Front, Result(s, facts))
      BY <1>1, <1>2, <3>1, <3>2, RightsKept, ReachedKept DEF HandInv
    <3>4. AclRecord \notin s.gets
      <4>1. s # Save("Incentives.id")
        BY <1>2, SaveIncentives
      <4> QED BY <1>2, <4>1 DEF Kind, Orderly, Founding
    <3> QED BY <1>3, <2>1, <3>3, <3>4 DEF Result
  <2>2. CASE ~ok
    BY <1>3, <2>2 DEF HandInv
  <2> QED BY <2>1, <2>2
<1>5. \A i \in 1..Len(flight') : flight'[i][1] = AclAt(market) => AclRecord \notin facts'
  <2>1. \A i \in 1..Len(flight') : flight'[i] = flight[i + 1] /\ i + 1 \in 1..Len(flight)
    BY <1>1, <1>3
  <2> QED BY <1>4, <2>1 DEF HandInv, AclInv
<1>6. CASE sent /\ Len(flight) = 1 /\ (ok \/ s.blind) /\ sent' = FALSE /\ Advance(1)
  <2>1. p = Here /\ status = "running" /\ Front = Here
    BY <1>6 DEF IInv, Front
  <2>2. Target(market, Here[1], Here[2], facts')
    <3>1. CASE ok
      <4>1. facts' = Result(At(market, Here), facts) /\ At(market, Here).tx /\ Taken(At(market, Here), facts)
        BY <1>2, <1>3, <2>1, <3>1 DEF Taken
      <4> QED BY <4>1, Standing, PastTaken
    <3>2. CASE ~ok
      BY <1>1, <1>2, <1>3, <1>6, <2>1, <3>2, PastReverted
    <3> QED BY <3>1, <3>2
  <2>3. Reached(market, <<phase, step + 1>>, facts')
    <3>1. \A k \in 1..Len(Pipeline[market][Here[1]]) : Here[2] <= k /\ k < Here[2] + 1 => k = Here[2]
      BY Standing
    <3>2. Reached(market, <<Here[1], Here[2] + 1>>, facts')
      BY <1>4, <2>1, <2>2, <3>1, Standing, ReachedOn
    <3> QED BY <3>2, Standing
  <2>4. /\ Reached(market, Front', facts')
        /\ \/ step' = 1
           \/ phase' = phase /\ step' = step + 1 /\ step + 1 <= Len(Pipeline[market][phase])
           \/ status' = "done"
        /\ step' \in Nat
    BY <1>3, <1>6, <2>1, <2>3, Onward
  <2>5. flight' = << >>
    <3>1. flight' = Tail(flight) /\ Len(flight) = 1
      BY <1>3, <1>6
    <3>2. flight' \in Seq(Nat \X Nat) /\ Len(flight') = 0
      BY <1>1, <3>1
    <3> QED BY <3>2, EmptySeq
  <2>6. ASSUME status' = "running", phase' = AclAt(market), step' > 1
        PROVE  AclRecord \notin facts'
    <3>1. phase = AclAt(market)
      BY <2>4, <2>6
    <3> QED BY <1>2, <1>4, <2>1, <3>1, Standing
  <2>7. AclInv'
    BY <1>3, <1>5, <2>4, <2>5, <2>6 DEF AclInv
  <2> QED BY <1>3, <1>4, <2>4, <2>7 DEF HandInv
<1>7. CASE sent /\ Len(flight) = 1 /\ sent' = FALSE /\ status' = "failed" /\ UNCHANGED <<phase, step>>
  <2>1. Front' = Front
    BY <1>7 DEF IInv, Front, Here
  <2>2. AclInv'
    BY <1>3, <1>5, <1>7 DEF AclInv
  <2> QED BY <1>3, <1>4, <2>1, <2>2 DEF HandInv
<1>8. CASE ~(sent /\ Len(flight) = 1) /\ UNCHANGED <<phase, step, sent, status>>
  <2>1. Front' = Front
    BY <1>3, <1>8 DEF Front, Here
  <2>2. AclInv'
    BY <1>1, <1>3, <1>4, <1>5, <1>8 DEF HandInv, AclInv
  <2> QED BY <1>3, <1>4, <2>1, <2>2 DEF HandInv
<1> QED BY <1>3, <1>6, <1>7, <1>8

\* A repeated run starts again with what there is.
LEMMA ReachedBack ==
  ASSUME NEW m, NEW i, NEW j \in Nat, 1 <= j, NEW fs, Reached(m, <<i, j>>, fs),
         NEW k \in Nat, k <= i, i \in Nat
  PROVE  Reached(m, <<k, 1>>, fs)
<1> SUFFICES ASSUME NEW a \in 1..Len(Pipeline[m]), NEW b \in 1..Len(Pipeline[m][a]), Before(<<a, b>>, <<k, 1>>)
             PROVE  Target(m, a, b, fs)
  BY DEF Reached
<1>1. a < k \/ (a = k /\ b < 1)
  BY DEF Before
<1>2. Before(<<a, b>>, <<i, j>>)
  BY <1>1 DEF Before
<1> QED BY <1>2 DEF Reached

LEMMA RestHands ==
  ASSUME IInv, HandInv, Throw \/ Die \/ Retry \/ Rerun \/ UNCHANGED vars
  PROVE  HandInv'
<1>1. CASE Throw
  <2>1. Front' = Front /\ UNCHANGED <<market, facts, phase, step, sent, flight>> /\ status' = "failed"
    BY <1>1 DEF Throw, Running, Front, Here
  <2>2. AclInv'
    BY <2>1 DEF HandInv, AclInv
  <2> QED BY <2>1, <2>2 DEF HandInv
<1>2. CASE Die
  <2>1. Front' = Front /\ UNCHANGED <<market, facts, phase, step>> /\ status' = "failed"
    BY <1>2 DEF Die, Front, Here
  <2>2. ASSUME NEW i \in 1..Len(flight')
        PROVE  i \in 1..Len(flight) /\ flight'[i] = flight[i]
    <3>1. CASE flight' = flight
      BY <2>2, <3>1
    <3>2. CASE sent /\ flight' = SubSeq(flight, 1, Len(flight) - 1)
      <4>1. flight \in Seq(Nat \X Nat) /\ Len(flight) \in Nat \ {0}
        BY <3>2 DEF IInv, FlightInv
      <4>2. Len(flight) - 1 \in 0..Len(flight)
        BY <4>1
      <4>3. /\ Len(flight') = IF 1 <= Len(flight) - 1 THEN Len(flight) - 1 - 1 + 1 ELSE 0
            /\ \A k \in 1..(Len(flight) - 1) - 1 + 1 : flight'[k] = flight[1 + k - 1]
        <5>1. \A k \in 1..Len(flight) - 1 : flight[k] \in Nat \X Nat
          BY <4>1, <4>2
        <5> QED BY <3>2, <4>2, <5>1, SubSeqProperties
      <4>4. i \in 1..(Len(flight) - 1) - 1 + 1 /\ 1 + i - 1 = i /\ i \in 1..Len(flight)
        BY <2>2, <4>1, <4>3
      <4> QED BY <4>3, <4>4
    <3> QED BY <1>2, <3>1, <3>2 DEF Die
  <2>3. AclInv'
    BY <2>1, <2>2 DEF HandInv, AclInv
  <2> QED BY <2>1, <2>3 DEF HandInv
<1>3. CASE Retry
  <2>1. /\ Front = <<phase, step>> /\ Front' = <<phase', 1>>
        /\ step' = 1 /\ UNCHANGED <<market, facts, sent, flight>>
    BY <1>3 DEF Retry, Front, Here
  <2>2. Reached(market, <<phase', 1>>, facts)
    <3>1. Reached(market, <<phase, step>>, facts)
      BY <2>1 DEF HandInv
    <3>2. phase \in Nat /\ step \in Nat /\ 1 <= step /\ phase \in 1..Len(Pipeline[market])
      BY Standing DEF Valid
    <3>3. phase' \in Nat /\ phase' <= phase
      BY <1>3, <3>2 DEF Retry, InMarketTag, MarketFirst
    <3> QED BY <3>1, <3>2, <3>3, ReachedBack
  <2>3. AclInv'
    BY <2>1 DEF HandInv, AclInv
  <2> QED BY <2>1, <2>2, <2>3 DEF HandInv
<1>4. CASE Rerun
  <2>1. Front' = <<1, 1>> /\ step' = 1 /\ UNCHANGED <<market, facts, sent, flight>>
    BY <1>4 DEF Rerun, Front, Here
  <2>2. Reached(market, <<1, 1>>, facts)
    BY DEF Reached, Before
  <2>3. AclInv'
    BY <2>1 DEF HandInv, AclInv
  <2> QED BY <2>1, <2>2, <2>3 DEF HandInv
<1>5. CASE UNCHANGED vars
  <2>1. Front' = Front /\ UNCHANGED <<market, facts, phase, step, sent, flight, status>>
    BY <1>5 DEF vars, Front, Here
  <2>2. AclInv'
    BY <2>1 DEF HandInv, AclInv
  <2> QED BY <2>1, <2>2 DEF HandInv
<1> QED BY <1>1, <1>2, <1>3, <1>4, <1>5

LEMMA InitHands == ASSUME Init PROVE HandInv
<1>1. /\ market \in Market /\ phase = 1 /\ step = 1 /\ sent = FALSE /\ flight = << >>
      /\ status = "running"
  BY DEF Init, Market
<1>2. PICK owner \in {Gov, Deployer}, reused \in {{}, Reusable(market)}, node \in {{}, {RevertsExplained}} :
        facts = (IF market = "BIL" THEN { <<"vault", r, Deployer>> : r \in VaultRole } ELSE {})
                \cup {<<"Registry", "owner", owner>>}
                \cup { Disk(a) : a \in reused }
                \cup { Initialized(a) : a \in reused \cap {"PoolConfigurator-Implementation"} }
                \cup node
  BY DEF Init
<1>3. ASSUME NEW f \in facts
      PROVE  \/ market = "BIL" /\ \E r \in VaultRole : f = Vault(r, Deployer)
             \/ f = Owner("Registry", owner)
             \/ \E a \in reused : f = Disk(a)
             \/ f = <<"PoolConfigurator-Implementation", "initialized", "set">>
             \/ f = RevertsExplained
  BY <1>2, <1>3 DEF Vault, Owner, Initialized
<1>4. "Incentives.id" \notin reused /\ "PoolAddressesProvider" \notin reused /\ "EmissionManager" \notin reused
  BY <1>2 DEF Reusable, Logics
<1>5. \A f \in facts : f[3] = Deployer => f \in Holdings(market)
  <2>1. ASSUME NEW f \in facts, f[3] = Deployer PROVE f \in Holdings(market)
    <3>1. CASE market = "BIL" /\ \E r \in VaultRole : f = Vault(r, Deployer)
      BY <3>1 DEF Holdings
    <3>2. CASE f = Owner("Registry", owner)
      <4>1. owner = Deployer
        BY <2>1, <3>2, Facts
      <4> QED BY <3>2, <4>1 DEF Holdings, Ownable
    <3>3. CASE \E a \in reused : f = Disk(a)
      BY <2>1, <3>3, OthersDiffer
    <3>4. CASE f = <<"PoolConfigurator-Implementation", "initialized", "set">>
      BY <2>1, <3>4, OthersDiffer
    <3>5. CASE f = RevertsExplained
      BY <2>1, <3>5, OthersDiffer DEF RevertsExplained
    <3> QED BY <1>3, <3>1, <3>2, <3>3, <3>4, <3>5
  <2> QED BY <2>1
<1>6. ASSUME NEW a, a \notin reused PROVE Disk(a) \notin facts
  <2> SUFFICES ASSUME Disk(a) \in facts PROVE FALSE
    OBVIOUS
  <2>1. Disk(a)[1] = "disk"
    BY OthersDiffer
  <2>2. \A r, b : Vault(r, b)[1] = "vault"
    BY DEF Vault
  <2>3. CASE \E b \in reused : Disk(a) = Disk(b)
    BY <1>6, <2>3, OthersDiffer
  <2>4. Owner("Registry", owner)[1] = "Registry" /\ RevertsExplained[1] = "node"
    BY DEF Owner, RevertsExplained
  <2> QED BY <1>3, <2>1, <2>2, <2>3, <2>4
<1>7. ASSUME NEW c, NEW a, Owner(c, a) \in facts PROVE c = "Registry" /\ a = owner
  <2>1. Owner(c, a)[2] = "owner" /\ Owner(c, a)[1] = c /\ Owner(c, a)[3] = a
    BY Facts
  <2>2. \A r \in VaultRole : Vault(r, Deployer)[2] # "owner"
    BY DEF Vault, VaultRole
  <2>3. CASE Owner(c, a) = Owner("Registry", owner)
    BY <2>1, <2>3, Facts
  <2>4. \A b \in reused : Disk(b)[2] # "owner"
    <3>1. "owner" \notin reused
      BY <1>2 DEF Reusable, Logics
    <3> QED BY <3>1 DEF Disk
  <2>5. CASE \E r \in VaultRole : Owner(c, a) = Vault(r, Deployer)
    BY <2>1, <2>2, <2>5
  <2>6. CASE \E b \in reused : Owner(c, a) = Disk(b)
    BY <2>1, <2>4, <2>6
  <2>7. CASE Owner(c, a) = <<"PoolConfigurator-Implementation", "initialized", "set">>
    BY <2>1, <2>7
  <2>8. CASE Owner(c, a) = RevertsExplained
    BY <2>1, <2>8 DEF RevertsExplained
  <2> QED BY <1>3, <1>7, <2>3, <2>5, <2>6, <2>7, <2>8
<1>8. RightsInv(market, facts)
  <2>1. Owner("Registry", owner) \in facts /\ owner \in {Gov, Deployer} /\ Gov # Deployer
    BY <1>2, OthersDiffer DEF Owner
  <2>2. \A c \in Founded : Artifact(c) \notin facts /\ c # "Registry"
    BY <1>4, <1>6 DEF Founded, Artifact
  <2>3. OwnerInv(facts)
    BY <1>7, <2>1, <2>2 DEF OwnerInv, Ownable
  <2>4. IncentivesRecord \notin facts
    BY <1>4, <1>6 DEF IncentivesRecord
  <2> QED BY <1>5, <2>3, <2>4 DEF RightsInv
<1>9. Reached(market, Front, facts)
  <2>1. Front = <<1, 1>>
    BY <1>1 DEF Front, Here
  <2> QED BY <2>1 DEF Reached, Before
<1>10. AclInv
  BY <1>1 DEF AclInv
<1> QED BY <1>8, <1>9, <1>10 DEF HandInv

LEMMA HandInvariance == Spec => []HandInv
<1>1. Init => HandInv
  BY InitHands
<1>2. IInv /\ HandInv /\ [Next]_vars => HandInv'
  <2> SUFFICES ASSUME IInv, HandInv, [Next]_vars PROVE HandInv'
    OBVIOUS
  <2>1. CASE LeaveOut
    BY <2>1, LeaveOutHands
  <2>2. CASE WriteDisk
    BY <2>2, WriteDiskHands
  <2>3. CASE Send
    BY <2>3, SendHands
  <2>4. CASE Land
    BY <2>4, LandHands
  <2>5. CASE Throw \/ Die \/ Retry \/ Rerun \/ UNCHANGED vars
    BY <2>5, RestHands
  <2> QED BY <2>1, <2>2, <2>3, <2>4, <2>5 DEF Next, Progress
<1> QED BY <1>1, <1>2, Invariance, PTL DEF Spec

\* When deploy-all.sh has run to its end, whatever died on the way, the deployer holds no
\* right and owns nothing, and governance holds every role of the market and of the vault.
THEOREM HandOverCompletes == Spec => []HandedOver
<1>1. IInv /\ HandInv => HandedOver
  <2> SUFFICES ASSUME IInv, HandInv, status = "done" PROVE HandedOver
    BY DEF HandedOver
  <2> DEFINE m == market
             T == TransferAdminToGovernance
  <2>1. /\ m \in Market /\ Len(Pipeline[m]) = Last(m)
        /\ \A i \in 1..Last(m) : \A j \in 1..Len(Pipeline[m][i]) : Target(m, i, j, facts)
    <3>1. m \in Market /\ Len(Pipeline[m]) = Last(m)
      BY Places DEF IInv
    <3>2. Reached(m, <<Last(m) + 1, 1>>, facts)
      BY <3>1 DEF HandInv, Front
    <3>3. \A i \in 1..Last(m) : i < Last(m) + 1
      BY DEF Last
    <3> QED BY <3>1, <3>2, <3>3 DEF Reached, Before
  <2>2. \A j \in 1..10 : T[j].gets \subseteq facts /\ T[j].drops \cap facts = {}
    <3>1. TransferAt(m) \in 1..Last(m) /\ Pipeline[m][TransferAt(m)] = T
      BY <2>1, Places DEF TransferAt, Last
    <3>2. ASSUME NEW j \in 1..10 PROVE T[j].gets \subseteq facts /\ T[j].drops \cap facts = {}
      <4>1. Target(m, TransferAt(m), j, facts)
        BY <2>1, <3>1, TransferSteps
      <4>2. At(m, <<TransferAt(m), j>>) = T[j]
        BY <3>1 DEF At
      <4> QED BY <4>1, <4>2 DEF Target
    <3> QED BY <3>2
  <2>3. Fact("ACL", "RISK_ADMIN", Helper)
    <3>1. GrantAt(m) \in 1..Last(m) /\ Pipeline[m][GrantAt(m)] = GrantRiskAdmin
      BY <2>1, Places DEF GrantAt, Last
    <3>2. Target(m, GrantAt(m), 1, facts) /\ At(m, <<GrantAt(m), 1>>) = GrantRiskAdmin[1]
      BY <2>1, <3>1, TransferSteps DEF At
    <3>3. GrantRiskAdmin[1].gets \subseteq facts
      BY <3>2 DEF Target
    <3> QED BY <3>3, TransferSteps DEF Fact
  <2>4. AclRights \cap facts = {}
    <3>1. RevokeAt(m) \in 1..Last(m) /\ Pipeline[m][RevokeAt(m)] = RevokeDeployer
      BY <2>1, Places DEF RevokeAt, Last
    <3>2. Target(m, RevokeAt(m), 6, facts)
      <4>1. 6 \in 1..Len(Pipeline[m][RevokeAt(m)])
        BY <3>1, RevokeGuard
      <4> QED BY <2>1, <3>1, <4>1
    <3> QED BY <3>2 DEF Target
  <2>5. m = "BIL" => \A r \in VaultRole : Vault(r, Deployer) \notin facts
    <3> SUFFICES ASSUME m = "BIL" PROVE \A r \in VaultRole : Vault(r, Deployer) \notin facts
      OBVIOUS
    <3>1. RotateAt \in 1..Last(m) /\ Pipeline[m][RotateAt] = RotateVault
      BY <2>1, Places DEF RotateAt, Last
    <3>2. ASSUME NEW j \in 8..10 PROVE RotateVault[j].drops \cap facts = {}
      <4>1. j \in 1..10 /\ j > 7
        OBVIOUS
      <4>2. Target(m, RotateAt, j, facts)
        BY <2>1, <3>1, <4>1, RotateSteps
      <4>3. At(m, <<RotateAt, j>>) = RotateVault[j]
        BY <3>1 DEF At
      <4> QED BY <4>1, <4>2, <4>3 DEF Target
    <3>3. 8 \in 8..10 /\ 9 \in 8..10 /\ 10 \in 8..10
      OBVIOUS
    <3>4. /\ RotateVault[8].drops \cap facts = {} /\ RotateVault[9].drops \cap facts = {}
          /\ RotateVault[10].drops \cap facts = {}
      BY <3>2, <3>3
    <3> QED BY <3>4, RotateEnd DEF VaultRole
  <2>6. /\ \A r \in MarketRole : Fact("ACL", r, Gov)
        /\ Fact("ACL", "EMERGENCY_ADMIN", Emergency)
    <3>1. 2 \in 1..10 /\ 3 \in 1..10 /\ 4 \in 1..10 /\ 5 \in 1..10 /\ 6 \in 1..10
      OBVIOUS
    <3>2. /\ T[2].gets \subseteq facts /\ T[3].gets \subseteq facts /\ T[4].gets \subseteq facts
          /\ T[5].gets \subseteq facts /\ T[6].gets \subseteq facts
      BY <2>2, <3>1
    <3> HIDE DEF T
    <3>3. /\ T[2].gets = {<<"ACL", "DEFAULT_ADMIN", Gov>>} /\ T[3].gets = {<<"ACL", "POOL_ADMIN", Gov>>}
          /\ T[4].gets = {<<"ACL", "RISK_ADMIN", Gov>>} /\ T[5].gets = {<<"ACL", "EMERGENCY_ADMIN", Gov>>}
          /\ T[6].gets = {<<"ACL", "EMERGENCY_ADMIN", Emergency>>}
      BY TransferSteps DEF T
    <3> QED BY <3>2, <3>3 DEF Fact, MarketRole
  <2>7. /\ AclAdmin(Gov) \in facts /\ AclAdmin(Deployer) \notin facts
        /\ \A c \in Ownable : Owner(c, Gov) \in facts /\ Owner(c, Deployer) \notin facts
    <3>1. 7 \in 1..10 /\ 8 \in 1..10 /\ 9 \in 1..10 /\ 10 \in 1..10
      OBVIOUS
    <3>2. /\ T[7].gets \subseteq facts /\ T[7].drops \cap facts = {}
          /\ T[8].gets \subseteq facts /\ T[8].drops \cap facts = {}
          /\ T[9].gets \subseteq facts /\ T[9].drops \cap facts = {}
          /\ T[10].gets \subseteq facts /\ T[10].drops \cap facts = {}
      BY <2>2, <3>1
    <3> HIDE DEF T
    <3>3. /\ T[7].gets = {AclAdmin(Gov)} /\ T[7].drops = {AclAdmin(Deployer)}
          /\ T[8].gets = {Owner("PAP", Gov)} /\ T[8].drops = {Owner("PAP", Deployer)}
          /\ T[9].gets = {Owner("EmissionManager", Gov)} /\ T[9].drops = {Owner("EmissionManager", Deployer)}
          /\ T[10].gets = {Owner("Registry", Gov)} /\ T[10].drops = {Owner("Registry", Deployer)}
      BY TransferSteps DEF Hands, T
    <3> QED BY <3>2, <3>3 DEF Ownable, Founded
  <2>8. m = "BIL" => \A r \in VaultRole : Fact("vault", r, Gov)
    <3> SUFFICES ASSUME m = "BIL" PROVE Governed(facts)
      BY DEF Governed, Fact, Vault
    <3>1. "ADMIN" \in VaultRole
      BY DEF VaultRole
    <3> QED BY <2>5, <3>1 DEF IInv, FactsInv
  <2>9. ASSUME NEW f \in facts, f[3] = Deployer PROVE FALSE
    <3>1. f \in Holdings(m)
      BY <2>9 DEF HandInv, RightsInv
    <3> QED BY <2>4, <2>5, <2>7, <2>9, <3>1 DEF Holdings
  <2> QED BY <2>3, <2>6, <2>7, <2>8, <2>9 DEF HandedOver, Fact, Owner, AclAdmin, Ownable, Founded
<1> QED BY <1>1, Invariance, HandInvariance, PTL
=============================================================================
