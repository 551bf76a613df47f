------------------------------ MODULE BILVault ------------------------------
(***************************************************************************)
(* bil-vault/src/BILVault.sol whole: the positions of PositionBook and the *)
(* queue, shares and HOLLAR of VaultLedger over one totalInvestedPrincipal.*)
(*                                                                         *)
(* The book half of a call is PositionBook's action of that name.  The     *)
(* yield the ledger prices shares with is computed from the book, so that  *)
(* HOLLAR arrives only when a position matures, is asked for and is paid.  *)
(* Decentral pays what the book expects.  Nobody pauses the vault, sends   *)
(* it tokens or changes its pools; the modules it joins have those.        *)
(***************************************************************************)
EXTENDS PositionBook

CONSTANTS
  Controllers, NoUser, MaxRequests, WAD, MAX_QUEUE_ITERATIONS, MAX_QUEUE_SKIPS,
  DEAD_SHARES, minRedeemAmount, minReinvestAmount, tvlCap, BPS,
  principalMismatchBpsThreshold, SyncDust, SyncCatchUp, MaxAccrual, MaxAssets, MaxShares

ASSUME BILVaultAssumption ==
  /\ NoUser \notin Controllers
  /\ {WAD, DEAD_SHARES, minRedeemAmount, BPS} \subseteq Nat \ {0}
  /\ {MaxRequests, MAX_QUEUE_ITERATIONS, MAX_QUEUE_SKIPS, minReinvestAmount, tvlCap,
      SyncDust, SyncCatchUp, MaxAccrual, MaxAssets, MaxShares} \subseteq Nat
  /\ principalMismatchBpsThreshold \in 0 .. BPS

VARIABLES
  queue, settledBy, queueHead, queueTail,
  totalQueuedBil, totalSettledBil, totalReservedHollar,
  idleHollar, circulating, escrow, dead, hollar,
  paused, depositsPaused

requestVars == <<queue, settledBy, queueHead, queueTail,
                 totalQueuedBil, totalSettledBil, totalReservedHollar>>
tokenVars   == <<idleHollar, circulating, escrow, dead, hollar>>
switchVars  == <<paused, depositsPaused>>
vaultVars   == <<vars, requestVars, tokenVars, switchVars>>

Ledger == INSTANCE VaultLedger
  WITH yieldValue <- YieldValue(Book), GuardianActs <- FALSE, MaxDonation <- 0

VaultInit == Init /\ Ledger!Init

-----------------------------------------------------------------------------
(* Deposits open a position of the size of the deposit.                    *)

MintShares(shares) ==
  /\ Ledger!totalSupply + shares <= MaxShares
  /\ circulating' = circulating + shares
  /\ dead' = Ledger!DeadAfterDeposit
  /\ UNCHANGED <<requestVars, idleHollar, escrow, hollar, switchVars>>

VaultDeposit(assets) ==
  /\ Ledger!validateDeposit(assets)
  /\ Ledger!previewDeposit(assets) > 0
  /\ Deposit(assets)
  /\ MintShares(Ledger!previewDeposit(assets))

VaultMint(shares) ==
  /\ Ledger!validateDeposit(Ledger!previewMint(shares))
  /\ Deposit(Ledger!previewMint(shares))
  /\ MintShares(shares)

-----------------------------------------------------------------------------
(* Calls that leave the positions alone.                                   *)

VaultRequestRedeem(c, shares) == UNCHANGED vars /\ Ledger!RequestRedeem(c, shares)

VaultCancelRedeem(id) == UNCHANGED vars /\ Ledger!CancelRedeem(id)

VaultRedeem(c, shares) == UNCHANGED vars /\ Ledger!Redeem(c, shares)

VaultWithdraw(c, assets) == UNCHANGED vars /\ Ledger!Withdraw(c, assets)

-----------------------------------------------------------------------------
(* Calls that sync maturities first and price at what the sync leaves.     *)

\* Seeded fault: the rate is the one of before the call.
RateBefore(b, idle) == Ledger!RateOf(totalInvestedPrincipal + YieldValue(Book) + idle)

\* exchangeRate() in the middle of a call that has left the book as b.
RateWith(b, idle) == Ledger!RateOf(b.invested + YieldValue(b) + idle)

VaultPokeQueue ==
  LET b == Synced(MAX_MATURITY_SYNC)
      w == Ledger!Settlement(idleHollar, RateWith(b, idleHollar))
  IN  \E accepted \in BOOLEAN :
        LET amount == IF accepted THEN Ledger!ReinvestAmount(w.used) ELSE 0
        IN  /\ PokeQueue(amount)
            /\ Ledger!ApplySettlement(w)
            /\ idleHollar' = idleHollar - w.used - amount
            /\ hollar' = hollar - amount
            /\ UNCHANGED <<circulating, escrow, dead, switchVars>>

\* Principal that comes back settles the queue; yield waits for pokeQueue, and
\* so does principal while an overdue maturity is left.
VaultPokeDecentral(i, accepts, serves) ==
  /\ PokeDecentral(i, accepts, serves)
  /\ \E yield \in {Synced(MAX_MATURITY_SYNC).pending - totalPendingYield'} :
       LET principal == totalInvestedPrincipal - totalInvestedPrincipal'
           idle      == idleHollar + yield + principal
       IN  /\ hollar' = hollar + yield + principal
           /\ IF principal > 0 /\ totalQueuedBil > 0 /\ ~HasMaturedBacklog(Book')
              THEN \E w \in {Ledger!Settlement(idle, RateWith(Book', idle))} :
                     Ledger!ApplySettlement(w) /\ idleHollar' = idle - w.used
              ELSE UNCHANGED requestVars /\ idleHollar' = idle
  /\ UNCHANGED <<circulating, escrow, dead, switchVars>>

VaultSyncMaturities(maxPositions) ==
  /\ SyncMaturities(maxPositions)
  /\ UNCHANGED <<requestVars, tokenVars, switchVars>>

-----------------------------------------------------------------------------
VenueRelease(i) == Release(i) /\ UNCHANGED <<requestVars, tokenVars, switchVars>>

VaultTick == Tick /\ UNCHANGED <<requestVars, tokenVars, switchVars>>

UserStep ==
  \/ \E n \in 1 .. tvlCap : VaultDeposit(n) \/ VaultMint(n)
  \/ \E c \in Controllers :
       \/ \E n \in 1 .. circulating : VaultRequestRedeem(c, n)
       \/ \E n \in 1 .. totalSettledBil : VaultRedeem(c, n)
       \/ \E n \in 1 .. totalReservedHollar : VaultWithdraw(c, n)
  \/ \E id \in Ledger!RequestIds : VaultCancelRedeem(id)

KeeperStep ==
  \/ VaultPokeQueue
  \/ \E i \in 1 .. MaxPositions : \E accepts, serves \in BOOLEAN :
       VaultPokeDecentral(i, accepts, serves)
  \/ \E n \in 1 .. MaxPositions : VaultSyncMaturities(n)

VenueStep == VaultTick \/ \E i \in 1 .. MaxPositions : VenueRelease(i)

VaultNext == UserStep \/ KeeperStep \/ VenueStep

VaultSpec == VaultInit /\ [][VaultNext]_vaultVars

\* The keeper pokes the positions and the queue for ever, Decentral serves and
\* pays, and time passes.  No user has to do anything.
VaultFairSpec ==
  /\ VaultSpec
  /\ WF_vaultVars(VaultTick) /\ WF_vaultVars(VaultPokeQueue)
  /\ \A i \in 1 .. MaxPositions :
       WF_vaultVars(VaultPokeDecentral(i, TRUE, TRUE)) /\ WF_vaultVars(VenueRelease(i))

-----------------------------------------------------------------------------
\* Everything the vault does to shares, HOLLAR and the queue is what VaultLedger
\* allows, whose yield moves only within SyncDust and SyncCatchUp when a call syncs
\* maturities and never in any other call: what is shown of the ledger, which
\* knows no positions, holds of the vault.
ImplementsLedger == Ledger!Init /\ [][Ledger!Next]_(Ledger!vars)

\* A redemption request is settled in full in the end, or withdrawn: the positions
\* its HOLLAR is locked in mature, are capped, asked for, paid and redeemed, and
\* what comes back is not reinvested past the queue.
EveryRequestPaid ==
  \A i \in Ledger!RequestIds :
    Ledger!Pending(queue[i]) > 0 ~> Ledger!Pending(queue[i]) = 0

=============================================================================
