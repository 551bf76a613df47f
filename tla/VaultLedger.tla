---------------------------- MODULE VaultLedger ----------------------------
(***************************************************************************)
(* The share and HOLLAR ledger of bil-vault/src/BILVault.sol together with *)
(* its asynchronous redemption queue.                                      *)
(*                                                                         *)
(* One EVM transaction is one action; a call that reverts changes nothing  *)
(* and is therefore an action that is not enabled.  Checked arithmetic is  *)
(* written as plain subtraction: TypeOK keeps every counter in Nat, which  *)
(* says that no subtraction of the code ever underflows.                   *)
(*                                                                         *)
(* Abstractions, each exact for what this module observes:                 *)
(*  - share balances are aggregated into the vault's escrow, the burned    *)
(*    dead shares and everybody else's circulating shares;                 *)
(*  - a claim may go to any receiver, since the controller itself may      *)
(*    always name one: authorisation decides who calls, not what happens;  *)
(*  - what Decentral holds is totalInvestedPrincipal plus yieldValue, the  *)
(*    sum of accrued and pending yield.  It moves by environment actions;  *)
(*    positions, maturities and time are the subject of PositionBook.      *)
(***************************************************************************)
EXTENDS QueueLib

CONSTANTS
  DEAD_SHARES,                    \* shares burned by the first deposit
  minRedeemAmount,                \* smallest redemption request
  minReinvestAmount,              \* smallest reinvestment
  tvlCap,                         \* cap on new principal
  BPS,                            \* 10_000: basis points in one
  principalMismatchBpsThreshold,  \* tolerated payout shortfall, in bps
  SyncDust,                       \* yield a maturity sync may round away: 0 where a
                                  \* unit of the model stands for many wei
  SyncCatchUp,                    \* yield a maturity sync may reveal at once
  MaxAccrual,                     \* bound: yield that accrues in one step
  MaxAssets,                      \* bound: gains occur while totalAssets is below
  MaxShares,                      \* bound: deposits keep totalSupply within
  MaxDonation,                    \* bound on shares and HOLLAR sent to the vault unasked
  GuardianActs                    \* whether the pause switches are ever used

ASSUME VaultLedgerAssumption ==
  /\ DEAD_SHARES \in Nat \ {0}
  /\ minRedeemAmount \in Nat \ {0}
  /\ minReinvestAmount \in Nat
  /\ tvlCap \in Nat
  /\ BPS \in Nat \ {0}
  /\ principalMismatchBpsThreshold \in 0 .. BPS
  /\ SyncDust \in Nat /\ SyncCatchUp \in Nat /\ MaxAccrual \in Nat
  /\ MaxAssets \in Nat /\ MaxShares \in Nat /\ MaxDonation \in Nat
  /\ GuardianActs \in BOOLEAN

VARIABLES
  queue,                   \* redemptionQueue
  settledBy,               \* _settledByController
  queueHead, queueTail,
  totalQueuedBil, totalSettledBil, totalReservedHollar,
  idleHollar,
  totalInvestedPrincipal,
  yieldValue,              \* accrued + pending yield of the live positions
  circulating,             \* shares held outside the vault and 0xdead
  escrow,                  \* balanceOf(address(this)), in shares
  dead,                    \* balanceOf(0xdead)
  hollar,                  \* hollar.balanceOf(address(this))
  paused, depositsPaused

queueVars  == <<queue, settledBy, queueHead, queueTail>>
totalVars  == <<totalQueuedBil, totalSettledBil, totalReservedHollar>>
venueVars  == <<totalInvestedPrincipal, yieldValue>>
shareVars  == <<circulating, escrow, dead>>
hollarVars == <<idleHollar, hollar>>
flagVars   == <<paused, depositsPaused>>
vars == <<queueVars, totalVars, venueVars, shareVars, hollarVars, flagVars>>

-----------------------------------------------------------------------------
(* Accounting views.                                                       *)

totalSupply == circulating + escrow + dead

totalAssets ==
  totalInvestedPrincipal + yieldValue + idleHollar + totalReservedHollar

\* Settled shares have left: neither they nor their reserve price the others.
activeAssets == totalAssets - totalReservedHollar

activeSupply ==
  IF totalSupply > totalSettledBil THEN totalSupply - totalSettledBil ELSE 0

RateOf(assets) ==
  IF activeSupply = 0 THEN WAD ELSE (assets * WAD) \div activeSupply

exchangeRate == RateOf(activeAssets)

\* Shares a deposit of `assets` mints; 0 stands for the two reverts
\* DepositTooSmall and VaultEmpty.
previewDeposit(assets) ==
  IF totalSupply = 0
  THEN IF assets <= DEAD_SHARES THEN 0 ELSE assets - DEAD_SHARES
  ELSE IF activeAssets = 0 \/ activeSupply = 0 THEN 0
  ELSE (assets * activeSupply) \div activeAssets

previewMint(shares) ==
  IF activeSupply = 0 THEN shares + DEAD_SHARES
  ELSE (shares * activeAssets + activeSupply - 1) \div activeSupply

maxRedeem(c)   == SumSettledShares(queue, settledBy[c], c)
maxWithdraw(c) == SumSettledAssets(queue, settledBy[c], c)

-----------------------------------------------------------------------------
Init ==
  /\ queue = [i \in RequestIds |-> Hole]
  /\ settledBy = [c \in Controllers |-> <<>>]
  /\ queueHead = 0 /\ queueTail = 0
  /\ totalQueuedBil = 0 /\ totalSettledBil = 0 /\ totalReservedHollar = 0
  /\ idleHollar = 0
  /\ totalInvestedPrincipal = 0 /\ yieldValue = 0
  /\ circulating = 0 /\ escrow = 0 /\ dead = 0
  /\ hollar = 0
  /\ paused = FALSE /\ depositsPaused = FALSE

(* Deposits.  The HOLLAR goes straight through the vault into Decentral;   *)
(* a refusing pool reverts the call.                                       *)

validateDeposit(assets) ==
  /\ ~depositsPaused
  /\ assets # 0
  /\ totalAssets + assets <= tvlCap

\* Seeded fault: the first depositor mints no dead shares.
NoDeadShares == dead

DeadAfterDeposit == IF totalSupply = 0 THEN DEAD_SHARES ELSE dead

TakeDeposit(assets, shares) ==
  /\ totalSupply + shares <= MaxShares
  /\ circulating' = circulating + shares
  /\ dead' = DeadAfterDeposit
  /\ totalInvestedPrincipal' = totalInvestedPrincipal + assets
  /\ UNCHANGED <<queueVars, totalVars, yieldValue, escrow, hollarVars, flagVars>>

Deposit(assets) ==
  /\ ~paused
  /\ validateDeposit(assets)
  /\ previewDeposit(assets) > 0
  /\ TakeDeposit(assets, previewDeposit(assets))

Mint(shares) ==
  /\ ~paused
  /\ shares # 0
  /\ validateDeposit(previewMint(shares))
  /\ TakeDeposit(previewMint(shares), shares)

-----------------------------------------------------------------------------
(* Redemption requests.                                                    *)

\* Seeded fault: shares are queued without being taken from their owner.
NoTransfer(n) == n <= circulating /\ UNCHANGED <<circulating, escrow>>

\* ERC-20 _transfer(owner, address(this), n).
TransferToVault(n) ==
  /\ n <= circulating
  /\ circulating' = circulating - n
  /\ escrow' = escrow + n

RequestRedeem(controller, shares) ==
  /\ ~paused
  /\ shares >= minRedeemAmount
  /\ queueTail < MaxRequests
  /\ queue' = [queue EXCEPT ![queueTail] =
                 [user |-> controller, bilAmount |-> shares,
                  bilSettled |-> 0, hollarOwed |-> 0]]
  /\ queueTail' = queueTail + 1
  /\ totalQueuedBil' = totalQueuedBil + shares
  /\ TransferToVault(shares)
  /\ UNCHANGED <<settledBy, queueHead, totalSettledBil, totalReservedHollar,
                 venueVars, dead, hollarVars, flagVars>>

\* Not guarded by pause.  Returns the unsettled shares; a request with
\* nothing settled is deleted and, at the head, swept past.
CancelRedeem(id) ==
  LET r      == queue[id]
      shrunk == IF r.bilSettled = 0 THEN Hole ELSE [r EXCEPT !.bilAmount = r.bilSettled]
  IN  /\ id < queueTail
      /\ r.user # NoUser
      /\ queue' = [queue EXCEPT ![id] = shrunk]
      /\ totalQueuedBil' = totalQueuedBil - Pending(r)
      /\ escrow' = escrow - Pending(r)
      /\ circulating' = circulating + Pending(r)
      /\ queueHead' = IF r.bilSettled = 0 /\ id = queueHead
                      THEN AdvanceQueueHead(queue', queueHead, queueTail,
                                            MAX_QUEUE_ITERATIONS)
                      ELSE queueHead
      /\ UNCHANGED <<settledBy, queueTail, totalSettledBil, totalReservedHollar,
                     venueVars, dead, hollarVars, flagVars>>

-----------------------------------------------------------------------------
(* Claims: burn settled shares, pay out their reserved HOLLAR.             *)

ApplyClaim(controller, c) ==
  /\ c.remaining = 0
  /\ queue' = c.queue
  /\ settledBy' = [settledBy EXCEPT ![controller] = c.ids]
  /\ escrow' = escrow - c.shares
  /\ totalQueuedBil' = totalQueuedBil - c.shares
  /\ totalSettledBil' = totalSettledBil - c.shares
  /\ totalReservedHollar' = totalReservedHollar - c.assets
  /\ hollar' = hollar - c.assets
  /\ UNCHANGED <<queueHead, queueTail, venueVars, circulating, dead, idleHollar,
                 flagVars>>

Redeem(controller, shares) ==
  /\ ~paused
  /\ shares # 0
  /\ ApplyClaim(controller,
                ClaimByShares(queue, settledBy[controller], controller, shares))

Withdraw(controller, assets) ==
  /\ ~paused
  /\ assets # 0
  /\ ApplyClaim(controller,
                ClaimByAssets(queue, settledBy[controller], controller, assets))

-----------------------------------------------------------------------------
(* Settlement: pokeQueue, and the tail of pokeDecentral.                   *)

\* _processQueueWithHollar on `available` HOLLAR at `rate`.
Settlement(available, rate) ==
  ProcessQueue(queue, settledBy, queueHead, queueTail, available, rate)

ApplySettlement(w) ==
  /\ queue' = w.queue
  /\ settledBy' = w.settledBy
  /\ queueHead' = w.head
  /\ totalReservedHollar' = totalReservedHollar + w.used
  /\ totalSettledBil' = totalSettledBil + w.locked
  /\ UNCHANGED <<queueTail, totalQueuedBil>>

\* What _reinvest would move into Decentral: nothing unless the queue made no
\* progress, deposits are open, and the amount the cap leaves is large enough.
ReinvestAmount(used) ==
  LET room   == IF totalInvestedPrincipal < tvlCap
                THEN tvlCap - totalInvestedPrincipal ELSE 0
      amount == Lesser(idleHollar, room)
  IN  IF /\ used = 0 /\ ~depositsPaused
         /\ idleHollar >= minReinvestAmount
         /\ room > 0 /\ amount >= minReinvestAmount
      THEN amount ELSE 0

\* What syncMaturities can make of the yield: a position that is due leaves the
\* running aggregate with its own yield rounded down, which can cost the sum up
\* to SyncDust, and the aggregate, clamped to the earliest maturity until then, may
\* catch up with the clock.
SyncedYields ==
  {y \in (yieldValue - SyncDust) .. (yieldValue + SyncCatchUp) :
     /\ y >= 0
     /\ y > yieldValue => totalInvestedPrincipal > 0 /\ totalAssets < MaxAssets}

\* Maturities are synced first.  The pool may refuse a reinvestment; the HOLLAR
\* then stays idle.
PokeQueue ==
  /\ ~paused
  /\ \E synced \in SyncedYields : \E accepted \in BOOLEAN :
       LET w      == Settlement(idleHollar, RateOf(totalInvestedPrincipal + synced + idleHollar))
           amount == IF accepted THEN ReinvestAmount(w.used) ELSE 0
       IN  /\ ApplySettlement(w)
           /\ idleHollar' = idleHollar - w.used - amount
           /\ totalInvestedPrincipal' = totalInvestedPrincipal + amount
           /\ hollar' = hollar - amount
           /\ yieldValue' = synced
           /\ UNCHANGED <<shareVars, flagVars>>

-----------------------------------------------------------------------------
(* Decentral, as seen from the ledger (external).                          *)

\* The circuit breaker of pokeDecentral: only a large shortfall trips it.
ShortfallTolerated(expected, received) ==
  received < expected =>
    ((expected - received) * BPS) \div expected <= principalMismatchBpsThreshold

\* Seeded fault: the recorded amount is credited, whatever was paid.
CreditExpected(expected, received) == expected

\* The measured change of the vault's HOLLAR balance is what becomes idle.
Credit(expected, received) == received

\* Time passes: accrued yield grows.
AccrueYield ==
  /\ totalInvestedPrincipal > 0
  /\ totalAssets < MaxAssets
  /\ \E n \in 1 .. MaxAccrual : yieldValue' = yieldValue + n
  /\ UNCHANGED <<queueVars, totalVars, totalInvestedPrincipal, shareVars,
                 hollarVars, flagVars>>

\* syncMaturities, and a pokeDecentral that pays nothing yet.
SyncMaturities ==
  /\ yieldValue' \in SyncedYields
  /\ UNCHANGED <<queueVars, totalVars, totalInvestedPrincipal, shareVars,
                 hollarVars, flagVars>>

\* pokeDecentral, yield arm: pending yield becomes idle HOLLAR, and the queue
\* is not processed.
ClaimYield(expected, received) ==
  /\ ~paused
  /\ expected > 0
  /\ ShortfallTolerated(expected, received)
  /\ \E synced \in SyncedYields :
       /\ expected <= synced
       /\ yieldValue' = synced - expected
  /\ idleHollar' = idleHollar + Credit(expected, received)
  /\ hollar' = hollar + received
  /\ UNCHANGED <<queueVars, totalVars, totalInvestedPrincipal, shareVars, flagVars>>

\* Seeded fault: the rate is the one of before the payout.
RateBeforePayout(idle) == RateOf(totalInvestedPrincipal + yieldValue' + idleHollar)

\* exchangeRate() once the principal is out of the books and the payout idle.
PayoutRate(idle) == RateOf(totalInvestedPrincipal' + yieldValue' + idle)

\* pokeDecentral, principal arm: the position's principal becomes idle HOLLAR
\* and, unless overdue maturities remain, settles the queue at the new rate.
ClaimPrincipal(expected, received, backlog) ==
  LET idle   == idleHollar + Credit(expected, received)
      settle == totalQueuedBil > 0 /\ idle > 0 /\ ~backlog
  IN  /\ ~paused
      /\ expected \in 1 .. totalInvestedPrincipal
      /\ ShortfallTolerated(expected, received)
      /\ totalInvestedPrincipal' = totalInvestedPrincipal - expected
      /\ hollar' = hollar + received
      /\ yieldValue' \in SyncedYields
      /\ LET w == Settlement(idle, PayoutRate(idle))
         IN  IF settle
             THEN ApplySettlement(w) /\ idleHollar' = idle - w.used
             ELSE UNCHANGED <<queueVars, totalVars>> /\ idleHollar' = idle
      /\ UNCHANGED <<shareVars, flagVars>>

-----------------------------------------------------------------------------
(* Unsolicited transfers, and the guardian's switches.                     *)

DonateShares(n) ==
  /\ escrow + n <= totalQueuedBil + MaxDonation
  /\ TransferToVault(n)
  /\ UNCHANGED <<queueVars, totalVars, venueVars, dead, hollarVars, flagVars>>

DonateHollar(n) ==
  /\ hollar + n <= idleHollar + totalReservedHollar + MaxDonation
  /\ hollar' = hollar + n
  /\ UNCHANGED <<queueVars, totalVars, venueVars, shareVars, idleHollar, flagVars>>

SetPaused(b) ==
  /\ GuardianActs /\ paused # b
  /\ paused' = b
  /\ UNCHANGED <<queueVars, totalVars, venueVars, shareVars, hollarVars, depositsPaused>>

SetDepositsPaused(b) ==
  /\ GuardianActs /\ depositsPaused # b
  /\ depositsPaused' = b
  /\ UNCHANGED <<queueVars, totalVars, venueVars, shareVars, hollarVars, paused>>

-----------------------------------------------------------------------------
UserStep ==
  \/ \E n \in 1 .. tvlCap : Deposit(n) \/ Mint(n)
  \/ \E c \in Controllers :
       \/ \E n \in 1 .. circulating : RequestRedeem(c, n)
       \/ \E n \in 1 .. totalSettledBil : Redeem(c, n)
       \/ \E n \in 1 .. totalReservedHollar : Withdraw(c, n)
  \/ \E id \in RequestIds : CancelRedeem(id)

\* What Decentral may pay when `expected` is due: all, less, or one unit more.
Payouts(expected) ==
  0 .. (IF totalAssets < MaxAssets THEN expected + 1 ELSE expected)

VenueStep ==
  \/ AccrueYield
  \/ SyncMaturities
  \/ \E e \in 1 .. (yieldValue + SyncCatchUp) : \E r \in Payouts(e) : ClaimYield(e, r)
  \/ \E e \in 1 .. totalInvestedPrincipal : \E r \in Payouts(e) :
       \E backlog \in BOOLEAN : ClaimPrincipal(e, r, backlog)

OtherStep ==
  \/ \E n \in 1 .. MaxDonation : DonateShares(n) \/ DonateHollar(n)
  \/ \E b \in BOOLEAN : SetPaused(b) \/ SetDepositsPaused(b)

Next == UserStep \/ PokeQueue \/ VenueStep \/ OtherStep

Spec == Init /\ [][Next]_vars

-----------------------------------------------------------------------------
TypeOK ==
  /\ queue \in Queues
  /\ settledBy \in Indexes
  /\ queueHead \in 0 .. queueTail
  /\ queueTail \in 0 .. MaxRequests
  /\ totalQueuedBil \in Nat /\ totalSettledBil \in Nat
  /\ totalReservedHollar \in Nat /\ idleHollar \in Nat
  /\ totalInvestedPrincipal \in Nat /\ yieldValue \in Nat
  /\ circulating \in Nat /\ escrow \in Nat /\ dead \in Nat
  /\ hollar \in Nat
  /\ paused \in BOOLEAN /\ depositsPaused \in BOOLEAN

-----------------------------------------------------------------------------
(* Safety.                                                                 *)

\* The three vault-wide counters are exactly the sums over the live requests
\* (INV-10, INV-11 and INV-13 of test/invariant/InvariantVault.t.sol): no
\* interleaving of requests, cancels, partial settlements and partial claims
\* lets a counter drift from the entries it summarises.
CountersMatchEntries ==
  /\ totalQueuedBil      = SumQueued(queue)
  /\ totalSettledBil     = SumSettled(queue)
  /\ totalReservedHollar = SumOwed(queue)

\* Every queued share is in escrow (INV-3), so the burn of a claim and the
\* refund of a cancel always find the shares they move.
EscrowBacked == escrow >= totalQueuedBil

\* The vault's token balance covers idle and reserved HOLLAR (INV-12): money
\* locked for a settled redeemer is never spent on a reinvestment.
HollarBacked == hollar >= idleHollar + totalReservedHollar

\* Per-request consistency (INV-13): no more settled than queued, HOLLAR only
\* behind settled shares, and a deleted or future slot is empty.
RequestsConsistent ==
  \A i \in RequestIds :
    RequestSound(queue[i]) /\ (i >= queueTail => queue[i] = Hole)

\* Nothing pending is left behind queueHead, where no settlement would ever
\* look at it again.
HeadPrefixDone ==
  \A i \in RequestIds : i < queueHead => Pending(queue[i]) = 0

\* The per-controller index (_settledByController) holds every request with
\* settled shares exactly once, so a claim can reach all of them and maxRedeem
\* counts none twice.
IndexExact ==
  \A i \in RequestIds : \A c \in Controllers :
    LET places == {k \in 1 .. Len(settledBy[c]) : settledBy[c][k] = i}
    IN  IF queue[i].user = c /\ queue[i].bilSettled > 0
        THEN \E k \in places : places = {k}
        ELSE places = {}

\* maxRedeem and maxWithdraw tell the truth: claiming exactly that much
\* succeeds, and by either route drains the controller's whole reserve.
MaxClaimsHonoured ==
  \A c \in Controllers :
    LET byShares == ClaimByShares(queue, settledBy[c], c, maxRedeem(c))
        byAssets == ClaimByAssets(queue, settledBy[c], c, maxWithdraw(c))
    IN  /\ byShares.remaining = 0 /\ byShares.assets = maxWithdraw(c)
        /\ byAssets.remaining = 0 /\ byAssets.shares = maxRedeem(c)
        /\ \A i \in RequestIds : queue[i].user = c =>
             byShares.queue[i].hollarOwed = 0 /\ byAssets.queue[i].hollarOwed = 0

\* The dead shares keep the rate's denominator away from zero for ever, even
\* when every other share has been settled.
ActiveSupplyKept == totalSupply > 0 => activeSupply >= DEAD_SHARES

\* What is the vault's, by its token balance and by Decentral's records.
Holdings == hollar + totalInvestedPrincipal + yieldValue

\* No call lowers the value of an active share (compared exactly, as assets/supply),
\* but for what Decentral does in it: the yield that a sync rounds away or catches up,
\* and in a pokeDecentral what is paid short of the record, or beyond it.  After
\* that, no deposit, claim or settlement takes value from the shares that stay, neither
\* pokeQueue's settlement nor the one inside a pokeDecentral that pays short.
CallsNeverLowerRate ==
  [][LET gain == IF VenueStep THEN Holdings' - Holdings ELSE yieldValue' - yieldValue
     IN  activeAssets' * activeSupply >= (activeAssets + gain) * activeSupply']_vars

\* First come, first settled: shares of a later request are locked only when
\* nothing older is still waiting.
SettlementIsFifo ==
  [][\A j \in RequestIds : queue'[j].bilSettled > queue[j].bilSettled =>
       \A i \in RequestIds : i < j => Pending(queue'[i]) = 0]_vars

OwedTo(c) ==
  SumTo([i \in RequestIds |-> IF queue[i].user = c THEN queue[i].hollarOwed ELSE 0],
        MaxRequests)

\* HOLLAR leaves the vault only into Decentral or as one controller's claim,
\* which lowers that controller's reserve by exactly the amount paid and no
\* other controller's requests at all.
ClaimsPayOwnReserve ==
  [][LET paid == (hollar - hollar') - (totalInvestedPrincipal' - totalInvestedPrincipal)
     IN  hollar' < hollar /\ paid # 0 =>
           \E c \in Controllers :
             /\ OwedTo(c)' = OwedTo(c) - paid
             /\ \A i \in RequestIds : queue[i].user # c => queue'[i] = queue[i]]_vars

-----------------------------------------------------------------------------
(* Liveness, under the fairness of the keeper (module Keeper).             *)

\* A waiting request is eventually settled in full, or withdrawn by its owner.
EveryRequestSettles ==
  \A i \in RequestIds : Pending(queue[i]) > 0 ~> Pending(queue[i]) = 0

-----------------------------------------------------------------------------
(* What the comments and documents say and the code does not do.           *)

\* BILVault.sol, maxWithdraw: "returns the value of all settled-but-unclaimed
\* requests for the caller".  Below par a partial fill can settle one unit of
\* share for no HOLLAR; withdraw evicts that request from the index, and what
\* is settled on it afterwards is never indexed again.
ReserveReachable == \A c \in Controllers : maxWithdraw(c) = OwedTo(c)

=============================================================================
