---------------------------- MODULE PositionBook ----------------------------
(***************************************************************************)
(* The position side of bil-vault/src/BILVault.sol: the NFT positions the  *)
(* vault holds in Decentral pools, the aggregates totalAssets reads        *)
(* instead of walking them, the maturity heap that freezes each position's *)
(* yield in chronological order, and the pool registry.                    *)
(*                                                                         *)
(* A position is opened by deposit, mint or the reinvestment of pokeQueue, *)
(* capped by a maturity sync, and driven through Decentral's withdrawals   *)
(* by pokeDecentral.  Shares, idle HOLLAR, the payout breaker and pause    *)
(* belong to VaultLedger.  Places in `positions` start at 1.               *)
(***************************************************************************)
EXTENDS MaturityHeap, FiniteSets

CONSTANTS
  Pools,                    \* Decentral pools that may be registered
  poolTokenOf,              \* Pools -> the pool's NFT contract
  apyWadOf,                 \* Pools -> fixedAPYWad
  periodOf,                 \* Pools -> minimumInvestmentPeriodSeconds
  Amounts,                  \* principals that are deposited
  SHIFT,                    \* 2^128: room for a position index below the maturity
  Denominator,              \* SECONDS_PER_YEAR * WAD
  MAX_MATURITY_SYNC,        \* positions one call may cap
  MAX_POSITION_HEAD_SWEEP,  \* positions one sweep of positionHead may pass
  MaxPositions,             \* bound on the number of positions
  MaxTime                   \* bound on the clock

ASSUME PositionBookAssumption ==
  /\ apyWadOf \in [Pools -> Nat] /\ periodOf \in [Pools -> Nat]
  /\ DOMAIN poolTokenOf = Pools
  /\ Amounts \subseteq Nat \ {0}
  /\ Denominator \in Nat \ {0}
  /\ MAX_MATURITY_SYNC \in Nat \ {0} /\ MAX_POSITION_HEAD_SWEEP \in Nat
  /\ SHIFT \in Nat \ {0}
  /\ MaxPositions \in Nat /\ MaxPositions < SHIFT
  /\ MaxTime \in Nat

VARIABLES
  positions, positionHead,       \* positionHead counts the places swept past
  heap,                          \* _maturityHeap
  yieldRateSum, yieldOffsetSum,  \* over the uncapped positions
  totalPendingYield,             \* frozen and not yet paid
  totalInvestedPrincipal,
  pools,                         \* isPoolRegistered
  receivable,                    \* isRegisteredPoolToken
  activeDepositPool,
  now,                           \* block.timestamp
  payable                        \* places whose outstanding withdrawal Decentral
                                 \* has approved and whose delay is over (external)

bookVars == <<positions, heap, yieldRateSum, yieldOffsetSum, totalPendingYield,
              totalInvestedPrincipal>>
poolVars == <<pools, receivable, activeDepositPool>>
vars == <<bookVars, positionHead, poolVars, now, payable>>

States == {"Active", "YieldWithdrawalRequested", "YieldClaimed",
           "PrincipalWithdrawalRequested", "Redeemed"}

NFTPosition ==
  [pool : Pools, principal : Nat, apyWad : Nat, yieldStartTime : Nat,
   maturityTime : Nat, state : States, yieldCapped : BOOLEAN, pendingYield : Nat]

\* An entry of the heap: a maturity and the place of a position that has it.
Packed(maturity, index) == maturity * SHIFT + index
MaturityOf(entry) == entry \div SHIFT
IndexOf(entry)    == entry % SHIFT

YieldRate(p) == p.apyWad * p.principal

\* What a position has earned by time t, in units of 1/Denominator.
GrossYield(p, t) == YieldRate(p) * (t - p.yieldStartTime)

-----------------------------------------------------------------------------
(* A call works on the whole book and stores it at the end.                *)

Books ==
  [positions : Seq(NFTPosition), heap : Seq(Nat), rateSum : Int, offsetSum : Int,
   pending : Int, invested : Int]

Book ==
  [positions |-> positions, heap |-> heap,
   rateSum |-> yieldRateSum, offsetSum |-> yieldOffsetSum,
   pending |-> totalPendingYield, invested |-> totalInvestedPrincipal]

Store(b) ==
  /\ positions' = b.positions /\ heap' = b.heap
  /\ yieldRateSum' = b.rateSum /\ yieldOffsetSum' = b.offsetSum
  /\ totalPendingYield' = b.pending /\ totalInvestedPrincipal' = b.invested

\* Overdue maturities that no sync has capped yet.
HasMaturedBacklog(b) == b.heap # <<>> /\ MaturityOf(b.heap[1]) <= now

\* Seeded fault: an overdue root does not clamp the live aggregate.
UnclampedTime(b) == now

AccrualTime(b) ==
  IF b.heap # <<>> /\ MaturityOf(b.heap[1]) < now THEN MaturityOf(b.heap[1]) ELSE now

\* The accrued-yield term of totalAssets.
AccruedYield(b) ==
  LET gross == AccrualTime(b) * b.rateSum
  IN  IF gross > b.offsetSum THEN (gross - b.offsetSum) \div Denominator ELSE 0

YieldValue(b) == AccruedYield(b) + b.pending

-----------------------------------------------------------------------------
(* Maturity sync.                                                          *)

Frozen(p) ==
  [p EXCEPT !.pendingYield = GrossYield(p, p.maturityTime) \div Denominator,
            !.yieldCapped  = TRUE]

\* Seeded fault: the offset stays when a position leaves the aggregate.
CapWithoutOffset(b) ==
  LET i == IndexOf(b.heap[1])
      p == Frozen(b.positions[i])
  IN  [b EXCEPT !.positions = [b.positions EXCEPT ![i] = p],
                !.heap      = PopMaturity(@),
                !.rateSum   = @ - YieldRate(p),
                !.pending   = @ + p.pendingYield]

\* Freeze the yield of the position at the root and take it out of the aggregates.
CapEarliest(b) ==
  LET i == IndexOf(b.heap[1])
      p == Frozen(b.positions[i])
  IN  [b EXCEPT !.positions = [b.positions EXCEPT ![i] = p],
                !.heap      = PopMaturity(@),
                !.rateSum   = @ - YieldRate(p),
                !.offsetSum = @ - YieldRate(p) * p.yieldStartTime,
                !.pending   = @ + p.pendingYield]

\* processMaturities, called through _syncMaturities.
Synced(maxPositions) ==
  Iterate([b \in Books |-> IF HasMaturedBacklog(b) THEN CapEarliest(b) ELSE b],
          Book, maxPositions)

-----------------------------------------------------------------------------
(* New positions.                                                          *)

\* Seeded fault: the new position never enters the heap.
OpenedUnheaped(b, amount) ==
  LET p == [pool |-> activeDepositPool, principal |-> amount,
            apyWad |-> apyWadOf[activeDepositPool], yieldStartTime |-> now,
            maturityTime |-> now + periodOf[activeDepositPool],
            state |-> "Active", yieldCapped |-> FALSE, pendingYield |-> 0]
  IN  [b EXCEPT !.positions = Append(@, p), !.invested = @ + amount,
                !.rateSum = @ + YieldRate(p), !.offsetSum = @ + YieldRate(p) * now]

\* Seeded fault: the new position counts as if it had always been there.
OpenedFromZero(b, amount) ==
  [OpenedUnheaped(b, amount) EXCEPT
     !.offsetSum = b.offsetSum,
     !.heap = PushMaturity(@, Packed(now + periodOf[activeDepositPool],
                                     Len(b.positions) + 1))]

\* _depositIntoDecentral and _addToBucket.
Opened(b, amount) ==
  LET p == [pool |-> activeDepositPool, principal |-> amount,
            apyWad |-> apyWadOf[activeDepositPool], yieldStartTime |-> now,
            maturityTime |-> now + periodOf[activeDepositPool],
            state |-> "Active", yieldCapped |-> FALSE, pendingYield |-> 0]
  IN  [b EXCEPT !.positions = Append(@, p),
                !.invested  = @ + amount,
                !.rateSum   = @ + YieldRate(p),
                !.offsetSum = @ + YieldRate(p) * now,
                !.heap      = PushMaturity(@, Packed(p.maturityTime, Len(b.positions) + 1))]

\* The pool mints the NFT to the vault with a callback, which only the token of
\* a registered pool survives (onERC721Received).  Bounds: room for one more
\* position, and time for it to mature.
CanOpen ==
  /\ poolTokenOf[activeDepositPool] \in receivable
  /\ Len(positions) < MaxPositions
  /\ now + periodOf[activeDepositPool] <= MaxTime

\* Seeded fault: a deposit does not wait for overdue maturities.
DepositOverdue(amount) ==
  /\ CanOpen
  /\ Store(Opened(Book, amount))
  /\ UNCHANGED <<positionHead, poolVars, now, payable>>

\* deposit and mint: refused while an overdue maturity is not capped.
Deposit(amount) ==
  /\ ~HasMaturedBacklog(Book)
  /\ CanOpen
  /\ Store(Opened(Book, amount))
  /\ UNCHANGED <<positionHead, poolVars, now, payable>>

\* Seeded fault: the sweep passes positions that are still open.
SweepPositions(ps, head) ==
  IF head + MAX_POSITION_HEAD_SWEEP > Len(ps) THEN Len(ps)
  ELSE head + MAX_POSITION_HEAD_SWEEP

\* advancePositionHead: pass leading redeemed positions, within the budget.
AdvancePositionHead(ps, head) ==
  LET passable == {n \in 0 .. MAX_POSITION_HEAD_SWEEP :
                     /\ head + n <= Len(ps)
                     /\ \A i \in (head + 1) .. (head + n) : ps[i].state = "Redeemed"}
  IN  head + CHOOSE n \in passable : \A m \in passable : m <= n

\* The position half of pokeQueue: sync first, revert if a backlog remains,
\* sweep, and reinvest `amount` unless it is 0.  The pool may refuse.
PokeQueue(amount) ==
  LET b == Synced(MAX_MATURITY_SYNC)
  IN  /\ ~HasMaturedBacklog(b)
      /\ IF amount = 0 THEN Store(b) ELSE CanOpen /\ Store(Opened(b, amount))
      /\ positionHead' = AdvancePositionHead(b.positions, positionHead)
      /\ UNCHANGED <<poolVars, now, payable>>

\* Permissionless, also while the vault is paused.
SyncMaturities(maxPositions) ==
  /\ Store(Synced(maxPositions))
  /\ UNCHANGED <<positionHead, poolVars, now, payable>>

-----------------------------------------------------------------------------
(* pokeDecentral: one call falls through as many arms as it can.           *)

\* Seeded fault: the frozen yield doubles as the cap marker.
RequestUnlessDust(p, accepts) ==
  IF p.state # "Active" \/ now < p.maturityTime \/ p.pendingYield = 0 THEN p
  ELSE IF accepts THEN [p EXCEPT !.state = "YieldWithdrawalRequested"]
  ELSE p

\* Without yield there is no yield withdrawal to request.
RequestYield(p, accepts) ==
  IF p.state # "Active" \/ now < p.maturityTime \/ ~p.yieldCapped THEN p
  ELSE IF p.pendingYield = 0 THEN [p EXCEPT !.state = "YieldClaimed"]
  ELSE IF accepts THEN [p EXCEPT !.state = "YieldWithdrawalRequested"]
  ELSE p

ExecuteYield(p, pays) ==
  IF p.state = "YieldWithdrawalRequested" /\ pays
  THEN [p EXCEPT !.state = "YieldClaimed", !.pendingYield = 0]
  ELSE p

RequestPrincipal(p, accepts) ==
  IF p.state = "YieldClaimed" /\ accepts
  THEN [p EXCEPT !.state = "PrincipalWithdrawalRequested"]
  ELSE p

\* Only the withdrawal that was outstanding when the call began can be payable:
\* a new request is not approved yet.
Poked(p, accepts, pays) ==
  IF p.state = "PrincipalWithdrawalRequested"
  THEN IF pays THEN [p EXCEPT !.state = "Redeemed"] ELSE p
  ELSE RequestPrincipal(ExecuteYield(RequestYield(p, accepts), pays), accepts)

\* Each call to the pool has its own try/catch: `accepts` is whether it takes a request
\* and `serves` whether it executes a payable withdrawal.  One call of the vault makes
\* one request and one execution at most.  (\E over one value is a LET that TLC evaluates
\* once, also within ENABLED.)
PokeDecentral(i, accepts, serves) ==
  /\ i \in 1 .. Len(positions)
  /\ positions[i].state # "Redeemed"
  /\ \E b \in {Synced(MAX_MATURITY_SYNC)} :
       \E q \in {Poked(b.positions[i], accepts, serves /\ i \in payable)} :
         LET p    == b.positions[i]
             done == q.state = "Redeemed"
         IN  /\ Store([b EXCEPT !.positions = [b.positions EXCEPT ![i] = q],
                                !.pending   = @ - (p.pendingYield - q.pendingYield),
                                !.invested  = IF done THEN @ - p.principal ELSE @])
             /\ positionHead' = IF done THEN AdvancePositionHead(positions', positionHead)
                                ELSE positionHead
             /\ payable' = IF q.state # p.state THEN payable \ {i} ELSE payable
  /\ UNCHANGED <<poolVars, now>>

-----------------------------------------------------------------------------
(* The pool registry.                                                      *)

RegisterPool(p) ==
  /\ p \notin pools
  /\ pools' = pools \cup {p}
  /\ receivable' = receivable \cup {poolTokenOf[p]}
  /\ UNCHANGED <<bookVars, positionHead, activeDepositPool, now, payable>>

SetActiveDepositPool(p) ==
  /\ p \in pools
  /\ activeDepositPool' = p
  /\ UNCHANGED <<bookVars, positionHead, pools, receivable, now, payable>>

\* Only the places from positionHead on are looked at.
HasOpenPositions(p) ==
  \E i \in (positionHead + 1) .. Len(positions) :
    positions[i].state # "Redeemed" /\ positions[i].pool = p

RetirePool(p) ==
  /\ p \in pools /\ p # activeDepositPool
  /\ ~HasOpenPositions(p)
  /\ pools' = pools \ {p}
  /\ receivable' = receivable \ {poolTokenOf[p]}
  /\ UNCHANGED <<bookVars, positionHead, activeDepositPool, now, payable>>

-----------------------------------------------------------------------------
(* The environment: Decentral's operators, and the clock.                  *)

\* The outstanding withdrawal of a position becomes payable.
Release(i) ==
  /\ i \in 1 .. Len(positions) /\ i \notin payable
  /\ positions[i].state \in {"YieldWithdrawalRequested", "PrincipalWithdrawalRequested"}
  /\ payable' = payable \cup {i}
  /\ UNCHANGED <<bookVars, positionHead, poolVars, now>>

Tick ==
  /\ now < MaxTime
  /\ now' = now + 1
  /\ UNCHANGED <<bookVars, positionHead, poolVars, payable>>

Init ==
  /\ positions = <<>> /\ positionHead = 0 /\ heap = <<>>
  /\ yieldRateSum = 0 /\ yieldOffsetSum = 0
  /\ totalPendingYield = 0 /\ totalInvestedPrincipal = 0
  /\ activeDepositPool \in Pools
  /\ pools = {activeDepositPool}
  /\ receivable = {poolTokenOf[activeDepositPool]}
  /\ now = 0 /\ payable = {}

Next ==
  \/ \E a \in Amounts : Deposit(a)
  \/ \E a \in Amounts \cup {0} : PokeQueue(a)
  \/ \E n \in 1 .. MaxPositions : SyncMaturities(n)
  \/ \E i \in 1 .. MaxPositions :
       Release(i) \/ \E accepts, serves \in BOOLEAN : PokeDecentral(i, accepts, serves)
  \/ \E p \in Pools : RegisterPool(p) \/ SetActiveDepositPool(p) \/ RetirePool(p)
  \/ Tick

Spec == Init /\ [][Next]_vars

-----------------------------------------------------------------------------
Places == 1 .. Len(positions)

\* The sum of f over the positions that satisfy P, where both are functions of
\* the place.
SumWhere(P, f) == SumTo([k \in 0 .. (Len(positions) - 1) |->
                           IF P[k + 1] THEN f[k + 1] ELSE 0], Len(positions))

Uncapped == [i \in Places |-> ~positions[i].yieldCapped]
Open     == [i \in Places |-> positions[i].state # "Redeemed"]

\* The heap holds exactly the positions whose yield is still running, each once
\* and under its own maturity, with the earliest at the root.
HeapTracksUncapped ==
  /\ HeapOrdered(heap)
  /\ Entries(heap) = {Packed(positions[i].maturityTime, i) : i \in {j \in Places : Uncapped[j]}}
  /\ Len(heap) = Cardinality({j \in Places : Uncapped[j]})

\* The four aggregates totalAssets reads are exactly the sums over the positions
\* they stand for, through every order of opening, capping and redeeming.
AggregatesExact ==
  /\ yieldRateSum = SumWhere(Uncapped, [i \in Places |-> YieldRate(positions[i])])
  /\ yieldOffsetSum = SumWhere(Uncapped,
       [i \in Places |-> YieldRate(positions[i]) * positions[i].yieldStartTime])
  /\ totalPendingYield = SumWhere(Open, [i \in Places |-> positions[i].pendingYield])
  /\ totalInvestedPrincipal = SumWhere(Open, [i \in Places |-> positions[i].principal])

\* totalAssets never reports more running yield than the uncapped positions have
\* really earned, none of them earning beyond its own maturity - even when nobody
\* has synced for a long time.
NoPhantomYield ==
  LET earned == [i \in Places |->
        GrossYield(positions[i], IF now < positions[i].maturityTime THEN now
                                 ELSE positions[i].maturityTime)]
  IN  AccruedYield(Book) * Denominator <= SumWhere(Uncapped, earned)

\* Only redeemed positions are behind positionHead (INV-8), so the scan of
\* retirePool misses none, and every open position's pool stays registered
\* (INV-14), and so does the pool that deposits go to.
OpenPositionsReachable ==
  \A i \in Places : Open[i] =>
    i > positionHead /\ {positions[i].pool, activeDepositPool} \subseteq pools

NewlyCapped == {i \in Places : ~positions[i].yieldCapped /\ positions'[i].yieldCapped}

PaidOut == SumWhere([i \in Places |-> positions'[i].pendingYield < positions[i].pendingYield],
                    [i \in Places |-> positions[i].pendingYield])

\* A call never takes more yield out of the price than it pays out, but for one
\* rounding unit per position it caps: opening a position, syncing, or asking
\* for a withdrawal does not move the value of a share down.
YieldNeverLost ==
  [][now' = now =>
       YieldValue(Book') >= YieldValue(Book) - PaidOut - Cardinality(NewlyCapped)]_vars

\* Without an overdue maturity a call never raises the yield either: there is no
\* jump to buy into just before somebody syncs.
NoYieldJump ==
  [][now' = now /\ ~HasMaturedBacklog(Book) => YieldValue(Book') <= YieldValue(Book)]_vars

=============================================================================
