------------------------------ MODULE QueueLib ------------------------------
(***************************************************************************)
(* The redemption-queue half of bil-vault/src/libraries/QueueLib.sol as    *)
(* pure operators.  The Solidity library mutates storage passed by         *)
(* reference; every operator here returns the updated pieces in a record,  *)
(* and the vault modules assign them.                                      *)
(*                                                                         *)
(* Request ids are never reused: queueTail only grows, and a deleted slot  *)
(* reads as the zero struct (Hole).  MaxRequests bounds the ids.           *)
(***************************************************************************)
EXTENDS Iteration, Sequences

CONSTANTS
  Controllers,           \* addresses that may own a redemption request
  NoUser,                \* address(0): the user field of a deleted request
  MaxRequests,           \* bound on queueTail
  WAD,                   \* fixed-point one (1e18 in the code)
  MAX_QUEUE_ITERATIONS,  \* settlement budget of one processQueue call
  MAX_QUEUE_SKIPS        \* hole / settled-entry budget of one processQueue call

ASSUME QueueLibAssumption ==
  /\ NoUser \notin Controllers
  /\ MaxRequests \in Nat
  /\ WAD \in Nat \ {0}
  /\ MAX_QUEUE_ITERATIONS \in Nat
  /\ MAX_QUEUE_SKIPS \in Nat

RequestIds == 0 .. (MaxRequests - 1)

Request ==
  [user       : Controllers \cup {NoUser},
   bilAmount  : Nat,    \* shares queued (falls on cancel and claim)
   bilSettled : Nat,    \* shares rate-locked, ready to claim
   hollarOwed : Nat]    \* HOLLAR reserved for the settled shares

Queues  == [RequestIds -> Request]
Indexes == [Controllers -> Seq(RequestIds)]

\* delete redemptionQueue[i]; also what a never-written slot reads as.
Hole == [user |-> NoUser, bilAmount |-> 0, bilSettled |-> 0, hollarOwed |-> 0]

\* Seeded fault: the settled part counted as waiting once more.
PendingWithSettled(r) == r.bilAmount

Pending(r) == r.bilAmount - r.bilSettled

\* What a request may look like at rest: no more settled than queued, HOLLAR
\* only behind settled shares, and a request without a user is an empty slot.
RequestSound(r) ==
  /\ r.bilSettled <= r.bilAmount
  /\ r.hollarOwed > 0 => r.bilSettled > 0
  /\ r.user = NoUser <=> r = Hole
  /\ r.user = NoUser <=> r.bilAmount = 0

\* The sums over all requests that the vault mirrors in its counters.
SumQueued(q)  == SumTo([i \in RequestIds |-> q[i].bilAmount], MaxRequests)
SumSettled(q) == SumTo([i \in RequestIds |-> q[i].bilSettled], MaxRequests)
SumOwed(q)    == SumTo([i \in RequestIds |-> q[i].hollarOwed], MaxRequests)

\* Remove ids[j] by moving the last element into its place (1-based j).
SwapPop(ids, j) ==
  [k \in 1 .. (Len(ids) - 1) |-> IF k = j THEN ids[Len(ids)] ELSE ids[k]]

-----------------------------------------------------------------------------
(* processQueue: lock HOLLAR for pending shares in request order.          *)

QueueWalks ==
  [queue : Queues, settledBy : Indexes, cursor : Nat, head : Nat,
   available : Nat, iterations : Nat, skips : Nat,
   used : Nat, locked : Nat, stopped : BOOLEAN]

\* Seeded fault: the cursor moves on and queueHead stays.
PassEntryOnly(w) == [w EXCEPT !.cursor = @ + 1]

\* Step past the entry under the cursor; queueHead follows while co-located.
PassEntry(w) ==
  [w EXCEPT !.cursor = @ + 1,
            !.head   = IF w.cursor = @ THEN @ + 1 ELSE @]

\* Seeded faults: index on every settlement, or only from the second on.
IndexAlways(ids, r, id)    == Append(ids, id)
IndexTooLate(ids, r, id)   == IF r.bilSettled = 0 THEN ids ELSE Append(ids, id)

\* A request is indexed the first time its bilSettled becomes non-zero.
IndexSettled(ids, r, id) == IF r.bilSettled = 0 THEN Append(ids, id) ELSE ids

Locked(r, shares, hollar) ==
  [r EXCEPT !.bilSettled = @ + shares, !.hollarOwed = @ + hollar]

\* Lock `shares` against `hollar` on the entry under the cursor.
Settle(w, shares, hollar) ==
  LET r == w.queue[w.cursor]
      b == [w.settledBy EXCEPT ![r.user] = IndexSettled(@, r, w.cursor)]
  IN  [w EXCEPT !.queue     = [w.queue EXCEPT ![w.cursor] = Locked(r, shares, hollar)],
                !.settledBy = b,
                !.used      = @ + hollar,
                !.locked    = @ + shares]

\* Seeded fault: a partial fill reserves everything that is available.
ReserveAll(part, rate, available) == available

\* HOLLAR reserved for a partial fill: the value of the locked shares, not all
\* that is available; the truncation residue stays with the vault.
PartialReserve(part, rate, available) == (part * rate) \div WAD

\* The settlement of one pending entry at `rate`.
SettleEntry(w, rate) ==
  LET r     == w.queue[w.cursor]
      value == (Pending(r) * rate) \div WAD
      part  == (w.available * WAD) \div rate
      begun == [w EXCEPT !.iterations = @ + 1]
  IN  IF value = 0 THEN [begun EXCEPT !.stopped = TRUE]
      ELSE IF w.available >= value
      THEN PassEntry([Settle(begun, Pending(r), value) EXCEPT !.available = @ - value])
      ELSE IF part = 0 THEN [begun EXCEPT !.stopped = TRUE]
      ELSE [Settle(begun, part, PartialReserve(part, rate, w.available))
              EXCEPT !.available = 0]

QueueWalkStep(w, tail, rate) ==
  IF \/ w.stopped
     \/ w.cursor >= tail
     \/ w.iterations >= MAX_QUEUE_ITERATIONS
     \/ w.skips >= MAX_QUEUE_SKIPS
  THEN w
  ELSE LET r == w.queue[w.cursor]
       IN  IF r.user = NoUser \/ r.bilSettled = r.bilAmount
           THEN [PassEntry(w) EXCEPT !.skips = @ + 1]
           ELSE IF w.available = 0 THEN [w EXCEPT !.stopped = TRUE]
           ELSE SettleEntry(w, rate)

\* Every iteration spends one unit of one of the two budgets, so their sum
\* bounds the loop.
ProcessQueue(queue, settledBy, head, tail, available, rate) ==
  Iterate([w \in QueueWalks |-> QueueWalkStep(w, tail, rate)],
          [queue |-> queue, settledBy |-> settledBy, cursor |-> head,
           head |-> head, available |-> available, iterations |-> 0,
           skips |-> 0, used |-> 0, locked |-> 0, stopped |-> FALSE],
          MAX_QUEUE_ITERATIONS + MAX_QUEUE_SKIPS)

-----------------------------------------------------------------------------
(* claimByShares / claimByAssets: draw down the controller's settled       *)
(* requests, walking its index from the back.                              *)

ClaimWalks ==
  [queue : Queues, ids : Seq(RequestIds), at : Nat,
   remaining : Nat, shares : Nat, assets : Nat]

\* Seeded fault: the paid HOLLAR stays on the request.
DrawnSharesOnly(r, shares, paid) ==
  [r EXCEPT !.bilSettled = @ - shares, !.bilAmount = @ - shares]

Drawn(r, shares, paid) ==
  [r EXCEPT !.bilSettled = @ - shares, !.bilAmount = @ - shares,
            !.hollarOwed = @ - paid]

\* A fully drained request is deleted.
Kept(r) == IF r.bilAmount = 0 THEN Hole ELSE r

\* Draw `shares` and `paid` from request i, the index entry `at`; a drained
\* request is deleted, and one with nothing claimable left leaves the index.
Draw(c, i, shares, paid) ==
  LET r == Kept(Drawn(c.queue[i], shares, paid))
  IN  [c EXCEPT !.queue  = [c.queue EXCEPT ![i] = r],
                !.ids    = IF r.bilSettled = 0 THEN SwapPop(@, c.at) ELSE @,
                !.shares = @ + shares,
                !.assets = @ + paid,
                !.at     = @ - 1]

\* A stale index entry is evicted without touching its request.
Evict(c) == [c EXCEPT !.ids = SwapPop(@, c.at), !.at = @ - 1]

Lesser(a, b) == IF a <= b THEN a ELSE b

ClaimSharesStep(c, controller) ==
  IF c.at = 0 \/ c.remaining = 0 THEN c
  ELSE LET i    == c.ids[c.at]
           r    == c.queue[i]
           take == Lesser(r.bilSettled, c.remaining)
       IN  IF r.user # controller \/ r.bilSettled = 0 THEN Evict(c)
           ELSE [Draw(c, i, take, (take * r.hollarOwed) \div r.bilSettled)
                   EXCEPT !.remaining = @ - take]

ClaimAssetsStep(c, controller) ==
  IF c.at = 0 \/ c.remaining = 0 THEN c
  ELSE LET i    == c.ids[c.at]
           r    == c.queue[i]
           take == Lesser(r.hollarOwed, c.remaining)
       IN  IF r.user # controller \/ r.hollarOwed = 0 THEN Evict(c)
           ELSE [Draw(c, i, (take * r.bilSettled) \div r.hollarOwed, take)
                   EXCEPT !.remaining = @ - take]

ClaimStart(queue, ids, amount) ==
  [queue |-> queue, ids |-> ids, at |-> Len(ids),
   remaining |-> amount, shares |-> 0, assets |-> 0]

\* The walk visits each index entry once; the caller reverts
\* (InsufficientClaimable) when `remaining` is not zero at the end.
ClaimByShares(queue, ids, controller, shares) ==
  Iterate([c \in ClaimWalks |-> ClaimSharesStep(c, controller)],
          ClaimStart(queue, ids, shares), Len(ids))

ClaimByAssets(queue, ids, controller, assets) ==
  Iterate([c \in ClaimWalks |-> ClaimAssetsStep(c, controller)],
          ClaimStart(queue, ids, assets), Len(ids))

\* maxRedeem and maxWithdraw: the claimable totals an index leads to.
SumSettledShares(queue, ids, controller) ==
  SumTo([k \in 0 .. (Len(ids) - 1) |->
           IF queue[ids[k + 1]].user = controller
           THEN queue[ids[k + 1]].bilSettled ELSE 0], Len(ids))

SumSettledAssets(queue, ids, controller) ==
  SumTo([k \in 0 .. (Len(ids) - 1) |->
           IF queue[ids[k + 1]].user = controller
           THEN queue[ids[k + 1]].hollarOwed ELSE 0], Len(ids))

-----------------------------------------------------------------------------
\* Seeded fault: the sweep does not look at what it passes.
SweepBlindly(queue, head, tail, budget) == head + Lesser(budget, tail - head)

\* Sweep queueHead over at most `budget` leading holes (used by cancelRedeem).
AdvanceQueueHead(queue, head, tail, budget) ==
  LET holes(n) == \A i \in head .. (head + n - 1) : queue[i].user = NoUser
  IN  head + CHOOSE n \in 0 .. Lesser(budget, tail - head) :
               /\ holes(n)
               /\ n < Lesser(budget, tail - head) => ~holes(n + 1)

=============================================================================
