--------------------------- MODULE BILVaultProofs ---------------------------
(***************************************************************************)
(* Proofs about the vault and its positions, for any pools, amounts,       *)
(* periods and budgets.  First of PositionBook: no open position falls     *)
(* behind positionHead or loses its pool; the aggregates are sums over the *)
(* positions and the heap names the uncapped ones; totalAssets reports no  *)
(* yield that was not earned, loses none and does not jump.  Then of       *)
(* BILVault: it implements VaultLedger, and inherits what is proved of it. *)
(*                                                                         *)
(* A sync is a loop over whole books, whose body pops the heap, finds the  *)
(* position the root stands for and replaces it.  Reachability needs that  *)
(* every entry of the heap stands for some position (SoundBook); the rest  *)
(* needs that it is the right one, and the earliest (ExactBook).           *)
(***************************************************************************)
EXTENDS BILVault, IterationProofs, FiniteSetTheorems, FunctionTheorems

-----------------------------------------------------------------------------
(* Entries of the heap.                                                    *)

\* Packing a maturity and an index and taking the index out again.
LEMMA IndexOfPacked ==
  ASSUME NEW m \in Nat, NEW i \in Nat, i < SHIFT
  PROVE  Packed(m, i) \in Nat /\ IndexOf(Packed(m, i)) = i /\ MaturityOf(Packed(m, i)) = m
<1>1. SHIFT \in Nat \ {0}
  BY PositionBookAssumption
<1>2. m * SHIFT \in Nat
  BY <1>1
<1>3. PICK x \in Nat : x = m * SHIFT + i
  BY <1>2
<1>4. x = SHIFT * (x \div SHIFT) + (x % SHIFT) /\ x \div SHIFT \in Int /\ x % SHIFT \in 0 .. (SHIFT - 1)
  BY <1>1, <1>3
<1> DEFINE d == m - (x \div SHIFT)
<1>5. d \in Int /\ SHIFT * d = (x % SHIFT) - i
  BY <1>1, <1>3, <1>4
<1>6. d = 0
  <2> HIDE DEF d
  <2>1. ~(d >= 1)
    BY <1>1, <1>4, <1>5
  <2>2. ~(d <= -1)
    BY <1>1, <1>4, <1>5
  <2> QED BY <1>5, <2>1, <2>2
<1>7. x \div SHIFT = m /\ x % SHIFT = i
  BY <1>1, <1>2, <1>3, <1>4, <1>5, <1>6
<1> QED BY <1>2, <1>3, <1>7 DEF Packed, IndexOf, MaturityOf

\* Entries are ordered by maturity first.
LEMMA PackedOrder ==
  ASSUME NEW m \in Nat, NEW n \in Nat, NEW i \in Nat, NEW j \in Nat, j < SHIFT,
         Packed(m, i) <= Packed(n, j)
  PROVE  m <= n
<1>1. SHIFT \in Nat \ {0}
  BY PositionBookAssumption
<1>2. m * SHIFT + i <= n * SHIFT + j
  BY DEF Packed
<1> SUFFICES ASSUME m >= n + 1 PROVE FALSE
  OBVIOUS
<1> DEFINE d == m - n
<1>3. d \in Nat /\ d >= 1 /\ m = n + d
  OBVIOUS
<1> HIDE DEF d
<1>4. m * SHIFT = n * SHIFT + d * SHIFT
  BY <1>1, <1>3
<1>5. d * SHIFT >= SHIFT
  BY <1>1, <1>3
<1>6. m * SHIFT \in Int /\ n * SHIFT \in Int /\ d * SHIFT \in Int
  BY <1>1, <1>3
<1> QED BY <1>1, <1>2, <1>4, <1>5, <1>6

-----------------------------------------------------------------------------
(* Books.                                                                  *)

\* Heap entries that stand for one of n positions.
EntriesFor(n) == {e \in Nat : IndexOf(e) \in 1 .. n}

\* A book whose heap stands for its positions, none of which matures before it
\* is opened.
SoundBook(b) ==
  /\ b \in Books
  /\ b.heap \in Seq(EntriesFor(Len(b.positions)))
  /\ \A i \in 1 .. Len(b.positions) :
       b.positions[i].yieldStartTime <= b.positions[i].maturityTime

\* The same positions as far as the head and the registry can tell.
Agree(ps, qs) ==
  /\ Len(qs) = Len(ps)
  /\ \A i \in 1 .. Len(ps) : qs[i].pool = ps[i].pool /\ qs[i].state = ps[i].state

\* Earning is a product of naturals, so what is frozen is a natural.
LEMMA FrozenSound ==
  ASSUME NEW p \in NFTPosition, p.yieldStartTime <= p.maturityTime
  PROVE  /\ Frozen(p) \in NFTPosition
         /\ Frozen(p).pool = p.pool /\ Frozen(p).state = p.state
         /\ Frozen(p).yieldStartTime = p.yieldStartTime
         /\ Frozen(p).maturityTime = p.maturityTime
<1>1. \A a, d \in Nat : a * d \in Nat
  OBVIOUS
<1>2. YieldRate(p) \in Nat
  BY <1>1 DEF YieldRate, NFTPosition
<1>3. GrossYield(p, p.maturityTime) \in Nat
  <2>1. p.maturityTime - p.yieldStartTime \in Nat
    BY DEF NFTPosition
  <2> QED BY <1>1, <1>2, <2>1 DEF GrossYield
<1> DEFINE y == GrossYield(p, p.maturityTime) \div Denominator
<1>4. y \in Nat
  <2>1. \A a \in Nat, d \in Nat \ {0} : a \div d \in Nat
    OBVIOUS
  <2> QED BY <1>3, <2>1, PositionBookAssumption
<1>5. Frozen(p) = [p EXCEPT !.pendingYield = y, !.yieldCapped = TRUE]
  BY DEF Frozen
<1> HIDE DEF y
<1> QED BY <1>4, <1>5 DEF NFTPosition

\* Replacing a position by one of the same pool and times keeps the book sound.
LEMMA ReplaceSound ==
  ASSUME NEW b, SoundBook(b), NEW i \in 1 .. Len(b.positions), NEW q \in NFTPosition,
         q.yieldStartTime <= q.maturityTime
  PROVE  LET ps == [b.positions EXCEPT ![i] = q]
         IN  /\ ps \in Seq(NFTPosition) /\ Len(ps) = Len(b.positions)
             /\ \A j \in 1 .. Len(ps) : /\ ps[j] = IF j = i THEN q ELSE b.positions[j]
                                        /\ ps[j].yieldStartTime <= ps[j].maturityTime
<1>1. b.positions \in Seq(NFTPosition)
  BY DEF SoundBook, Books
<1> DEFINE ps == [b.positions EXCEPT ![i] = q]
<1>2. /\ ps \in Seq(NFTPosition) /\ Len(ps) = Len(b.positions)
      /\ \A j \in 1 .. Len(ps) : ps[j] = IF j = i THEN q ELSE b.positions[j]
  BY <1>1, ExceptSeq
<1> HIDE DEF ps
<1>3. \A j \in 1 .. Len(ps) : ps[j].yieldStartTime <= ps[j].maturityTime
  BY <1>2 DEF SoundBook
<1> QED BY <1>2, <1>3 DEF ps

LEMMA CapSound ==
  ASSUME NEW b, SoundBook(b), b.heap # <<>>
  PROVE  SoundBook(CapEarliest(b)) /\ Agree(b.positions, CapEarliest(b).positions)
<1> DEFINE n == Len(b.positions)
           i == IndexOf(b.heap[1])
           old == b.positions[i]
           p == Frozen(old)
           ps == [b.positions EXCEPT ![i] = p]
           h == PopMaturity(b.heap)
<1>1. /\ b \in Books /\ b.positions \in Seq(NFTPosition) /\ n \in Nat
      /\ b.rateSum \in Int /\ b.offsetSum \in Int /\ b.pending \in Int
  <2>1. b \in Books /\ b.positions \in Seq(NFTPosition)
    BY DEF SoundBook, Books
  <2>2. n \in Nat
    BY <2>1, LenProperties
  <2> QED BY <2>1, <2>2 DEF Books
<1>2. b.heap \in Seq(EntriesFor(n)) /\ EntriesFor(n) \subseteq Nat
  BY DEF SoundBook, EntriesFor
<1>3. i \in 1 .. n
  <2>1. Len(b.heap) \in Nat \ {0}
    BY <1>2, EmptySeq
  <2>2. b.heap[1] \in EntriesFor(n)
    BY <1>2, <2>1, ElementOfSeq
  <2> QED BY <2>2 DEF EntriesFor
<1>4. old \in NFTPosition /\ old.yieldStartTime <= old.maturityTime
  BY <1>1, <1>3, ElementOfSeq DEF SoundBook
<1>5. /\ p \in NFTPosition /\ p.pool = old.pool /\ p.state = old.state
      /\ p.yieldStartTime = old.yieldStartTime /\ p.maturityTime = old.maturityTime
  BY <1>4, FrozenSound
<1>6. /\ ps \in Seq(NFTPosition) /\ Len(ps) = n
      /\ \A j \in 1 .. Len(ps) : /\ ps[j] = IF j = i THEN p ELSE b.positions[j]
                                 /\ ps[j].yieldStartTime <= ps[j].maturityTime
  BY <1>3, <1>4, <1>5, ReplaceSound
<1>7. h \in Seq(EntriesFor(n)) /\ h \in Seq(Nat)
  BY <1>2, PopKeeps, SeqMonotonic
<1>8. YieldRate(p) \in Int /\ YieldRate(p) * p.yieldStartTime \in Int /\ p.pendingYield \in Int
  <2>1. \A x, y \in Int : x * y \in Int
    OBVIOUS
  <2> QED BY <1>5, <2>1 DEF YieldRate, NFTPosition
<1> DEFINE rs == b.rateSum - YieldRate(p)
           os == b.offsetSum - YieldRate(p) * p.yieldStartTime
           pd == b.pending + p.pendingYield
<1>9. rs \in Int /\ os \in Int /\ pd \in Int
  BY <1>1, <1>8
<1>10. CapEarliest(b) = [b EXCEPT !.positions = ps, !.heap = h, !.rateSum = rs,
                                  !.offsetSum = os, !.pending = pd]
  BY DEF CapEarliest
<1> HIDE DEF rs, os, pd, ps, h, p
<1>11. CapEarliest(b) \in Books /\ CapEarliest(b).positions = ps /\ CapEarliest(b).heap = h
  BY <1>1, <1>6, <1>7, <1>9, <1>10 DEF Books
<1>12. SoundBook(CapEarliest(b))
  BY <1>6, <1>7, <1>11 DEF SoundBook
<1>13. Agree(b.positions, ps)
  BY <1>5, <1>6 DEF Agree
<1> QED BY <1>11, <1>12, <1>13

\* However many positions a sync caps, it changes no pool and no state.
LEMMA SyncSound ==
  ASSUME SoundBook(Book), NEW n \in Nat
  PROVE  SoundBook(Synced(n)) /\ Agree(positions, Synced(n).positions)
<1> DEFINE F == [b \in Books |-> IF HasMaturedBacklog(b) THEN CapEarliest(b) ELSE b]
           T == {b \in Books : SoundBook(b) /\ Agree(positions, b.positions)}
<1>1. Book \in T
  BY DEF SoundBook, Agree, Book
<1>2. \A b \in T : F[b] \in T
  <2> SUFFICES ASSUME NEW b \in T, HasMaturedBacklog(b) PROVE CapEarliest(b) \in T
    OBVIOUS
  <2>1. SoundBook(CapEarliest(b)) /\ Agree(b.positions, CapEarliest(b).positions)
    BY CapSound DEF HasMaturedBacklog
  <2>2. Agree(positions, CapEarliest(b).positions)
    BY <2>1 DEF Agree
  <2> QED BY <2>1, <2>2 DEF SoundBook
<1> HIDE DEF F, T
<1>3. Iterate(F, Book, n) \in T
  BY <1>1, <1>2, IterateInvariant
<1> QED BY <1>3 DEF Synced, F, T

\* A new position, of the active pool, at the next place.
LEMMA OpenSound ==
  ASSUME NEW b, SoundBook(b), NEW amount \in Nat, now \in Nat, activeDepositPool \in Pools,
         Len(b.positions) < MaxPositions
  PROVE  /\ SoundBook(Opened(b, amount))
         /\ Len(Opened(b, amount).positions) = Len(b.positions) + 1
         /\ \A i \in 1 .. Len(b.positions) :
              Opened(b, amount).positions[i] = b.positions[i]
         /\ Opened(b, amount).positions[Len(b.positions) + 1].pool = activeDepositPool
<1> DEFINE n == Len(b.positions)
           p == [pool |-> activeDepositPool, principal |-> amount,
                 apyWad |-> apyWadOf[activeDepositPool], yieldStartTime |-> now,
                 maturityTime |-> now + periodOf[activeDepositPool],
                 state |-> "Active", yieldCapped |-> FALSE, pendingYield |-> 0]
           ps == Append(b.positions, p)
           e == Packed(p.maturityTime, n + 1)
           h == PushMaturity(b.heap, e)
           rs == b.rateSum + YieldRate(p)
           os == b.offsetSum + YieldRate(p) * now
           iv == b.invested + amount
<1>1. /\ b \in Books /\ b.positions \in Seq(NFTPosition) /\ n \in Nat
      /\ b.rateSum \in Int /\ b.offsetSum \in Int /\ b.invested \in Int
  <2>1. b \in Books /\ b.positions \in Seq(NFTPosition)
    BY DEF SoundBook, Books
  <2>2. n \in Nat
    BY <2>1, LenProperties
  <2> QED BY <2>1, <2>2 DEF Books
<1>2. apyWadOf[activeDepositPool] \in Nat /\ periodOf[activeDepositPool] \in Nat
  BY PositionBookAssumption
<1>3. p \in NFTPosition /\ p.yieldStartTime <= p.maturityTime /\ p.maturityTime \in Nat
  BY <1>2 DEF NFTPosition, States
<1>4. /\ ps \in Seq(NFTPosition) /\ Len(ps) = n + 1
      /\ (\A i \in 1 .. n : ps[i] = b.positions[i]) /\ ps[n + 1] = p
  BY <1>1, <1>3, AppendProperties
<1>5. e \in EntriesFor(n + 1)
  <2>1. n + 1 \in Nat /\ n + 1 < SHIFT
    BY <1>1, PositionBookAssumption, PositionBookAssumption
  <2>2. e \in Nat /\ IndexOf(e) = n + 1
    BY <1>3, <2>1, IndexOfPacked
  <2> QED BY <2>1, <2>2 DEF EntriesFor
<1>6. h \in Seq(EntriesFor(n + 1)) /\ h \in Seq(Nat)
  <2>1. EntriesFor(n) \subseteq EntriesFor(n + 1) /\ EntriesFor(n + 1) \subseteq Nat
    BY <1>1 DEF EntriesFor
  <2>2. b.heap \in Seq(EntriesFor(n + 1))
    BY <2>1, SeqMonotonic DEF SoundBook
  <2> QED BY <1>5, <2>1, <2>2, PushKeeps, SeqMonotonic
<1>7. rs \in Int /\ os \in Int /\ iv \in Int
  <2>1. \A x, y \in Int : x * y \in Int
    OBVIOUS
  <2>2. YieldRate(p) \in Int
    BY <1>3, <2>1 DEF YieldRate, NFTPosition
  <2>3. YieldRate(p) * now \in Int
    BY <2>1, <2>2
  <2>4. \A x, y \in Int : x + y \in Int
    OBVIOUS
  <2>5. b.rateSum \in Int /\ b.offsetSum \in Int /\ b.invested \in Int /\ amount \in Int
    BY <1>1
  <2> HIDE DEF p
  <2> QED BY <2>2, <2>3, <2>4, <2>5
<1>8. Opened(b, amount) = [b EXCEPT !.positions = ps, !.invested = iv, !.rateSum = rs,
                                    !.offsetSum = os, !.heap = h]
  BY DEF Opened
<1> HIDE DEF ps, e, h, rs, os, iv
<1>9. Opened(b, amount) \in Books /\ Opened(b, amount).positions = ps /\ Opened(b, amount).heap = h
  BY <1>1, <1>4, <1>6, <1>7, <1>8 DEF Books
<1>10. \A i \in 1 .. Len(ps) : ps[i].yieldStartTime <= ps[i].maturityTime
  <2> SUFFICES ASSUME NEW i \in 1 .. Len(ps)
               PROVE  ps[i].yieldStartTime <= ps[i].maturityTime
    OBVIOUS
  <2>1. CASE i \in 1 .. n
    BY <1>4, <2>1 DEF SoundBook
  <2>2. CASE i = n + 1
    BY <1>3, <1>4, <2>2
  <2> QED BY <1>1, <1>4, <2>1, <2>2
<1> HIDE DEF p
<1>11. SoundBook(Opened(b, amount))
  BY <1>4, <1>6, <1>9, <1>10 DEF SoundBook
<1>12. p.pool = activeDepositPool
  BY DEF p
<1> QED BY <1>4, <1>9, <1>11, <1>12

\* No arm of pokeDecentral changes the pool or the times of a position, and only
\* a payment of principal redeems it.
LEMMA PokeSound ==
  ASSUME NEW p \in NFTPosition, NEW accepts \in BOOLEAN, NEW pays \in BOOLEAN
  PROVE  LET q == Poked(p, accepts, pays)
         IN  /\ q \in NFTPosition /\ q.pool = p.pool
             /\ q.yieldStartTime = p.yieldStartTime /\ q.maturityTime = p.maturityTime
             /\ p.state = "Redeemed" => q.state = "Redeemed"
<1> DEFINE Kept(q) == /\ q \in NFTPosition /\ q.pool = p.pool
                      /\ q.yieldStartTime = p.yieldStartTime
                      /\ q.maturityTime = p.maturityTime
                      /\ p.state = "Redeemed" => q.state = "Redeemed"
<1>1. Kept(RequestYield(p, accepts))
  BY DEF RequestYield, NFTPosition, States
<1>2. \A q : Kept(q) => Kept(ExecuteYield(q, pays))
  BY DEF ExecuteYield, NFTPosition, States
<1>3. \A q : Kept(q) => Kept(RequestPrincipal(q, accepts))
  BY DEF RequestPrincipal, NFTPosition, States
<1>4. Kept(IF pays THEN [p EXCEPT !.state = "Redeemed"] ELSE p)
  BY DEF NFTPosition, States
<1> HIDE DEF Kept
<1>5. Kept(Poked(p, accepts, pays))
  BY <1>1, <1>2, <1>3, <1>4 DEF Poked
<1> QED BY <1>5 DEF Kept

\* The sweep stops before the first position that is still open.
LEMMA SweepSound ==
  ASSUME NEW ps, Len(ps) \in Nat, NEW head \in 0 .. Len(ps)
  PROVE  /\ AdvancePositionHead(ps, head) \in head .. Len(ps)
         /\ \A i \in (head + 1) .. AdvancePositionHead(ps, head) : ps[i].state = "Redeemed"
<1> DEFINE M == MAX_POSITION_HEAD_SWEEP
           passable == {n \in 0 .. M : /\ head + n <= Len(ps)
                          /\ \A i \in (head + 1) .. (head + n) : ps[i].state = "Redeemed"}
           left == {M - n : n \in passable}
<1>1. M \in Nat
  BY PositionBookAssumption
<1>2. 0 \in passable
  BY <1>1
<1>3. left \subseteq Nat /\ left # {}
  BY <1>1, <1>2
<1>4. PICK x \in left : \A y \in left : x <= y
  <2> HIDE DEF left
  <2> QED BY <1>3, NatMinimal
<1>5. PICK n \in passable : x = M - n
  BY <1>4
<1>6. \A m \in passable : m <= n
  <2> SUFFICES ASSUME NEW m \in passable PROVE m <= n
    OBVIOUS
  <2>1. M - m \in left
    OBVIOUS
  <2>2. M - n <= M - m
    <3> HIDE DEF left, passable
    <3> QED BY <1>4, <1>5, <2>1
  <2>3. n \in 0 .. M /\ m \in 0 .. M
    OBVIOUS
  <2> HIDE DEF left, passable
  <2> QED BY <1>1, <2>2, <2>3
<1> DEFINE z == CHOOSE k \in passable : \A m \in passable : m <= k
<1>7. z \in passable
  <2> HIDE DEF passable
  <2> QED BY <1>5, <1>6
<1>8. AdvancePositionHead(ps, head) = head + z
  BY DEF AdvancePositionHead
<1> HIDE DEF z
<1> QED BY <1>1, <1>7, <1>8

-----------------------------------------------------------------------------
(* The invariant.                                                          *)

\* Every open position is ahead of the head and of a registered pool.
Reachable(ps, head, registered) ==
  /\ head \in 0 .. Len(ps)
  /\ \A i \in 1 .. Len(ps) : ps[i].state # "Redeemed" => i > head /\ ps[i].pool \in registered

IInv ==
  /\ SoundBook(Book)
  /\ now \in Nat
  /\ activeDepositPool \in pools /\ pools \subseteq Pools
  /\ Reachable(positions, positionHead, pools)

LEMMA StoreStores ==
  ASSUME NEW b, b \in Books, Store(b)
  PROVE  Book' = b /\ positions' = b.positions
BY DEF Store, Book, Books

\* A sync, and an opening after it, leave everything reachable.
LEMMA SyncReachable ==
  ASSUME IInv, NEW n \in Nat
  PROVE  /\ SoundBook(Synced(n)) /\ Agree(positions, Synced(n).positions)
         /\ Len(Synced(n).positions) \in Nat
         /\ Reachable(Synced(n).positions, positionHead, pools)
<1>1. SoundBook(Synced(n)) /\ Agree(positions, Synced(n).positions)
  BY SyncSound DEF IInv
<1>2. Len(Synced(n).positions) \in Nat
  BY <1>1, LenProperties DEF SoundBook, Books
<1> QED BY <1>1, <1>2 DEF IInv, Reachable, Agree

LEMMA OpenReachable ==
  ASSUME NEW b, SoundBook(b), NEW amount \in Nat, IInv, Len(b.positions) < MaxPositions,
         Reachable(b.positions, positionHead, pools)
  PROVE  /\ SoundBook(Opened(b, amount))
         /\ Reachable(Opened(b, amount).positions, positionHead, pools)
<1> DEFINE ps == Opened(b, amount).positions
           n == Len(b.positions)
<1>1. n \in Nat
  BY LenProperties DEF SoundBook, Books
<1>2. /\ SoundBook(Opened(b, amount)) /\ Len(ps) = n + 1
      /\ (\A i \in 1 .. n : ps[i] = b.positions[i]) /\ ps[n + 1].pool = activeDepositPool
  BY OpenSound DEF IInv
<1> HIDE DEF ps
<1>3. Reachable(ps, positionHead, pools)
  <2>1. positionHead \in 0 .. n /\ positionHead \in 0 .. Len(ps)
    BY <1>1, <1>2 DEF Reachable
  <2>2. ASSUME NEW i \in 1 .. Len(ps), ps[i].state # "Redeemed"
        PROVE  i > positionHead /\ ps[i].pool \in pools
    <3>1. CASE i \in 1 .. n
      BY <1>2, <2>2, <3>1 DEF Reachable
    <3>2. CASE i = n + 1
      BY <1>1, <1>2, <2>1, <3>2 DEF IInv
    <3> QED BY <1>1, <1>2, <3>1, <3>2
  <2> QED BY <2>1, <2>2 DEF Reachable
<1> QED BY <1>2, <1>3 DEF ps

\* A sweep of the head leaves everything reachable.
LEMMA SweepReachable ==
  ASSUME NEW ps, Len(ps) \in Nat, Reachable(ps, positionHead, pools)
  PROVE  Reachable(ps, AdvancePositionHead(ps, positionHead), pools)
<1> DEFINE head == AdvancePositionHead(ps, positionHead)
<1>1. positionHead \in 0 .. Len(ps)
  BY DEF Reachable
<1>2. /\ head \in positionHead .. Len(ps)
      /\ \A i \in (positionHead + 1) .. head : ps[i].state = "Redeemed"
  BY <1>1, SweepSound
<1> HIDE DEF head
<1>3. Reachable(ps, head, pools)
  BY <1>1, <1>2 DEF Reachable
<1> QED BY <1>3 DEF head

LEMMA InitReachable == Init => IInv
<1> SUFFICES ASSUME Init PROVE IInv
  OBVIOUS
<1>1. /\ positions = <<>> /\ heap = <<>> /\ positionHead = 0 /\ now = 0
      /\ Book = [positions |-> <<>>, heap |-> <<>>, rateSum |-> 0, offsetSum |-> 0,
                 pending |-> 0, invested |-> 0]
  BY DEF Init, Book
<1>2. SoundBook(Book)
  <2>1. <<>> \in Seq(NFTPosition) /\ <<>> \in Seq(Nat) /\ <<>> \in Seq(EntriesFor(0)) /\ Len(<<>>) = 0
    BY EmptySeq
  <2> QED BY <1>1, <2>1 DEF SoundBook, Books
<1>3. Reachable(positions, positionHead, pools)
  BY <1>1, EmptySeq DEF Reachable
<1> QED BY <1>1, <1>2, <1>3 DEF Init, IInv

LEMMA DepositReachable ==
  ASSUME IInv, NEW a \in Nat, Deposit(a)
  PROVE  IInv'
<1>1. Len(positions) < MaxPositions
  BY DEF Deposit, CanOpen
<1>2. SoundBook(Book) /\ Book.positions = positions /\ Reachable(Book.positions, positionHead, pools)
  BY DEF IInv, Book
<1>3. SoundBook(Opened(Book, a)) /\ Reachable(Opened(Book, a).positions, positionHead, pools)
  BY <1>1, <1>2, OpenReachable
<1>4. Book' = Opened(Book, a) /\ positions' = Opened(Book, a).positions
  BY <1>3, StoreStores DEF Deposit, SoundBook
<1>5. positionHead' = positionHead /\ UNCHANGED <<pools, activeDepositPool, now>>
  BY DEF Deposit, poolVars
<1> QED BY <1>3, <1>4, <1>5 DEF IInv

LEMMA PokeQueueReachable ==
  ASSUME IInv, NEW a \in Nat, PokeQueue(a)
  PROVE  IInv'
<1> DEFINE b == Synced(MAX_MATURITY_SYNC)
           c == IF a = 0 THEN b ELSE Opened(b, a)
<1>1. MAX_MATURITY_SYNC \in Nat
  BY PositionBookAssumption
<1>2. /\ SoundBook(b) /\ Agree(positions, b.positions) /\ Len(b.positions) \in Nat
      /\ Reachable(b.positions, positionHead, pools)
  BY <1>1, SyncReachable
<1>3. /\ Store(c) /\ (a # 0 => Len(positions) < MaxPositions)
      /\ positionHead' = AdvancePositionHead(b.positions, positionHead)
      /\ UNCHANGED <<pools, activeDepositPool, now>>
  BY DEF PokeQueue, CanOpen, poolVars
<1> DEFINE head == AdvancePositionHead(b.positions, positionHead)
<1> HIDE DEF b, head
<1>4. Reachable(b.positions, head, pools)
  BY <1>2, SweepReachable DEF head
<1>5. SoundBook(c) /\ Reachable(c.positions, head, pools)
  <2>1. CASE a = 0
    BY <1>2, <1>4, <2>1
  <2>2. CASE a # 0
    <3>1. Len(b.positions) < MaxPositions
      BY <1>2, <1>3, <2>2 DEF Agree
    <3>2. /\ SoundBook(Opened(b, a)) /\ Len(Opened(b, a).positions) = Len(b.positions) + 1
          /\ \A i \in 1 .. Len(b.positions) : Opened(b, a).positions[i] = b.positions[i]
          /\ Opened(b, a).positions[Len(b.positions) + 1].pool = activeDepositPool
      BY <1>1, <1>2, <3>1, OpenSound DEF IInv
    <3> DEFINE ps == Opened(b, a).positions
    <3> HIDE DEF ps
    <3>3. ASSUME NEW i \in 1 .. Len(ps), ps[i].state # "Redeemed"
          PROVE  i > head /\ ps[i].pool \in pools
      <4>1. CASE i \in 1 .. Len(b.positions)
        BY <1>4, <3>2, <3>3, <4>1 DEF Reachable, ps
      <4>2. CASE i = Len(b.positions) + 1
        BY <1>2, <1>4, <3>2, <4>2 DEF Reachable, IInv, ps
      <4> QED BY <1>2, <3>2, <4>1, <4>2 DEF ps
    <3>4. head \in 0 .. Len(ps)
      BY <1>2, <1>4, <3>2 DEF Reachable, ps
    <3> QED BY <2>2, <3>2, <3>3, <3>4 DEF Reachable, ps
  <2> QED BY <2>1, <2>2
<1> HIDE DEF c
<1>6. Book' = c /\ positions' = c.positions
  BY <1>3, <1>5, StoreStores DEF SoundBook
<1> QED BY <1>3, <1>5, <1>6 DEF IInv, head

LEMMA SyncMaturitiesReachable ==
  ASSUME IInv, NEW n \in 1 .. MaxPositions, SyncMaturities(n)
  PROVE  IInv'
<1>1. n \in Nat
  BY PositionBookAssumption
<1>2. SoundBook(Synced(n)) /\ Reachable(Synced(n).positions, positionHead, pools)
  BY <1>1, SyncReachable
<1>3. Book' = Synced(n) /\ positions' = Synced(n).positions
  BY <1>2, StoreStores DEF SyncMaturities, SoundBook
<1>4. positionHead' = positionHead /\ UNCHANGED <<pools, activeDepositPool, now>>
  BY DEF SyncMaturities, poolVars
<1> QED BY <1>2, <1>3, <1>4 DEF IInv

\* The position that is poked was open, so it is ahead of the head before and,
\* unless this call redeems it, after the sweep.
LEMMA PokeDecentralReachable ==
  ASSUME IInv, NEW i \in 1 .. MaxPositions, NEW accepts \in BOOLEAN,
         NEW serves \in BOOLEAN, PokeDecentral(i, accepts, serves)
  PROVE  IInv'
<1>1. PICK b \in {Synced(MAX_MATURITY_SYNC)} :
        \E q \in {Poked(b.positions[i], accepts, serves /\ i \in payable)} :
          LET p    == b.positions[i]
              done == q.state = "Redeemed"
          IN  /\ Store([b EXCEPT !.positions = [b.positions EXCEPT ![i] = q],
                                 !.pending   = @ - (p.pendingYield - q.pendingYield),
                                 !.invested  = IF done THEN @ - p.principal ELSE @])
              /\ positionHead' = IF done THEN AdvancePositionHead(positions', positionHead)
                                 ELSE positionHead
  BY DEF PokeDecentral
<1> DEFINE p == b.positions[i]
           q == Poked(p, accepts, serves /\ i \in payable)
           done == q.state = "Redeemed"
           ps == [b.positions EXCEPT ![i] = q]
           pd == b.pending - (p.pendingYield - q.pendingYield)
           iv == IF done THEN b.invested - p.principal ELSE b.invested
           c == [b EXCEPT !.positions = ps, !.pending = pd, !.invested = iv]
<1>2. /\ Store(c)
      /\ positionHead' = IF done THEN AdvancePositionHead(positions', positionHead)
                         ELSE positionHead
  BY <1>1
<1>3. /\ i \in 1 .. Len(positions) /\ positions[i].state # "Redeemed"
      /\ UNCHANGED <<pools, activeDepositPool, now>>
  BY DEF PokeDecentral, poolVars
<1>4. MAX_MATURITY_SYNC \in Nat
  BY PositionBookAssumption
<1>5. /\ SoundBook(b) /\ Agree(positions, b.positions) /\ Len(b.positions) \in Nat
      /\ Reachable(b.positions, positionHead, pools)
  BY <1>1, <1>4, SyncReachable
<1>6. /\ i \in 1 .. Len(b.positions) /\ p \in NFTPosition /\ p.state # "Redeemed"
      /\ p.yieldStartTime <= p.maturityTime
  <2>1. i \in 1 .. Len(b.positions) /\ p.state # "Redeemed"
    BY <1>3, <1>5 DEF Agree
  <2> QED BY <1>5, <2>1, ElementOfSeq DEF SoundBook, Books
<1>7. /\ q \in NFTPosition /\ q.pool = p.pool
      /\ q.yieldStartTime = p.yieldStartTime /\ q.maturityTime = p.maturityTime
  BY <1>6, PokeSound
<1>8. q.yieldStartTime <= q.maturityTime
  BY <1>6, <1>7
<1> HIDE DEF q
<1>9. /\ ps \in Seq(NFTPosition) /\ Len(ps) = Len(b.positions)
      /\ \A j \in 1 .. Len(ps) : /\ ps[j] = IF j = i THEN q ELSE b.positions[j]
                                 /\ ps[j].yieldStartTime <= ps[j].maturityTime
  BY <1>5, <1>6, <1>7, <1>8, ReplaceSound
<1>10. pd \in Int /\ iv \in Int
  <2>1. b.pending \in Int /\ b.invested \in Int
    BY <1>5 DEF SoundBook, Books
  <2> HIDE DEF p, done
  <2>2. p.pendingYield \in Int /\ q.pendingYield \in Int /\ p.principal \in Int
    BY <1>6, <1>7 DEF NFTPosition
  <2>3. pd \in Int
    BY <2>1, <2>2
  <2>4. CASE done
    BY <2>1, <2>2, <2>3, <2>4
  <2>5. CASE ~done
    BY <2>1, <2>2, <2>3, <2>5
  <2> QED BY <2>4, <2>5
<1> HIDE DEF ps, pd, iv, done
<1>11. c \in Books /\ c.positions = ps /\ c.heap = b.heap
  BY <1>5, <1>9, <1>10 DEF SoundBook, Books
<1>12. SoundBook(c)
  BY <1>5, <1>9, <1>11 DEF SoundBook
<1> HIDE DEF c
<1>13. Book' = c /\ positions' = ps
  BY <1>2, <1>11, StoreStores
<1>14. Reachable(ps, positionHead, pools)
  <2>1. i > positionHead /\ q.pool \in pools
    BY <1>5, <1>6, <1>7 DEF Reachable
  <2> QED BY <1>5, <1>9, <2>1 DEF Reachable
<1>15. Reachable(ps, positionHead', pools)
  <2>1. CASE done
    <3>1. Reachable(ps, AdvancePositionHead(ps, positionHead), pools)
      BY <1>5, <1>9, <1>14, SweepReachable
    <3> QED BY <1>2, <1>13, <2>1, <3>1
  <2>2. CASE ~done
    BY <1>2, <1>14, <2>2
  <2> QED BY <2>1, <2>2
<1> QED BY <1>3, <1>12, <1>13, <1>15 DEF IInv

\* retirePool looks at the positions from the head on only, which are all that
\* can be open.
LEMMA RegistryReachable ==
  ASSUME IInv, NEW p \in Pools,
         RegisterPool(p) \/ SetActiveDepositPool(p) \/ RetirePool(p)
  PROVE  IInv'
<1>1. Book' = Book /\ positions' = positions /\ positionHead' = positionHead /\ now' = now
  BY DEF RegisterPool, SetActiveDepositPool, RetirePool, bookVars, Book
<1>2. CASE RegisterPool(p)
  BY <1>1, <1>2 DEF RegisterPool, IInv, Reachable
<1>3. CASE SetActiveDepositPool(p)
  BY <1>1, <1>3 DEF SetActiveDepositPool, IInv, Reachable
<1>4. CASE RetirePool(p)
  <2>1. pools' = pools \ {p} /\ p # activeDepositPool /\ activeDepositPool' = activeDepositPool
    BY <1>4 DEF RetirePool
  <2>2. \A i \in 1 .. Len(positions) :
          positions[i].state # "Redeemed" => positions[i].pool # p
    <3>1. \A i \in (positionHead + 1) .. Len(positions) :
            positions[i].state # "Redeemed" => positions[i].pool # p
      BY <1>4 DEF RetirePool, HasOpenPositions
    <3>2. Len(positions) \in Nat
      BY LenProperties DEF IInv, SoundBook, Books, Book
    <3> QED BY <3>1, <3>2 DEF IInv, Reachable
  <2>3. Reachable(positions, positionHead, pools \ {p})
    BY <2>2 DEF IInv, Reachable
  <2> QED BY <1>1, <2>1, <2>3 DEF IInv
<1> QED BY <1>2, <1>3, <1>4

LEMMA NextReachable == IInv /\ [Next]_vars => IInv'
<1> SUFFICES ASSUME IInv, [Next]_vars PROVE IInv'
  OBVIOUS
<1>1. CASE \E a \in Amounts : Deposit(a)
  BY <1>1, DepositReachable, PositionBookAssumption
<1>2. CASE \E a \in Amounts \cup {0} : PokeQueue(a)
  BY <1>2, PokeQueueReachable, PositionBookAssumption
<1>3. CASE \E n \in 1 .. MaxPositions : SyncMaturities(n)
  BY <1>3, SyncMaturitiesReachable
<1>4. CASE \E i \in 1 .. MaxPositions : Release(i)
  BY <1>4 DEF Release, bookVars, poolVars, Book, IInv, Reachable
<1>5. CASE \E i \in 1 .. MaxPositions : \E accepts, serves \in BOOLEAN : PokeDecentral(i, accepts, serves)
  BY <1>5, PokeDecentralReachable
<1>6. CASE \E p \in Pools : RegisterPool(p) \/ SetActiveDepositPool(p) \/ RetirePool(p)
  BY <1>6, RegistryReachable
<1>7. CASE Tick
  BY <1>7 DEF Tick, bookVars, poolVars, Book, IInv, Reachable
<1>8. CASE UNCHANGED vars
  BY <1>8 DEF vars, bookVars, poolVars, Book, IInv, Reachable
<1> QED BY <1>1, <1>2, <1>3, <1>4, <1>5, <1>6, <1>7, <1>8 DEF Next

\* Whatever is opened, synced, withdrawn, redeemed out of order and swept, with any
\* pools and budgets: only redeemed positions are behind positionHead (INV-8), and the
\* pool of every open position is registered (INV-14), and so is the one that deposits
\* go to.  So retirePool, which scans from the head on, misses none.
THEOREM AlwaysReachable == Spec => []OpenPositionsReachable
<1>1. Init => IInv
  BY InitReachable
<1>2. IInv /\ [Next]_vars => IInv'
  BY NextReachable
<1>3. IInv => OpenPositionsReachable
  BY DEF IInv, Reachable, OpenPositionsReachable, Open, Places
<1> QED BY <1>1, <1>2, <1>3, PTL DEF Spec

\* The heap names positions that exist, and what syncs freeze are natural amounts.
THEOREM BooksStaySound == Spec => []SoundBook(Book)
<1>1. Init => IInv
  BY InitReachable
<1>2. IInv /\ [Next]_vars => IInv'
  BY NextReachable
<1>3. IInv => SoundBook(Book)
  BY DEF IInv
<1> QED BY <1>1, <1>2, <1>3, PTL DEF Spec

-----------------------------------------------------------------------------
(* Sums over the positions.                                                *)

RateOf[p \in NFTPosition]     == IF p.yieldCapped THEN 0 ELSE YieldRate(p)
OffsetOf[p \in NFTPosition]   == IF p.yieldCapped THEN 0 ELSE YieldRate(p) * p.yieldStartTime
PendingOf[p \in NFTPosition]  == IF p.state = "Redeemed" THEN 0 ELSE p.pendingYield
InvestedOf[p \in NFTPosition] == IF p.state = "Redeemed" THEN 0 ELSE p.principal

Terms == [NFTPosition -> Nat]

Total(t, ps) == SumTo([k \in 0 .. (Len(ps) - 1) |-> t[ps[k + 1]]], Len(ps))

LEMMA TermsAreNat ==
  RateOf \in Terms /\ OffsetOf \in Terms /\ PendingOf \in Terms /\ InvestedOf \in Terms
<1>1. \A a, d \in Nat : a * d \in Nat
  OBVIOUS
<1>2. \A p \in NFTPosition : YieldRate(p) \in Nat /\ p.yieldStartTime \in Nat
                             /\ p.pendingYield \in Nat /\ p.principal \in Nat
  BY <1>1 DEF YieldRate, NFTPosition
<1>3. \A p \in NFTPosition : YieldRate(p) * p.yieldStartTime \in Nat
  BY <1>1, <1>2
<1> QED BY <1>2, <1>3 DEF RateOf, OffsetOf, PendingOf, InvestedOf, Terms

LEMMA TotalNat ==
  ASSUME NEW t \in Terms, NEW ps \in Seq(NFTPosition)
  PROVE  Total(t, ps) \in Nat
<1> DEFINE f == [k \in 0 .. (Len(ps) - 1) |-> t[ps[k + 1]]]
<1>1. Len(ps) \in Nat
  BY LenProperties
<1>2. \A k \in 0 .. (Len(ps) - 1) : f[k] \in Nat
  <2> SUFFICES ASSUME NEW k \in 0 .. (Len(ps) - 1) PROVE t[ps[k + 1]] \in Nat
    OBVIOUS
  <2>1. ps[k + 1] \in NFTPosition
    BY <1>1, ElementOfSeq
  <2> QED BY <2>1 DEF Terms
<1> HIDE DEF f
<1>3. SumTo(f, Len(ps)) \in Nat
  BY <1>1, <1>2, SumNat
<1> QED BY <1>3 DEF Total, f

LEMMA TotalEmpty ==
  ASSUME NEW t
  PROVE  Total(t, <<>>) = 0
<1> DEFINE f == [k \in 0 .. (Len(<<>>) - 1) |-> t[<<>>[k + 1]]]
<1>1. Len(<<>>) = 0
  BY EmptySeq
<1>2. Total(t, <<>>) = SumTo(f, Len(<<>>))
  BY DEF Total
<1> HIDE DEF f
<1> QED BY <1>1, <1>2, SumZero

\* Replacing a position moves the sum by the difference of the two.
LEMMA TotalReplace ==
  ASSUME NEW t \in Terms, NEW ps \in Seq(NFTPosition), NEW i \in 1 .. Len(ps),
         NEW q \in NFTPosition
  PROVE  Total(t, [ps EXCEPT ![i] = q]) = Total(t, ps) - t[ps[i]] + t[q]
<1> DEFINE qs == [ps EXCEPT ![i] = q]
           n == Len(ps)
           f == [k \in 0 .. (n - 1) |-> t[ps[k + 1]]]
           g == [k \in 0 .. (n - 1) |-> t[qs[k + 1]]]
<1>1. n \in Nat /\ Len(qs) = n /\ \A j \in 1 .. n : qs[j] = IF j = i THEN q ELSE ps[j]
  BY LenProperties, ExceptSeq
<1> HIDE DEF qs
<1>2. \A j \in 1 .. n : ps[j] \in NFTPosition /\ qs[j] \in NFTPosition
  BY <1>1, ElementOfSeq
<1>3. \A p \in NFTPosition : t[p] \in Int
  BY DEF Terms
<1>4. i - 1 \in 0 .. (n - 1) /\ (i - 1) + 1 = i
  BY <1>1
<1> HIDE DEF n
<1>5. \A k \in 0 .. (n - 1) : k + 1 \in 1 .. n /\ (k # i - 1 => k + 1 # i)
  BY <1>1, <1>4
<1>6. \A k \in 0 .. (n - 1) : f[k] \in Int /\ g[k] \in Int
  BY <1>2, <1>3, <1>5
<1>7. \A k \in 0 .. (n - 1) : k # i - 1 => g[k] = f[k]
  BY <1>1, <1>5
<1>8. f[i - 1] = t[ps[i]] /\ g[i - 1] = t[q]
  <2>1. qs[i] = q
    BY <1>1, <1>4, <1>5
  <2> QED BY <1>4, <2>1
<1> HIDE DEF f, g
<1>9. SumTo(g, n) = SumTo(f, n) - f[i - 1] + g[i - 1]
  <2>1. PICK k \in 0 .. (n - 1) : k = i - 1
    BY <1>4
  <2>2. \A j \in 0 .. (n - 1) : j # k => g[j] = f[j]
    BY <1>7, <2>1
  <2>3. SumTo(g, n) = SumTo(f, n) - f[k] + g[k]
    BY <1>1, <1>6, <2>2, SumUpdate
  <2> QED BY <2>1, <2>3
<1> QED BY <1>1, <1>8, <1>9 DEF Total, f, g, n, qs

LEMMA TotalAppend ==
  ASSUME NEW t \in Terms, NEW ps \in Seq(NFTPosition), NEW q \in NFTPosition
  PROVE  Total(t, Append(ps, q)) = Total(t, ps) + t[q]
<1> DEFINE qs == Append(ps, q)
           n == Len(ps)
           f == [k \in 0 .. (n - 1) |-> t[ps[k + 1]]]
           g == [k \in 0 .. n |-> t[qs[k + 1]]]
<1>1. n \in Nat /\ Len(qs) = n + 1 /\ qs[n + 1] = q /\ \A j \in 1 .. n : qs[j] = ps[j]
  BY LenProperties, AppendProperties
<1> HIDE DEF qs
<1>2. \A j \in 1 .. n : ps[j] \in NFTPosition
  BY ElementOfSeq
<1> HIDE DEF n
<1>3. \A k \in 0 .. (n - 1) : k + 1 \in 1 .. n /\ k \in 0 .. n
  BY <1>1
<1>4. \A k \in 0 .. (n - 1) : f[k] \in Nat /\ g[k] = f[k]
  <2> TAKE k \in 0 .. (n - 1)
  <2>1. ps[k + 1] \in NFTPosition /\ qs[k + 1] = ps[k + 1]
    BY <1>1, <1>2, <1>3
  <2> QED BY <1>3, <2>1 DEF Terms
<1>5. g[n] = t[q] /\ t[q] \in Nat
  BY <1>1 DEF Terms
<1> HIDE DEF f, g
<1>6. SumTo(f, n) \in Nat /\ SumTo(g, n) \in Nat
  BY <1>1, <1>4, SumNat
<1>7. SumTo(f, n) <= SumTo(g, n) /\ SumTo(g, n) <= SumTo(f, n)
  BY <1>1, <1>4, SumMonotone
<1>8. SumTo(g, n + 1) = SumTo(g, n) + g[n]
  BY <1>1, <1>6, SumStep
<1>9. Total(t, qs) = SumTo(g, n + 1)
  <2>1. Len(qs) - 1 = n
    BY <1>1
  <2> QED BY <1>1, <2>1 DEF Total, g
<1>10. Total(t, ps) = SumTo(f, n)
  BY DEF Total, f, n
<1>11. SumTo(f, n) = SumTo(g, n)
  BY <1>6, <1>7
<1> QED BY <1>5, <1>8, <1>9, <1>10, <1>11 DEF qs

-----------------------------------------------------------------------------
(* The aggregates and the heap.                                            *)

\* Yield is frozen once, while the position is active, and gone once it is claimed.
YieldInOrder(p) ==
  /\ ~p.yieldCapped => p.state = "Active" /\ p.pendingYield = 0
  /\ p.state \in {"YieldClaimed", "PrincipalWithdrawalRequested", "Redeemed"}
       => p.pendingYield = 0

Key(ps, i) == Packed(ps[i].maturityTime, i)

\* The entries of h stand for the uncapped positions.
Tracks(h, ps) ==
  /\ \A i \in 1 .. Len(ps) : ~ps[i].yieldCapped => Key(ps, i) \in Entries(h)
  /\ \A e \in Entries(h) : \E i \in 1 .. Len(ps) : ~ps[i].yieldCapped /\ e = Key(ps, i)

SumsMatch(b) ==
  /\ b.rateSum = Total(RateOf, b.positions) /\ b.offsetSum = Total(OffsetOf, b.positions)
  /\ b.pending = Total(PendingOf, b.positions) /\ b.invested = Total(InvestedOf, b.positions)

ExactBook(b) ==
  /\ SoundBook(b) /\ Len(b.positions) <= MaxPositions
  /\ \A i \in 1 .. Len(b.positions) : YieldInOrder(b.positions[i])
  /\ \A i \in 1 .. Len(b.positions) : b.positions[i].yieldStartTime <= now
  /\ HeapOrdered(b.heap) /\ Distinct(b.heap) /\ Tracks(b.heap, b.positions)
  /\ SumsMatch(b)

LEMMA ExactIsTyped ==
  ASSUME NEW b, ExactBook(b)
  PROVE  /\ b \in Books /\ b.positions \in Seq(NFTPosition) /\ Len(b.positions) \in Nat
         /\ b.heap \in Seq(Nat)
         /\ \A i \in 1 .. Len(b.positions) : b.positions[i] \in NFTPosition
         /\ b.rateSum \in Int /\ b.offsetSum \in Int /\ b.pending \in Int /\ b.invested \in Int
<1>1. b \in Books /\ b.positions \in Seq(NFTPosition) /\ b.heap \in Seq(Nat)
      /\ b.rateSum \in Int /\ b.offsetSum \in Int /\ b.pending \in Int /\ b.invested \in Int
  BY DEF ExactBook, SoundBook, Books
<1> QED BY <1>1, LenProperties, ElementOfSeq

\* The key of a position gives its index back.
LEMMA KeyNames ==
  ASSUME NEW ps \in Seq(NFTPosition), Len(ps) <= MaxPositions, NEW i \in 1 .. Len(ps)
  PROVE  Key(ps, i) \in Nat /\ IndexOf(Key(ps, i)) = i
<1>1. ps[i] \in NFTPosition /\ Len(ps) \in Nat
  BY LenProperties, ElementOfSeq
<1>2. ps[i].maturityTime \in Nat
  BY <1>1 DEF NFTPosition
<1>3. i \in Nat /\ i < SHIFT
  BY <1>1, PositionBookAssumption, PositionBookAssumption
<1> QED BY <1>2, <1>3, IndexOfPacked DEF Key

LEMMA FrozenExact ==
  ASSUME NEW p \in NFTPosition, p.yieldStartTime <= p.maturityTime,
         YieldInOrder(p), ~p.yieldCapped
  PROVE  LET q == Frozen(p)
         IN  /\ q \in NFTPosition /\ YieldInOrder(q) /\ q.yieldCapped
             /\ q.maturityTime = p.maturityTime /\ q.yieldStartTime = p.yieldStartTime
             /\ RateOf[p] = YieldRate(q) /\ RateOf[q] = 0
             /\ OffsetOf[p] = YieldRate(q) * q.yieldStartTime /\ OffsetOf[q] = 0
             /\ PendingOf[p] = 0 /\ PendingOf[q] = q.pendingYield
             /\ InvestedOf[q] = InvestedOf[p]
<1> DEFINE q == Frozen(p)
<1>1. q \in NFTPosition
  BY FrozenSound
<1>2. /\ q.yieldCapped /\ q.state = "Active" /\ p.state = "Active" /\ p.pendingYield = 0
      /\ q.apyWad = p.apyWad /\ q.principal = p.principal
      /\ q.yieldStartTime = p.yieldStartTime /\ q.maturityTime = p.maturityTime
  BY DEF Frozen, YieldInOrder, NFTPosition
<1> HIDE DEF q
<1>3. YieldRate(q) = YieldRate(p)
  BY <1>2 DEF YieldRate
<1>4. /\ RateOf[p] = YieldRate(p) /\ RateOf[q] = 0
      /\ OffsetOf[p] = YieldRate(p) * p.yieldStartTime /\ OffsetOf[q] = 0
  BY <1>1, <1>2 DEF RateOf, OffsetOf
<1>5. /\ PendingOf[p] = 0 /\ PendingOf[q] = q.pendingYield
      /\ InvestedOf[q] = InvestedOf[p]
  BY <1>1, <1>2 DEF PendingOf, InvestedOf
<1>6. YieldInOrder(q)
  BY <1>2 DEF YieldInOrder
<1> QED BY <1>1, <1>2, <1>3, <1>4, <1>5, <1>6 DEF q

LEMMA CapExact ==
  ASSUME NEW b, ExactBook(b), b.heap # <<>>
  PROVE  /\ ExactBook(CapEarliest(b))
         /\ Len(CapEarliest(b).heap) = Len(b.heap) - 1
<1> DEFINE i == IndexOf(b.heap[1])
           old == b.positions[i]
           p == Frozen(old)
           ps == [b.positions EXCEPT ![i] = p]
           h == PopMaturity(b.heap)
           c == CapEarliest(b)
<1>1. /\ b \in Books /\ b.positions \in Seq(NFTPosition) /\ Len(b.positions) \in Nat
      /\ b.heap \in Seq(Nat)
      /\ \A j \in 1 .. Len(b.positions) : b.positions[j] \in NFTPosition
      /\ b.rateSum \in Int /\ b.offsetSum \in Int /\ b.pending \in Int /\ b.invested \in Int
  BY ExactIsTyped
<1>2. SoundBook(c)
  BY CapSound DEF ExactBook
<1>3. /\ c.positions = ps /\ c.heap = h
      /\ c.rateSum = b.rateSum - YieldRate(p)
      /\ c.offsetSum = b.offsetSum - YieldRate(p) * p.yieldStartTime
      /\ c.pending = b.pending + p.pendingYield /\ c.invested = b.invested
  BY <1>1 DEF CapEarliest, Books
<1>4. i \in 1 .. Len(b.positions) /\ ~old.yieldCapped /\ b.heap[1] = Key(b.positions, i)
  <2>1. 1 \in 1 .. Len(b.heap)
    BY <1>1, EmptySeq
  <2>2. b.heap[1] \in Entries(b.heap)
    BY <2>1 DEF Entries
  <2>3. PICK j \in 1 .. Len(b.positions) :
          ~b.positions[j].yieldCapped /\ b.heap[1] = Key(b.positions, j)
    BY <2>2 DEF ExactBook, Tracks
  <2>4. IndexOf(b.heap[1]) = j
    BY <1>1, <2>3, KeyNames DEF ExactBook
  <2> QED BY <2>3, <2>4
<1>5. /\ old \in NFTPosition /\ old.yieldStartTime <= old.maturityTime /\ YieldInOrder(old)
  BY <1>1, <1>4 DEF ExactBook, SoundBook
<1>6. /\ p \in NFTPosition /\ YieldInOrder(p) /\ p.yieldCapped
      /\ p.maturityTime = old.maturityTime /\ p.yieldStartTime = old.yieldStartTime
      /\ RateOf[old] = YieldRate(p) /\ RateOf[p] = 0
      /\ OffsetOf[old] = YieldRate(p) * p.yieldStartTime /\ OffsetOf[p] = 0
      /\ PendingOf[old] = 0 /\ PendingOf[p] = p.pendingYield
      /\ InvestedOf[p] = InvestedOf[old]
  BY <1>4, <1>5, FrozenExact
<1>7. /\ h \in Seq(Nat) /\ HeapOrdered(h) /\ Distinct(h)
      /\ Entries(h) = Entries(b.heap) \ {b.heap[1]} /\ Len(h) = Len(b.heap) - 1
  BY <1>1, PopResult DEF ExactBook
<1> HIDE DEF c, p, h, old, i
<1>8. /\ Len(ps) = Len(b.positions)
      /\ \A j \in 1 .. Len(ps) : ps[j] = IF j = i THEN p ELSE b.positions[j]
  BY <1>1, <1>4, <1>6, ExceptSeq
<1>9. /\ Len(ps) <= MaxPositions /\ \A j \in 1 .. Len(ps) : YieldInOrder(ps[j])
      /\ \A j \in 1 .. Len(ps) : ps[j].yieldStartTime <= now
  <2>1. old.yieldStartTime <= now
    BY <1>4 DEF ExactBook, old
  <2> QED BY <1>6, <1>8, <2>1 DEF ExactBook
<1>10. \A j \in 1 .. Len(ps) : Key(ps, j) = Key(b.positions, j)
  BY <1>6, <1>8 DEF Key, old
<1>11. Tracks(h, ps)
  <2>1. ASSUME NEW j \in 1 .. Len(ps), ~ps[j].yieldCapped
        PROVE  Key(ps, j) \in Entries(h)
    <3>1. j # i /\ ~b.positions[j].yieldCapped
      BY <1>6, <1>8, <2>1
    <3>2. Key(b.positions, j) \in Entries(b.heap)
      BY <1>8, <2>1, <3>1 DEF ExactBook, Tracks
    <3>3. IndexOf(Key(b.positions, j)) = j /\ IndexOf(Key(b.positions, i)) = i
      BY <1>1, <1>4, <1>8, <2>1, KeyNames DEF ExactBook
    <3>4. Key(b.positions, j) # b.heap[1]
      BY <1>4, <3>1, <3>3
    <3> QED BY <1>7, <1>10, <2>1, <3>2, <3>4
  <2>2. ASSUME NEW e \in Entries(h)
        PROVE  \E j \in 1 .. Len(ps) : ~ps[j].yieldCapped /\ e = Key(ps, j)
    <3>1. e \in Entries(b.heap) /\ e # b.heap[1]
      BY <1>7, <2>2
    <3>2. PICK j \in 1 .. Len(b.positions) :
            ~b.positions[j].yieldCapped /\ e = Key(b.positions, j)
      BY <3>1 DEF ExactBook, Tracks
    <3>3. j # i
      BY <1>4, <3>1, <3>2
    <3> QED BY <1>8, <1>10, <3>2, <3>3
  <2> HIDE DEF ps
  <2> QED BY <2>1, <2>2 DEF Tracks
<1>12. SumsMatch(c)
  <2>1. \A t \in Terms : Total(t, ps) = Total(t, b.positions) - t[old] + t[p]
    BY <1>1, <1>4, <1>6, TotalReplace DEF old
  <2>2. \A t \in Terms : Total(t, b.positions) \in Nat /\ t[old] \in Nat /\ t[p] \in Nat
    BY <1>1, <1>5, <1>6, TotalNat DEF Terms
  <2>3. SumsMatch(b)
    BY DEF ExactBook
  <2> HIDE DEF ps
  <2>4. c.rateSum = Total(RateOf, ps)
    BY <1>3, <1>6, <2>1, <2>2, <2>3, TermsAreNat DEF SumsMatch
  <2>5. c.offsetSum = Total(OffsetOf, ps)
    BY <1>3, <1>6, <2>1, <2>2, <2>3, TermsAreNat DEF SumsMatch
  <2>6. c.pending = Total(PendingOf, ps)
    BY <1>3, <1>6, <2>1, <2>2, <2>3, TermsAreNat DEF SumsMatch
  <2>7. c.invested = Total(InvestedOf, ps)
    <3>1. Total(InvestedOf, ps) = Total(InvestedOf, b.positions) - InvestedOf[old] + InvestedOf[p]
      BY <2>1, TermsAreNat
    <3>2. Total(InvestedOf, b.positions) \in Nat /\ InvestedOf[old] \in Nat
      BY <2>2, TermsAreNat
    <3>3. b.invested = Total(InvestedOf, b.positions)
      BY <2>3 DEF SumsMatch
    <3> QED BY <1>3, <1>6, <3>1, <3>2, <3>3
  <2> QED BY <1>3, <2>4, <2>5, <2>6, <2>7 DEF SumsMatch
<1> HIDE DEF ps
<1>13. ExactBook(c) /\ Len(c.heap) = Len(b.heap) - 1
  BY <1>2, <1>3, <1>7, <1>9, <1>11, <1>12 DEF ExactBook
<1> QED BY <1>13 DEF c

LEMMA SyncExact ==
  ASSUME ExactBook(Book), NEW n \in Nat
  PROVE  ExactBook(Synced(n))
<1> DEFINE F == [b \in Books |-> IF HasMaturedBacklog(b) THEN CapEarliest(b) ELSE b]
           T == {b \in Books : ExactBook(b)}
<1>1. Book \in T
  BY ExactIsTyped
<1>2. \A b \in T : F[b] \in T
  BY CapExact, ExactIsTyped DEF HasMaturedBacklog
<1> HIDE DEF F, T
<1>3. Iterate(F, Book, n) \in T
  BY <1>1, <1>2, IterateInvariant
<1> QED BY <1>3 DEF Synced, F, T

LEMMA OpenExact ==
  ASSUME NEW b, ExactBook(b), NEW amount \in Nat, now \in Nat, activeDepositPool \in Pools,
         Len(b.positions) < MaxPositions
  PROVE  /\ ExactBook(Opened(b, amount))
         /\ Len(Opened(b, amount).heap) = Len(b.heap) + 1
<1> DEFINE n == Len(b.positions)
           p == [pool |-> activeDepositPool, principal |-> amount,
                 apyWad |-> apyWadOf[activeDepositPool], yieldStartTime |-> now,
                 maturityTime |-> now + periodOf[activeDepositPool],
                 state |-> "Active", yieldCapped |-> FALSE, pendingYield |-> 0]
           ps == Append(b.positions, p)
           e == Packed(p.maturityTime, n + 1)
           h == PushMaturity(b.heap, e)
           c == Opened(b, amount)
<1>1. /\ b \in Books /\ b.positions \in Seq(NFTPosition) /\ n \in Nat
      /\ b.heap \in Seq(Nat)
      /\ \A j \in 1 .. n : b.positions[j] \in NFTPosition
      /\ b.rateSum \in Int /\ b.offsetSum \in Int /\ b.pending \in Int /\ b.invested \in Int
  BY ExactIsTyped
<1>2. SoundBook(c)
  BY OpenSound DEF ExactBook
<1>3. /\ c.positions = ps /\ c.heap = h
      /\ c.rateSum = b.rateSum + YieldRate(p)
      /\ c.offsetSum = b.offsetSum + YieldRate(p) * now
      /\ c.pending = b.pending /\ c.invested = b.invested + amount
  BY <1>1 DEF Opened, Books
<1>4. /\ p \in NFTPosition /\ YieldInOrder(p)
      /\ ~p.yieldCapped /\ p.state = "Active" /\ p.pendingYield = 0
      /\ p.principal = amount /\ p.yieldStartTime = now /\ p.maturityTime \in Nat
  <2>1. apyWadOf[activeDepositPool] \in Nat /\ periodOf[activeDepositPool] \in Nat
    BY PositionBookAssumption
  <2> QED BY <2>1 DEF NFTPosition, States, YieldInOrder
<1> HIDE DEF p
<1>5. /\ Len(ps) = n + 1 /\ ps[n + 1] = p
      /\ \A j \in 1 .. n : ps[j] = b.positions[j]
      /\ ps \in Seq(NFTPosition)
  BY <1>1, <1>4, AppendProperties
<1> HIDE DEF c, ps
<1>6. /\ Len(ps) <= MaxPositions /\ \A j \in 1 .. Len(ps) : YieldInOrder(ps[j])
      /\ \A j \in 1 .. Len(ps) : ps[j].yieldStartTime <= now
  <2>1. Len(ps) <= MaxPositions
    BY <1>1, <1>5, PositionBookAssumption
  <2>2. ASSUME NEW j \in 1 .. Len(ps)
        PROVE  YieldInOrder(ps[j]) /\ ps[j].yieldStartTime <= now
    <3>1. CASE j \in 1 .. n
      BY <1>5, <3>1 DEF ExactBook
    <3>2. CASE j = n + 1
      BY <1>4, <1>5, <3>2
    <3> QED BY <1>1, <1>5, <3>1, <3>2
  <2> QED BY <2>1, <2>2
<1>7. e = Key(ps, n + 1) /\ \A j \in 1 .. n : Key(ps, j) = Key(b.positions, j)
  BY <1>5 DEF Key
<1>8. \A j \in 1 .. Len(ps) : Key(ps, j) \in Nat /\ IndexOf(Key(ps, j)) = j
  BY <1>5, <1>6, KeyNames
<1> HIDE DEF e, h
<1>9. e \in Nat /\ IndexOf(e) = n + 1
  BY <1>1, <1>5, <1>7, <1>8
<1>10. \A j \in 1 .. n : IndexOf(Key(ps, j)) = j /\ j # n + 1 /\ j \in 1 .. Len(ps)
  BY <1>1, <1>5, <1>8
<1>11. e \notin Entries(b.heap)
  <2> SUFFICES ASSUME e \in Entries(b.heap) PROVE FALSE
    OBVIOUS
  <2>1. PICK j \in 1 .. n : e = Key(b.positions, j)
    BY DEF ExactBook, Tracks
  <2> QED BY <1>7, <1>9, <1>10, <2>1
<1>12. /\ h \in Seq(Nat) /\ HeapOrdered(h) /\ Distinct(h)
       /\ Entries(h) = Entries(b.heap) \cup {e} /\ Len(h) = Len(b.heap) + 1
  BY <1>1, <1>9, <1>11, PushResult DEF ExactBook, h
<1>13. Tracks(h, ps)
  <2>1. ASSUME NEW j \in 1 .. Len(ps), ~ps[j].yieldCapped
        PROVE  Key(ps, j) \in Entries(h)
    <3>1. CASE j \in 1 .. n
      BY <1>5, <1>7, <1>12, <2>1, <3>1 DEF ExactBook, Tracks
    <3>2. CASE j = n + 1
      BY <1>7, <1>12, <3>2
    <3> QED BY <1>1, <1>5, <3>1, <3>2
  <2>2. ASSUME NEW x \in Entries(h)
        PROVE  \E j \in 1 .. Len(ps) : ~ps[j].yieldCapped /\ x = Key(ps, j)
    <3>1. CASE x = e
      <4>1. n + 1 \in 1 .. Len(ps)
        BY <1>1, <1>5
      <4> QED BY <1>4, <1>5, <1>7, <3>1, <4>1
    <3>2. CASE x # e
      <4>1. PICK j \in 1 .. n : ~b.positions[j].yieldCapped /\ x = Key(b.positions, j)
        BY <1>12, <2>2, <3>2 DEF ExactBook, Tracks
      <4> QED BY <1>5, <1>7, <1>10, <4>1
    <3> QED BY <3>1, <3>2
  <2> QED BY <2>1, <2>2 DEF Tracks
<1>14. SumsMatch(c)
  <2>1. \A t \in Terms : Total(t, ps) = Total(t, b.positions) + t[p]
    BY <1>1, <1>4, TotalAppend DEF ps
  <2>2. /\ RateOf[p] = YieldRate(p) /\ OffsetOf[p] = YieldRate(p) * now
        /\ PendingOf[p] = 0 /\ InvestedOf[p] = amount
    BY <1>4 DEF RateOf, OffsetOf, PendingOf, InvestedOf
  <2>3. SumsMatch(b)
    BY DEF ExactBook
  <2>4. c.rateSum = Total(RateOf, ps) /\ c.offsetSum = Total(OffsetOf, ps)
    BY <1>3, <2>1, <2>2, <2>3, TermsAreNat DEF SumsMatch
  <2>5. c.pending = Total(PendingOf, ps)
    BY <1>1, <1>3, <2>1, <2>2, <2>3, TermsAreNat DEF SumsMatch
  <2>6. c.invested = Total(InvestedOf, ps)
    <3>1. Total(InvestedOf, ps) = Total(InvestedOf, b.positions) + InvestedOf[p]
      BY <2>1, TermsAreNat
    <3>2. b.invested = Total(InvestedOf, b.positions)
      BY <2>3 DEF SumsMatch
    <3> QED BY <1>3, <2>2, <3>1, <3>2
  <2> QED BY <1>3, <2>4, <2>5, <2>6 DEF SumsMatch
<1>15. ExactBook(c) /\ Len(c.heap) = Len(b.heap) + 1
  BY <1>2, <1>3, <1>6, <1>12, <1>13, <1>14 DEF ExactBook
<1> QED BY <1>15 DEF c

\* No arm of pokeDecentral uncaps a position, and what leaves the frozen yield is
\* what the arms pay.
LEMMA PokeExact ==
  ASSUME NEW p \in NFTPosition, YieldInOrder(p), p.state # "Redeemed",
         NEW accepts \in BOOLEAN, NEW pays \in BOOLEAN
  PROVE  LET q == Poked(p, accepts, pays)
         IN  /\ q \in NFTPosition /\ YieldInOrder(q)
             /\ q.yieldCapped = p.yieldCapped /\ q.maturityTime = p.maturityTime
             /\ RateOf[q] = RateOf[p] /\ OffsetOf[q] = OffsetOf[p]
             /\ PendingOf[q] = PendingOf[p] - (p.pendingYield - q.pendingYield)
             /\ InvestedOf[q] = IF q.state = "Redeemed" THEN InvestedOf[p] - p.principal
                                ELSE InvestedOf[p]
             /\ q.principal = p.principal /\ YieldRate(q) = YieldRate(p)
             /\ q.state = "Redeemed" => p.pendingYield = 0 /\ q.pendingYield = 0
<1> DEFINE Kept(q) == /\ q \in NFTPosition /\ YieldInOrder(q)
                      /\ q.yieldCapped = p.yieldCapped /\ q.maturityTime = p.maturityTime
                      /\ q.yieldStartTime = p.yieldStartTime
                      /\ q.apyWad = p.apyWad /\ q.principal = p.principal
                      /\ q.state = "Redeemed" => p.pendingYield = 0 /\ q.pendingYield = 0
<1>1. Kept(RequestYield(p, accepts))
  BY DEF RequestYield, NFTPosition, States, YieldInOrder
<1>2. \A q : Kept(q) => Kept(ExecuteYield(q, pays))
  <2> SUFFICES ASSUME NEW q, Kept(q) PROVE Kept(ExecuteYield(q, pays))
    OBVIOUS
  <2>1. CASE q.state = "YieldWithdrawalRequested" /\ pays
    <3>1. ExecuteYield(q, pays) = [q EXCEPT !.state = "YieldClaimed", !.pendingYield = 0]
      BY <2>1 DEF ExecuteYield
    <3> DEFINE e == ExecuteYield(q, pays)
    <3>2. q \in NFTPosition
      OBVIOUS
    <3>3. e \in NFTPosition
      <4>1. [q EXCEPT !.state = "YieldClaimed", !.pendingYield = 0] \in NFTPosition
        BY <3>2 DEF NFTPosition, States
      <4> QED BY <3>1, <4>1
    <3>4. /\ e.state = "YieldClaimed" /\ e.pendingYield = 0
          /\ e.yieldCapped = q.yieldCapped /\ e.maturityTime = q.maturityTime
          /\ e.yieldStartTime = q.yieldStartTime
          /\ e.apyWad = q.apyWad /\ e.principal = q.principal
      BY <3>1, <3>2 DEF NFTPosition
    <3> HIDE DEF e
    <3>5. q.yieldCapped
      BY <2>1, <3>2 DEF YieldInOrder, NFTPosition
    <3>6. YieldInOrder(e)
      BY <3>4, <3>5 DEF YieldInOrder
    <3>7. Kept(e)
      BY <3>3, <3>4, <3>6
    <3> QED BY <3>7 DEF e
  <2>2. CASE ~(q.state = "YieldWithdrawalRequested" /\ pays)
    BY <2>2 DEF ExecuteYield
  <2> QED BY <2>1, <2>2
<1>3. \A q : Kept(q) => Kept(RequestPrincipal(q, accepts))
  BY DEF RequestPrincipal, NFTPosition, States, YieldInOrder
<1>4. ASSUME p.state = "PrincipalWithdrawalRequested"
      PROVE  Kept(IF pays THEN [p EXCEPT !.state = "Redeemed"] ELSE p)
  BY <1>4 DEF NFTPosition, States, YieldInOrder
<1> HIDE DEF Kept
<1> DEFINE q == Poked(p, accepts, pays)
<1>5. Kept(q)
  <2>1. CASE p.state = "PrincipalWithdrawalRequested"
    BY <1>4, <2>1 DEF Poked
  <2>2. CASE p.state # "PrincipalWithdrawalRequested"
    BY <1>1, <1>2, <1>3, <2>2 DEF Poked
  <2> QED BY <2>1, <2>2
<1> HIDE DEF q
<1>6. /\ q \in NFTPosition /\ YieldInOrder(q)
      /\ q.yieldCapped = p.yieldCapped /\ q.maturityTime = p.maturityTime
      /\ q.yieldStartTime = p.yieldStartTime /\ q.principal = p.principal
      /\ YieldRate(q) = YieldRate(p)
      /\ q.state = "Redeemed" => p.pendingYield = 0 /\ q.pendingYield = 0
  BY <1>5 DEF Kept, YieldRate
<1>7. RateOf[q] = RateOf[p] /\ OffsetOf[q] = OffsetOf[p]
  BY <1>6 DEF RateOf, OffsetOf
<1>8. p.pendingYield \in Nat /\ q.pendingYield \in Nat /\ p.principal \in Nat
  BY <1>6 DEF NFTPosition
<1>9. PendingOf[p] = p.pendingYield
      /\ PendingOf[q] = IF q.state = "Redeemed" THEN 0 ELSE q.pendingYield
  BY <1>6 DEF PendingOf
<1>10. InvestedOf[p] = p.principal
       /\ InvestedOf[q] = IF q.state = "Redeemed" THEN 0 ELSE p.principal
  BY <1>6 DEF InvestedOf
<1>11. PendingOf[q] = PendingOf[p] - (p.pendingYield - q.pendingYield)
  BY <1>6, <1>8, <1>9
<1>12. InvestedOf[q] = IF q.state = "Redeemed" THEN InvestedOf[p] - p.principal
                       ELSE InvestedOf[p]
  BY <1>8, <1>10
<1> QED BY <1>6, <1>7, <1>11, <1>12 DEF q

LEMMA PokedExact ==
  ASSUME NEW b, ExactBook(b), NEW i \in 1 .. Len(b.positions),
         b.positions[i].state # "Redeemed", NEW accepts \in BOOLEAN, NEW pays \in BOOLEAN
  PROVE  LET p == b.positions[i]
             q == Poked(p, accepts, pays)
         IN  ExactBook([b EXCEPT !.positions = [b.positions EXCEPT ![i] = q],
                                 !.pending   = b.pending - (p.pendingYield - q.pendingYield),
                                 !.invested  = IF q.state = "Redeemed"
                                               THEN b.invested - p.principal ELSE b.invested])
<1> DEFINE p == b.positions[i]
           q == Poked(p, accepts, pays)
           ps == [b.positions EXCEPT ![i] = q]
           pd == b.pending - (p.pendingYield - q.pendingYield)
           iv == IF q.state = "Redeemed" THEN b.invested - p.principal ELSE b.invested
           c == [b EXCEPT !.positions = ps, !.pending = pd, !.invested = iv]
<1>1. /\ b \in Books /\ b.positions \in Seq(NFTPosition) /\ Len(b.positions) \in Nat
      /\ b.heap \in Seq(Nat)
      /\ \A j \in 1 .. Len(b.positions) : b.positions[j] \in NFTPosition
      /\ b.rateSum \in Int /\ b.offsetSum \in Int /\ b.pending \in Int /\ b.invested \in Int
  BY ExactIsTyped
<1>2. p \in NFTPosition /\ YieldInOrder(p) /\ p.yieldStartTime <= p.maturityTime
  BY <1>1 DEF ExactBook, SoundBook
<1>3. /\ q \in NFTPosition /\ YieldInOrder(q)
      /\ q.yieldCapped = p.yieldCapped /\ q.maturityTime = p.maturityTime
      /\ RateOf[q] = RateOf[p] /\ OffsetOf[q] = OffsetOf[p]
      /\ PendingOf[q] = PendingOf[p] - (p.pendingYield - q.pendingYield)
      /\ InvestedOf[q] = IF q.state = "Redeemed" THEN InvestedOf[p] - p.principal
                         ELSE InvestedOf[p]
  BY <1>2, PokeExact
<1>4. q.yieldStartTime = p.yieldStartTime
  BY <1>2, PokeSound
<1> HIDE DEF q
<1>5. /\ ps \in Seq(NFTPosition) /\ Len(ps) = Len(b.positions)
      /\ \A j \in 1 .. Len(ps) : /\ ps[j] = IF j = i THEN q ELSE b.positions[j]
                                 /\ ps[j].yieldStartTime <= ps[j].maturityTime
  BY <1>2, <1>3, <1>4, ReplaceSound DEF ExactBook
<1>6. \A t \in Terms : Total(t, ps) = Total(t, b.positions) - t[p] + t[q]
  BY <1>1, <1>3, TotalReplace
<1>7. \A t \in Terms : Total(t, b.positions) \in Nat /\ t[p] \in Nat /\ t[q] \in Nat
  BY <1>1, <1>2, <1>3, TotalNat DEF Terms
<1>8. p.pendingYield \in Nat /\ q.pendingYield \in Nat /\ p.principal \in Nat
  BY <1>2, <1>3 DEF NFTPosition
<1>9. pd \in Int /\ iv \in Int
  <2>1. pd \in Int
    <3> HIDE DEF p
    <3> QED BY <1>1, <1>8
  <2>2. CASE q.state = "Redeemed"
    <3>1. b.invested - p.principal \in Int
      BY <1>1, <1>8
    <3> QED BY <2>1, <2>2, <3>1
  <2>3. CASE q.state # "Redeemed"
    BY <1>1, <2>1, <2>3
  <2> QED BY <2>2, <2>3
<1>10. SumsMatch(b)
  BY DEF ExactBook
<1> HIDE DEF ps
<1>11. b.rateSum = Total(RateOf, ps) /\ b.offsetSum = Total(OffsetOf, ps)
  <2>1. /\ Total(RateOf, ps) = b.rateSum - RateOf[p] + RateOf[q]
        /\ Total(OffsetOf, ps) = b.offsetSum - OffsetOf[p] + OffsetOf[q]
    BY <1>6, <1>10, TermsAreNat DEF SumsMatch
  <2>2. RateOf[p] \in Nat /\ OffsetOf[p] \in Nat
    BY <1>7, TermsAreNat
  <2> HIDE DEF p
  <2> QED BY <1>1, <1>3, <2>1, <2>2
<1>12. pd = Total(PendingOf, ps)
  <2>1. Total(PendingOf, ps) = b.pending - PendingOf[p] + PendingOf[q]
    BY <1>6, <1>10, TermsAreNat DEF SumsMatch
  <2>2. PendingOf[p] \in Nat
    BY <1>7, TermsAreNat
  <2> HIDE DEF p
  <2> QED BY <1>1, <1>3, <1>8, <2>1, <2>2
<1>13. iv = Total(InvestedOf, ps)
  <2>1. Total(InvestedOf, ps) = b.invested - InvestedOf[p] + InvestedOf[q]
    BY <1>6, <1>10, TermsAreNat DEF SumsMatch
  <2>2. InvestedOf[p] \in Nat
    BY <1>7, TermsAreNat
  <2> HIDE DEF p
  <2>3. CASE q.state = "Redeemed"
    BY <1>1, <1>3, <1>8, <2>1, <2>2, <2>3
  <2>4. CASE q.state # "Redeemed"
    BY <1>1, <1>3, <2>1, <2>2, <2>4
  <2> QED BY <2>3, <2>4
<1> HIDE DEF pd, iv
<1>14. /\ c \in Books /\ c.positions = ps /\ c.heap = b.heap
       /\ c.rateSum = b.rateSum /\ c.offsetSum = b.offsetSum
       /\ c.pending = pd /\ c.invested = iv
  BY <1>1, <1>5, <1>9 DEF Books
<1> HIDE DEF c
<1>15. SoundBook(c)
  BY <1>5, <1>14 DEF ExactBook, SoundBook
<1>16. /\ Len(ps) <= MaxPositions /\ \A j \in 1 .. Len(ps) : YieldInOrder(ps[j])
       /\ \A j \in 1 .. Len(ps) : ps[j].yieldStartTime <= now
  BY <1>3, <1>4, <1>5 DEF ExactBook
<1>17. Tracks(b.heap, ps)
  <2>1. \A j \in 1 .. Len(ps) : /\ ps[j].yieldCapped = b.positions[j].yieldCapped
                                /\ Key(ps, j) = Key(b.positions, j)
    BY <1>3, <1>5 DEF Key
  <2>2. Tracks(b.heap, b.positions)
    BY DEF ExactBook
  <2> QED BY <1>5, <2>1, <2>2 DEF Tracks
<1>18. SumsMatch(c)
  BY <1>11, <1>12, <1>13, <1>14 DEF SumsMatch
<1>19. ExactBook(c)
  BY <1>14, <1>15, <1>16, <1>17, <1>18 DEF ExactBook
<1> QED BY <1>19 DEF c, ps, pd, iv, q

\* A call that stores an exact book leaves one.
LEMMA StoreExact ==
  ASSUME NEW b, ExactBook(b), Store(b), now' = now
  PROVE  ExactBook(Book)'
BY StoreStores DEF ExactBook, SoundBook

LEMMA InitExact == Init => ExactBook(Book)
<1> SUFFICES ASSUME Init PROVE ExactBook(Book)
  OBVIOUS
<1>1. Book = [positions |-> <<>>, heap |-> <<>>, rateSum |-> 0, offsetSum |-> 0,
              pending |-> 0, invested |-> 0]
  BY DEF Init, Book
<1>2. SoundBook(Book)
  BY InitReachable DEF IInv
<1>3. SumsMatch(Book)
  BY <1>1, TotalEmpty DEF SumsMatch
<1>4. Len(<<>>) = 0 /\ MaxPositions \in Nat
  BY EmptySeq, PositionBookAssumption
<1>5. HeapOrdered(Book.heap) /\ Distinct(Book.heap) /\ Tracks(Book.heap, Book.positions)
  BY <1>1, <1>4 DEF HeapOrdered, Distinct, Tracks, Entries
<1>6. /\ Len(Book.positions) <= MaxPositions
      /\ \A i \in 1 .. Len(Book.positions) : YieldInOrder(Book.positions[i])
      /\ \A i \in 1 .. Len(Book.positions) : Book.positions[i].yieldStartTime <= now
  BY <1>1, <1>4
<1> QED BY <1>2, <1>3, <1>5, <1>6 DEF ExactBook

LEMMA DepositExact ==
  ASSUME IInv, ExactBook(Book), NEW a \in Nat, Deposit(a)
  PROVE  ExactBook(Book)'
<1>1. /\ Len(Book.positions) < MaxPositions /\ Store(Opened(Book, a))
      /\ now' = now
  BY DEF Deposit, CanOpen, Book
<1>2. ExactBook(Opened(Book, a))
  BY <1>1, OpenExact DEF IInv
<1> QED BY <1>1, <1>2, StoreExact

LEMMA PokeQueueExact ==
  ASSUME IInv, ExactBook(Book), NEW a \in Nat, PokeQueue(a)
  PROVE  ExactBook(Book)'
<1> DEFINE b == Synced(MAX_MATURITY_SYNC)
<1>1. MAX_MATURITY_SYNC \in Nat
  BY PositionBookAssumption
<1>2. ExactBook(b) /\ Len(b.positions) = Len(positions)
  BY <1>1, SyncExact, SyncReachable DEF Agree
<1>3. CASE a = 0
  <2>1. Store(b) /\ now' = now
    BY <1>3 DEF PokeQueue
  <2> QED BY <1>2, <2>1, StoreExact
<1>4. CASE a # 0
  <2>1. Store(Opened(b, a)) /\ Len(positions) < MaxPositions /\ now' = now
    BY <1>4 DEF PokeQueue, CanOpen
  <2>2. ExactBook(Opened(b, a))
    BY <1>1, <1>2, <2>1, OpenExact DEF IInv
  <2> QED BY <2>1, <2>2, StoreExact
<1> QED BY <1>3, <1>4

LEMMA PokeDecentralExact ==
  ASSUME IInv, ExactBook(Book), NEW i \in 1 .. MaxPositions, NEW accepts \in BOOLEAN,
         NEW serves \in BOOLEAN, PokeDecentral(i, accepts, serves)
  PROVE  ExactBook(Book)'
<1> DEFINE b == Synced(MAX_MATURITY_SYNC)
           p == b.positions[i]
           pays == serves /\ i \in payable
           q == Poked(p, accepts, pays)
           c == [b EXCEPT !.positions = [b.positions EXCEPT ![i] = q],
                          !.pending   = b.pending - (p.pendingYield - q.pendingYield),
                          !.invested  = IF q.state = "Redeemed"
                                        THEN b.invested - p.principal ELSE b.invested]
<1>1. MAX_MATURITY_SYNC \in Nat
  BY PositionBookAssumption
<1>2. ExactBook(b) /\ Agree(positions, b.positions)
  BY <1>1, SyncExact, SyncReachable
<1>3. i \in 1 .. Len(b.positions) /\ p.state # "Redeemed"
  BY <1>2 DEF PokeDecentral, Agree
<1>4. Store(c) /\ now' = now
  BY DEF PokeDecentral
<1>5. ExactBook(c)
  <2>1. pays \in BOOLEAN
    OBVIOUS
  <2> HIDE DEF b, pays
  <2> QED BY <1>2, <1>3, <2>1, PokedExact, ZenonT(60)
<1> HIDE DEF c
<1> QED BY <1>4, <1>5, StoreExact

LEMMA NextExact == IInv /\ ExactBook(Book) /\ [Next]_vars => ExactBook(Book)'
<1> SUFFICES ASSUME IInv, ExactBook(Book), [Next]_vars PROVE ExactBook(Book)'
  OBVIOUS
<1>1. CASE \E a \in Amounts : Deposit(a)
  BY <1>1, DepositExact, PositionBookAssumption
<1>2. CASE \E a \in Amounts \cup {0} : PokeQueue(a)
  BY <1>2, PokeQueueExact, PositionBookAssumption
<1>3. CASE \E n \in 1 .. MaxPositions : SyncMaturities(n)
  <2>1. PICK n \in 1 .. MaxPositions : SyncMaturities(n)
    BY <1>3
  <2>2. n \in Nat /\ Store(Synced(n)) /\ now' = now
    BY <2>1 DEF SyncMaturities
  <2> QED BY <2>2, SyncExact, StoreExact
<1>4. CASE \E i \in 1 .. MaxPositions : \E accepts, serves \in BOOLEAN : PokeDecentral(i, accepts, serves)
  BY <1>4, PokeDecentralExact
<1>5. CASE UNCHANGED bookVars /\ (now' = now \/ now' = now + 1)
  <2>1. Book' = Book
    BY <1>5 DEF bookVars, Book
  <2>2. \A i \in 1 .. Len(Book.positions) : Book.positions[i].yieldStartTime <= now'
    <3>1. \A i \in 1 .. Len(Book.positions) :
            /\ Book.positions[i] \in NFTPosition /\ Book.positions[i].yieldStartTime <= now
      BY ExactIsTyped DEF ExactBook
    <3>2. \A i \in 1 .. Len(Book.positions) : Book.positions[i].yieldStartTime \in Nat
      BY <3>1 DEF NFTPosition
    <3> QED BY <1>5, <3>1, <3>2 DEF IInv
  <2> QED BY <2>1, <2>2 DEF ExactBook
<1>6. CASE \/ \E i \in 1 .. MaxPositions : Release(i)
           \/ \E p \in Pools : RegisterPool(p) \/ SetActiveDepositPool(p) \/ RetirePool(p)
           \/ Tick
  BY <1>5, <1>6 DEF Release, RegisterPool, SetActiveDepositPool, RetirePool, Tick
<1>7. CASE UNCHANGED vars
  BY <1>5, <1>7 DEF vars
<1> QED BY <1>1, <1>2, <1>3, <1>4, <1>6, <1>7 DEF Next

-----------------------------------------------------------------------------
(* What they amount to.                                                    *)

ExactInv == IInv /\ ExactBook(Book)

LEMMA SumsAreExact ==
  ASSUME ExactBook(Book)
  PROVE  AggregatesExact
<1>1. /\ positions \in Seq(NFTPosition) /\ Len(positions) \in Nat
      /\ \A i \in Places : positions[i] \in NFTPosition
  BY ExactIsTyped DEF Book, Places
<1>2. \A k \in 0 .. (Len(positions) - 1) : k + 1 \in Places
  BY <1>1 DEF Places
<1> DEFINE rates    == [i \in Places |-> YieldRate(positions[i])]
           offsets  == [i \in Places |-> YieldRate(positions[i]) * positions[i].yieldStartTime]
           frozen   == [i \in Places |-> positions[i].pendingYield]
           invested == [i \in Places |-> positions[i].principal]
<1>3. SumWhere(Uncapped, rates) = Total(RateOf, positions)
  <2>1. [k \in 0 .. (Len(positions) - 1) |-> IF Uncapped[k + 1] THEN rates[k + 1] ELSE 0]
          = [k \in 0 .. (Len(positions) - 1) |-> RateOf[positions[k + 1]]]
    BY <1>1, <1>2 DEF RateOf, Uncapped
  <2> QED BY <2>1 DEF SumWhere, Total
<1>4. SumWhere(Uncapped, offsets) = Total(OffsetOf, positions)
  <2>1. [k \in 0 .. (Len(positions) - 1) |-> IF Uncapped[k + 1] THEN offsets[k + 1] ELSE 0]
          = [k \in 0 .. (Len(positions) - 1) |-> OffsetOf[positions[k + 1]]]
    BY <1>1, <1>2 DEF OffsetOf, Uncapped
  <2> QED BY <2>1 DEF SumWhere, Total
<1>5. SumWhere(Open, frozen) = Total(PendingOf, positions)
  <2>1. [k \in 0 .. (Len(positions) - 1) |-> IF Open[k + 1] THEN frozen[k + 1] ELSE 0]
          = [k \in 0 .. (Len(positions) - 1) |-> PendingOf[positions[k + 1]]]
    BY <1>1, <1>2 DEF PendingOf, Open
  <2> QED BY <2>1 DEF SumWhere, Total
<1>6. SumWhere(Open, invested) = Total(InvestedOf, positions)
  <2>1. [k \in 0 .. (Len(positions) - 1) |-> IF Open[k + 1] THEN invested[k + 1] ELSE 0]
          = [k \in 0 .. (Len(positions) - 1) |-> InvestedOf[positions[k + 1]]]
    BY <1>1, <1>2 DEF InvestedOf, Open
  <2> QED BY <2>1 DEF SumWhere, Total
<1>7. /\ yieldRateSum = Total(RateOf, positions) /\ yieldOffsetSum = Total(OffsetOf, positions)
      /\ totalPendingYield = Total(PendingOf, positions)
      /\ totalInvestedPrincipal = Total(InvestedOf, positions)
  BY DEF ExactBook, SumsMatch, Book
<1> QED BY <1>3, <1>4, <1>5, <1>6, <1>7 DEF AggregatesExact

\* No two entries are equal, and each gives back the index of its position: as many
\* entries as uncapped positions.
LEMMA HeapIsExact ==
  ASSUME ExactBook(Book)
  PROVE  HeapTracksUncapped
<1> DEFINE S == {j \in Places : Uncapped[j]}
           f == [c \in 1 .. Len(heap) |-> IndexOf(heap[c])]
<1>1. /\ positions \in Seq(NFTPosition) /\ Len(positions) \in Nat /\ heap \in Seq(Nat)
      /\ Len(positions) <= MaxPositions
      /\ HeapOrdered(heap) /\ Distinct(heap) /\ Tracks(heap, positions)
  BY ExactIsTyped DEF ExactBook, Book
<1>2. \A j : j \in S <=> j \in 1 .. Len(positions) /\ ~positions[j].yieldCapped
  BY DEF Places, Uncapped
<1> HIDE DEF S
<1>3. Entries(heap) = {Packed(positions[i].maturityTime, i) : i \in S}
  BY <1>1, <1>2 DEF Tracks, Key
<1>4. \A j \in S : Key(positions, j) \in Nat /\ IndexOf(Key(positions, j)) = j
  BY <1>1, <1>2, KeyNames
<1>5. \A c \in 1 .. Len(heap) : f[c] \in S /\ heap[c] = Key(positions, f[c])
  <2> TAKE c \in 1 .. Len(heap)
  <2>1. heap[c] \in Entries(heap)
    BY DEF Entries
  <2>2. PICK j \in S : heap[c] = Key(positions, j)
    BY <1>1, <1>2, <2>1 DEF Tracks
  <2> QED BY <1>4, <2>2
<1>6. f \in [1 .. Len(heap) -> S]
  BY <1>5
<1>7. \A c, d \in 1 .. Len(heap) : f[c] = f[d] => c = d
  <2> SUFFICES ASSUME NEW c \in 1 .. Len(heap), NEW d \in 1 .. Len(heap), f[c] = f[d]
               PROVE  c = d
    OBVIOUS
  <2>1. heap[c] = heap[d]
    BY <1>5
  <2> QED BY <1>1, <2>1 DEF Distinct
<1>8. \A j \in S : \E c \in 1 .. Len(heap) : f[c] = j
  <2> TAKE j \in S
  <2>1. Key(positions, j) \in Entries(heap)
    BY <1>1, <1>2 DEF Tracks
  <2>2. PICK c \in 1 .. Len(heap) : heap[c] = Key(positions, j)
    BY <2>1 DEF Entries
  <2> QED BY <1>4, <2>2
<1> HIDE DEF f
<1>9. ExistsBijection(1 .. Len(heap), S)
  BY <1>6, <1>7, <1>8, Fun_IsBij DEF ExistsBijection
<1>10. Len(heap) \in Nat
  BY <1>1, LenProperties
<1>11. IsFiniteSet(1 .. Len(heap)) /\ Cardinality(1 .. Len(heap)) = Len(heap)
  <2>1. PICK n \in Nat : n = Len(heap)
    BY <1>10
  <2>2. IsFiniteSet(1 .. n)
    BY FS_Interval
  <2>3. Cardinality(1 .. n) = IF 1 > n THEN 0 ELSE n - 1 + 1
    BY FS_Interval
  <2> QED BY <2>1, <2>2, <2>3
<1>12. Cardinality(S) = Len(heap)
  BY <1>9, <1>11, FS_Bijection
<1> QED BY <1>1, <1>3, <1>12 DEF HeapTracksUncapped, S

LEMMA ExactAlways == Spec => []ExactInv
<1>1. Init => ExactInv
  BY InitReachable, InitExact DEF ExactInv
<1>2. ExactInv /\ [Next]_vars => ExactInv'
  BY NextReachable, NextExact DEF ExactInv
<1> QED BY <1>1, <1>2, PTL DEF Spec

\* The four aggregates that totalAssets reads are the sums over the positions they
\* stand for, however many positions of whatever pools are opened, capped, paid and
\* redeemed, in any order and with any budget.
THEOREM AggregatesStayExact == Spec => []AggregatesExact
<1>1. ExactInv => AggregatesExact
  BY SumsAreExact DEF ExactInv
<1> QED BY <1>1, ExactAlways, PTL

\* The heap holds exactly the positions whose yield is running, each once and under
\* its own maturity, the earliest at the root.
THEOREM HeapAlwaysTracks == Spec => []HeapTracksUncapped
<1>1. ExactInv => HeapTracksUncapped
  BY HeapIsExact DEF ExactInv
<1> QED BY <1>1, ExactAlways, PTL

\* The time up to which totalAssets lets yield run is past the maturity of no position
\* whose yield still runs: the root's maturity clamps it, and the root is the earliest.
LEMMA AccrualClamped ==
  ASSUME ExactBook(Book), now \in Nat
  PROVE  /\ AccrualTime(Book) \in Int /\ AccrualTime(Book) <= now
         /\ \A i \in Places : Uncapped[i] => AccrualTime(Book) <= positions[i].maturityTime
<1> DEFINE t == AccrualTime(Book)
           m == MaturityOf(heap[1])
<1>1. /\ positions \in Seq(NFTPosition) /\ Len(positions) \in Nat /\ heap \in Seq(Nat)
      /\ Len(positions) <= MaxPositions
      /\ HeapOrdered(heap) /\ Tracks(heap, positions)
      /\ \A i \in Places : positions[i] \in NFTPosition
  BY ExactIsTyped DEF ExactBook, Book, Places
<1>2. t = IF heap # <<>> /\ m < now THEN m ELSE now
  BY DEF AccrualTime, Book
<1>3. \A i \in 1 .. Len(positions) : positions[i].maturityTime \in Nat /\ i \in Nat /\ i < SHIFT
  <2>1. Len(positions) < SHIFT /\ SHIFT \in Nat
    BY <1>1, PositionBookAssumption, PositionBookAssumption
  <2>2. \A i \in 1 .. Len(positions) : i \in Nat /\ i < SHIFT
    BY <1>1, <2>1
  <2>3. \A i \in 1 .. Len(positions) : positions[i].maturityTime \in Nat
    BY <1>1 DEF NFTPosition, Places
  <2> QED BY <2>2, <2>3
<1> HIDE DEF t, m
<1>4. CASE heap = <<>>
  <2>1. Entries(heap) = {}
    BY <1>4, EmptySeq DEF Entries
  <2>2. \A i \in Places : ~Uncapped[i]
    BY <1>1, <2>1 DEF Tracks, Uncapped, Places
  <2> QED BY <1>2, <1>4, <2>2 DEF t
<1>5. CASE heap # <<>>
  <2>1. 1 \in 1 .. Len(heap) /\ heap[1] \in Entries(heap)
    BY <1>1, <1>5, EmptySeq DEF Entries
  <2>2. PICK r \in 1 .. Len(positions) : heap[1] = Key(positions, r)
    BY <1>1, <2>1 DEF Tracks
  <2>3. m = positions[r].maturityTime
    BY <1>3, <2>2, IndexOfPacked DEF Key, m
  <2>4. m \in Nat
    BY <1>3, <2>3
  <2>5. ASSUME NEW i \in Places, Uncapped[i]
        PROVE  m <= positions[i].maturityTime
    <3>1. i \in 1 .. Len(positions) /\ Key(positions, i) \in Entries(heap)
      BY <1>1, <2>5 DEF Tracks, Uncapped, Places
    <3>2. heap[1] <= Key(positions, i)
      BY <1>1, <3>1, RootIsSmallest DEF Entries
    <3>3. Packed(m, r) <= Packed(positions[i].maturityTime, i)
      BY <2>2, <2>3, <3>2 DEF Key
    <3> QED BY <1>3, <2>4, <3>1, <3>3, PackedOrder
  <2>6. t \in Int /\ t <= now /\ t <= m
    BY <1>2, <1>5, <2>4
  <2>7. \A i \in Places : positions[i].maturityTime \in Nat
    BY <1>3 DEF Places
  <2>8. \A i \in Places : Uncapped[i] => t <= positions[i].maturityTime
    BY <2>4, <2>5, <2>6, <2>7
  <2> QED BY <2>6, <2>8 DEF t
<1> QED BY <1>4, <1>5

LEMMA NoneIsPhantom ==
  ASSUME ExactBook(Book), now \in Nat
  PROVE  NoPhantomYield
<1> DEFINE n == Len(positions)
           t == AccrualTime(Book)
           end(i) == IF now < positions[i].maturityTime THEN now ELSE positions[i].maturityTime
           earned == [i \in Places |-> GrossYield(positions[i], end(i))]
           f == [k \in 0 .. (n - 1) |-> RateOf[positions[k + 1]]]
           g == [k \in 0 .. (n - 1) |-> OffsetOf[positions[k + 1]]]
           h == [k \in 0 .. (n - 1) |-> IF Uncapped[k + 1] THEN earned[k + 1] ELSE 0]
<1>1. /\ positions \in Seq(NFTPosition) /\ n \in Nat
      /\ \A i \in Places : /\ positions[i] \in NFTPosition
                           /\ positions[i].yieldStartTime <= now
                           /\ positions[i].yieldStartTime <= positions[i].maturityTime
  BY ExactIsTyped DEF ExactBook, SoundBook, Book, Places
<1>2. /\ t \in Int /\ t <= now
      /\ \A i \in Places : Uncapped[i] => t <= positions[i].maturityTime
  BY AccrualClamped
<1> HIDE DEF t
<1>3. \A k \in 0 .. (n - 1) : k + 1 \in Places
  BY <1>1 DEF Places
<1>4. ASSUME NEW k \in 0 .. (n - 1)
      PROVE  /\ f[k] \in Int /\ g[k] \in Int /\ h[k] \in Nat
             /\ t * f[k] - g[k] <= h[k]
  <2> DEFINE p == positions[k + 1]
             r == YieldRate(p)
             z == end(k + 1)
  <2>1. /\ p \in NFTPosition /\ k + 1 \in Places
        /\ p.yieldStartTime <= now /\ p.yieldStartTime <= p.maturityTime
    BY <1>1, <1>3
  <2>2. /\ f[k] = IF p.yieldCapped THEN 0 ELSE r
        /\ g[k] = IF p.yieldCapped THEN 0 ELSE r * p.yieldStartTime
        /\ h[k] = IF p.yieldCapped THEN 0 ELSE r * (z - p.yieldStartTime)
    BY <2>1 DEF RateOf, OffsetOf, Uncapped, GrossYield
  <2>3. \A a, d \in Nat : a * d \in Nat
    OBVIOUS
  <2>4. /\ r \in Nat /\ p.yieldStartTime \in Nat /\ p.maturityTime \in Nat
        /\ z = IF now < p.maturityTime THEN now ELSE p.maturityTime
    BY <2>1, <2>3 DEF YieldRate, NFTPosition
  <2>5. ~p.yieldCapped => t <= p.maturityTime
    BY <1>2, <2>1 DEF Uncapped
  <2>6. z \in Nat /\ p.yieldStartTime <= z /\ (~p.yieldCapped => t <= z)
    BY <1>2, <2>1, <2>4, <2>5
  <2> HIDE DEF r, z, f, g, h
  <2>7. CASE p.yieldCapped
    BY <1>2, <2>2, <2>7
  <2>8. CASE ~p.yieldCapped
    <3> DEFINE s == p.yieldStartTime
    <3>1. f[k] = r /\ g[k] = r * s /\ h[k] = r * (z - s)
      BY <2>2, <2>8
    <3>2. s \in Nat /\ z - s \in Nat /\ z - t \in Nat
      <4>1. s \in Nat /\ s <= z /\ z \in Nat
        BY <2>4, <2>6
      <4>2. t \in Int /\ t <= z
        BY <1>2, <2>6, <2>8
      <4> HIDE DEF s
      <4> QED BY <4>1, <4>2
    <3> HIDE DEF s, p
    <3>3. r * s \in Nat /\ r * (z - s) \in Nat /\ r * (z - t) \in Nat /\ r * z \in Nat
      BY <2>3, <2>4, <2>6, <3>2
    <3>4. r * (z - s) = r * z - r * s /\ r * (z - t) = r * z - t * r
      BY <1>2, <2>4, <2>6, <3>2
    <3>5. t * r \in Int
      BY <1>2, <2>4
    <3>6. \A x, y, u, v, w \in Int : u = y - x /\ v = y - w /\ v >= 0 => w - x <= u
      OBVIOUS
    <3>7. r * (z - t) >= 0
      BY <3>3
    <3>8. t * r - r * s <= r * (z - s)
      BY <3>3, <3>4, <3>5, <3>6, <3>7
    <3>9. f[k] \in Int /\ g[k] \in Int /\ h[k] \in Nat
      BY <2>4, <3>1, <3>3
    <3>10. t * f[k] - g[k] <= h[k]
      BY <3>1, <3>8
    <3> QED BY <3>9, <3>10
  <2> QED BY <2>7, <2>8
<1> HIDE DEF f, g, h, end
<1>5. t * SumTo(f, n) - SumTo(g, n) <= SumTo(h, n)
  <2>1. \A k \in 0 .. (n - 1) : h[k] \in Int
    BY <1>4
  <2> QED BY <1>1, <1>2, <1>4, <2>1, SumOfDifferences
<1>6. SumTo(h, n) \in Nat
  BY <1>1, <1>4, SumNat
<1>7. Book.rateSum = SumTo(f, n) /\ Book.offsetSum = SumTo(g, n)
      /\ Book.rateSum \in Int /\ Book.offsetSum \in Int
  <2>1. Book.rateSum = Total(RateOf, positions) /\ Book.offsetSum = Total(OffsetOf, positions)
    BY DEF ExactBook, SumsMatch, Book
  <2> QED BY <2>1, ExactIsTyped DEF Total, f, g
<1>8. AccruedYield(Book) * Denominator <= SumTo(h, n)
  <2> DEFINE gross == t * Book.rateSum
             x == gross - Book.offsetSum
  <2>1. gross \in Int /\ x \in Int /\ Denominator \in Nat \ {0}
    BY <1>2, <1>7, PositionBookAssumption
  <2>2. AccruedYield(Book) = IF gross > Book.offsetSum THEN x \div Denominator ELSE 0
    BY DEF AccruedYield, t
  <2>3. x <= SumTo(h, n)
    BY <1>5, <1>7
  <2>4. (x \div Denominator) * Denominator <= x
    <3> HIDE DEF x
    <3> QED BY <2>1
  <2>5. (x \div Denominator) * Denominator \in Int
    <3> HIDE DEF x
    <3> QED BY <2>1
  <2> HIDE DEF x, gross
  <2> QED BY <1>6, <2>1, <2>2, <2>3, <2>4, <2>5
<1>9. SumWhere(Uncapped, earned) = SumTo(h, n)
  BY DEF SumWhere, h
<1>10. earned = [i \in Places |->
          GrossYield(positions[i], IF now < positions[i].maturityTime THEN now
                                   ELSE positions[i].maturityTime)]
  BY DEF end
<1> HIDE DEF earned
<1> QED BY <1>8, <1>9, <1>10 DEF NoPhantomYield

\* totalAssets never reports running yield that the uncapped positions have not
\* earned, however late the sync: for any rates, periods and amounts.
THEOREM YieldNeverPhantom == Spec => []NoPhantomYield
<1>1. ExactInv => NoPhantomYield
  BY NoneIsPhantom DEF ExactInv, IInv
<1> QED BY <1>1, ExactAlways, PTL

-----------------------------------------------------------------------------
(* What a call does to the yield that totalAssets reports.                 *)

Running(x) == IF x > 0 THEN x \div Denominator ELSE 0

LEMMA DivNat ==
  ASSUME NEW x \in Nat
  PROVE  x \div Denominator \in Nat
<1>1. Denominator \in Nat \ {0}
  BY PositionBookAssumption
<1> QED BY <1>1

\* The yield that runs is a function of what the aggregates have come to.
LEMMA AccruedRuns ==
  ASSUME NEW b, AccrualTime(b) \in Int, b.rateSum \in Int, b.offsetSum \in Int
  PROVE  /\ AccrualTime(b) * b.rateSum - b.offsetSum \in Int
         /\ AccruedYield(b) = Running(AccrualTime(b) * b.rateSum - b.offsetSum)
<1>1. PICK g \in Int : g = AccrualTime(b) * b.rateSum
  OBVIOUS
<1>2. AccruedYield(b) = IF g > b.offsetSum THEN (g - b.offsetSum) \div Denominator ELSE 0
  BY <1>1 DEF AccruedYield
<1>3. g - b.offsetSum \in Int /\ (g > b.offsetSum <=> g - b.offsetSum > 0)
  OBVIOUS
<1> QED BY <1>1, <1>2, <1>3 DEF Running

LEMMA RunningNat ==
  ASSUME NEW x \in Int
  PROVE  Running(x) \in Nat
BY DivNat DEF Running

\* To round two parts of a sum down loses one unit at most against rounding the sum.
LEMMA FloorLoss ==
  ASSUME NEW x \in Int, NEW y \in Int, NEW g \in Nat, y >= x - g
  PROVE  Running(y) + (g \div Denominator) + 1 >= Running(x)
<1> DEFINE d == Denominator
<1>1. d \in Nat \ {0}
  BY PositionBookAssumption
<1> HIDE DEF d
<1>2. \A z \in Nat : z \div d \in Nat /\ z = d * (z \div d) + (z % d) /\ z % d \in 0 .. (d - 1)
  BY <1>1
<1>3. PICK k \in Nat : k = g \div d
  BY <1>2
<1>4. g < d * k + d
  BY <1>1, <1>2, <1>3
<1>5. CASE x <= 0
  <2>1. Running(x) = 0 /\ Running(y) \in Nat
    BY <1>5, RunningNat DEF Running
  <2> QED BY <1>3, <2>1 DEF d
<1>6. CASE x > 0
  <2>1. x \in Nat
    BY <1>6
  <2>2. PICK q \in Nat : q = x \div d
    BY <1>2, <2>1
  <2>3. x >= d * q /\ Running(x) = q
    <3>1. x = d * q + (x % d) /\ x % d \in Nat /\ d * q \in Int
      BY <1>1, <1>2, <2>1, <2>2
    <3>2. Running(x) = x \div d
      BY <1>6 DEF Running, d
    <3> QED BY <2>2, <3>1, <3>2
  <2>4. PICK m \in Nat : m = Running(y)
    BY RunningNat
  <2>5. y < d * m + d
    <3>1. CASE y > 0
      <4>1. y \in Nat /\ m = y \div d
        BY <2>4, <3>1 DEF Running, d
      <4>2. y = d * m + (y % d) /\ y % d \in 0 .. (d - 1) /\ d * m \in Int
        BY <1>1, <1>2, <4>1
      <4> QED BY <1>1, <4>2
    <3>2. CASE y <= 0
      <4>1. d * m \in Nat
        BY <1>1
      <4> QED BY <1>1, <3>2, <4>1
    <3> QED BY <3>1, <3>2
  <2>6. m + k + 1 >= q
    <3> SUFFICES ASSUME q >= m + k + 2 PROVE FALSE
      BY <1>1
    <3>1. PICK e \in Nat : e = q - m - k - 2
      OBVIOUS
    <3>2. d * q = d * m + d * k + 2 * d + d * e /\ d * e \in Nat
      BY <1>1, <3>1
    <3>3. d * m \in Int /\ d * k \in Int /\ d * q \in Int
      BY <1>1
    <3> QED BY <1>1, <1>4, <2>3, <2>5, <3>2, <3>3
  <2>7. Running(y) + k + 1 >= Running(x)
    BY <2>3, <2>4, <2>6
  <2> QED BY <1>3, <2>7 DEF d
<1> QED BY <1>5, <1>6

\* In an exact book the root stands for an uncapped position, and no entry has an
\* earlier maturity.
LEMMA RootIsEarliest ==
  ASSUME NEW b, ExactBook(b), b.heap # <<>>
  PROVE  /\ IndexOf(b.heap[1]) \in 1 .. Len(b.positions)
         /\ ~b.positions[IndexOf(b.heap[1])].yieldCapped
         /\ MaturityOf(b.heap[1]) = b.positions[IndexOf(b.heap[1])].maturityTime
         /\ MaturityOf(b.heap[1]) \in Nat
         /\ \A e \in Entries(b.heap) : /\ MaturityOf(e) \in Nat
                                       /\ MaturityOf(b.heap[1]) <= MaturityOf(e)
<1>1. /\ b.positions \in Seq(NFTPosition) /\ Len(b.positions) \in Nat /\ b.heap \in Seq(Nat)
      /\ \A i \in 1 .. Len(b.positions) : b.positions[i] \in NFTPosition
      /\ Len(b.positions) <= MaxPositions
      /\ HeapOrdered(b.heap) /\ Tracks(b.heap, b.positions)
  BY ExactIsTyped DEF ExactBook
<1>2. Len(b.positions) < SHIFT /\ SHIFT \in Nat
  BY <1>1, PositionBookAssumption, PositionBookAssumption
<1>3. \A i \in 1 .. Len(b.positions) : b.positions[i].maturityTime \in Nat
  BY <1>1 DEF NFTPosition
<1>4. \A i \in 1 .. Len(b.positions) :
        /\ IndexOf(Key(b.positions, i)) = i
        /\ MaturityOf(Key(b.positions, i)) = b.positions[i].maturityTime
  <2> TAKE i \in 1 .. Len(b.positions)
  <2>1. b.positions[i].maturityTime \in Nat /\ i \in Nat /\ i < SHIFT
    BY <1>1, <1>2, <1>3
  <2> QED BY <2>1, IndexOfPacked DEF Key
<1>5. 1 \in 1 .. Len(b.heap) /\ b.heap[1] \in Entries(b.heap)
  BY <1>1, EmptySeq DEF Entries
<1>6. PICK r \in 1 .. Len(b.positions) :
        ~b.positions[r].yieldCapped /\ b.heap[1] = Key(b.positions, r)
  BY <1>1, <1>5 DEF Tracks
<1>7. ASSUME NEW e \in Entries(b.heap)
      PROVE  MaturityOf(e) \in Nat /\ MaturityOf(b.heap[1]) <= MaturityOf(e)
  <2>1. PICK i \in 1 .. Len(b.positions) : e = Key(b.positions, i)
    BY <1>1 DEF Tracks
  <2>2. Key(b.positions, r) <= Key(b.positions, i)
    BY <1>1, <1>6, <2>1, RootIsSmallest DEF Entries
  <2>3. Packed(b.positions[r].maturityTime, r) <= Packed(b.positions[i].maturityTime, i)
    BY <2>2 DEF Key
  <2>4. i \in Nat /\ r \in Nat /\ i < SHIFT
    BY <1>1, <1>2
  <2>5. b.positions[r].maturityTime <= b.positions[i].maturityTime
    BY <1>3, <2>3, <2>4, PackedOrder
  <2> QED BY <1>3, <1>4, <1>6, <2>1, <2>5
<1> QED BY <1>3, <1>4, <1>6, <1>7

\* To cap the earliest position loses one unit of rounding at most.
LEMMA CapLoses ==
  ASSUME NEW b, ExactBook(b), HasMaturedBacklog(b), now \in Nat
  PROVE  /\ YieldValue(b) \in Int /\ YieldValue(CapEarliest(b)) \in Int
         /\ YieldValue(CapEarliest(b)) + 1 >= YieldValue(b)
<1> DEFINE i == IndexOf(b.heap[1])
           old == b.positions[i]
           p == Frozen(old)
           m == MaturityOf(b.heap[1])
           c == CapEarliest(b)
           t == AccrualTime(c)
           r == YieldRate(old)
           s == old.yieldStartTime
           g == r * (m - s)
<1>1. b.heap # <<>> /\ m <= now
  BY DEF HasMaturedBacklog
<1>2. /\ b \in Books /\ b.rateSum \in Int /\ b.offsetSum \in Int /\ b.pending \in Int
      /\ b.heap \in Seq(Nat) /\ b.positions \in Seq(NFTPosition)
  BY ExactIsTyped
<1>3. /\ i \in 1 .. Len(b.positions) /\ old \in NFTPosition /\ m = old.maturityTime /\ m \in Nat
      /\ ~old.yieldCapped /\ s <= old.maturityTime
      /\ \A e \in Entries(b.heap) : MaturityOf(e) \in Nat /\ m <= MaturityOf(e)
  BY <1>1, RootIsEarliest, ExactIsTyped DEF ExactBook, SoundBook
<1>4. ExactBook(c)
  BY <1>1, CapExact
<1>5. /\ c.rateSum = b.rateSum - YieldRate(p)
      /\ c.offsetSum = b.offsetSum - YieldRate(p) * p.yieldStartTime
      /\ c.pending = b.pending + p.pendingYield
      /\ c.heap = PopMaturity(b.heap)
  BY <1>2 DEF CapEarliest, Books
<1>6. /\ YieldRate(p) = r /\ p.yieldStartTime = s
      /\ p.pendingYield = g \div Denominator
  BY <1>3 DEF Frozen, NFTPosition, YieldRate, GrossYield
<1>7. /\ c.rateSum \in Nat /\ c.offsetSum \in Int /\ c.pending \in Int /\ c.heap \in Seq(Nat)
  <2>1. c.positions \in Seq(NFTPosition) /\ c.rateSum = Total(RateOf, c.positions)
    BY <1>4, ExactIsTyped DEF ExactBook, SumsMatch
  <2>2. c.rateSum \in Nat
    BY <2>1, TotalNat, TermsAreNat
  <2> QED BY <1>4, <2>2, ExactIsTyped
<1>8. Entries(c.heap) \subseteq Entries(b.heap)
  BY <1>1, <1>2, <1>5, PopResult DEF ExactBook
<1>9. AccrualTime(b) = m
  BY <1>1, <1>3 DEF AccrualTime
<1>10. t \in Int /\ t >= m
  <2>1. CASE c.heap = <<>>
    BY <1>1, <1>3, <2>1 DEF AccrualTime
  <2>2. CASE c.heap # <<>>
    <3>1. c.heap[1] \in Entries(c.heap)
      <4>1. 1 \in 1 .. Len(c.heap)
        BY <1>7, <2>2, EmptySeq
      <4> QED BY <4>1 DEF Entries
    <3>2. MaturityOf(c.heap[1]) \in Nat /\ m <= MaturityOf(c.heap[1])
      BY <1>3, <1>8, <3>1
    <3>3. t = MaturityOf(c.heap[1]) \/ t = now
      BY DEF AccrualTime
    <3> QED BY <1>1, <1>3, <3>2, <3>3
  <2> QED BY <2>1, <2>2
<1>11. s \in Nat /\ r \in Nat
  <2>1. \A a, d \in Nat : a * d \in Nat
    OBVIOUS
  <2> QED BY <1>3, <2>1 DEF NFTPosition, YieldRate
<1> HIDE DEF r, s, t, c, p, old, i, m
<1>12. m - s \in Nat /\ g \in Nat
  <2>1. m - s \in Nat
    BY <1>3, <1>11
  <2>2. \A a, d \in Nat : a * d \in Nat
    OBVIOUS
  <2> QED BY <1>11, <2>1, <2>2
<1> DEFINE x == m * b.rateSum - b.offsetSum
           y == t * c.rateSum - c.offsetSum
<1>13. /\ x \in Int /\ AccruedYield(b) = Running(x)
       /\ y \in Int /\ AccruedYield(c) = Running(y)
  <2>1. x \in Int /\ AccruedYield(b) = Running(x)
    BY <1>2, <1>3, <1>9, AccruedRuns
  <2>2. t = AccrualTime(c)
    BY DEF t
  <2>3. y \in Int /\ AccruedYield(c) = Running(y)
    BY <1>7, <1>10, <2>2, AccruedRuns
  <2> QED BY <2>1, <2>3
<1>14. y >= x - g
  <2>1. b.rateSum = c.rateSum + r /\ b.offsetSum = c.offsetSum + r * s
    <3>1. r * s \in Int
      BY <1>11
    <3> QED BY <1>2, <1>5, <1>6, <1>11, <3>1
  <2>2. PICK u \in Nat : u = t - m
    BY <1>3, <1>10
  <2>3. u * c.rateSum \in Nat
    <3>1. \A a, d \in Nat : a * d \in Nat
      OBVIOUS
    <3> QED BY <1>7, <2>2, <3>1
  <2>4. t * c.rateSum = m * c.rateSum + u * c.rateSum
    BY <1>3, <1>7, <1>10, <2>2
  <2>5. m * b.rateSum = m * c.rateSum + m * r
    BY <1>3, <1>7, <1>11, <2>1
  <2>6. g = m * r - r * s
    BY <1>3, <1>11
  <2>7. m * c.rateSum \in Int /\ m * r \in Int /\ r * s \in Int
    BY <1>3, <1>7, <1>11
  <2>8. /\ \E k \in Int : k = m * c.rateSum
        /\ \E k \in Int : k = m * r
        /\ \E k \in Int : k = r * s
        /\ \E k \in Nat : k = u * c.rateSum
    BY <2>3, <2>7
  <2>9. PICK k1 \in Int : k1 = m * c.rateSum
    BY <2>8
  <2>10. PICK k2 \in Int : k2 = m * r
    BY <2>8
  <2>11. PICK k3 \in Int : k3 = r * s
    BY <2>8
  <2>12. PICK k4 \in Nat : k4 = u * c.rateSum
    BY <2>8
  <2>13. y = k1 + k4 - c.offsetSum
    <3>1. t * c.rateSum = k1 + k4
      BY <2>4, <2>9, <2>12
    <3> QED BY <1>7, <1>10, <3>1
  <2>14. x = k1 + k2 - b.offsetSum
    <3>1. m * b.rateSum = k1 + k2
      BY <2>5, <2>9, <2>10
    <3> QED BY <1>2, <1>3, <3>1
  <2>15. b.offsetSum = c.offsetSum + k3
    BY <2>1, <2>11
  <2>16. g = k2 - k3
    BY <2>6, <2>10, <2>11
  <2> HIDE DEF g, x, y
  <2>17. x - g = k1 - c.offsetSum
    BY <1>7, <2>14, <2>15, <2>16
  <2>18. y = (k1 - c.offsetSum) + k4
    BY <1>7, <2>13
  <2> QED BY <1>7, <2>17, <2>18
<1> HIDE DEF x, y, g
<1>15. Running(y) + (g \div Denominator) + 1 >= Running(x)
  BY <1>12, <1>13, <1>14, FloorLoss
<1>16. Running(x) \in Nat /\ Running(y) \in Nat /\ g \div Denominator \in Nat
  BY <1>12, <1>13, RunningNat, DivNat
<1>17. YieldValue(b) = Running(x) + b.pending
       /\ YieldValue(c) = Running(y) + (b.pending + (g \div Denominator))
  BY <1>5, <1>6, <1>13 DEF YieldValue
<1>18. YieldValue(b) \in Int /\ YieldValue(c) \in Int /\ YieldValue(c) + 1 >= YieldValue(b)
  <2>1. PICK k1 \in Nat : k1 = Running(x)
    BY <1>16
  <2>2. PICK k2 \in Nat : k2 = Running(y)
    BY <1>16
  <2>3. PICK k3 \in Nat : k3 = g \div Denominator
    BY <1>16
  <2>4. k2 + k3 + 1 >= k1
    BY <1>15, <2>1, <2>2, <2>3
  <2>5. PICK k4 \in Int : k4 = b.pending
    BY <1>2
  <2>6. YieldValue(b) = k1 + k4 /\ YieldValue(c) = k2 + (k4 + k3)
    BY <1>17, <2>1, <2>2, <2>3, <2>5
  <2> QED BY <2>4, <2>6
<1> QED BY <1>18 DEF c

LEMMA ValueInt ==
  ASSUME NEW b, ExactBook(b), now \in Nat
  PROVE  YieldValue(b) \in Int /\ AccrualTime(b) \in Int
<1>1. b.rateSum \in Int /\ b.offsetSum \in Int /\ b.pending \in Int
  BY ExactIsTyped
<1>2. AccrualTime(b) \in Int
  BY RootIsEarliest DEF AccrualTime
<1>3. AccruedYield(b) \in Nat
  BY <1>1, <1>2, AccruedRuns, RunningNat
<1> QED BY <1>1, <1>2, <1>3 DEF YieldValue

\* The places whose yield book b has capped since the call began.
Caught(b) == {i \in Places : ~positions[i].yieldCapped /\ b.positions[i].yieldCapped}

\* What a sync has done when it has come to book b.
Caps(b) ==
  /\ ExactBook(b) /\ Len(b.positions) = Len(positions)
  /\ \A i \in Places : positions[i].yieldCapped => b.positions[i] = positions[i]
  /\ YieldValue(b) + Cardinality(Caught(b)) >= YieldValue(Book)

LEMMA CaughtIsFinite ==
  ASSUME ExactBook(Book), NEW b
  PROVE  IsFiniteSet(Caught(b)) /\ Cardinality(Caught(b)) \in Nat
<1>1. Len(positions) \in Nat
  BY ExactIsTyped DEF Book
<1>2. IsFiniteSet(Places)
  BY <1>1, FS_Interval DEF Places
<1>3. Caught(b) \subseteq Places
  BY DEF Caught
<1> HIDE DEF Caught
<1> QED BY <1>2, <1>3, FS_Subset, FS_CardinalityType

LEMMA CapCaps ==
  ASSUME ExactBook(Book), now \in Nat, NEW b, Caps(b), HasMaturedBacklog(b)
  PROVE  Caps(CapEarliest(b))
<1> DEFINE i == IndexOf(b.heap[1])
           c == CapEarliest(b)
           p == Frozen(b.positions[i])
<1>1. b.heap # <<>> /\ ExactBook(b) /\ Len(b.positions) = Len(positions)
  BY DEF HasMaturedBacklog, Caps
<1>2. /\ b \in Books /\ b.positions \in Seq(NFTPosition) /\ Len(b.positions) \in Nat
      /\ \A j \in 1 .. Len(b.positions) : b.positions[j] \in NFTPosition
  BY <1>1, ExactIsTyped
<1>3. i \in 1 .. Len(b.positions) /\ ~b.positions[i].yieldCapped
  BY <1>1, RootIsEarliest
<1>4. ExactBook(c)
  BY <1>1, CapExact
<1>5. c.positions = [b.positions EXCEPT ![i] = p]
  BY <1>2 DEF CapEarliest, Books
<1>6. p \in NFTPosition /\ p.yieldCapped
  <2>1. /\ b.positions[i] \in NFTPosition /\ YieldInOrder(b.positions[i])
        /\ b.positions[i].yieldStartTime <= b.positions[i].maturityTime
    BY <1>1, <1>2, <1>3 DEF ExactBook, SoundBook
  <2> QED BY <1>3, <2>1, FrozenExact
<1> HIDE DEF p, i
<1>7. /\ Len(c.positions) = Len(b.positions)
      /\ \A j \in 1 .. Len(b.positions) :
           c.positions[j] = IF j = i THEN p ELSE b.positions[j]
  BY <1>2, <1>3, <1>5, <1>6, ExceptSeq
<1>8. YieldValue(b) \in Int /\ YieldValue(c) \in Int /\ YieldValue(c) + 1 >= YieldValue(b)
  BY <1>1, CapLoses
<1>9. \A j \in Places : positions[j].yieldCapped => b.positions[j] = positions[j]
  BY DEF Caps
<1>10. i \in Places /\ Places = 1 .. Len(b.positions)
  BY <1>1, <1>3 DEF Places
<1>11. ~positions[i].yieldCapped
  BY <1>3, <1>9, <1>10
<1> HIDE DEF c
<1>12. i \notin Caught(b) /\ Caught(c) = Caught(b) \cup {i}
  BY <1>3, <1>6, <1>7, <1>10, <1>11 DEF Caught
<1>13. Cardinality(Caught(c)) = Cardinality(Caught(b)) + 1
  BY <1>12, CaughtIsFinite, FS_AddElement
<1>14. \A j \in Places : positions[j].yieldCapped => c.positions[j] = positions[j]
  BY <1>7, <1>9, <1>10, <1>11
<1>15. YieldValue(c) + Cardinality(Caught(c)) >= YieldValue(Book)
  <2>1. YieldValue(b) + Cardinality(Caught(b)) >= YieldValue(Book)
    BY DEF Caps
  <2>2. Cardinality(Caught(b)) \in Nat /\ YieldValue(Book) \in Int
    BY CaughtIsFinite, ValueInt
  <2> QED BY <1>8, <1>13, <2>1, <2>2
<1>16. Caps(c)
  BY <1>1, <1>4, <1>7, <1>14, <1>15 DEF Caps
<1> QED BY <1>16 DEF c

LEMMA SyncCaps ==
  ASSUME ExactBook(Book), now \in Nat, NEW n \in Nat
  PROVE  Caps(Synced(n))
<1> DEFINE F == [b \in Books |-> IF HasMaturedBacklog(b) THEN CapEarliest(b) ELSE b]
           T == {b \in Books : Caps(b)}
<1>1. Book \in T
  <2>1. Caught(Book) = {}
    BY DEF Caught, Book
  <2>2. YieldValue(Book) \in Int /\ Cardinality({}) = 0
    BY ValueInt, FS_EmptySet
  <2>3. Book.positions = positions
    BY DEF Book
  <2>4. YieldValue(Book) + Cardinality(Caught(Book)) >= YieldValue(Book)
    BY <2>1, <2>2
  <2>5. Book \in Books
    BY ExactIsTyped
  <2> QED BY <2>3, <2>4, <2>5 DEF Caps, Places
<1>2. \A b \in T : F[b] \in T
  <2> TAKE b \in T
  <2>1. CASE HasMaturedBacklog(b)
    <3>1. Caps(CapEarliest(b))
      BY <2>1, CapCaps
    <3>2. CapEarliest(b) \in Books
      BY <3>1, ExactIsTyped DEF Caps
    <3> QED BY <2>1, <3>1, <3>2
  <2>2. CASE ~HasMaturedBacklog(b)
    BY <2>2
  <2> QED BY <2>1, <2>2
<1> HIDE DEF F, T
<1>3. Iterate(F, Book, n) \in T
  BY <1>1, <1>2, IterateInvariant
<1> QED BY <1>3 DEF Synced, F, T

\* Without a backlog a sync changes nothing.
LEMMA SyncIdle ==
  ASSUME Book \in Books, ~HasMaturedBacklog(Book), NEW n \in Nat
  PROVE  Synced(n) = Book
<1> DEFINE F == [b \in Books |-> IF HasMaturedBacklog(b) THEN CapEarliest(b) ELSE b]
<1>1. Book \in {Book} /\ \A b \in {Book} : F[b] \in {Book}
  OBVIOUS
<1> HIDE DEF F
<1>2. Iterate(F, Book, n) \in {Book}
  BY <1>1, IterateInvariant
<1> QED BY <1>2 DEF Synced, F

\* A position that opens without a backlog does not move the yield.
LEMMA OpenKeepsValue ==
  ASSUME NEW b, ExactBook(b), ~HasMaturedBacklog(b), NEW amount \in Nat, now \in Nat,
         activeDepositPool \in Pools, Len(b.positions) < MaxPositions
  PROVE  /\ YieldValue(Opened(b, amount)) = YieldValue(b)
         /\ \A i \in 1 .. Len(b.positions) :
              Opened(b, amount).positions[i] = b.positions[i]
<1> DEFINE c == Opened(b, amount)
           n == Len(b.positions)
           p == [pool |-> activeDepositPool, principal |-> amount,
                 apyWad |-> apyWadOf[activeDepositPool], yieldStartTime |-> now,
                 maturityTime |-> now + periodOf[activeDepositPool],
                 state |-> "Active", yieldCapped |-> FALSE, pendingYield |-> 0]
           r == YieldRate(p)
<1>1. /\ b \in Books /\ b.rateSum \in Int /\ b.offsetSum \in Int /\ b.pending \in Int
      /\ b.heap \in Seq(Nat) /\ b.positions \in Seq(NFTPosition) /\ n \in Nat
  BY ExactIsTyped
<1>2. ExactBook(c)
  BY OpenExact
<1>3. /\ c.positions = Append(b.positions, p)
      /\ c.rateSum = b.rateSum + r /\ c.offsetSum = b.offsetSum + r * now
      /\ c.pending = b.pending
  BY <1>1 DEF Opened, Books
<1>4. periodOf[activeDepositPool] \in Nat /\ apyWadOf[activeDepositPool] \in Nat
  BY PositionBookAssumption
<1>5. r \in Nat /\ p \in NFTPosition
  <2>1. \A a, d \in Nat : a * d \in Nat
    OBVIOUS
  <2>2. p \in NFTPosition
    BY <1>4 DEF NFTPosition, States
  <2>3. p.apyWad \in Nat /\ p.principal \in Nat
    BY <1>4
  <2> QED BY <2>1, <2>2, <2>3 DEF YieldRate
<1>6. /\ Len(c.positions) = n + 1 /\ c.positions[n + 1] = p
      /\ \A i \in 1 .. n : c.positions[i] = b.positions[i]
  <2> HIDE DEF p, c
  <2> QED BY <1>1, <1>3, <1>5, AppendProperties
<1>7. AccrualTime(b) = now
  <2>1. CASE b.heap = <<>>
    BY <2>1 DEF AccrualTime
  <2>2. CASE b.heap # <<>>
    BY <2>2, RootIsEarliest DEF AccrualTime, HasMaturedBacklog
  <2> QED BY <2>1, <2>2
<1>8. p.maturityTime \in Nat /\ p.maturityTime >= now
  BY <1>4
<1> HIDE DEF c, p, r
<1>9. AccrualTime(c) = now
  <2>1. CASE c.heap = <<>>
    BY <2>1 DEF AccrualTime
  <2>2. CASE c.heap # <<>>
    <3> DEFINE j == IndexOf(c.heap[1])
    <3>1. /\ j \in 1 .. Len(c.positions) /\ ~c.positions[j].yieldCapped
          /\ MaturityOf(c.heap[1]) = c.positions[j].maturityTime
          /\ MaturityOf(c.heap[1]) \in Nat
      BY <1>2, <2>2, RootIsEarliest
    <3> HIDE DEF j
    <3>2. CASE j = n + 1
      BY <1>6, <1>8, <3>1, <3>2 DEF AccrualTime
    <3>3. CASE j # n + 1
      <4>1. j \in 1 .. n /\ c.positions[j] = b.positions[j]
        BY <1>1, <1>6, <3>1, <3>3
      <4>2. Key(b.positions, j) \in Entries(b.heap)
        BY <3>1, <4>1 DEF ExactBook, Tracks
      <4>3. b.heap # <<>>
        BY <4>2, EmptySeq DEF Entries
      <4>4. /\ MaturityOf(b.heap[1]) \in Nat /\ MaturityOf(Key(b.positions, j)) \in Nat
            /\ MaturityOf(b.heap[1]) <= MaturityOf(Key(b.positions, j))
        BY <4>2, <4>3, RootIsEarliest
      <4>5. MaturityOf(Key(b.positions, j)) = b.positions[j].maturityTime
        <5>1. b.positions[j] \in NFTPosition /\ j \in Nat /\ j < SHIFT
          BY <1>1, <4>1, ElementOfSeq, PositionBookAssumption, PositionBookAssumption
        <5>2. b.positions[j].maturityTime \in Nat
          BY <5>1 DEF NFTPosition
        <5> QED BY <5>1, <5>2, IndexOfPacked DEF Key
      <4>6. MaturityOf(b.heap[1]) > now
        BY <4>3, <4>4 DEF HasMaturedBacklog
      <4> QED BY <3>1, <4>1, <4>4, <4>5, <4>6 DEF AccrualTime
    <3> QED BY <3>2, <3>3
  <2> QED BY <2>1, <2>2
<1>10. c.rateSum \in Int /\ c.offsetSum \in Int
  BY <1>2, ExactIsTyped
<1>11. now * c.rateSum - c.offsetSum = now * b.rateSum - b.offsetSum
  <2>1. now * c.rateSum = now * b.rateSum + r * now
    BY <1>1, <1>3, <1>5
  <2>2. r * now \in Int /\ now * b.rateSum \in Int
    BY <1>1, <1>5
  <2>3. PICK k1 \in Int : k1 = r * now
    BY <2>2
  <2>4. PICK k2 \in Int : k2 = now * b.rateSum
    BY <2>2
  <2>5. now * c.rateSum = k2 + k1
    BY <2>1, <2>3, <2>4
  <2>6. c.offsetSum = b.offsetSum + k1
    BY <1>3, <2>3
  <2>7. now * c.rateSum - c.offsetSum = (k2 + k1) - (b.offsetSum + k1)
    BY <2>5, <2>6
  <2>8. now * b.rateSum - b.offsetSum = k2 - b.offsetSum
    BY <2>4
  <2>9. (k2 + k1) - (b.offsetSum + k1) = k2 - b.offsetSum
    BY <1>1
  <2> QED BY <2>7, <2>8, <2>9
<1>12. AccruedYield(c) = AccruedYield(b)
  <2>1. AccruedYield(c) = Running(now * c.rateSum - c.offsetSum)
    <3>1. AccrualTime(c) \in Int
      BY <1>9
    <3>2. AccruedYield(c) = Running(AccrualTime(c) * c.rateSum - c.offsetSum)
      BY <1>10, <3>1, AccruedRuns
    <3> QED BY <1>9, <3>2
  <2>2. AccruedYield(b) = Running(now * b.rateSum - b.offsetSum)
    <3>1. AccrualTime(b) \in Int
      BY <1>7
    <3>2. AccruedYield(b) = Running(AccrualTime(b) * b.rateSum - b.offsetSum)
      BY <1>1, <3>1, AccruedRuns
    <3> QED BY <1>7, <3>2
  <2> QED BY <1>11, <2>1, <2>2
<1> QED BY <1>3, <1>6, <1>12 DEF YieldValue, c

\* Frozen yield leaves the book only where a withdrawal that was outstanding is paid.
LEMMA PokePays ==
  ASSUME NEW p \in NFTPosition, YieldInOrder(p), p.state # "Redeemed",
         NEW accepts \in BOOLEAN, NEW pays \in BOOLEAN
  PROVE  LET q == Poked(p, accepts, pays)
         IN  /\ q.pendingYield \in Nat /\ q.yieldCapped = p.yieldCapped
             /\ q.pendingYield <= p.pendingYield
             /\ q.pendingYield < p.pendingYield => pays
<1> DEFINE Kept(q) == /\ q \in NFTPosition /\ q.yieldCapped = p.yieldCapped
                      /\ q.pendingYield <= p.pendingYield
                      /\ q.pendingYield < p.pendingYield => pays
<1>1. p.pendingYield \in Nat
  BY DEF NFTPosition
<1>2. Kept(p)
  BY <1>1
<1>3. Kept(RequestYield(p, accepts))
  BY <1>1 DEF RequestYield, NFTPosition, States
<1>4. \A q : Kept(q) => Kept(ExecuteYield(q, pays))
  <2> SUFFICES ASSUME NEW q, Kept(q) PROVE Kept(ExecuteYield(q, pays))
    OBVIOUS
  <2>1. CASE q.state = "YieldWithdrawalRequested" /\ pays
    <3>1. ExecuteYield(q, pays) = [q EXCEPT !.state = "YieldClaimed", !.pendingYield = 0]
      BY <2>1 DEF ExecuteYield
    <3>2. q \in NFTPosition /\ q.yieldCapped = p.yieldCapped
      OBVIOUS
    <3> DEFINE e == ExecuteYield(q, pays)
    <3>3. e \in NFTPosition /\ e.yieldCapped = q.yieldCapped /\ e.pendingYield = 0
      <4>1. [q EXCEPT !.state = "YieldClaimed", !.pendingYield = 0] \in NFTPosition
        BY <3>2 DEF NFTPosition, States
      <4>2. /\ [q EXCEPT !.state = "YieldClaimed", !.pendingYield = 0].yieldCapped = q.yieldCapped
            /\ [q EXCEPT !.state = "YieldClaimed", !.pendingYield = 0].pendingYield = 0
        BY <3>2 DEF NFTPosition
      <4> QED BY <3>1, <4>1, <4>2
    <3> HIDE DEF e
    <3>4. Kept(e)
      BY <1>1, <2>1, <3>2, <3>3
    <3> QED BY <3>4 DEF e
  <2>2. CASE ~(q.state = "YieldWithdrawalRequested" /\ pays)
    BY <2>2 DEF ExecuteYield
  <2> QED BY <2>1, <2>2
<1>5. \A q : Kept(q) => Kept(RequestPrincipal(q, accepts))
  BY DEF RequestPrincipal, NFTPosition, States
<1>6. Kept([p EXCEPT !.state = "Redeemed"])
  BY <1>1 DEF NFTPosition, States
<1> HIDE DEF Kept
<1>7. Kept(Poked(p, accepts, pays))
  <2>1. CASE p.state = "PrincipalWithdrawalRequested"
    BY <1>2, <1>6, <2>1 DEF Poked
  <2>2. CASE p.state # "PrincipalWithdrawalRequested"
    BY <1>3, <1>4, <1>5, <2>2 DEF Poked
  <2> QED BY <2>1, <2>2
<1> QED BY <1>7 DEF Kept, NFTPosition

\* What is payable is outstanding.
PayableOutstanding ==
  \A i \in payable :
    /\ i \in Places
    /\ positions[i].state \in {"YieldWithdrawalRequested", "PrincipalWithdrawalRequested"}

LEMMA PayableInit == Init => PayableOutstanding
BY DEF Init, PayableOutstanding

\* Positions that keep their place and state keep what is payable outstanding.
LEMMA PayableKept ==
  ASSUME PayableOutstanding, payable' = payable, Len(positions) \in Nat,
         Len(positions') \in Nat, Len(positions) <= Len(positions'),
         \A i \in Places : positions'[i].state = positions[i].state
  PROVE  PayableOutstanding'
BY DEF PayableOutstanding, Places

LEMMA PayableNext == ExactInv /\ PayableOutstanding /\ [Next]_vars => PayableOutstanding'
<1> SUFFICES ASSUME IInv, ExactBook(Book), PayableOutstanding, [Next]_vars
             PROVE  PayableOutstanding'
  BY DEF ExactInv
<1>1. /\ positions \in Seq(NFTPosition) /\ Len(positions) \in Nat
      /\ Book.positions = positions /\ Book \in Books
  BY ExactIsTyped DEF Book
<1>2. ASSUME NEW n \in Nat
      PROVE  /\ ExactBook(Synced(n)) /\ Len(Synced(n).positions) = Len(positions)
             /\ \A i \in Places : Synced(n).positions[i].state = positions[i].state
  BY <1>2, SyncExact, SyncReachable DEF Agree, Places
<1>3. ASSUME NEW b, ExactBook(b), NEW a \in Nat, CanOpen, Store(Opened(b, a)),
             Len(b.positions) = Len(positions),
             \A i \in Places : b.positions[i].state = positions[i].state,
             payable' = payable
      PROVE  PayableOutstanding'
  <2> DEFINE p == [pool |-> activeDepositPool, principal |-> a,
                   apyWad |-> apyWadOf[activeDepositPool], yieldStartTime |-> now,
                   maturityTime |-> now + periodOf[activeDepositPool],
                   state |-> "Active", yieldCapped |-> FALSE, pendingYield |-> 0]
  <2>1. positions' = Append(b.positions, p)
    <3>1. b \in Books
      BY <1>3, ExactIsTyped
    <3>2. Opened(b, a).positions = Append(b.positions, p)
      BY <3>1 DEF Opened, Books
    <3> QED BY <1>3, <3>2 DEF Store
  <2> HIDE DEF p
  <2>2. /\ Len(positions') = Len(positions) + 1
        /\ \A i \in Places : positions'[i] = b.positions[i]
    <3>1. b.positions \in Seq(NFTPosition)
      BY <1>3, ExactIsTyped
    <3> QED BY <1>1, <1>3, <2>1, <3>1, AppendProperties DEF Places
  <2> QED BY <1>1, <1>3, <2>2, PayableKept
<1>4. CASE \E a \in Amounts : Deposit(a)
  <2>1. PICK a \in Amounts : Deposit(a)
    BY <1>4
  <2>2. a \in Nat /\ CanOpen /\ Store(Opened(Book, a)) /\ payable' = payable
    BY <2>1, PositionBookAssumption DEF Deposit
  <2> QED BY <1>1, <1>3, <2>2
<1>5. CASE \E a \in Amounts \cup {0} : PokeQueue(a)
  <2>1. PICK a \in Amounts \cup {0} : PokeQueue(a)
    BY <1>5
  <2> DEFINE b == Synced(MAX_MATURITY_SYNC)
  <2>2. a \in Nat /\ MAX_MATURITY_SYNC \in Nat /\ payable' = payable
    BY <2>1, PositionBookAssumption DEF PokeQueue
  <2>3. CASE a = 0
    <3>1. positions' = b.positions
      BY <2>1, <2>3 DEF PokeQueue, Store
    <3> QED BY <1>1, <1>2, <2>2, <3>1, PayableKept
  <2>4. CASE a # 0
    <3>1. CanOpen /\ Store(Opened(b, a))
      BY <2>1, <2>4 DEF PokeQueue
    <3> HIDE DEF b
    <3> QED BY <1>2, <1>3, <2>2, <3>1 DEF b
  <2> QED BY <2>3, <2>4
<1>6. CASE \E n \in 1 .. MaxPositions : SyncMaturities(n)
  <2>1. PICK n \in 1 .. MaxPositions : SyncMaturities(n)
    BY <1>6
  <2>2. n \in Nat /\ positions' = Synced(n).positions /\ payable' = payable
    BY <2>1 DEF SyncMaturities, Store
  <2> QED BY <1>1, <1>2, <2>2, PayableKept
<1>7. ASSUME NEW i \in 1 .. MaxPositions, NEW ok \in BOOLEAN, NEW serves \in BOOLEAN,
             PokeDecentral(i, ok, serves)
      PROVE  PayableOutstanding'
  <2> DEFINE b == Synced(MAX_MATURITY_SYNC)
             p == b.positions[i]
             q == Poked(p, ok, serves /\ i \in payable)
  <2>1. /\ ExactBook(b) /\ Len(b.positions) = Len(positions)
        /\ \A j \in Places : b.positions[j].state = positions[j].state
    BY <1>2, PositionBookAssumption
  <2>2. /\ i \in Places /\ p.state # "Redeemed"
        /\ positions' = [b.positions EXCEPT ![i] = q]
        /\ payable' = IF q.state # p.state THEN payable \ {i} ELSE payable
    <3>1. b \in Books
      BY <2>1, ExactIsTyped
    <3>2. i \in Places /\ positions[i].state # "Redeemed"
      BY <1>7 DEF PokeDecentral, Places
    <3>3. positions' = [b.positions EXCEPT ![i] = q]
      BY <1>7, <3>1 DEF PokeDecentral, Store, Books
    <3>4. payable' = IF q.state # p.state THEN payable \ {i} ELSE payable
      BY <1>7 DEF PokeDecentral
    <3> QED BY <2>1, <3>2, <3>3, <3>4
  <2>3. q \in NFTPosition
    <3>1. p \in NFTPosition /\ YieldInOrder(p)
      BY <2>1, <2>2, ExactIsTyped DEF ExactBook, Places
    <3> QED BY <2>2, <3>1, PokeExact
  <2>4. /\ Len(positions') = Len(positions)
        /\ \A j \in Places : positions'[j] = IF j = i THEN q ELSE b.positions[j]
    <3>1. b.positions \in Seq(NFTPosition)
      BY <2>1, ExactIsTyped
    <3> HIDE DEF b, q
    <3> QED BY <2>1, <2>2, <2>3, <3>1, ExceptSeq DEF Places
  <2> HIDE DEF b, q
  <2> QED BY <2>1, <2>2, <2>4 DEF PayableOutstanding, Places
<1>8. ASSUME NEW i \in 1 .. MaxPositions, Release(i)
      PROVE  PayableOutstanding'
  BY <1>8 DEF Release, PayableOutstanding, bookVars, Places
<1>9. CASE UNCHANGED <<bookVars, payable>>
  BY <1>9 DEF bookVars, PayableOutstanding, Places
<1>10. CASE (\E p \in Pools : RegisterPool(p) \/ SetActiveDepositPool(p) \/ RetirePool(p)) \/ Tick
  BY <1>9, <1>10 DEF RegisterPool, SetActiveDepositPool, RetirePool, Tick
<1>11. CASE UNCHANGED vars
  BY <1>9, <1>11 DEF vars
<1> QED BY <1>4, <1>5, <1>6, <1>7, <1>8, <1>10, <1>11 DEF Next

\* PaidOut counts at least what any one position has been paid.
LEMMA PaidOutCounts ==
  ASSUME ExactBook(Book)
  PROVE  /\ PaidOut \in Nat
         /\ \A i \in Places : positions'[i].pendingYield < positions[i].pendingYield
                              => positions[i].pendingYield <= PaidOut
<1> DEFINE n == Len(positions)
           P == [i \in Places |-> positions'[i].pendingYield < positions[i].pendingYield]
           f == [i \in Places |-> positions[i].pendingYield]
           h == [k \in 0 .. (n - 1) |-> IF P[k + 1] THEN f[k + 1] ELSE 0]
<1>1. /\ n \in Nat /\ Places = 1 .. n
      /\ \A i \in Places : positions[i].pendingYield \in Nat
  <2>1. n \in Nat /\ \A i \in 1 .. n : positions[i] \in NFTPosition
    BY ExactIsTyped DEF Book
  <2> QED BY <2>1 DEF Places, NFTPosition
<1>2. PaidOut = SumTo(h, n)
  BY DEF PaidOut, SumWhere
<1>3. \A i \in Places : /\ f[i] = positions[i].pendingYield
                        /\ P[i] = (positions'[i].pendingYield < positions[i].pendingYield)
  OBVIOUS
<1> HIDE DEF P, f
<1>4. \A k \in 0 .. (n - 1) : k + 1 \in Places
  BY <1>1
<1>5. \A k \in 0 .. (n - 1) : h[k] \in Nat
  BY <1>1, <1>3, <1>4
<1>6. \A i \in Places : i - 1 \in 0 .. (n - 1) /\ (P[i] => h[i - 1] = f[i])
  <2> TAKE i \in Places
  <2>1. i - 1 \in 0 .. (n - 1) /\ (i - 1) + 1 = i
    BY <1>1
  <2>2. h[i - 1] = IF P[(i - 1) + 1] THEN f[(i - 1) + 1] ELSE 0
    BY <2>1
  <2> QED BY <2>1, <2>2
<1> HIDE DEF h
<1>7. SumTo(h, n) \in Nat /\ \A k \in 0 .. (n - 1) : h[k] <= SumTo(h, n)
  BY <1>1, <1>5, SumNat
<1>8. ASSUME NEW i \in Places, positions'[i].pendingYield < positions[i].pendingYield
      PROVE  positions[i].pendingYield <= PaidOut
  <2>1. h[i - 1] = positions[i].pendingYield /\ i - 1 \in 0 .. (n - 1)
    BY <1>3, <1>6, <1>8
  <2> QED BY <1>2, <1>7, <2>1
<1> QED BY <1>2, <1>7, <1>8

\* What a step that lets no time pass may do to the yield that is reported.
LoseOnlyPaid ==
  YieldValue(Book') >= YieldValue(Book) - PaidOut - Cardinality(NewlyCapped)

JumpNone == ~HasMaturedBacklog(Book) => YieldValue(Book') <= YieldValue(Book)

LEMMA SameCapped ==
  ASSUME NEW b, \A i \in Places : positions'[i].yieldCapped = b.positions[i].yieldCapped
  PROVE  NewlyCapped = Caught(b)
BY DEF NewlyCapped, Caught

\* It may do no more when it stores a book that is worth what a sync came to, but for
\* what is paid.
LEMMA StoredValue ==
  ASSUME ExactBook(Book), now \in Nat, NEW b, Caps(b),
         ~HasMaturedBacklog(Book) => b = Book,
         \A i \in Places : positions'[i].yieldCapped = b.positions[i].yieldCapped,
         NEW paid \in Nat, paid <= PaidOut,
         YieldValue(Book') = YieldValue(b) - paid
  PROVE  LoseOnlyPaid /\ JumpNone
<1>1. YieldValue(b) \in Int /\ YieldValue(Book) \in Int
  BY ValueInt DEF Caps
<1>2. NewlyCapped = Caught(b) /\ Cardinality(Caught(b)) \in Nat
  BY SameCapped, CaughtIsFinite
<1>3. PaidOut \in Nat
  BY PaidOutCounts
<1>4. YieldValue(b) + Cardinality(Caught(b)) >= YieldValue(Book)
  BY DEF Caps
<1>5. LoseOnlyPaid
  BY <1>1, <1>2, <1>3, <1>4 DEF LoseOnlyPaid
<1>6. JumpNone
  BY <1>1 DEF JumpNone
<1> QED BY <1>5, <1>6

LEMMA OpenValue ==
  ASSUME IInv, ExactBook(Book), NEW b, Caps(b), ~HasMaturedBacklog(b),
         ~HasMaturedBacklog(Book) => b = Book,
         NEW a \in Nat, CanOpen, Store(Opened(b, a))
  PROVE  LoseOnlyPaid /\ JumpNone
<1> DEFINE c == Opened(b, a)
<1>1. ExactBook(b) /\ Len(b.positions) = Len(positions)
  BY DEF Caps
<1>2. Len(b.positions) < MaxPositions /\ now \in Nat /\ activeDepositPool \in Pools
  BY <1>1 DEF CanOpen, IInv
<1>3. ExactBook(c)
  BY <1>1, <1>2, OpenExact
<1>4. /\ YieldValue(c) = YieldValue(b)
      /\ \A i \in 1 .. Len(b.positions) : c.positions[i] = b.positions[i]
  BY <1>1, <1>2, OpenKeepsValue
<1> HIDE DEF c
<1>5. Book' = c /\ positions' = c.positions
  BY <1>3, ExactIsTyped, StoreStores DEF c
<1>6. PaidOut \in Nat /\ YieldValue(b) \in Int
  BY <1>1, <1>2, PaidOutCounts, ValueInt
<1>7. \A i \in Places : positions'[i].yieldCapped = b.positions[i].yieldCapped
  BY <1>1, <1>4, <1>5 DEF Places
<1>8. 0 <= PaidOut /\ YieldValue(Book') = YieldValue(b) - 0
  BY <1>4, <1>5, <1>6
<1> QED BY <1>2, <1>7, <1>8, StoredValue

LEMMA PokeValue ==
  ASSUME IInv, ExactBook(Book), PayableOutstanding, NEW i \in 1 .. MaxPositions,
         NEW accepts \in BOOLEAN,
         NEW serves \in BOOLEAN, PokeDecentral(i, accepts, serves)
  PROVE  LoseOnlyPaid /\ JumpNone
<1> DEFINE b == Synced(MAX_MATURITY_SYNC)
           p == b.positions[i]
           pays == serves /\ i \in payable
           q == Poked(p, accepts, pays)
           paid == p.pendingYield - q.pendingYield
           c == [b EXCEPT !.positions = [b.positions EXCEPT ![i] = q],
                          !.pending   = b.pending - paid,
                          !.invested  = IF q.state = "Redeemed"
                                        THEN b.invested - p.principal ELSE b.invested]
<1>1. MAX_MATURITY_SYNC \in Nat /\ now \in Nat
  BY PositionBookAssumption DEF IInv
<1>2. Caps(b) /\ Agree(positions, b.positions)
  BY <1>1, SyncCaps, SyncReachable
<1>3. ~HasMaturedBacklog(Book) => b = Book
  BY <1>1, SyncIdle, ExactIsTyped
<1>4. i \in Places /\ p.state # "Redeemed" /\ i \in 1 .. Len(b.positions)
  BY <1>2 DEF PokeDecentral, Agree, Places
<1>5. Store(c)
  BY DEF PokeDecentral
<1> HIDE DEF b
<1>6. /\ ExactBook(b) /\ b \in Books /\ b.positions \in Seq(NFTPosition)
      /\ Len(b.positions) = Len(positions) /\ p \in NFTPosition /\ YieldInOrder(p)
      /\ b.pending \in Int
  BY <1>2, <1>4, ExactIsTyped DEF Caps, ExactBook
<1>7. /\ q.pendingYield \in Nat /\ q.yieldCapped = p.yieldCapped
      /\ q.pendingYield <= p.pendingYield
      /\ q.pendingYield < p.pendingYield => i \in payable
  <2>1. pays \in BOOLEAN /\ (pays => i \in payable)
    OBVIOUS
  <2>2. p \in NFTPosition /\ YieldInOrder(p) /\ p.state # "Redeemed"
    BY <1>4, <1>6
  <2>3. q = Poked(p, accepts, pays)
    OBVIOUS
  <2> HIDE DEF pays, p, q
  <2> QED BY <2>1, <2>2, <2>3, PokePays
<1>8. ExactBook(c)
  <2>1. pays \in BOOLEAN
    OBVIOUS
  <2> HIDE DEF pays
  <2> QED BY <1>4, <1>6, <2>1, PokedExact, ZenonT(60)
<1>9. q \in NFTPosition
  <2>1. pays \in BOOLEAN
    OBVIOUS
  <2> HIDE DEF pays
  <2> QED BY <1>4, <1>6, <2>1, PokeExact
<1>10. p.pendingYield \in Nat
  BY <1>6 DEF NFTPosition
<1> HIDE DEF p, q
<1>11. paid \in Nat
  BY <1>7, <1>10
<1>12. /\ c.heap = b.heap /\ c.rateSum = b.rateSum /\ c.offsetSum = b.offsetSum
       /\ c.pending = b.pending - paid /\ c.positions = [b.positions EXCEPT ![i] = q]
  BY <1>6 DEF Books
<1> HIDE DEF c, paid
<1>13. Book' = c /\ positions' = c.positions
  BY <1>5, <1>8, ExactIsTyped, StoreStores
<1>14. \A j \in Places : positions'[j] = IF j = i THEN q ELSE b.positions[j]
  BY <1>4, <1>6, <1>9, <1>12, <1>13, ExceptSeq DEF Places
<1>15. \A j \in Places : positions'[j].yieldCapped = b.positions[j].yieldCapped
  BY <1>7, <1>14 DEF p
<1>16. YieldValue(Book') = YieldValue(b) - paid
  <2>1. AccrualTime(c) = AccrualTime(b)
    BY <1>12 DEF AccrualTime
  <2>2. AccruedYield(c) = AccruedYield(b)
    BY <1>12, <2>1 DEF AccruedYield
  <2>3. AccruedYield(b) \in Nat
    BY <1>1, <1>6, ValueInt, AccruedRuns, RunningNat, ExactIsTyped
  <2> QED BY <1>6, <1>11, <1>12, <1>13, <2>2, <2>3 DEF YieldValue
<1>17. paid <= PaidOut
  <2>1. PaidOut \in Nat
    BY PaidOutCounts
  <2>2. CASE q.pendingYield = p.pendingYield
    BY <1>10, <2>1, <2>2 DEF paid
  <2>3. CASE q.pendingYield < p.pendingYield
    <3>1. positions[i].state # "Active"
      BY <1>7, <2>3 DEF PayableOutstanding
    <3>2. positions[i].yieldCapped
      <4>1. YieldInOrder(positions[i])
        BY <1>4 DEF ExactBook, Book, Places
      <4>2. positions[i].yieldCapped \in BOOLEAN
        <5>1. positions[i] \in NFTPosition
          BY <1>4, ExactIsTyped DEF Book, Places
        <5> QED BY <5>1 DEF NFTPosition
      <4> QED BY <3>1, <4>1, <4>2 DEF YieldInOrder
    <3>3. p = positions[i]
      BY <1>2, <1>4, <3>2 DEF Caps, p
    <3>4. positions'[i].pendingYield < positions[i].pendingYield
      BY <1>4, <1>14, <2>3, <3>3
    <3>5. p.pendingYield <= PaidOut
      BY <1>4, <3>3, <3>4, PaidOutCounts
    <3> QED BY <1>7, <1>10, <2>1, <3>5 DEF paid
  <2> QED BY <1>7, <1>10, <2>2, <2>3
<1> QED BY <1>1, <1>2, <1>3, <1>11, <1>15, <1>16, <1>17, StoredValue

LEMMA SyncValue ==
  ASSUME IInv, ExactBook(Book), NEW n \in Nat, Store(Synced(n))
  PROVE  LoseOnlyPaid /\ JumpNone
<1> DEFINE b == Synced(n)
<1>1. now \in Nat
  BY DEF IInv
<1>2. Caps(b)
  BY <1>1, SyncCaps
<1>3. ~HasMaturedBacklog(Book) => b = Book
  BY SyncIdle, ExactIsTyped
<1> HIDE DEF b
<1>4. ExactBook(b) /\ b \in Books
  BY <1>2, ExactIsTyped DEF Caps
<1>5. Book' = b /\ positions' = b.positions
  BY <1>4, StoreStores DEF b
<1>6. 0 <= PaidOut /\ YieldValue(Book') = YieldValue(b) - 0
  BY <1>1, <1>4, <1>5, PaidOutCounts, ValueInt
<1> QED BY <1>1, <1>2, <1>3, <1>5, <1>6, StoredValue

LEMMA ValueNext ==
  ASSUME ExactInv, PayableOutstanding, [Next]_vars, now' = now
  PROVE  LoseOnlyPaid /\ JumpNone
<1>1. IInv /\ ExactBook(Book) /\ now \in Nat
  BY DEF ExactInv, IInv
<1>2. CASE \E a \in Amounts : Deposit(a)
  <2>1. PICK a \in Amounts : Deposit(a)
    BY <1>2
  <2>2. a \in Nat /\ CanOpen /\ Store(Opened(Book, a)) /\ ~HasMaturedBacklog(Book)
    BY <2>1, PositionBookAssumption DEF Deposit
  <2>3. Caps(Book)
    <3>1. Synced(0) = Book
      BY <1>1, <2>2, SyncIdle, ExactIsTyped
    <3>2. Caps(Synced(0))
      BY <1>1, SyncCaps
    <3> QED BY <3>1, <3>2
  <2> QED BY <1>1, <2>2, <2>3, OpenValue
<1>3. CASE \E a \in Amounts \cup {0} : PokeQueue(a)
  <2>1. PICK a \in Amounts \cup {0} : PokeQueue(a)
    BY <1>3
  <2> DEFINE b == Synced(MAX_MATURITY_SYNC)
  <2>2. a \in Nat /\ MAX_MATURITY_SYNC \in Nat
    BY PositionBookAssumption
  <2>3. CASE a = 0
    <3>1. Store(b)
      BY <2>1, <2>3 DEF PokeQueue
    <3> QED BY <1>1, <2>2, <3>1, SyncValue
  <2>4. CASE a # 0
    <3>1. CanOpen /\ Store(Opened(b, a)) /\ ~HasMaturedBacklog(b)
      BY <2>1, <2>4 DEF PokeQueue
    <3>2. Caps(b) /\ (~HasMaturedBacklog(Book) => b = Book)
      BY <1>1, <2>2, SyncCaps, SyncIdle, ExactIsTyped
    <3> HIDE DEF b
    <3> QED BY <1>1, <2>2, <3>1, <3>2, OpenValue
  <2> QED BY <2>3, <2>4
<1>4. CASE \E n \in 1 .. MaxPositions : SyncMaturities(n)
  <2>1. PICK n \in 1 .. MaxPositions : SyncMaturities(n)
    BY <1>4
  <2>2. n \in Nat /\ Store(Synced(n))
    BY <2>1 DEF SyncMaturities
  <2> QED BY <1>1, <2>2, SyncValue
<1>5. CASE \E i \in 1 .. MaxPositions : \E accepts, serves \in BOOLEAN : PokeDecentral(i, accepts, serves)
  BY <1>1, <1>5, PokeValue
<1>6. CASE UNCHANGED bookVars
  <2>1. Book' = Book /\ positions' = positions
    BY <1>6 DEF bookVars, Book
  <2>2. YieldValue(Book) \in Int /\ PaidOut \in Nat
    BY <1>1, ValueInt, PaidOutCounts
  <2>3. NewlyCapped = {} /\ Cardinality({}) = 0
    BY <2>1, FS_EmptySet DEF NewlyCapped
  <2> QED BY <2>1, <2>2, <2>3 DEF LoseOnlyPaid, JumpNone
<1>7. CASE \/ \E i \in 1 .. MaxPositions : Release(i)
           \/ \E p \in Pools : RegisterPool(p) \/ SetActiveDepositPool(p) \/ RetirePool(p)
           \/ Tick
  BY <1>6, <1>7 DEF Release, RegisterPool, SetActiveDepositPool, RetirePool, Tick
<1>8. CASE UNCHANGED vars
  BY <1>6, <1>8 DEF vars
<1> QED BY <1>2, <1>3, <1>4, <1>5, <1>7, <1>8 DEF Next

LEMMA ValueInv == Spec => [](ExactInv /\ PayableOutstanding)
<1>1. Init => ExactInv /\ PayableOutstanding
  BY InitReachable, InitExact, PayableInit DEF ExactInv
<1>2. ExactInv /\ PayableOutstanding /\ [Next]_vars => (ExactInv /\ PayableOutstanding)'
  BY NextReachable, NextExact, PayableNext DEF ExactInv
<1> QED BY <1>1, <1>2, PTL DEF Spec

\* No call takes more yield out of the price than it pays out, but for one rounding
\* unit per position it caps: for any pools, rates, backlogs and budgets.
THEOREM NoCallLosesYield == Spec => YieldNeverLost
<1>1. ExactInv /\ PayableOutstanding /\ [Next]_vars
      => [now' = now => YieldValue(Book') >= YieldValue(Book) - PaidOut
                                             - Cardinality(NewlyCapped)]_vars
  BY ValueNext DEF LoseOnlyPaid
<1> QED BY <1>1, ValueInv, PTL DEF Spec, YieldNeverLost

\* With every overdue maturity synced no call raises the yield that is reported, so
\* there is no jump for a depositor to buy into.
THEOREM NoCallRaisesYield == Spec => NoYieldJump
<1>1. ExactInv /\ PayableOutstanding /\ [Next]_vars
      => [now' = now /\ ~HasMaturedBacklog(Book)
            => YieldValue(Book') <= YieldValue(Book)]_vars
  BY ValueNext DEF JumpNone
<1> QED BY <1>1, ValueInv, PTL DEF Spec, NoYieldJump

-----------------------------------------------------------------------------
(* The ledger's module occurs twice: as the Ledger that BILVault is built from, and *)
(* here together with what is proved of it.  Operator by operator they are the same. *)

Proved == INSTANCE VaultLedgerProofs
  WITH yieldValue <- YieldValue(Book), GuardianActs <- FALSE, MaxDonation <- 0

LEMMA SameViews ==
  /\ Ledger!totalSupply = Proved!totalSupply /\ Ledger!totalAssets = Proved!totalAssets
  /\ Ledger!activeAssets = Proved!activeAssets /\ Ledger!activeSupply = Proved!activeSupply
  /\ Ledger!SyncedYields = Proved!SyncedYields
  /\ \A a : Ledger!RateOf(a) = Proved!RateOf(a)
BY DEF Ledger!totalSupply, Proved!totalSupply, Ledger!activeSupply, Proved!activeSupply,
   Ledger!RateOf, Proved!RateOf, Ledger!totalAssets, Proved!totalAssets,
   Ledger!activeAssets, Proved!activeAssets, Ledger!SyncedYields, Proved!SyncedYields

LEMMA SameSettlement ==
  \A a, r : Ledger!Settlement(a, r) = Proved!Settlement(a, r)
BY DEF Ledger!Fold, Proved!Fold, Ledger!Iterate, Proved!Iterate, Ledger!RequestIds,
   Proved!RequestIds, Ledger!Request, Proved!Request, Ledger!Queues, Proved!Queues,
   Ledger!Indexes, Proved!Indexes, Ledger!Pending, Proved!Pending, Ledger!QueueWalks,
   Proved!QueueWalks, Ledger!PassEntry, Proved!PassEntry, Ledger!IndexSettled,
   Proved!IndexSettled, Ledger!Locked, Proved!Locked, Ledger!Settle, Proved!Settle,
   Ledger!PartialReserve, Proved!PartialReserve, Ledger!SettleEntry, Proved!SettleEntry,
   Ledger!QueueWalkStep, Proved!QueueWalkStep, Ledger!ProcessQueue, Proved!ProcessQueue,
   Ledger!Settlement, Proved!Settlement

LEMMA SameApplied ==
  /\ \A w : Ledger!ApplySettlement(w) <=> Proved!ApplySettlement(w)
  /\ \A u : Ledger!ReinvestAmount(u) = Proved!ReinvestAmount(u)
BY DEF Ledger!ApplySettlement, Proved!ApplySettlement, Ledger!Lesser, Proved!Lesser,
   Ledger!ReinvestAmount, Proved!ReinvestAmount

LEMMA SameDeposits ==
  \A n : (Ledger!Deposit(n) <=> Proved!Deposit(n)) /\ (Ledger!Mint(n) <=> Proved!Mint(n))
<1>1. \A n : Ledger!Deposit(n) <=> Proved!Deposit(n)
  BY DEF Ledger!queueVars, Proved!queueVars, Ledger!totalVars, Proved!totalVars,
     Ledger!hollarVars, Proved!hollarVars, Ledger!flagVars, Proved!flagVars,
     Ledger!totalSupply, Proved!totalSupply, Ledger!totalAssets, Proved!totalAssets,
     Ledger!activeAssets, Proved!activeAssets, Ledger!activeSupply, Proved!activeSupply,
     Ledger!previewDeposit, Proved!previewDeposit, Ledger!validateDeposit,
     Proved!validateDeposit, Ledger!DeadAfterDeposit, Proved!DeadAfterDeposit,
     Ledger!TakeDeposit, Proved!TakeDeposit, Ledger!Deposit, Proved!Deposit
<1>2. \A n : Ledger!Mint(n) <=> Proved!Mint(n)
  BY DEF Ledger!queueVars, Proved!queueVars, Ledger!totalVars, Proved!totalVars,
     Ledger!hollarVars, Proved!hollarVars, Ledger!flagVars, Proved!flagVars,
     Ledger!totalSupply, Proved!totalSupply, Ledger!totalAssets, Proved!totalAssets,
     Ledger!activeAssets, Proved!activeAssets, Ledger!activeSupply, Proved!activeSupply,
     Ledger!previewMint, Proved!previewMint, Ledger!validateDeposit,
     Proved!validateDeposit, Ledger!DeadAfterDeposit, Proved!DeadAfterDeposit,
     Ledger!TakeDeposit, Proved!TakeDeposit, Ledger!Mint, Proved!Mint
<1> QED BY <1>1, <1>2

LEMMA SameRequests ==
  /\ \A c, n : Ledger!RequestRedeem(c, n) <=> Proved!RequestRedeem(c, n)
  /\ \A n : Ledger!CancelRedeem(n) <=> Proved!CancelRedeem(n)
<1>1. \A c, n : Ledger!RequestRedeem(c, n) <=> Proved!RequestRedeem(c, n)
  BY DEF Ledger!venueVars, Proved!venueVars, Ledger!hollarVars, Proved!hollarVars,
     Ledger!flagVars, Proved!flagVars, Ledger!TransferToVault, Proved!TransferToVault,
     Ledger!RequestRedeem, Proved!RequestRedeem
<1>2. \A n : Ledger!CancelRedeem(n) <=> Proved!CancelRedeem(n)
  BY DEF Ledger!Hole, Proved!Hole, Ledger!Pending, Proved!Pending, Ledger!Lesser,
     Proved!Lesser, Ledger!AdvanceQueueHead, Proved!AdvanceQueueHead, Ledger!venueVars,
     Proved!venueVars, Ledger!hollarVars, Proved!hollarVars, Ledger!flagVars,
     Proved!flagVars, Ledger!CancelRedeem, Proved!CancelRedeem
<1> QED BY <1>1, <1>2

LEMMA SameClaims ==
  /\ \A c, n : Ledger!Redeem(c, n) <=> Proved!Redeem(c, n)
  /\ \A c, n : Ledger!Withdraw(c, n) <=> Proved!Withdraw(c, n)
<1>1. \A q, ids, c, n : Ledger!ClaimByShares(q, ids, c, n) = Proved!ClaimByShares(q, ids, c, n)
  BY DEF Ledger!Fold, Proved!Fold, Ledger!Iterate, Proved!Iterate, Ledger!RequestIds,
     Proved!RequestIds, Ledger!Request, Proved!Request, Ledger!Queues, Proved!Queues,
     Ledger!Hole, Proved!Hole, Ledger!SwapPop, Proved!SwapPop, Ledger!ClaimWalks,
     Proved!ClaimWalks, Ledger!Drawn, Proved!Drawn, Ledger!Kept, Proved!Kept,
     Ledger!Draw, Proved!Draw, Ledger!Evict, Proved!Evict, Ledger!Lesser, Proved!Lesser,
     Ledger!ClaimSharesStep, Proved!ClaimSharesStep, Ledger!ClaimStart,
     Proved!ClaimStart, Ledger!ClaimByShares, Proved!ClaimByShares
<1>2. \A q, ids, c, n : Ledger!ClaimByAssets(q, ids, c, n) = Proved!ClaimByAssets(q, ids, c, n)
  BY DEF Ledger!Fold, Proved!Fold, Ledger!Iterate, Proved!Iterate, Ledger!RequestIds,
     Proved!RequestIds, Ledger!Request, Proved!Request, Ledger!Queues, Proved!Queues,
     Ledger!Hole, Proved!Hole, Ledger!SwapPop, Proved!SwapPop, Ledger!ClaimWalks,
     Proved!ClaimWalks, Ledger!Drawn, Proved!Drawn, Ledger!Kept, Proved!Kept,
     Ledger!Draw, Proved!Draw, Ledger!Evict, Proved!Evict, Ledger!Lesser, Proved!Lesser,
     Ledger!ClaimAssetsStep, Proved!ClaimAssetsStep, Ledger!ClaimStart,
     Proved!ClaimStart, Ledger!ClaimByAssets, Proved!ClaimByAssets
<1>3. \A c, w : Ledger!ApplyClaim(c, w) <=> Proved!ApplyClaim(c, w)
  BY DEF Ledger!venueVars, Proved!venueVars, Ledger!flagVars, Proved!flagVars,
     Ledger!ApplyClaim, Proved!ApplyClaim
<1>4. \A c, n : Ledger!Redeem(c, n) <=> Proved!Redeem(c, n)
  BY <1>1, <1>3 DEF Ledger!Redeem, Proved!Redeem
<1>5. \A c, n : Ledger!Withdraw(c, n) <=> Proved!Withdraw(c, n)
  BY <1>2, <1>3 DEF Ledger!Withdraw, Proved!Withdraw
<1> QED BY <1>4, <1>5

LEMMA SamePokeQueue == Ledger!PokeQueue <=> Proved!PokeQueue
BY SameViews, SameSettlement, SameApplied DEF Ledger!shareVars, Proved!shareVars,
   Ledger!flagVars, Proved!flagVars, Ledger!PokeQueue, Proved!PokeQueue

LEMMA SameVenue ==
  /\ Ledger!AccrueYield <=> Proved!AccrueYield
  /\ Ledger!SyncMaturities <=> Proved!SyncMaturities
  /\ \A e, r : Ledger!ClaimYield(e, r) <=> Proved!ClaimYield(e, r)
<1>1. Ledger!AccrueYield <=> Proved!AccrueYield
  BY DEF Ledger!queueVars, Proved!queueVars, Ledger!totalVars, Proved!totalVars,
     Ledger!shareVars, Proved!shareVars, Ledger!hollarVars, Proved!hollarVars,
     Ledger!flagVars, Proved!flagVars, Ledger!totalAssets, Proved!totalAssets,
     Ledger!AccrueYield, Proved!AccrueYield
<1>2. Ledger!SyncMaturities <=> Proved!SyncMaturities
  BY DEF Ledger!queueVars, Proved!queueVars, Ledger!totalVars, Proved!totalVars,
     Ledger!shareVars, Proved!shareVars, Ledger!hollarVars, Proved!hollarVars,
     Ledger!flagVars, Proved!flagVars, Ledger!totalAssets, Proved!totalAssets,
     Ledger!SyncedYields, Proved!SyncedYields, Ledger!SyncMaturities,
     Proved!SyncMaturities
<1>3. \A e, r : Ledger!ClaimYield(e, r) <=> Proved!ClaimYield(e, r)
  BY DEF Ledger!queueVars, Proved!queueVars, Ledger!totalVars, Proved!totalVars,
     Ledger!shareVars, Proved!shareVars, Ledger!flagVars, Proved!flagVars,
     Ledger!totalAssets, Proved!totalAssets, Ledger!SyncedYields, Proved!SyncedYields,
     Ledger!ShortfallTolerated, Proved!ShortfallTolerated, Ledger!Credit, Proved!Credit,
     Ledger!ClaimYield, Proved!ClaimYield
<1> QED BY <1>1, <1>2, <1>3

LEMMA SamePrincipal ==
  \A e, r, b : Ledger!ClaimPrincipal(e, r, b) <=> Proved!ClaimPrincipal(e, r, b)
BY SameViews, SameSettlement, SameApplied DEF Ledger!queueVars, Proved!queueVars,
   Ledger!totalVars, Proved!totalVars, Ledger!shareVars, Proved!shareVars,
   Ledger!flagVars, Proved!flagVars, Ledger!ShortfallTolerated,
   Proved!ShortfallTolerated, Ledger!Credit, Proved!Credit, Ledger!PayoutRate,
   Proved!PayoutRate, Ledger!ClaimPrincipal, Proved!ClaimPrincipal

LEMMA SameOther == Ledger!OtherStep <=> Proved!OtherStep
BY DEF Ledger!queueVars, Proved!queueVars, Ledger!totalVars, Proved!totalVars,
   Ledger!venueVars, Proved!venueVars, Ledger!shareVars, Proved!shareVars,
   Ledger!hollarVars, Proved!hollarVars, Ledger!flagVars, Proved!flagVars,
   Ledger!TransferToVault, Proved!TransferToVault, Ledger!DonateShares,
   Proved!DonateShares, Ledger!DonateHollar, Proved!DonateHollar, Ledger!SetPaused,
   Proved!SetPaused, Ledger!SetDepositsPaused, Proved!SetDepositsPaused,
   Ledger!OtherStep, Proved!OtherStep

LEMMA SameVenueStep == Ledger!VenueStep <=> Proved!VenueStep
BY SameVenue, SamePrincipal DEF Ledger!totalAssets, Proved!totalAssets, Ledger!Payouts,
   Proved!Payouts, Ledger!VenueStep, Proved!VenueStep

LEMMA SameLedger ==
  /\ Ledger!Init <=> Proved!Init
  /\ Ledger!Next <=> Proved!Next
  /\ UNCHANGED Ledger!vars <=> UNCHANGED Proved!vars
<1>1. Ledger!Init <=> Proved!Init
  BY DEF Ledger!RequestIds, Proved!RequestIds, Ledger!Hole, Proved!Hole, Ledger!Init,
     Proved!Init
<1>2. UNCHANGED Ledger!vars <=> UNCHANGED Proved!vars
  BY DEF Ledger!queueVars, Proved!queueVars, Ledger!totalVars, Proved!totalVars,
     Ledger!venueVars, Proved!venueVars, Ledger!shareVars, Proved!shareVars,
     Ledger!hollarVars, Proved!hollarVars, Ledger!flagVars, Proved!flagVars,
     Ledger!vars, Proved!vars
<1>3. Ledger!UserStep <=> Proved!UserStep
  BY SameDeposits, SameRequests, SameClaims DEF Ledger!RequestIds, Proved!RequestIds,
     Ledger!UserStep, Proved!UserStep
<1>4. Ledger!Next <=> Proved!Next
  BY <1>3, SameVenueStep, SamePokeQueue, SameOther DEF Ledger!Next, Proved!Next
<1> QED BY <1>1, <1>2, <1>4

-----------------------------------------------------------------------------
(* What a step does to the book, as far as the ledger can tell.            *)

\* A term is no more than the sum it is part of, and terms of 0 sum up to 0.
LEMMA TermWithinTotal ==
  ASSUME NEW t \in Terms, NEW ps \in Seq(NFTPosition)
  PROVE  /\ \A i \in 1 .. Len(ps) : t[ps[i]] <= Total(t, ps)
         /\ (\A i \in 1 .. Len(ps) : t[ps[i]] = 0) => Total(t, ps) = 0
<1> DEFINE n == Len(ps)
           f == [k \in 0 .. (n - 1) |-> t[ps[k + 1]]]
<1>1. n \in Nat /\ \A i \in 1 .. n : ps[i] \in NFTPosition
  BY LenProperties, ElementOfSeq
<1>2. Total(t, ps) = SumTo(f, n)
  BY DEF Total
<1> HIDE DEF n
<1>3. \A k \in 0 .. (n - 1) : k + 1 \in 1 .. n
  BY <1>1
<1>4. \A i \in 1 .. n : i - 1 \in 0 .. (n - 1) /\ (i - 1) + 1 = i
  BY <1>1
<1>5. \A k \in 0 .. (n - 1) : f[k] = t[ps[k + 1]] /\ f[k] \in Nat
  BY <1>1, <1>3 DEF Terms
<1>6. \A i \in 1 .. n : f[i - 1] = t[ps[i]]
  <2> TAKE i \in 1 .. n
  <2>1. f[i - 1] = t[ps[(i - 1) + 1]]
    BY <1>4
  <2> QED BY <1>4, <2>1
<1> HIDE DEF f
<1>7. \A k \in 0 .. (n - 1) : f[k] <= SumTo(f, n)
  BY <1>1, <1>5, SumNat
<1>8. \A i \in 1 .. n : t[ps[i]] <= Total(t, ps)
  BY <1>2, <1>4, <1>6, <1>7
<1>9. (\A i \in 1 .. n : t[ps[i]] = 0) => Total(t, ps) = 0
  BY <1>1, <1>2, <1>3, <1>5, SumOfZeros
<1> QED BY <1>8, <1>9 DEF n

\* Every position was opened with some principal.
Funded == \A i \in Places : positions[i].principal > 0

\* The book b has the principal that is recorded now.
KeepsPrincipal(b) ==
  /\ b.invested = totalInvestedPrincipal
  /\ \A i \in Places : b.positions[i].principal = positions[i].principal

LEMMA CapKeepsPrincipal ==
  ASSUME NEW b, ExactBook(b), b.heap # <<>>, Len(b.positions) = Len(positions),
         KeepsPrincipal(b)
  PROVE  /\ KeepsPrincipal(CapEarliest(b))
         /\ Len(CapEarliest(b).positions) = Len(positions)
<1> DEFINE i == IndexOf(b.heap[1])
           c == CapEarliest(b)
           p == Frozen(b.positions[i])
<1>1. /\ b \in Books /\ b.positions \in Seq(NFTPosition)
      /\ \A j \in 1 .. Len(b.positions) : b.positions[j] \in NFTPosition
  BY ExactIsTyped
<1>2. i \in 1 .. Len(b.positions) /\ ~b.positions[i].yieldCapped
  BY RootIsEarliest
<1>3. c.positions = [b.positions EXCEPT ![i] = p] /\ c.invested = b.invested
  BY <1>1 DEF CapEarliest, Books
<1>4. p \in NFTPosition
  <2>1. /\ b.positions[i] \in NFTPosition
        /\ b.positions[i].yieldStartTime <= b.positions[i].maturityTime
    BY <1>1, <1>2 DEF ExactBook, SoundBook
  <2> QED BY <2>1, FrozenSound
<1>5. p.principal = b.positions[i].principal
  BY <1>1, <1>2 DEF Frozen, NFTPosition
<1> HIDE DEF p, i
<1>6. /\ Len(c.positions) = Len(b.positions)
      /\ \A j \in 1 .. Len(b.positions) :
           c.positions[j] = IF j = i THEN p ELSE b.positions[j]
  BY <1>1, <1>2, <1>3, <1>4, ExceptSeq
<1> HIDE DEF c
<1>7. KeepsPrincipal(c)
  BY <1>3, <1>5, <1>6 DEF KeepsPrincipal, Places
<1> QED BY <1>6, <1>7 DEF c

LEMMA SyncKeepsPrincipal ==
  ASSUME ExactBook(Book), NEW n \in Nat
  PROVE  KeepsPrincipal(Synced(n)) /\ Len(Synced(n).positions) = Len(positions)
<1> DEFINE F == [b \in Books |-> IF HasMaturedBacklog(b) THEN CapEarliest(b) ELSE b]
           T == {b \in Books : /\ ExactBook(b) /\ KeepsPrincipal(b)
                               /\ Len(b.positions) = Len(positions)}
<1>1. Book \in T
  BY ExactIsTyped DEF KeepsPrincipal, Book
<1>2. \A b \in T : F[b] \in T
  <2> TAKE b \in T
  <2>1. CASE HasMaturedBacklog(b)
    <3>1. b.heap # <<>>
      BY <2>1 DEF HasMaturedBacklog
    <3>2. ExactBook(CapEarliest(b)) /\ KeepsPrincipal(CapEarliest(b))
          /\ Len(CapEarliest(b).positions) = Len(positions)
      BY <3>1, CapExact, CapKeepsPrincipal
    <3>3. CapEarliest(b) \in Books
      BY <3>2, ExactIsTyped
    <3> QED BY <2>1, <3>2, <3>3
  <2>2. CASE ~HasMaturedBacklog(b)
    BY <2>2
  <2> QED BY <2>1, <2>2
<1> HIDE DEF F, T
<1>3. Iterate(F, Book, n) \in T
  BY <1>1, <1>2, IterateInvariant
<1> QED BY <1>3 DEF Synced, F, T

\* Where no principal is left every position is redeemed: nothing runs, and nothing is due.
LEMMA NothingRuns ==
  ASSUME ExactBook(Book), Funded, totalInvestedPrincipal = 0
  PROVE  heap = <<>> /\ yieldRateSum = 0 /\ yieldOffsetSum = 0
<1> DEFINE n == Len(positions)
<1>1. /\ positions \in Seq(NFTPosition) /\ n \in Nat /\ heap \in Seq(Nat)
      /\ \A i \in 1 .. n : positions[i] \in NFTPosition
  BY ExactIsTyped DEF Book
<1>2. /\ \A i \in 1 .. n : YieldInOrder(positions[i])
      /\ Tracks(heap, positions)
      /\ yieldRateSum = Total(RateOf, positions) /\ yieldOffsetSum = Total(OffsetOf, positions)
      /\ totalInvestedPrincipal = Total(InvestedOf, positions)
  BY DEF ExactBook, Book, SumsMatch
<1>3. \A i \in 1 .. n : positions[i].state = "Redeemed"
  <2> SUFFICES ASSUME NEW i \in 1 .. n, positions[i].state # "Redeemed" PROVE FALSE
    OBVIOUS
  <2>1. InvestedOf[positions[i]] = positions[i].principal
    BY <1>1 DEF InvestedOf
  <2>2. InvestedOf[positions[i]] <= 0
    BY <1>1, <1>2, TermsAreNat, TermWithinTotal
  <2>3. positions[i].principal > 0 /\ positions[i].principal \in Nat
    BY <1>1 DEF Funded, Places, NFTPosition
  <2> QED BY <2>1, <2>2, <2>3
<1>4. \A i \in 1 .. n : positions[i].yieldCapped
  BY <1>1, <1>2, <1>3 DEF YieldInOrder, NFTPosition
<1>5. \A i \in 1 .. n : RateOf[positions[i]] = 0 /\ OffsetOf[positions[i]] = 0
  BY <1>1, <1>4 DEF RateOf, OffsetOf
<1>6. yieldRateSum = 0 /\ yieldOffsetSum = 0
  BY <1>1, <1>2, <1>5, TermsAreNat, TermWithinTotal
<1>7. heap = <<>>
  <2>1. Entries(heap) = {}
    BY <1>2, <1>4 DEF Tracks
  <2>2. Len(heap) \in Nat
    BY <1>1, LenProperties
  <2>3. Len(heap) = 0
    BY <2>1, <2>2 DEF Entries
  <2> QED BY <1>1, <2>3, EmptySeq
<1> QED BY <1>6, <1>7

LEMMA ValueNat ==
  ASSUME NEW b, ExactBook(b), now \in Nat
  PROVE  YieldValue(b) \in Nat
<1>1. b.rateSum \in Int /\ b.offsetSum \in Int /\ b.positions \in Seq(NFTPosition)
  BY ExactIsTyped
<1>2. AccruedYield(b) \in Nat
  BY <1>1, ValueInt, AccruedRuns, RunningNat
<1>3. b.pending \in Nat
  BY <1>1, TermsAreNat, TotalNat DEF ExactBook, SumsMatch
<1> QED BY <1>2, <1>3 DEF YieldValue

\* The clock of a step that lets no time pass values a book as before.
LEMMA ValuePrimed ==
  ASSUME now' = now
  PROVE  YieldValue(Book)' = YieldValue(Book')
BY DEF YieldValue, AccruedYield, AccrualTime

\* While time passes the reported yield does not fall, and grows only on principal.
LEMMA TickAccrues ==
  ASSUME ExactBook(Book), Funded, now \in Nat, Tick
  PROVE  /\ YieldValue(Book)' \in Nat /\ YieldValue(Book)' >= YieldValue(Book)
         /\ totalInvestedPrincipal = 0 => YieldValue(Book)' = YieldValue(Book)
         /\ \E t \in Int : /\ t <= now'
                          /\ YieldValue(Book)' = Running(t * yieldRateSum - yieldOffsetSum)
                                                  + totalPendingYield
<1> DEFINE t == AccrualTime(Book)
           u == AccrualTime(Book)'
           r == yieldRateSum
           s == yieldOffsetSum
<1>1. now' = now + 1 /\ UNCHANGED bookVars
  BY DEF Tick
<1>2. Book' = Book /\ heap' = heap /\ yieldRateSum' = r /\ yieldOffsetSum' = s
      /\ totalPendingYield' = totalPendingYield
  BY <1>1 DEF bookVars, Book
<1>3. /\ r \in Nat /\ s \in Nat /\ totalPendingYield \in Nat
  <2>1. positions \in Seq(NFTPosition)
    BY ExactIsTyped DEF Book
  <2> QED BY <2>1, TermsAreNat, TotalNat DEF ExactBook, SumsMatch, Book
<1>4. t \in Int /\ u \in Int /\ t <= u /\ u <= now'
  <2>1. heap # <<>> => MaturityOf(heap[1]) \in Nat
    BY RootIsEarliest DEF Book
  <2>2. t = IF heap # <<>> /\ MaturityOf(heap[1]) < now THEN MaturityOf(heap[1]) ELSE now
    BY DEF AccrualTime, Book
  <2>3. u = IF heap # <<>> /\ MaturityOf(heap[1]) < now + 1
            THEN MaturityOf(heap[1]) ELSE now + 1
    BY <1>1, <1>2 DEF AccrualTime, Book
  <2> HIDE DEF t, u
  <2> QED BY <1>1, <2>1, <2>2, <2>3
<1>5. YieldValue(Book) = Running(t * r - s) + totalPendingYield
  BY <1>3, <1>4, AccruedRuns DEF YieldValue, Book
<1>6. YieldValue(Book)' = Running(u * r - s) + totalPendingYield
  <2>1. YieldValue(Book)' = (IF u * r > s THEN (u * r - s) \div Denominator ELSE 0)
                            + totalPendingYield
    BY <1>2 DEF YieldValue, AccruedYield, Book
  <2> HIDE DEF u
  <2>2. PICK g \in Int : g = u * r
    BY <1>3, <1>4
  <2>3. g - s \in Int /\ (g > s <=> g - s > 0)
    BY <1>3
  <2> QED BY <2>1, <2>2, <2>3 DEF Running
<1> HIDE DEF t, u
<1>7. t * r - s \in Int /\ u * r - s \in Int /\ t * r - s <= u * r - s
  <2>1. \A a, b \in Int, c \in Nat : a <= b => a * c \in Int /\ b * c \in Int /\ a * c <= b * c
    OBVIOUS
  <2>2. t * r \in Int /\ u * r \in Int /\ t * r <= u * r
    BY <1>3, <1>4, <2>1
  <2> QED BY <1>3, <2>2
<1>8. \A x, y \in Int : x <= y => Running(x) <= Running(y)
  <2> SUFFICES ASSUME NEW x \in Int, NEW y \in Int, x <= y PROVE Running(x) <= Running(y)
    OBVIOUS
  <2>1. CASE x > 0
    <3>1. \A a, b \in Nat, d \in Nat \ {0} : a <= b => a \div d <= b \div d
      OBVIOUS
    <3> QED BY <2>1, <3>1, PositionBookAssumption DEF Running
  <2>2. CASE ~(x > 0)
    BY <2>2, RunningNat DEF Running
  <2> QED BY <2>1, <2>2
<1>9. Running(t * r - s) \in Nat /\ Running(u * r - s) \in Nat
      /\ Running(t * r - s) <= Running(u * r - s)
  BY <1>7, <1>8, RunningNat
<1>10. ASSUME totalInvestedPrincipal = 0 PROVE YieldValue(Book)' = YieldValue(Book)
  <2>1. r = 0 /\ s = 0
    BY <1>10, NothingRuns
  <2>2. t * r = 0 /\ u * r = 0
    BY <1>4, <2>1
  <2> QED BY <1>5, <1>6, <2>1, <2>2
<1> QED BY <1>3, <1>4, <1>5, <1>6, <1>9, <1>10

\* The books a call stores: each moves the principal by what it says, and the yield to
\* what the sync left, less what was paid.
LEMMA StoredMoves ==
  ASSUME NEW c, ExactBook(c), Store(c), now' = now
  PROVE  /\ totalInvestedPrincipal' = c.invested /\ totalPendingYield' = c.pending
         /\ positions' = c.positions /\ YieldValue(Book)' = YieldValue(c)
<1>1. c \in Books
  BY ExactIsTyped
<1>2. Book' = c
  BY <1>1, StoreStores
<1> QED BY <1>2, ValuePrimed DEF Store

LEMMA FundedKept ==
  ASSUME Funded, Len(positions) \in Nat, NEW b, KeepsPrincipal(b),
         Len(b.positions) = Len(positions),
         positions' = b.positions \/ \E a \in Nat \ {0} : positions' = Opened(b, a).positions,
         b \in Books
  PROVE  Funded'
<1>1. CASE positions' = b.positions
  BY <1>1 DEF Funded, KeepsPrincipal, Places
<1>2. ASSUME NEW a \in Nat \ {0}, positions' = Opened(b, a).positions
      PROVE  Funded'
  <2> DEFINE p == [pool |-> activeDepositPool, principal |-> a,
                   apyWad |-> apyWadOf[activeDepositPool], yieldStartTime |-> now,
                   maturityTime |-> now + periodOf[activeDepositPool],
                   state |-> "Active", yieldCapped |-> FALSE, pendingYield |-> 0]
             n == Len(b.positions)
  <2>1. Opened(b, a).positions = Append(b.positions, p) /\ p.principal = a
    BY DEF Opened, Books
  <2> HIDE DEF p
  <2>2. Append(b.positions, p) = [k \in 1 .. (n + 1) |-> IF k = n + 1 THEN p ELSE b.positions[k]]
    BY DEF Books
  <2>3. Len(positions') = n + 1 /\ \A k \in 1 .. (n + 1) :
          positions'[k] = IF k = n + 1 THEN p ELSE b.positions[k]
    BY <1>2, <2>1, <2>2, LenProperties DEF Books
  <2>4. ASSUME NEW k \in 1 .. (n + 1) PROVE positions'[k].principal > 0
    <3>1. CASE k = n + 1
      BY <2>1, <2>3, <3>1
    <3>2. CASE k # n + 1
      <4>1. k \in Places
        BY <3>2 DEF Places
      <4> QED BY <2>3, <3>2, <4>1 DEF Funded, KeepsPrincipal
    <3> QED BY <3>1, <3>2
  <2> QED BY <2>3, <2>4 DEF Funded, Places
<1> QED BY <1>1, <1>2

LEMMA DepositMoves ==
  ASSUME IInv, ExactBook(Book), Funded, NEW a \in Nat \ {0}, Deposit(a)
  PROVE  /\ totalInvestedPrincipal' = totalInvestedPrincipal + a
         /\ YieldValue(Book)' = YieldValue(Book)
         /\ IInv' /\ ExactBook(Book)' /\ Funded'
<1> DEFINE c == Opened(Book, a)
<1>1. /\ Len(Book.positions) < MaxPositions /\ Store(c) /\ now' = now
      /\ ~HasMaturedBacklog(Book)
  BY DEF Deposit, CanOpen, Book
<1>2. now \in Nat /\ activeDepositPool \in Pools
  BY DEF IInv
<1>3. ExactBook(c) /\ YieldValue(c) = YieldValue(Book)
  BY <1>1, <1>2, OpenExact, OpenKeepsValue
<1>4. Book \in Books /\ c.invested = totalInvestedPrincipal + a
  BY ExactIsTyped DEF Opened, Books, Book
<1>5. KeepsPrincipal(Book) /\ Len(Book.positions) = Len(positions) /\ Len(positions) \in Nat
  BY ExactIsTyped DEF KeepsPrincipal, Book
<1> HIDE DEF c
<1>6. /\ totalInvestedPrincipal' = c.invested /\ positions' = c.positions
      /\ YieldValue(Book)' = YieldValue(c)
  BY <1>1, <1>3, StoredMoves
<1>7. Funded'
  BY <1>4, <1>5, <1>6, FundedKept DEF c
<1> QED BY <1>3, <1>4, <1>6, <1>7, DepositReachable, DepositExact

LEMMA SyncMoves ==
  ASSUME IInv, ExactBook(Book), Funded, NEW n \in Nat, Store(Synced(n)), now' = now
  PROVE  /\ totalInvestedPrincipal' = totalInvestedPrincipal
         /\ YieldValue(Book)' = YieldValue(Synced(n))
         /\ Funded'
<1> DEFINE b == Synced(n)
<1>1. ExactBook(b) /\ KeepsPrincipal(b) /\ Len(b.positions) = Len(positions)
  BY SyncExact, SyncKeepsPrincipal
<1>2. b \in Books /\ Len(positions) \in Nat
  BY <1>1, ExactIsTyped DEF Book
<1> HIDE DEF b
<1>3. /\ totalInvestedPrincipal' = b.invested /\ positions' = b.positions
      /\ YieldValue(Book)' = YieldValue(b)
  BY <1>1, StoredMoves DEF b
<1>4. Funded'
  BY <1>1, <1>2, <1>3, FundedKept
<1> QED BY <1>1, <1>3, <1>4 DEF b, KeepsPrincipal

LEMMA PokeQueueMoves ==
  ASSUME IInv, ExactBook(Book), Funded, NEW a \in Nat, PokeQueue(a)
  PROVE  /\ totalInvestedPrincipal' = totalInvestedPrincipal + a
         /\ YieldValue(Book)' = YieldValue(Synced(MAX_MATURITY_SYNC))
         /\ IInv' /\ ExactBook(Book)' /\ Funded'
<1> DEFINE b == Synced(MAX_MATURITY_SYNC)
           c == Opened(b, a)
<1>1. MAX_MATURITY_SYNC \in Nat /\ now \in Nat /\ activeDepositPool \in Pools
  BY PositionBookAssumption DEF IInv
<1>2. ExactBook(b) /\ KeepsPrincipal(b) /\ Len(b.positions) = Len(positions)
  BY <1>1, SyncExact, SyncKeepsPrincipal
<1>3. b \in Books /\ Len(positions) \in Nat /\ totalInvestedPrincipal \in Int
  BY <1>2, ExactIsTyped DEF Book
<1>4. now' = now
  BY DEF PokeQueue
<1>5. CASE a = 0
  <2>1. Store(b)
    BY <1>5 DEF PokeQueue
  <2>2. totalInvestedPrincipal' = totalInvestedPrincipal /\ YieldValue(Book)' = YieldValue(b)
        /\ Funded'
    BY <1>1, <1>4, <2>1, SyncMoves
  <2>3. totalInvestedPrincipal + a = totalInvestedPrincipal
    BY <1>3, <1>5
  <2> QED BY <2>2, <2>3, PokeQueueReachable, PokeQueueExact
<1>6. CASE a # 0
  <2>1. Store(c) /\ Len(positions) < MaxPositions /\ ~HasMaturedBacklog(b)
    BY <1>6 DEF PokeQueue, CanOpen
  <2> HIDE DEF b
  <2>2. ExactBook(c) /\ YieldValue(c) = YieldValue(b)
    BY <1>1, <1>2, <2>1, OpenExact, OpenKeepsValue
  <2>3. c.invested = totalInvestedPrincipal + a
    BY <1>2, <1>3 DEF Opened, Books, KeepsPrincipal
  <2> HIDE DEF c
  <2>4. /\ totalInvestedPrincipal' = c.invested /\ positions' = c.positions
        /\ YieldValue(Book)' = YieldValue(c)
    BY <1>4, <2>1, <2>2, StoredMoves
  <2>5. Funded'
    BY <1>2, <1>3, <1>6, <2>4, FundedKept DEF c
  <2> QED BY <2>2, <2>3, <2>4, <2>5, PokeQueueReachable, PokeQueueExact DEF b
<1> QED BY <1>5, <1>6

\* pokeDecentral takes either yield out of a position or its principal, never both.
LEMMA PokeMoves ==
  ASSUME IInv, ExactBook(Book), Funded, NEW i \in 1 .. MaxPositions, NEW accepts \in BOOLEAN,
         NEW serves \in BOOLEAN, PokeDecentral(i, accepts, serves)
  PROVE  LET yield == Synced(MAX_MATURITY_SYNC).pending - totalPendingYield'
             principal == totalInvestedPrincipal - totalInvestedPrincipal'
         IN  /\ yield \in Nat /\ principal \in Nat /\ (yield = 0 \/ principal = 0)
             /\ YieldValue(Book)' = YieldValue(Synced(MAX_MATURITY_SYNC)) - yield
             /\ YieldValue(Book)' \in Nat /\ totalInvestedPrincipal' \in Nat
             /\ IInv' /\ ExactBook(Book)' /\ Funded'
<1> DEFINE b == Synced(MAX_MATURITY_SYNC)
           p == b.positions[i]
           pays == serves /\ i \in payable
           q == Poked(p, accepts, pays)
           paid == p.pendingYield - q.pendingYield
           freed == IF q.state = "Redeemed" THEN p.principal ELSE 0
           c == [b EXCEPT !.positions = [b.positions EXCEPT ![i] = q],
                          !.pending   = b.pending - paid,
                          !.invested  = IF q.state = "Redeemed"
                                        THEN b.invested - p.principal ELSE b.invested]
<1>1. MAX_MATURITY_SYNC \in Nat /\ now \in Nat
  BY PositionBookAssumption DEF IInv
<1>2. ExactBook(b) /\ KeepsPrincipal(b) /\ Len(b.positions) = Len(positions)
  BY <1>1, SyncExact, SyncKeepsPrincipal
<1>3. Agree(positions, b.positions)
  BY <1>1, SyncReachable
<1>4. i \in 1 .. Len(b.positions) /\ p.state # "Redeemed"
  BY <1>3 DEF PokeDecentral, Agree
<1>5. Store(c) /\ now' = now
  BY DEF PokeDecentral
<1> HIDE DEF b
<1>6. /\ b \in Books /\ b.positions \in Seq(NFTPosition) /\ p \in NFTPosition
      /\ YieldInOrder(p) /\ b.pending \in Int /\ b.invested \in Int
  BY <1>2, <1>4, ExactIsTyped DEF ExactBook
<1>7. pays \in BOOLEAN
  OBVIOUS
<1>8. /\ q \in NFTPosition /\ q.principal = p.principal
      /\ q.state = "Redeemed" => p.pendingYield = 0 /\ q.pendingYield = 0
  <2> HIDE DEF pays, p
  <2> QED BY <1>4, <1>6, <1>7, PokeExact
<1>9. q.pendingYield \in Nat /\ q.pendingYield <= p.pendingYield
  <2> HIDE DEF pays, p
  <2> QED BY <1>4, <1>6, <1>7, PokePays
<1>10. ExactBook(c)
  <2> HIDE DEF pays
  <2> QED BY <1>2, <1>4, <1>7, PokedExact, ZenonT(60)
<1>11. YieldValue(c) \in Nat /\ c.invested \in Nat
  <2>1. c.positions \in Seq(NFTPosition) /\ c.invested = Total(InvestedOf, c.positions)
    BY <1>10, ExactIsTyped DEF ExactBook, SumsMatch
  <2> HIDE DEF c
  <2> QED BY <1>1, <1>10, <2>1, ValueNat, TotalNat, TermsAreNat
<1>12. p.pendingYield \in Nat /\ p.principal \in Nat
  BY <1>6 DEF NFTPosition
<1> HIDE DEF p, q, pays
<1>13. paid \in Nat /\ freed \in Nat /\ (paid = 0 \/ freed = 0)
  BY <1>8, <1>9, <1>12
<1>14. /\ c.heap = b.heap /\ c.rateSum = b.rateSum /\ c.offsetSum = b.offsetSum
       /\ c.pending = b.pending - paid /\ c.positions = [b.positions EXCEPT ![i] = q]
       /\ c.invested = b.invested - freed
  BY <1>6 DEF Books
<1> HIDE DEF c, paid, freed
<1>15. /\ totalInvestedPrincipal' = c.invested /\ totalPendingYield' = c.pending
       /\ positions' = c.positions /\ YieldValue(Book)' = YieldValue(c)
  BY <1>5, <1>10, StoredMoves
<1>16. YieldValue(c) = YieldValue(b) - paid
  <2>1. AccrualTime(c) = AccrualTime(b)
    BY <1>14 DEF AccrualTime
  <2>2. AccruedYield(c) = AccruedYield(b)
    BY <1>14, <2>1 DEF AccruedYield
  <2>3. AccruedYield(b) \in Nat
    BY <1>1, <1>2, ValueInt, AccruedRuns, RunningNat, ExactIsTyped
  <2> QED BY <1>6, <1>13, <1>14, <2>2, <2>3 DEF YieldValue
<1>17. /\ b.pending - totalPendingYield' = paid
       /\ totalInvestedPrincipal - totalInvestedPrincipal' = freed
  BY <1>2, <1>6, <1>13, <1>14, <1>15 DEF KeepsPrincipal
<1>18. Funded'
  <2>1. /\ Len(positions') = Len(b.positions)
        /\ \A j \in 1 .. Len(b.positions) :
             positions'[j] = IF j = i THEN q ELSE b.positions[j]
    BY <1>4, <1>6, <1>8, <1>14, <1>15, ExceptSeq
  <2>2. \A j \in 1 .. Len(b.positions) : positions'[j].principal = b.positions[j].principal
    BY <1>8, <2>1 DEF p
  <2> QED BY <1>2, <2>1, <2>2 DEF Funded, KeepsPrincipal, Places
<1> QED BY <1>13, <1>15, <1>16, <1>17, <1>18, <1>11, PokeDecentralReachable, PokeDecentralExact DEF b

-----------------------------------------------------------------------------
(* The bounds of the ledger.  It does not know where yield comes from, so its     *)
(* constants say how far one step may move it; they have to leave the vault room. *)

\* No step of the vault moves the yield further than the ledger's bounds allow.  What
\* syncs round away needs no bound of its own where SyncDust has a unit per position.
YieldInBounds ==
  /\ Ledger!totalAssets < MaxAssets
  /\ \A n \in (1 .. MaxPositions) \cup {MAX_MATURITY_SYNC} :
       /\ YieldValue(Synced(n)) <= YieldValue(Book) + SyncCatchUp
       /\ SyncDust >= MaxPositions \/ YieldValue(Synced(n)) + SyncDust >= YieldValue(Book)
  /\ now' # now => YieldValue(Book)' <= YieldValue(Book) + MaxAccrual

VaultInv == IInv /\ ExactBook(Book) /\ Funded /\ Proved!IInv /\ ~paused

LEMMA VaultNumbers ==
  ASSUME VaultInv
  PROVE  /\ now \in Nat /\ YieldValue(Book) \in Nat /\ totalInvestedPrincipal \in Nat
         /\ idleHollar \in Nat /\ hollar \in Nat /\ tvlCap \in Nat
         /\ MAX_MATURITY_SYNC \in Nat
<1>1. now \in Nat /\ Proved!IInv
  BY DEF VaultInv, IInv
<1> QED BY <1>1, PositionBookAssumption, BILVaultAssumption DEF Proved!IInv, Proved!MoneyInv

\* What a maturity sync leaves of the yield is what the ledger expects of one.
LEMMA SyncInBounds ==
  ASSUME VaultInv, YieldInBounds, NEW n \in (1 .. MaxPositions) \cup {MAX_MATURITY_SYNC}
  PROVE  YieldValue(Synced(n)) \in Ledger!SyncedYields
<1> DEFINE y == YieldValue(Synced(n))
           v == YieldValue(Book)
           k == Cardinality(Caught(Synced(n)))
<1>1. n \in Nat /\ now \in Nat /\ v \in Nat /\ SyncDust \in Nat /\ SyncCatchUp \in Nat
      /\ MaxPositions \in Nat /\ totalInvestedPrincipal \in Nat
  BY VaultNumbers, PositionBookAssumption, BILVaultAssumption
<1>2. ExactBook(Book) /\ Funded
  BY DEF VaultInv
<1>3. Caps(Synced(n))
  BY <1>1, <1>2, SyncCaps
<1>4. y \in Nat
  BY <1>1, <1>3, ValueNat DEF Caps
<1>5. y <= v + SyncCatchUp
  BY DEF YieldInBounds
<1>6. y >= v - SyncDust
  <2>1. CASE SyncDust >= MaxPositions
    <3>1. Len(positions) \in Nat /\ Len(positions) <= MaxPositions
      BY <1>2, ExactIsTyped DEF ExactBook, Book
    <3>2. IsFiniteSet(Places) /\ Cardinality(Places) = Len(positions)
      <4>1. /\ IsFiniteSet(1 .. Len(positions))
            /\ Cardinality(1 .. Len(positions))
                 = IF 1 > Len(positions) THEN 0 ELSE Len(positions) - 1 + 1
        <5>1. 1 \in Int /\ Len(positions) \in Int
          BY <3>1
        <5> QED BY <5>1, FS_Interval, Zenon
      <4>2. (IF 1 > Len(positions) THEN 0 ELSE Len(positions) - 1 + 1) = Len(positions)
        BY <3>1
      <4> QED BY <4>1, <4>2 DEF Places
    <3>3. k \in Nat /\ k <= Len(positions)
      <4>1. Caught(Synced(n)) \subseteq Places
        BY DEF Caught
      <4> QED BY <1>2, <3>2, <4>1, CaughtIsFinite, FS_Subset
    <3>4. y + k >= v
      BY <1>3 DEF Caps
    <3> HIDE DEF y, v, k
    <3> QED BY <1>1, <1>4, <2>1, <3>1, <3>3, <3>4
  <2>2. CASE ~(SyncDust >= MaxPositions)
    <3>1. y + SyncDust >= v
      BY <2>2 DEF YieldInBounds
    <3> HIDE DEF y, v
    <3> QED BY <1>1, <1>4, <3>1
  <2> QED BY <2>1, <2>2
<1>7. y > v => totalInvestedPrincipal > 0
  <2>1. ASSUME totalInvestedPrincipal = 0 PROVE y = v
    <3>1. ~HasMaturedBacklog(Book)
      BY <1>2, <2>1, NothingRuns DEF HasMaturedBacklog, Book
    <3>2. Synced(n) = Book
      BY <1>1, <1>2, <3>1, SyncIdle, ExactIsTyped
    <3> QED BY <3>2
  <2> HIDE DEF y, v
  <2> QED BY <1>1, <1>4, <2>1
<1>8. Ledger!totalAssets < MaxAssets
  BY DEF YieldInBounds
<1> HIDE DEF y, v
<1>9. y \in (v - SyncDust) .. (v + SyncCatchUp)
  BY <1>1, <1>4, <1>5, <1>6
<1>10. y \in Ledger!SyncedYields
  BY <1>4, <1>7, <1>8, <1>9 DEF Ledger!SyncedYields, v
<1> QED BY <1>10 DEF y

-----------------------------------------------------------------------------
(* Call by call, the vault takes a step of the ledger.                     *)

\* A step of the vault that the ledger takes as well, or does not see.
Refines == VaultInv' /\ [Ledger!Next]_(Ledger!vars)

LEMMA KeepsVaultInv ==
  ASSUME VaultInv, [Ledger!Next]_(Ledger!vars), IInv', ExactBook(Book)', Funded', paused' = paused
  PROVE  Refines
<1>1. [Proved!Next]_(Proved!vars)
  BY SameLedger
<1>2. Proved!IInv'
  BY <1>1, Proved!NextKeepsIInv, BILVaultAssumption DEF VaultInv
<1> QED BY <1>2 DEF Refines, VaultInv

LEMMA VaultDepositRefines ==
  ASSUME VaultInv, NEW n \in 1 .. tvlCap, VaultDeposit(n) \/ VaultMint(n)
  PROVE  Refines
<1>1. Proved!IInv /\ ~paused /\ IInv /\ ExactBook(Book) /\ Funded
  BY DEF VaultInv
<1>2. n \in Nat \ {0} /\ Ledger!previewDeposit(n) \in Nat /\ Ledger!previewMint(n) \in Nat
  <2>1. n \in Nat \ {0}
    BY VaultNumbers
  <2>2. Proved!previewDeposit(n) \in Nat /\ Proved!previewMint(n) \in Nat
    BY <1>1, <2>1, Proved!PreviewsNat, BILVaultAssumption
  <2>3. /\ Ledger!previewDeposit(n) = Proved!previewDeposit(n)
        /\ Ledger!previewMint(n) = Proved!previewMint(n)
    BY SameViews DEF Ledger!previewDeposit, Proved!previewDeposit,
                     Ledger!previewMint, Proved!previewMint
  <2> QED BY <2>1, <2>2, <2>3
<1>3. CASE VaultDeposit(n)
  <2> DEFINE shares == Ledger!previewDeposit(n)
  <2>1. /\ Ledger!validateDeposit(n) /\ shares > 0
        /\ Deposit(n) /\ MintShares(shares)
    BY <1>3 DEF VaultDeposit
  <2>2. /\ totalInvestedPrincipal' = totalInvestedPrincipal + n
        /\ YieldValue(Book)' = YieldValue(Book) /\ IInv' /\ ExactBook(Book)' /\ Funded'
    BY <1>1, <1>2, <2>1, DepositMoves
  <2> HIDE DEF shares
  <2>3. Ledger!TakeDeposit(n, shares) /\ paused' = paused
    BY <2>1, <2>2 DEF MintShares, Ledger!TakeDeposit, requestVars, switchVars,
                      Ledger!queueVars, Ledger!totalVars, Ledger!hollarVars, Ledger!flagVars
  <2>4. Ledger!Deposit(n)
    BY <1>1, <2>1, <2>3 DEF Ledger!Deposit, shares
  <2>5. Ledger!Next
    BY <2>4 DEF Ledger!Next, Ledger!UserStep
  <2> QED BY <2>2, <2>3, <2>5, KeepsVaultInv
<1>4. CASE VaultMint(n)
  <2> DEFINE assets == Ledger!previewMint(n)
  <2>1. Ledger!validateDeposit(assets) /\ Deposit(assets) /\ MintShares(n)
    BY <1>4 DEF VaultMint
  <2>2. assets \in Nat \ {0}
    BY <1>2, <2>1 DEF Ledger!validateDeposit
  <2>3. /\ totalInvestedPrincipal' = totalInvestedPrincipal + assets
        /\ YieldValue(Book)' = YieldValue(Book) /\ IInv' /\ ExactBook(Book)' /\ Funded'
    BY <1>1, <2>1, <2>2, DepositMoves
  <2> HIDE DEF assets
  <2>4. Ledger!TakeDeposit(assets, n) /\ paused' = paused
    BY <2>1, <2>3 DEF MintShares, Ledger!TakeDeposit, requestVars, switchVars,
                      Ledger!queueVars, Ledger!totalVars, Ledger!hollarVars, Ledger!flagVars
  <2>5. Ledger!Mint(n)
    BY <1>1, <1>2, <2>1, <2>4 DEF Ledger!Mint, assets
  <2>6. Ledger!Next
    BY <2>5 DEF Ledger!Next, Ledger!UserStep
  <2> QED BY <2>3, <2>4, <2>6, KeepsVaultInv
<1> QED BY <1>3, <1>4

\* A call that leaves the positions alone leaves what is known of them.
LEMMA SameBookRefines ==
  ASSUME VaultInv, [Ledger!Next]_(Ledger!vars), UNCHANGED vars, paused' = paused
  PROVE  Refines
<1>1. IInv' /\ ExactBook(Book)'
  BY NextReachable, NextExact DEF VaultInv
<1>2. Funded'
  BY DEF vars, bookVars, VaultInv, Funded, Places
<1> QED BY <1>1, <1>2, KeepsVaultInv

LEMMA UserRefines ==
  ASSUME VaultInv, UserStep
  PROVE  Refines
<1>1. CASE \E n \in 1 .. tvlCap : VaultDeposit(n) \/ VaultMint(n)
  BY <1>1, VaultDepositRefines
<1>2. ASSUME NEW c \in Controllers,
             \/ \E n \in 1 .. circulating : VaultRequestRedeem(c, n)
             \/ \E n \in 1 .. totalSettledBil : VaultRedeem(c, n)
             \/ \E n \in 1 .. totalReservedHollar : VaultWithdraw(c, n)
      PROVE  Refines
  <2>1. UNCHANGED vars /\ Ledger!UserStep
    BY <1>2 DEF VaultRequestRedeem, VaultRedeem, VaultWithdraw, Ledger!UserStep
  <2>2. paused' = paused
    BY <1>2 DEF VaultRequestRedeem, VaultRedeem, VaultWithdraw, Ledger!RequestRedeem,
                Ledger!Redeem, Ledger!Withdraw, Ledger!ApplyClaim, Ledger!flagVars
  <2> QED BY <2>1, <2>2, SameBookRefines DEF Ledger!Next
<1>3. ASSUME NEW id \in Ledger!RequestIds, VaultCancelRedeem(id)
      PROVE  Refines
  <2>1. UNCHANGED vars /\ Ledger!UserStep
    BY <1>3 DEF VaultCancelRedeem, Ledger!UserStep
  <2>2. paused' = paused
    BY <1>3 DEF VaultCancelRedeem, Ledger!CancelRedeem, Ledger!flagVars
  <2> QED BY <2>1, <2>2, SameBookRefines DEF Ledger!Next
<1> QED BY <1>1, <1>2, <1>3 DEF UserStep

LEMMA PokeQueueRefines ==
  ASSUME VaultInv, YieldInBounds, VaultPokeQueue
  PROVE  Refines
<1> DEFINE b == Synced(MAX_MATURITY_SYNC)
           y == YieldValue(b)
           w == Ledger!Settlement(idleHollar, RateWith(b, idleHollar))
<1>1. PICK accepted \in BOOLEAN :
        LET amount == IF accepted THEN Ledger!ReinvestAmount(w.used) ELSE 0
        IN  /\ PokeQueue(amount)
            /\ Ledger!ApplySettlement(w)
            /\ idleHollar' = idleHollar - w.used - amount
            /\ hollar' = hollar - amount
            /\ UNCHANGED <<circulating, escrow, dead, switchVars>>
  BY DEF VaultPokeQueue
<1> DEFINE amount == IF accepted THEN Ledger!ReinvestAmount(w.used) ELSE 0
<1>2. IInv /\ ExactBook(Book) /\ Funded /\ ~paused
  BY DEF VaultInv
<1>3. y \in Ledger!SyncedYields
  BY SyncInBounds
<1>4. b.invested = totalInvestedPrincipal
  BY <1>2, VaultNumbers, SyncKeepsPrincipal DEF KeepsPrincipal
<1>5. w = Ledger!Settlement(idleHollar,
            Ledger!RateOf(totalInvestedPrincipal + y + idleHollar))
  BY <1>4 DEF RateWith
<1> HIDE DEF w, b
<1>6. amount \in Nat
  BY VaultNumbers DEF Ledger!ReinvestAmount, Ledger!Lesser
<1>7. /\ totalInvestedPrincipal' = totalInvestedPrincipal + amount
      /\ YieldValue(Book)' = y /\ IInv' /\ ExactBook(Book)' /\ Funded'
  BY <1>1, <1>2, <1>6, PokeQueueMoves DEF b
<1> HIDE DEF y
<1>8. Ledger!PokeQueue
  <2>1. UNCHANGED <<Ledger!shareVars, Ledger!flagVars>>
    BY <1>1 DEF switchVars, Ledger!shareVars, Ledger!flagVars
  <2> QED BY <1>1, <1>2, <1>3, <1>5, <1>7, <2>1 DEF Ledger!PokeQueue
<1>9. paused' = paused
  BY <1>1 DEF switchVars
<1> QED BY <1>7, <1>8, <1>9, KeepsVaultInv DEF Ledger!Next

LEMMA PokeDecentralRefines ==
  ASSUME VaultInv, YieldInBounds, NEW i \in 1 .. MaxPositions, NEW accepts \in BOOLEAN,
         NEW serves \in BOOLEAN, VaultPokeDecentral(i, accepts, serves)
  PROVE  Refines
<1> DEFINE b == Synced(MAX_MATURITY_SYNC)
           y == YieldValue(b)
           yield == b.pending - totalPendingYield'
           principal == totalInvestedPrincipal - totalInvestedPrincipal'
           idle == idleHollar + yield + principal
           settles == principal > 0 /\ totalQueuedBil > 0 /\ ~HasMaturedBacklog(Book')
           w == Ledger!Settlement(idle, RateWith(Book', idle))
<1>1. /\ PokeDecentral(i, accepts, serves)
      /\ hollar' = hollar + yield + principal
      /\ settles => Ledger!ApplySettlement(w) /\ idleHollar' = idle - w.used
      /\ ~settles => UNCHANGED requestVars /\ idleHollar' = idle
      /\ UNCHANGED <<circulating, escrow, dead, switchVars>>
  BY DEF VaultPokeDecentral
<1>2. IInv /\ ExactBook(Book) /\ Funded /\ ~paused
  BY DEF VaultInv
<1>3. /\ yield \in Nat /\ principal \in Nat /\ (yield = 0 \/ principal = 0)
      /\ YieldValue(Book)' = y - yield
      /\ YieldValue(Book)' \in Nat /\ totalInvestedPrincipal' \in Nat
      /\ IInv' /\ ExactBook(Book)' /\ Funded'
  BY <1>1, <1>2, PokeMoves
<1>4. y \in Ledger!SyncedYields
  BY SyncInBounds
<1>5. /\ YieldValue(Book) \in Nat /\ totalInvestedPrincipal \in Nat /\ idleHollar \in Nat
      /\ hollar \in Nat /\ SyncCatchUp \in Nat
  BY VaultNumbers, BILVaultAssumption
<1>6. y \in Nat /\ y <= YieldValue(Book) + SyncCatchUp
  <2>1. /\ y \in (YieldValue(Book) - SyncDust) .. (YieldValue(Book) + SyncCatchUp)
        /\ y >= 0
    BY <1>4 DEF Ledger!SyncedYields
  <2> HIDE DEF y
  <2> QED BY <1>5, <2>1, BILVaultAssumption
<1>7. paused' = paused /\ UNCHANGED <<Ledger!shareVars, Ledger!flagVars>>
  BY <1>1 DEF switchVars, Ledger!shareVars, Ledger!flagVars
<1>8. ~settles => UNCHANGED <<Ledger!queueVars, Ledger!totalVars>>
  BY <1>1 DEF requestVars, Ledger!queueVars, Ledger!totalVars
<1>9. RateWith(Book', idle)
        = Ledger!RateOf(totalInvestedPrincipal' + YieldValue(Book)' + idle)
  <2>1. now' = now
    BY <1>1 DEF PokeDecentral
  <2> HIDE DEF idle
  <2> QED BY <2>1, ValuePrimed DEF RateWith, Book
<1>10. /\ settles <=> principal > 0 /\ totalQueuedBil > 0 /\ ~HasMaturedBacklog(Book')
       /\ idle = idleHollar + yield + principal
       /\ w = Ledger!Settlement(idle, RateWith(Book', idle))
  OBVIOUS
<1>11. principal = totalInvestedPrincipal - totalInvestedPrincipal'
  OBVIOUS
<1> HIDE DEF b, y, yield, principal, idle, settles, w
<1>12. /\ totalInvestedPrincipal' = totalInvestedPrincipal - principal
       /\ principal <= totalInvestedPrincipal
  <2>1. \A s, t, p \in Nat : p = s - t => t = s - p /\ p <= s
    OBVIOUS
  <2>2. principal \in Nat /\ totalInvestedPrincipal' \in Nat /\ totalInvestedPrincipal \in Nat
    BY <1>3, <1>5
  <2> QED BY <1>11, <2>1, <2>2
<1>13. CASE yield = 0 /\ principal = 0
  <2>1. ~settles /\ idle = idleHollar
    BY <1>3, <1>5, <1>10, <1>13
  <2>2. UNCHANGED <<idleHollar, hollar, totalInvestedPrincipal>>
    BY <1>1, <1>5, <1>12, <1>13, <2>1
  <2>3. YieldValue(Book)' \in Ledger!SyncedYields
    BY <1>3, <1>4, <1>6, <1>13
  <2>4. Ledger!SyncMaturities
    BY <1>7, <1>8, <2>1, <2>2, <2>3 DEF Ledger!SyncMaturities, Ledger!hollarVars
  <2> QED BY <1>3, <1>7, <2>4, KeepsVaultInv DEF Ledger!Next, Ledger!VenueStep
<1>14. CASE yield > 0
  <2>1. principal = 0 /\ yield <= y
    BY <1>3, <1>6, <1>14
  <2>2. yield \in 1 .. (YieldValue(Book) + SyncCatchUp)
    BY <1>3, <1>5, <1>6, <1>14, <2>1
  <2>3. ~settles /\ idle = idleHollar + yield
    BY <1>3, <1>5, <1>10, <2>1
  <2>4. /\ totalInvestedPrincipal' = totalInvestedPrincipal
        /\ idleHollar' = idleHollar + yield /\ hollar' = hollar + yield
    BY <1>1, <1>3, <1>5, <1>12, <2>1, <2>3
  <2>5. Ledger!ShortfallTolerated(yield, yield) /\ Ledger!Credit(yield, yield) = yield
    BY <1>3 DEF Ledger!ShortfallTolerated, Ledger!Credit
  <2>6. Ledger!ClaimYield(yield, yield)
    BY <1>2, <1>3, <1>4, <1>7, <1>8, <1>14, <2>1, <2>3, <2>4, <2>5 DEF Ledger!ClaimYield
  <2>7. yield \in Ledger!Payouts(yield)
    BY <1>3 DEF Ledger!Payouts
  <2>8. Ledger!VenueStep
    BY <2>2, <2>6, <2>7 DEF Ledger!VenueStep
  <2> QED BY <1>3, <1>7, <2>8, KeepsVaultInv DEF Ledger!Next
<1>15. CASE principal > 0
  <2> DEFINE backlog == HasMaturedBacklog(Book')
  <2>1. yield = 0 /\ principal \in 1 .. totalInvestedPrincipal
    BY <1>3, <1>5, <1>12, <1>15
  <2>2. YieldValue(Book)' \in Ledger!SyncedYields
    BY <1>3, <1>4, <1>6, <2>1
  <2>3. /\ idle = idleHollar + principal /\ idle > 0 /\ hollar' = hollar + principal
    BY <1>1, <1>3, <1>5, <1>10, <1>15, <2>1
  <2>4. /\ Ledger!ShortfallTolerated(principal, principal)
        /\ Ledger!Credit(principal, principal) = principal
    BY <1>3 DEF Ledger!ShortfallTolerated, Ledger!Credit
  <2>5. backlog \in BOOLEAN /\ (settles <=> totalQueuedBil > 0 /\ idle > 0 /\ ~backlog)
    BY <1>10, <1>15, <2>3 DEF HasMaturedBacklog
  <2>6. w = Ledger!Settlement(idle,
              Ledger!RateOf(totalInvestedPrincipal' + YieldValue(Book)' + idle))
    BY <1>9, <1>10
  <2> HIDE DEF backlog
  <2>7. Ledger!ClaimPrincipal(principal, principal, backlog)
    <3>1. idle = idleHollar + Ledger!Credit(principal, principal)
      BY <2>3, <2>4
    <3>2. CASE settles
      BY <1>1, <1>2, <1>7, <1>12, <2>1, <2>2, <2>3, <2>4, <2>5, <2>6, <3>1, <3>2
         DEF Ledger!ClaimPrincipal, Ledger!PayoutRate
    <3>3. CASE ~settles
      BY <1>1, <1>2, <1>7, <1>8, <1>12, <2>1, <2>2, <2>3, <2>4, <2>5, <3>1, <3>3
         DEF Ledger!ClaimPrincipal, Ledger!PayoutRate
    <3> QED BY <3>2, <3>3
  <2>8. principal \in Ledger!Payouts(principal)
    BY <1>3 DEF Ledger!Payouts
  <2>9. Ledger!VenueStep
    BY <2>1, <2>5, <2>7, <2>8 DEF Ledger!VenueStep
  <2> QED BY <1>3, <1>7, <2>9, KeepsVaultInv DEF Ledger!Next
<1> QED BY <1>3, <1>13, <1>14, <1>15

LEMMA SyncRefines ==
  ASSUME VaultInv, YieldInBounds, NEW n \in 1 .. MaxPositions, VaultSyncMaturities(n)
  PROVE  Refines
<1>1. /\ SyncMaturities(n) /\ Store(Synced(n)) /\ now' = now
      /\ UNCHANGED <<requestVars, tokenVars, switchVars>>
  BY DEF VaultSyncMaturities, SyncMaturities
<1>2. IInv /\ ExactBook(Book) /\ Funded /\ n \in Nat
  BY PositionBookAssumption DEF VaultInv
<1>3. /\ totalInvestedPrincipal' = totalInvestedPrincipal
      /\ YieldValue(Book)' = YieldValue(Synced(n)) /\ Funded'
  BY <1>1, <1>2, SyncMoves
<1>4. IInv' /\ ExactBook(Book)'
  BY <1>1, <1>2, NextReachable, NextExact DEF Next
<1>5. YieldValue(Synced(n)) \in Ledger!SyncedYields
  BY SyncInBounds
<1>6. Ledger!SyncMaturities
  BY <1>1, <1>3, <1>5 DEF Ledger!SyncMaturities, requestVars, tokenVars, switchVars,
     Ledger!queueVars, Ledger!totalVars, Ledger!shareVars, Ledger!hollarVars, Ledger!flagVars
<1>7. paused' = paused
  BY <1>1 DEF switchVars
<1> QED BY <1>3, <1>4, <1>6, <1>7, KeepsVaultInv DEF Ledger!Next, Ledger!VenueStep

LEMMA ReleaseRefines ==
  ASSUME VaultInv, NEW i \in 1 .. MaxPositions, VenueRelease(i)
  PROVE  Refines
<1>1. Release(i) /\ UNCHANGED <<bookVars, now, requestVars, tokenVars, switchVars>>
  BY DEF VenueRelease, Release
<1>2. IInv' /\ ExactBook(Book)'
  BY <1>1, NextReachable, NextExact DEF VaultInv, Next
<1>3. Book' = Book /\ Funded'
  BY <1>1 DEF bookVars, Book, VaultInv, Funded, Places
<1>4. YieldValue(Book)' = YieldValue(Book)
  BY <1>1, <1>3, ValuePrimed
<1>5. UNCHANGED Ledger!vars
  BY <1>1, <1>4 DEF bookVars, requestVars, tokenVars, switchVars, Ledger!vars, Ledger!queueVars,
     Ledger!totalVars, Ledger!venueVars, Ledger!shareVars, Ledger!hollarVars, Ledger!flagVars
<1>6. paused' = paused
  BY <1>1 DEF switchVars
<1> QED BY <1>2, <1>3, <1>5, <1>6, KeepsVaultInv

LEMMA TickRefines ==
  ASSUME VaultInv, YieldInBounds, VaultTick
  PROVE  Refines
<1>1. /\ Tick /\ now' = now + 1
      /\ UNCHANGED <<bookVars, requestVars, tokenVars, switchVars>>
  BY DEF VaultTick, Tick
<1>2. IInv' /\ ExactBook(Book)'
  BY <1>1, NextReachable, NextExact DEF VaultInv, Next
<1>3. Funded' /\ UNCHANGED <<totalInvestedPrincipal, paused>>
  BY <1>1 DEF bookVars, switchVars, VaultInv, Funded, Places
<1>4. /\ now \in Nat /\ YieldValue(Book) \in Nat /\ totalInvestedPrincipal \in Nat
      /\ MaxAccrual \in Nat
  BY VaultNumbers, BILVaultAssumption
<1>5. /\ YieldValue(Book)' \in Nat /\ YieldValue(Book)' >= YieldValue(Book)
      /\ totalInvestedPrincipal = 0 => YieldValue(Book)' = YieldValue(Book)
  BY <1>1, <1>4, TickAccrues DEF VaultInv
<1>6. YieldValue(Book)' <= YieldValue(Book) + MaxAccrual /\ Ledger!totalAssets < MaxAssets
  BY <1>1, <1>4 DEF YieldInBounds
<1>7. UNCHANGED <<Ledger!queueVars, Ledger!totalVars, totalInvestedPrincipal,
                  Ledger!shareVars, Ledger!hollarVars, Ledger!flagVars>>
  BY <1>1, <1>3 DEF requestVars, tokenVars, switchVars, Ledger!queueVars,
     Ledger!totalVars, Ledger!shareVars, Ledger!hollarVars, Ledger!flagVars
<1>8. CASE YieldValue(Book)' = YieldValue(Book)
  <2>1. UNCHANGED Ledger!vars
    BY <1>7, <1>8 DEF Ledger!vars, Ledger!venueVars
  <2> QED BY <1>2, <1>3, <2>1, KeepsVaultInv
<1>9. CASE YieldValue(Book)' # YieldValue(Book)
  <2>1. PICK k \in 1 .. MaxAccrual : YieldValue(Book)' = YieldValue(Book) + k
    <3>1. YieldValue(Book)' - YieldValue(Book) \in 1 .. MaxAccrual
      BY <1>4, <1>5, <1>6, <1>9
    <3>2. YieldValue(Book)' = YieldValue(Book) + (YieldValue(Book)' - YieldValue(Book))
      BY <1>4, <1>5
    <3> QED BY <3>1, <3>2
  <2>2. totalInvestedPrincipal > 0
    BY <1>4, <1>5, <1>9
  <2>3. Ledger!AccrueYield
    BY <1>6, <1>7, <2>1, <2>2 DEF Ledger!AccrueYield
  <2> QED BY <1>2, <1>3, <2>3, KeepsVaultInv DEF Ledger!Next, Ledger!VenueStep
<1> QED BY <1>8, <1>9

\* A step that leaves the vault as it is leaves what is known of it.
LEMMA StutterRefines == VaultInv /\ UNCHANGED vaultVars => Refines
<1> SUFFICES ASSUME VaultInv, UNCHANGED vaultVars PROVE Refines
  OBVIOUS
<1>1. UNCHANGED <<vars, now, bookVars, requestVars, tokenVars, switchVars>>
  BY DEF vaultVars, vars
<1>2. Book' = Book
  BY <1>1 DEF bookVars, Book
<1>3. YieldValue(Book)' = YieldValue(Book)
  BY <1>1, <1>2, ValuePrimed
<1>4. UNCHANGED Ledger!vars
  BY <1>1, <1>3 DEF bookVars, requestVars, tokenVars, switchVars, Ledger!vars,
     Ledger!queueVars, Ledger!totalVars, Ledger!venueVars, Ledger!shareVars,
     Ledger!hollarVars, Ledger!flagVars
<1> QED BY <1>1, <1>4, SameBookRefines DEF switchVars

LEMMA StepRefines == VaultInv /\ [VaultNext /\ YieldInBounds]_vaultVars => Refines
<1> SUFFICES ASSUME VaultInv, [VaultNext /\ YieldInBounds]_vaultVars PROVE Refines
  OBVIOUS
<1>1. CASE UserStep
  BY <1>1, UserRefines
<1>2. CASE KeeperStep /\ YieldInBounds
  BY <1>2, PokeQueueRefines, PokeDecentralRefines, SyncRefines DEF KeeperStep
<1>3. CASE VenueStep /\ YieldInBounds
  BY <1>3, TickRefines, ReleaseRefines DEF VenueStep
<1>4. CASE UNCHANGED vaultVars
  BY <1>4, StutterRefines
<1> QED BY <1>1, <1>2, <1>3, <1>4 DEF VaultNext

LEMMA VaultInitInv == VaultInit => VaultInv
<1> SUFFICES ASSUME VaultInit PROVE VaultInv
  OBVIOUS
<1>1. Init /\ Proved!Init /\ ~paused
  BY SameLedger DEF VaultInit, Ledger!Init
<1>2. IInv /\ ExactBook(Book)
  BY <1>1, InitReachable, InitExact
<1>3. Proved!IInv
  BY <1>1, Proved!InitIInv, BILVaultAssumption
<1>4. Funded
  BY <1>1, EmptySeq DEF Init, Funded, Places
<1> QED BY <1>1, <1>2, <1>3, <1>4 DEF VaultInv

-----------------------------------------------------------------------------
(* What the vault can ever hold.  A position of tvlCap at the best rate earns no   *)
(* more than YieldLimit before it matures, and there are MaxPositions of them.     *)

YieldLimit(rate) == MaxTime * rate

\* The bounds of the ledger leave room for all of it, where no position earns more
\* than rate in a unit of time.
RoomFor(rate) ==
  /\ \A p \in Pools : apyWadOf[p] * tvlCap <= rate
  /\ MaxPositions <= SyncDust
  /\ 2 * (MaxPositions * YieldLimit(rate)) <= SyncCatchUp
  /\ 2 * (MaxPositions * YieldLimit(rate)) <= MaxAccrual
  /\ MaxPositions * (tvlCap + YieldLimit(rate)) + MaxPositions * YieldLimit(rate) < MaxAssets

\* What the positions of book b were opened with and may ever earn, less what is there
\* of it and what may still be earned: what can have been paid back at most.
PaidBack(b, rate) ==
  Len(b.positions) * (tvlCap + YieldLimit(rate))
    - (b.invested + b.pending + Len(b.heap) * YieldLimit(rate))

InRoom(b, rate) ==
  /\ \A i \in 1 .. Len(b.positions) : /\ b.positions[i].maturityTime <= MaxTime
                                      /\ YieldRate(b.positions[i]) <= rate
  /\ b.rateSum <= Len(b.positions) * rate
  /\ b.pending + Len(b.heap) * YieldLimit(rate) <= Len(b.positions) * YieldLimit(rate)

RoomInv(rate) ==
  /\ now <= MaxTime
  /\ InRoom(Book, rate)
  /\ hollar <= PaidBack(Book, rate)

LEMMA LimitNat ==
  ASSUME NEW rate \in Nat
  PROVE  /\ YieldLimit(rate) \in Nat
         /\ tvlCap \in Nat /\ tvlCap + YieldLimit(rate) \in Nat
<1>1. \A a, b \in Nat : a * b \in Nat /\ a + b \in Nat
  OBVIOUS
<1> QED BY <1>1, PositionBookAssumption, BILVaultAssumption DEF YieldLimit

LEMMA ProductsNat ==
  /\ \A a, b \in Nat : a * b \in Nat
  /\ \A a, b, c \in Nat : a <= b => a * c <= b * c /\ c * a <= c * b
  /\ \A a, b, c \in Nat : a * (b * c) = b * (a * c)
  /\ \A a, b \in Nat : (a + 1) * b = a * b + b
  /\ \A a \in Nat \ {0}, b \in Nat : (a - 1) * b = a * b - b
OBVIOUS

\* The running aggregate earns no more than the positions may.
LEMMA RunningFits ==
  ASSUME NEW rate \in Nat, NEW t \in Int, t <= MaxTime, NEW n \in Nat, n <= MaxPositions,
         NEW r \in Nat, r <= n * rate, NEW s \in Nat
  PROVE  t * r - s \in Int /\ Running(t * r - s) <= MaxPositions * YieldLimit(rate)
<1> DEFINE k == YieldLimit(rate)
<1>1. /\ k \in Nat /\ MaxPositions \in Nat /\ MaxTime \in Nat /\ n * rate \in Nat
      /\ n * k \in Nat /\ MaxPositions * k \in Nat
  BY LimitNat, PositionBookAssumption, ProductsNat
<1>2. PICK g \in Int : g = t * r
  OBVIOUS
<1>3. g <= n * k
  <2>1. CASE t >= 0
    <3>1. t \in Nat
      BY <2>1
    <3>2. t * r <= MaxTime * r /\ MaxTime * r <= MaxTime * (n * rate)
      BY <1>1, <3>1, ProductsNat
    <3>3. MaxTime * (n * rate) = n * k
      BY <1>1, ProductsNat DEF YieldLimit
    <3>4. MaxTime * r \in Nat
      BY <1>1, ProductsNat
    <3> HIDE DEF k
    <3> QED BY <1>1, <1>2, <3>2, <3>3, <3>4
  <2>2. CASE t < 0
    <3>1. \A a, b \in Nat : (0 - a) * b = 0 - (a * b) /\ a * b \in Nat
      OBVIOUS
    <3>2. PICK m \in Nat : t = 0 - m
      <4>1. 0 - t \in Nat /\ t = 0 - (0 - t)
        BY <2>2
      <4> QED BY <4>1
    <3>3. g = 0 - (m * r) /\ m * r \in Nat
      BY <1>2, <3>1, <3>2
    <3> HIDE DEF k
    <3> QED BY <1>1, <3>3
  <2> QED BY <2>1, <2>2
<1>4. n * k <= MaxPositions * k
  BY <1>1, ProductsNat
<1> HIDE DEF k
<1>5. g - s \in Int /\ g - s <= MaxPositions * k
  BY <1>1, <1>2, <1>3, <1>4
<1>6. \A x \in Nat, d \in Nat \ {0} : x \div d <= x
  OBVIOUS
<1>7. Running(g - s) <= MaxPositions * k
  <2>1. CASE g - s > 0
    <3>1. g - s \in Nat /\ Denominator \in Nat \ {0}
      BY <1>5, <2>1, PositionBookAssumption
    <3>2. (g - s) \div Denominator <= g - s /\ (g - s) \div Denominator \in Nat
      BY <3>1, <1>6, DivNat
    <3>3. Running(g - s) = (g - s) \div Denominator
      BY <2>1 DEF Running
    <3> QED BY <1>1, <1>5, <3>1, <3>2, <3>3
  <2>2. CASE ~(g - s > 0)
    BY <1>1, <2>2 DEF Running
  <2> QED BY <2>1, <2>2
<1> QED BY <1>2, <1>5, <1>7 DEF k

\* No book in the room has more yield than all positions may earn.
LEMMA YieldFits ==
  ASSUME NEW rate \in Nat, NEW b, ExactBook(b), InRoom(b, rate), now \in Nat, now <= MaxTime
  PROVE  /\ AccruedYield(b) \in Nat /\ AccruedYield(b) <= MaxPositions * YieldLimit(rate)
         /\ b.pending \in Nat /\ b.pending <= MaxPositions * YieldLimit(rate)
<1> DEFINE k == YieldLimit(rate)
           n == Len(b.positions)
           t == AccrualTime(b)
<1>1. /\ k \in Nat /\ MaxPositions \in Nat /\ n \in Nat /\ n <= MaxPositions
      /\ b.positions \in Seq(NFTPosition) /\ b.heap \in Seq(Nat) /\ MaxTime \in Nat
  BY LimitNat, PositionBookAssumption, ExactIsTyped DEF ExactBook
<1>2. b.rateSum \in Nat /\ b.offsetSum \in Nat /\ b.pending \in Nat
  BY <1>1, TermsAreNat, TotalNat DEF ExactBook, SumsMatch
<1>3. t \in Int /\ t <= MaxTime
  <2>1. t \in Int
    BY ValueInt
  <2>2. t <= now
    <3>1. b.heap # <<>> => MaturityOf(b.heap[1]) \in Nat
      BY RootIsEarliest
    <3> QED BY <3>1 DEF AccrualTime
  <2> HIDE DEF t
  <2> QED BY <1>1, <2>1, <2>2
<1>4. AccruedYield(b) = Running(t * b.rateSum - b.offsetSum)
  BY <1>2, <1>3, AccruedRuns
<1> HIDE DEF t
<1>5. t * b.rateSum - b.offsetSum \in Int
      /\ Running(t * b.rateSum - b.offsetSum) <= MaxPositions * k
  BY <1>1, <1>2, <1>3, RunningFits DEF InRoom
<1>6. AccruedYield(b) \in Nat
  BY <1>4, <1>5, RunningNat
<1>7. b.pending <= MaxPositions * k
  <2>1. Len(b.heap) \in Nat
    BY <1>1, LenProperties
  <2>2. Len(b.heap) * k \in Nat /\ n * k \in Nat /\ MaxPositions * k \in Nat
        /\ n * k <= MaxPositions * k
    BY <1>1, <2>1, ProductsNat
  <2>3. b.pending + Len(b.heap) * k <= n * k
    BY DEF InRoom
  <2> HIDE DEF n, k
  <2> QED BY <1>2, <2>2, <2>3
<1> QED BY <1>2, <1>4, <1>5, <1>6, <1>7


\* What a position has earned when it is frozen is within the limit.
LEMMA FrozenFits ==
  ASSUME NEW rate \in Nat, NEW p \in NFTPosition, p.yieldStartTime <= p.maturityTime,
         p.maturityTime <= MaxTime, YieldRate(p) <= rate
  PROVE  /\ Frozen(p).pendingYield \in Nat /\ Frozen(p).pendingYield <= YieldLimit(rate)
         /\ YieldRate(Frozen(p)) = YieldRate(p) /\ YieldRate(p) \in Nat
         /\ Frozen(p).maturityTime = p.maturityTime
<1> DEFINE d == p.maturityTime - p.yieldStartTime
           r == YieldRate(p)
           g == GrossYield(p, p.maturityTime)
<1>1. p.apyWad \in Nat /\ p.principal \in Nat /\ d \in Nat /\ d <= MaxTime /\ MaxTime \in Nat
  BY PositionBookAssumption DEF NFTPosition
<1>2. /\ Frozen(p).pendingYield = g \div Denominator /\ Frozen(p).maturityTime = p.maturityTime
      /\ Frozen(p).apyWad = p.apyWad /\ Frozen(p).principal = p.principal
  BY DEF Frozen, NFTPosition
<1>3. YieldRate(Frozen(p)) = r /\ r \in Nat
  BY <1>1, <1>2, ProductsNat DEF YieldRate
<1>4. g = r * d
  BY DEF GrossYield
<1> HIDE DEF d, r, g
<1>5. g \in Nat /\ g <= YieldLimit(rate)
  <2>1. r * d <= rate * d /\ rate * d <= rate * MaxTime
    BY <1>1, <1>3, ProductsNat DEF r
  <2>2. rate * MaxTime = MaxTime * rate /\ rate * MaxTime \in Nat /\ r * d \in Nat
        /\ rate * d \in Nat
    BY <1>1, <1>3, ProductsNat
  <2> QED BY <1>4, <2>1, <2>2 DEF YieldLimit
<1>6. g \div Denominator \in Nat /\ g \div Denominator <= g
  <2>1. \A x \in Nat, e \in Nat \ {0} : x \div e <= x
    OBVIOUS
  <2> QED BY <1>5, <2>1, DivNat, PositionBookAssumption
<1>7. g \div Denominator <= YieldLimit(rate)
  BY <1>5, <1>6, LimitNat
<1> QED BY <1>2, <1>3, <1>6, <1>7 DEF r

LEMMA CapInRoom ==
  ASSUME NEW rate \in Nat, NEW b, ExactBook(b), b.heap # <<>>, InRoom(b, rate)
  PROVE  /\ InRoom(CapEarliest(b), rate)
         /\ PaidBack(CapEarliest(b), rate) >= PaidBack(b, rate)
<1> DEFINE i == IndexOf(b.heap[1])
           c == CapEarliest(b)
           old == b.positions[i]
           p == Frozen(old)
           k == YieldLimit(rate)
           n == Len(b.positions)
           m == Len(b.heap)
<1>1. /\ b \in Books /\ b.positions \in Seq(NFTPosition) /\ n \in Nat /\ b.heap \in Seq(Nat)
      /\ \A j \in 1 .. n : b.positions[j] \in NFTPosition
      /\ b.rateSum \in Int /\ b.pending \in Int /\ b.invested \in Int
  BY ExactIsTyped
<1>2. i \in 1 .. n
  BY RootIsEarliest
<1>3. /\ c.positions = [b.positions EXCEPT ![i] = p] /\ c.rateSum = b.rateSum - YieldRate(p)
      /\ c.pending = b.pending + p.pendingYield /\ c.invested = b.invested
  BY <1>1 DEF CapEarliest, Books
<1>4. Len(c.heap) = m - 1 /\ m \in Nat \ {0} /\ k \in Nat /\ tvlCap + k \in Nat
  <2>1. Len(c.heap) = m - 1
    BY CapExact
  <2>2. m \in Nat \ {0}
    BY <1>1, EmptySeq
  <2> HIDE DEF c, m
  <2> QED BY <2>1, <2>2, LimitNat
<1>5. old \in NFTPosition /\ old.yieldStartTime <= old.maturityTime
      /\ old.maturityTime <= MaxTime /\ YieldRate(old) <= rate
  BY <1>1, <1>2 DEF ExactBook, SoundBook, InRoom
<1>6. /\ p \in NFTPosition /\ p.pendingYield \in Nat /\ p.pendingYield <= k
      /\ YieldRate(p) = YieldRate(old) /\ YieldRate(p) \in Nat
      /\ p.maturityTime = old.maturityTime
  BY <1>5, FrozenFits, FrozenSound
<1> HIDE DEF c, p, old, i
<1>7. /\ Len(c.positions) = n
      /\ \A j \in 1 .. n : c.positions[j] = IF j = i THEN p ELSE b.positions[j]
  BY <1>1, <1>2, <1>3, <1>6, ExceptSeq
<1>8. \A j \in 1 .. n : c.positions[j].maturityTime <= MaxTime /\ YieldRate(c.positions[j]) <= rate
  BY <1>5, <1>6, <1>7 DEF InRoom
<1> DEFINE mk == m * k
           lk == (m - 1) * k
           nk == n * k
           nr == n * rate
           nt == n * (tvlCap + k)
<1>9. lk = mk - k /\ mk \in Nat /\ nk \in Nat /\ nr \in Nat /\ nt \in Nat
  BY <1>1, <1>4, ProductsNat
<1>10. b.rateSum <= nr /\ b.pending + mk <= nk
  BY DEF InRoom
<1> HIDE DEF k, n, m, mk, lk, nk, nr, nt
<1> DEFINE y == p.pendingYield
           r == YieldRate(p)
<1>11. c.rateSum <= nr /\ c.pending + lk <= nk
       /\ nt - (c.invested + c.pending + lk) >= nt - (b.invested + b.pending + mk)
  <2>1. /\ b.rateSum \in Int /\ b.pending \in Int /\ b.invested \in Int
        /\ y \in Nat /\ y <= k /\ r \in Nat /\ k \in Nat
    BY <1>1, <1>4, <1>6
  <2>2. c.rateSum = b.rateSum - r /\ c.pending = b.pending + y /\ c.invested = b.invested
    BY <1>3
  <2> HIDE DEF y, r
  <2>3. c.rateSum <= nr
    BY <1>9, <1>10, <2>1, <2>2
  <2>4. lk \in Int /\ c.pending \in Int /\ c.pending + lk <= b.pending + mk
    BY <1>9, <2>1, <2>2
  <2>5. b.pending + mk \in Int /\ c.pending + lk \in Int
    BY <1>9, <2>1, <2>4
  <2>6. c.pending + lk <= nk
    BY <1>9, <1>10, <2>4, <2>5
  <2>7. nt - (c.invested + c.pending + lk) >= nt - (b.invested + b.pending + mk)
    <3>1. \A t, z, u, v, w, x \in Int : u + v <= w + x => t - (z + u + v) >= t - (z + w + x)
      OBVIOUS
    <3>2. nt \in Int /\ mk \in Int
      BY <1>9
    <3> QED BY <2>1, <2>2, <2>4, <3>1, <3>2
  <2> QED BY <2>3, <2>6, <2>7
<1>12. InRoom(c, rate)
  BY <1>4, <1>7, <1>8, <1>11 DEF InRoom, k, n, m, lk, nk, nr
<1>13. PaidBack(c, rate) >= PaidBack(b, rate)
  BY <1>4, <1>7, <1>11 DEF PaidBack, k, n, m, mk, lk, nt
<1> QED BY <1>12, <1>13 DEF c

LEMMA PaidBackInt ==
  ASSUME NEW rate \in Nat, NEW b, ExactBook(b)
  PROVE  PaidBack(b, rate) \in Int
<1>1. /\ Len(b.positions) \in Nat /\ Len(b.heap) \in Nat /\ YieldLimit(rate) \in Nat
      /\ tvlCap + YieldLimit(rate) \in Nat /\ b.pending \in Int /\ b.invested \in Int
  <2>1. Len(b.heap) \in Nat
    BY ExactIsTyped, LenProperties
  <2> QED BY <2>1, ExactIsTyped, LimitNat
<1>2. /\ Len(b.positions) * (tvlCap + YieldLimit(rate)) \in Nat
      /\ Len(b.heap) * YieldLimit(rate) \in Nat
  BY <1>1, ProductsNat
<1>3. \A x, y, z, w \in Int : x - (y + z + w) \in Int
  OBVIOUS
<1>4. Len(b.positions) * (tvlCap + YieldLimit(rate)) \in Int /\ Len(b.heap) * YieldLimit(rate) \in Int
  BY <1>2
<1> QED BY <1>1, <1>3, <1>4 DEF PaidBack

LEMMA SyncInRoom ==
  ASSUME NEW rate \in Nat, ExactBook(Book), InRoom(Book, rate), NEW n \in Nat
  PROVE  /\ InRoom(Synced(n), rate)
         /\ PaidBack(Synced(n), rate) >= PaidBack(Book, rate)
<1> DEFINE F == [b \in Books |-> IF HasMaturedBacklog(b) THEN CapEarliest(b) ELSE b]
           T == {b \in Books : /\ ExactBook(b) /\ InRoom(b, rate)
                               /\ PaidBack(b, rate) >= PaidBack(Book, rate)}
<1>1. Book \in T
  <2>1. PaidBack(Book, rate) \in Int
    BY PaidBackInt
  <2>2. PaidBack(Book, rate) >= PaidBack(Book, rate)
    BY <2>1
  <2> QED BY <2>2, ExactIsTyped
<1>2. \A b \in T : F[b] \in T
  <2> TAKE b \in T
  <2>1. CASE HasMaturedBacklog(b)
    <3> DEFINE c == CapEarliest(b)
    <3>1. b.heap # <<>>
      BY <2>1 DEF HasMaturedBacklog
    <3>2. ExactBook(c) /\ InRoom(c, rate) /\ PaidBack(c, rate) >= PaidBack(b, rate)
      BY <3>1, CapExact, CapInRoom
    <3>3. c \in Books
      BY <3>2, ExactIsTyped
    <3>4. /\ PaidBack(c, rate) \in Int /\ PaidBack(b, rate) \in Int
          /\ PaidBack(Book, rate) \in Int /\ PaidBack(b, rate) >= PaidBack(Book, rate)
      BY <3>2, PaidBackInt
    <3> HIDE DEF c
    <3>5. PaidBack(c, rate) >= PaidBack(Book, rate)
      BY <3>2, <3>4
    <3> QED BY <2>1, <3>2, <3>3, <3>5 DEF c
  <2>2. CASE ~HasMaturedBacklog(b)
    BY <2>2
  <2> QED BY <2>1, <2>2
<1> HIDE DEF F, T
<1>3. Iterate(F, Book, n) \in T
  BY <1>1, <1>2, IterateInvariant
<1> QED BY <1>3 DEF Synced, F, T

LEMMA OpenInRoom ==
  ASSUME NEW rate \in Nat, RoomFor(rate), NEW b, ExactBook(b), InRoom(b, rate),
         NEW amount \in Nat, amount <= tvlCap, now \in Nat, activeDepositPool \in Pools,
         Len(b.positions) < MaxPositions, now + periodOf[activeDepositPool] <= MaxTime
  PROVE  /\ InRoom(Opened(b, amount), rate)
         /\ PaidBack(Opened(b, amount), rate) >= PaidBack(b, rate)
<1> DEFINE c == Opened(b, amount)
           p == [pool |-> activeDepositPool, principal |-> amount,
                 apyWad |-> apyWadOf[activeDepositPool], yieldStartTime |-> now,
                 maturityTime |-> now + periodOf[activeDepositPool],
                 state |-> "Active", yieldCapped |-> FALSE, pendingYield |-> 0]
           k == YieldLimit(rate)
           n == Len(b.positions)
           m == Len(b.heap)
<1>1. /\ b \in Books /\ b.positions \in Seq(NFTPosition) /\ n \in Nat /\ b.heap \in Seq(Nat)
      /\ \A j \in 1 .. n : b.positions[j] \in NFTPosition
      /\ b.rateSum \in Int /\ b.pending \in Int /\ b.invested \in Int
  BY ExactIsTyped
<1>2. /\ c.positions = Append(b.positions, p) /\ c.rateSum = b.rateSum + YieldRate(p)
      /\ c.pending = b.pending /\ c.invested = b.invested + amount
  BY <1>1 DEF Opened, Books
<1>3. Len(c.heap) = m + 1 /\ m \in Nat /\ k \in Nat /\ tvlCap \in Nat
  BY <1>1, OpenExact, LenProperties, LimitNat, BILVaultAssumption
<1>4. /\ p.maturityTime <= MaxTime /\ YieldRate(p) <= rate /\ YieldRate(p) \in Nat
  <2>1. apyWadOf[activeDepositPool] \in Nat
    BY PositionBookAssumption
  <2>2. /\ apyWadOf[activeDepositPool] * amount <= apyWadOf[activeDepositPool] * tvlCap
        /\ apyWadOf[activeDepositPool] * amount \in Nat
        /\ apyWadOf[activeDepositPool] * tvlCap \in Nat
    BY <1>3, <2>1, ProductsNat
  <2>3. apyWadOf[activeDepositPool] * tvlCap <= rate
    BY DEF RoomFor
  <2>4. apyWadOf[activeDepositPool] * amount <= rate
    BY <2>2, <2>3
  <2> QED BY <2>2, <2>4 DEF YieldRate
<1> HIDE DEF c, p
<1>5. /\ Len(c.positions) = n + 1
      /\ \A j \in 1 .. (n + 1) : c.positions[j] = IF j = n + 1 THEN p ELSE b.positions[j]
  BY <1>1, <1>2 DEF Append
<1>6. \A j \in 1 .. (n + 1) : c.positions[j].maturityTime <= MaxTime
                              /\ YieldRate(c.positions[j]) <= rate
  <2> TAKE j \in 1 .. (n + 1)
  <2>1. CASE j = n + 1
    BY <1>4, <1>5, <2>1
  <2>2. CASE j # n + 1
    <3>1. j \in 1 .. n
      BY <1>1, <2>2
    <3> QED BY <1>5, <2>2, <3>1 DEF InRoom
  <2> QED BY <2>1, <2>2
<1> DEFINE mk == m * k
           gk == (m + 1) * k
           nk == n * k
           hk == (n + 1) * k
           nr == n * rate
           hr == (n + 1) * rate
           nt == n * (tvlCap + k)
           ht == (n + 1) * (tvlCap + k)
<1>7. /\ gk = mk + k /\ hk = nk + k /\ hr = nr + rate
      /\ mk \in Nat /\ nk \in Nat /\ nr \in Nat
  BY <1>1, <1>3, ProductsNat
<1>8. ht = nt + (tvlCap + k) /\ nt \in Nat
  <2>1. tvlCap + k \in Nat
    BY <1>3
  <2> HIDE DEF k, n
  <2> QED BY <1>1, <2>1, ProductsNat
<1>9. b.rateSum <= nr /\ b.pending + mk <= nk
  BY DEF InRoom
<1> HIDE DEF k, n, m, mk, gk, nk, hk, nr, hr, nt, ht
<1>10. c.rateSum <= hr /\ c.pending + gk <= hk
  <2> DEFINE r == YieldRate(p)
  <2>1. b.rateSum \in Int /\ b.pending \in Int /\ r \in Nat /\ r <= rate /\ k \in Nat
    BY <1>1, <1>3, <1>4
  <2>2. c.rateSum = b.rateSum + r /\ c.pending = b.pending
    BY <1>2
  <2> HIDE DEF r
  <2>3. c.rateSum <= hr
    BY <1>7, <1>9, <2>1, <2>2
  <2>4. c.pending + gk <= hk
    BY <1>7, <1>9, <2>1, <2>2
  <2> QED BY <2>3, <2>4
<1>11. ht - (c.invested + c.pending + gk) >= nt - (b.invested + b.pending + mk)
  <2>1. PICK x \in Int, y \in Int : x = b.invested /\ y = b.pending
    BY <1>1
  <2>2. c.invested = x + amount /\ c.pending = y
    BY <1>2, <2>1
  <2>3. ht - (x + amount + y + gk) >= nt - (x + y + mk)
    BY <1>3, <1>7, <1>8
  <2> QED BY <2>1, <2>2, <2>3
<1>12. InRoom(c, rate)
  BY <1>3, <1>5, <1>6, <1>10 DEF InRoom, k, n, m, gk, hk, hr
<1>13. PaidBack(c, rate) >= PaidBack(b, rate)
  BY <1>3, <1>5, <1>11 DEF PaidBack, k, n, m, mk, gk, nt, ht
<1> QED BY <1>12, <1>13 DEF c

\* A poked position pays back no more than leaves the book.
LEMMA PokedInRoom ==
  ASSUME NEW rate \in Nat, NEW b, ExactBook(b), InRoom(b, rate), NEW i \in 1 .. Len(b.positions),
         NEW q \in NFTPosition, NEW c, ExactBook(c),
         q.maturityTime = b.positions[i].maturityTime,
         YieldRate(q) = YieldRate(b.positions[i]),
         c.positions = [b.positions EXCEPT ![i] = q], c.heap = b.heap, c.rateSum = b.rateSum,
         c.pending <= b.pending, c.invested <= b.invested
  PROVE  /\ InRoom(c, rate)
         /\ PaidBack(c, rate) - PaidBack(b, rate)
              = (b.pending - c.pending) + (b.invested - c.invested)
<1> DEFINE k == YieldLimit(rate)
           n == Len(b.positions)
           m == Len(b.heap)
<1>1. /\ b.positions \in Seq(NFTPosition) /\ n \in Nat /\ b.heap \in Seq(Nat)
      /\ b.pending \in Int /\ b.invested \in Int /\ c.pending \in Int /\ c.invested \in Int
  BY ExactIsTyped
<1>2. k \in Nat /\ m \in Nat /\ tvlCap + k \in Nat
  BY <1>1, LimitNat, LenProperties
<1>3. /\ Len(c.positions) = n
      /\ \A j \in 1 .. n : c.positions[j] = IF j = i THEN q ELSE b.positions[j]
  BY <1>1, ExceptSeq
<1>4. \A j \in 1 .. n : c.positions[j].maturityTime <= MaxTime /\ YieldRate(c.positions[j]) <= rate
  BY <1>3 DEF InRoom
<1> DEFINE mk == m * k
           nk == n * k
           nt == n * (tvlCap + k)
<1>5. mk \in Nat /\ nk \in Nat /\ nt \in Nat
  BY <1>1, <1>2, ProductsNat
<1>6. b.rateSum <= n * rate /\ b.pending + mk <= nk
  BY DEF InRoom
<1> HIDE DEF k, n, m, mk, nk, nt
<1>7. c.pending + mk <= nk
  BY <1>1, <1>5, <1>6
<1>8. (nt - (c.invested + c.pending + mk)) - (nt - (b.invested + b.pending + mk))
        = (b.pending - c.pending) + (b.invested - c.invested)
  <2>1. PICK u \in Int, v \in Int, x \in Int, y \in Int :
               u = b.pending /\ v = c.pending /\ x = b.invested /\ y = c.invested
    BY <1>1
  <2>2. (nt - (y + v + mk)) - (nt - (x + u + mk)) = (u - v) + (x - y)
    BY <1>5
  <2> QED BY <2>1, <2>2
<1>9. InRoom(c, rate)
  BY <1>3, <1>4, <1>6, <1>7 DEF InRoom, k, n, m, mk, nk
<1> QED BY <1>3, <1>8, <1>9 DEF PaidBack, k, n, m, mk, nt


\* A call that stores a book with as much paid back as the HOLLAR it has brought stays
\* in the room.
LEMMA StoredInRoom ==
  ASSUME NEW rate \in Nat, VaultInv, RoomInv(rate), NEW c, ExactBook(c), InRoom(c, rate),
         Book' = c, now' = now, hollar' \in Int,
         hollar' - hollar <= PaidBack(c, rate) - PaidBack(Book, rate)
  PROVE  RoomInv(rate)'
<1>1. hollar \in Int /\ hollar <= PaidBack(Book, rate)
  BY VaultNumbers DEF RoomInv
<1>2. PaidBack(c, rate) \in Int /\ PaidBack(Book, rate) \in Int
  BY PaidBackInt DEF VaultInv
<1>3. hollar' <= PaidBack(c, rate)
  BY <1>1, <1>2
<1>4. InRoom(Book, rate)'
  BY DEF InRoom
<1>5. PaidBack(Book, rate)' = PaidBack(c, rate)
  BY DEF PaidBack
<1>6. now' <= MaxTime
  BY DEF RoomInv
<1> QED BY <1>3, <1>4, <1>5, <1>6 DEF RoomInv

LEMMA SameBookInRoom ==
  ASSUME NEW rate \in Nat, VaultInv, RoomInv(rate), Book' = Book, now' = now,
         hollar' \in Int, hollar' <= hollar
  PROVE  RoomInv(rate)'
<1>1. ExactBook(Book) /\ InRoom(Book, rate) /\ hollar \in Int /\ PaidBack(Book, rate) \in Int
  BY VaultNumbers, PaidBackInt DEF VaultInv, RoomInv
<1>2. hollar' - hollar <= PaidBack(Book, rate) - PaidBack(Book, rate)
  BY <1>1
<1> QED BY <1>1, <1>2, StoredInRoom

LEMMA DepositInRoom ==
  ASSUME NEW rate \in Nat, RoomFor(rate), VaultInv, RoomInv(rate),
         NEW n \in 1 .. tvlCap, VaultDeposit(n) \/ VaultMint(n)
  PROVE  RoomInv(rate)'
<1>1. /\ IInv /\ ExactBook(Book) /\ Proved!IInv /\ InRoom(Book, rate)
      /\ hollar \in Nat /\ now \in Nat
  BY VaultNumbers DEF VaultInv, RoomInv
<1>2. Ledger!totalAssets \in Nat /\ tvlCap \in Nat
  <2>1. totalReservedHollar \in Nat
    BY <1>1, Proved!CountersNat, BILVaultAssumption DEF Proved!IInv
  <2> QED BY <2>1, VaultNumbers DEF Ledger!totalAssets
<1>3. PICK a \in Nat \ {0} : Ledger!validateDeposit(a) /\ Deposit(a) /\ hollar' = hollar
  <2>1. n \in Nat \ {0} /\ Ledger!previewMint(n) \in Nat
    <3>1. n \in Nat \ {0} /\ Proved!previewMint(n) \in Nat
      BY <1>1, VaultNumbers, Proved!PreviewsNat, BILVaultAssumption
    <3>2. Ledger!previewMint(n) = Proved!previewMint(n)
      BY SameViews DEF Ledger!previewMint, Proved!previewMint
    <3> QED BY <3>1, <3>2
  <2>2. CASE VaultDeposit(n)
    BY <2>1, <2>2 DEF VaultDeposit, MintShares
  <2>3. CASE VaultMint(n)
    <3>1. Ledger!previewMint(n) # 0
      BY <2>3 DEF VaultMint, Ledger!validateDeposit
    <3> QED BY <2>1, <2>3, <3>1 DEF VaultMint, MintShares
  <2> QED BY <2>2, <2>3
<1>4. a <= tvlCap
  <2>1. Ledger!totalAssets + a <= tvlCap
    BY <1>3 DEF Ledger!validateDeposit
  <2> QED BY <1>2, <2>1
<1> DEFINE c == Opened(Book, a)
<1>5. /\ Store(c) /\ now' = now /\ Len(Book.positions) < MaxPositions
      /\ now + periodOf[activeDepositPool] <= MaxTime /\ activeDepositPool \in Pools
  BY <1>1, <1>3 DEF Deposit, CanOpen, Book, IInv
<1>6. /\ ExactBook(c) /\ InRoom(c, rate)
      /\ PaidBack(c, rate) >= PaidBack(Book, rate)
  BY <1>1, <1>4, <1>5, OpenExact, OpenInRoom
<1>7. Book' = c
  BY <1>5, <1>6, ExactIsTyped, StoreStores
<1> HIDE DEF c
<1>8. hollar' - hollar <= PaidBack(c, rate) - PaidBack(Book, rate)
  <2>1. PaidBack(c, rate) \in Int /\ PaidBack(Book, rate) \in Int
    BY <1>1, <1>6, PaidBackInt
  <2> QED BY <1>1, <1>3, <1>6, <2>1
<1> QED BY <1>1, <1>3, <1>5, <1>6, <1>7, <1>8, StoredInRoom

LEMMA UserInRoom ==
  ASSUME NEW rate \in Nat, RoomFor(rate), VaultInv, RoomInv(rate), UserStep
  PROVE  RoomInv(rate)'
<1>1. hollar \in Nat /\ Proved!IInv
  BY VaultNumbers DEF VaultInv
<1>2. ASSUME UNCHANGED vars, hollar' \in Nat, hollar' <= hollar PROVE RoomInv(rate)'
  <2>1. Book' = Book /\ now' = now
    BY <1>2 DEF vars, bookVars, Book
  <2> QED BY <1>2, <2>1, SameBookInRoom
<1>3. CASE \E n \in 1 .. tvlCap : VaultDeposit(n) \/ VaultMint(n)
  BY <1>3, DepositInRoom
<1>4. ASSUME NEW c \in Controllers, NEW n \in 1 .. circulating, VaultRequestRedeem(c, n)
      PROVE  RoomInv(rate)'
  <2>1. UNCHANGED vars /\ hollar' = hollar
    BY <1>4 DEF VaultRequestRedeem, Ledger!RequestRedeem, Ledger!hollarVars
  <2> QED BY <1>1, <1>2, <2>1
<1>5. ASSUME NEW id \in Ledger!RequestIds, VaultCancelRedeem(id)
      PROVE  RoomInv(rate)'
  <2>1. UNCHANGED vars /\ hollar' = hollar
    BY <1>5 DEF VaultCancelRedeem, Ledger!CancelRedeem, Ledger!hollarVars
  <2> QED BY <1>1, <1>2, <2>1
<1>6. ASSUME NEW c \in Controllers, NEW n \in Nat \ {0}, VaultRedeem(c, n) \/ VaultWithdraw(c, n)
      PROVE  RoomInv(rate)'
  <2>1. UNCHANGED vars /\ (Proved!Redeem(c, n) \/ Proved!Withdraw(c, n))
    BY <1>6, SameClaims DEF VaultRedeem, VaultWithdraw
  <2>2. Proved!IInv' /\ hollar' <= hollar
    BY <1>1, <2>1, Proved!ClaimsKeepIInv, Proved!ClaimsPayOut, BILVaultAssumption
  <2>3. hollar' \in Nat
    BY <2>2 DEF Proved!IInv, Proved!MoneyInv
  <2> QED BY <1>2, <2>1, <2>2, <2>3
<1>7. \A n \in 1 .. totalSettledBil : n \in Nat \ {0}
  BY <1>1, Proved!CountersNat, BILVaultAssumption DEF Proved!IInv
<1>8. \A n \in 1 .. totalReservedHollar : n \in Nat \ {0}
  BY <1>1, Proved!CountersNat, BILVaultAssumption DEF Proved!IInv
<1> QED BY <1>3, <1>4, <1>5, <1>6, <1>7, <1>8 DEF UserStep

LEMMA PokeQueueInRoom ==
  ASSUME NEW rate \in Nat, RoomFor(rate), VaultInv, RoomInv(rate), VaultPokeQueue
  PROVE  RoomInv(rate)'
<1> DEFINE b == Synced(MAX_MATURITY_SYNC)
<1>1. /\ ExactBook(Book) /\ InRoom(Book, rate) /\ now \in Nat /\ activeDepositPool \in Pools
      /\ idleHollar \in Nat /\ hollar \in Nat /\ totalInvestedPrincipal \in Nat
      /\ tvlCap \in Nat /\ MAX_MATURITY_SYNC \in Nat
  BY VaultNumbers DEF VaultInv, RoomInv, IInv
<1>2. PICK a \in Nat : a <= tvlCap /\ PokeQueue(a) /\ hollar' = hollar - a
  <2> DEFINE w == Ledger!Settlement(idleHollar, RateWith(b, idleHollar))
             reinvested == Ledger!ReinvestAmount(w.used)
  <2>1. reinvested \in Nat /\ reinvested <= tvlCap
    BY <1>1 DEF Ledger!ReinvestAmount, Ledger!Lesser
  <2>2. PICK accepted \in BOOLEAN :
          LET amount == IF accepted THEN reinvested ELSE 0
          IN  PokeQueue(amount) /\ hollar' = hollar - amount
    BY DEF VaultPokeQueue
  <2> HIDE DEF reinvested
  <2>3. CASE accepted
    BY <2>1, <2>2, <2>3
  <2>4. CASE ~accepted
    <3>1. 0 \in Nat /\ 0 <= tvlCap
      BY <1>1
    <3> QED BY <2>2, <2>4, <3>1
  <2> QED BY <2>3, <2>4
<1>3. /\ ExactBook(b) /\ InRoom(b, rate) /\ PaidBack(b, rate) >= PaidBack(Book, rate)
      /\ Len(b.positions) = Len(positions)
  BY <1>1, SyncExact, SyncInRoom, SyncKeepsPrincipal
<1>4. now' = now /\ hollar' \in Int
  BY <1>1, <1>2 DEF PokeQueue
<1>5. ASSUME NEW c, ExactBook(c), InRoom(c, rate), PaidBack(c, rate) >= PaidBack(b, rate), Store(c)
      PROVE  RoomInv(rate)'
  <2>1. Book' = c
    BY <1>5, ExactIsTyped, StoreStores
  <2>2. /\ PaidBack(c, rate) \in Int /\ PaidBack(b, rate) \in Int /\ PaidBack(Book, rate) \in Int
    BY <1>1, <1>3, <1>5, PaidBackInt
  <2> HIDE DEF b
  <2>3. hollar' - hollar <= PaidBack(c, rate) - PaidBack(Book, rate)
    BY <1>1, <1>2, <1>3, <1>5, <2>2
  <2> QED BY <1>4, <1>5, <2>1, <2>3, StoredInRoom
<1>6. CASE a = 0
  <2>1. Store(b)
    BY <1>2, <1>6 DEF PokeQueue
  <2>2. PaidBack(b, rate) >= PaidBack(b, rate)
    <3>1. PaidBack(b, rate) \in Int
      BY <1>3, PaidBackInt
    <3> HIDE DEF b
    <3> QED BY <3>1
  <2> QED BY <1>3, <1>5, <2>1, <2>2
<1>7. CASE a # 0
  <2>1. /\ Store(Opened(b, a)) /\ Len(positions) < MaxPositions
        /\ now + periodOf[activeDepositPool] <= MaxTime
    BY <1>2, <1>7 DEF PokeQueue, CanOpen
  <2> HIDE DEF b
  <2>2. /\ ExactBook(Opened(b, a)) /\ InRoom(Opened(b, a), rate)
        /\ PaidBack(Opened(b, a), rate) >= PaidBack(b, rate)
    BY <1>1, <1>2, <1>3, <2>1, OpenExact, OpenInRoom
  <2> QED BY <1>5, <2>1, <2>2
<1> QED BY <1>6, <1>7

LEMMA SyncStaysInRoom ==
  ASSUME NEW rate \in Nat, VaultInv, RoomInv(rate), NEW n \in 1 .. MaxPositions,
         VaultSyncMaturities(n)
  PROVE  RoomInv(rate)'
<1> DEFINE b == Synced(n)
<1>1. /\ ExactBook(Book) /\ InRoom(Book, rate) /\ hollar \in Nat /\ n \in Nat
  BY VaultNumbers, PositionBookAssumption DEF VaultInv, RoomInv
<1>2. Store(b) /\ now' = now /\ hollar' = hollar
  BY DEF VaultSyncMaturities, SyncMaturities, tokenVars
<1>3. ExactBook(b) /\ InRoom(b, rate) /\ PaidBack(b, rate) >= PaidBack(Book, rate)
  BY <1>1, SyncExact, SyncInRoom
<1>4. Book' = b
  BY <1>2, <1>3, ExactIsTyped, StoreStores
<1> HIDE DEF b
<1>5. hollar' - hollar <= PaidBack(b, rate) - PaidBack(Book, rate)
  <2>1. PaidBack(b, rate) \in Int /\ PaidBack(Book, rate) \in Int
    BY <1>1, <1>3, PaidBackInt
  <2> QED BY <1>1, <1>2, <1>3, <2>1
<1> QED BY <1>1, <1>2, <1>3, <1>4, <1>5, StoredInRoom


LEMMA PokeDecentralInRoom ==
  ASSUME NEW rate \in Nat, VaultInv, RoomInv(rate), NEW i \in 1 .. MaxPositions,
         NEW accepts \in BOOLEAN, NEW serves \in BOOLEAN,
         VaultPokeDecentral(i, accepts, serves)
  PROVE  RoomInv(rate)'
<1> DEFINE b == Synced(MAX_MATURITY_SYNC)
           p == b.positions[i]
           pays == serves /\ i \in payable
           q == Poked(p, accepts, pays)
           c == [b EXCEPT !.positions = [b.positions EXCEPT ![i] = q],
                          !.pending   = b.pending - (p.pendingYield - q.pendingYield),
                          !.invested  = IF q.state = "Redeemed"
                                        THEN b.invested - p.principal ELSE b.invested]
<1>1. /\ IInv /\ ExactBook(Book) /\ Funded /\ InRoom(Book, rate)
      /\ now \in Nat /\ MAX_MATURITY_SYNC \in Nat /\ hollar \in Nat
      /\ totalInvestedPrincipal \in Nat
  BY VaultNumbers DEF VaultInv, RoomInv
<1>2. /\ ExactBook(b) /\ KeepsPrincipal(b) /\ Len(b.positions) = Len(positions)
      /\ InRoom(b, rate) /\ PaidBack(b, rate) >= PaidBack(Book, rate)
  BY <1>1, SyncExact, SyncKeepsPrincipal, SyncInRoom
<1>3. PokeDecentral(i, accepts, serves) /\ Store(c) /\ now' = now
  BY DEF VaultPokeDecentral, PokeDecentral
<1>4. i \in 1 .. Len(b.positions) /\ p.state # "Redeemed"
  <2>1. Agree(positions, b.positions)
    BY <1>1, SyncReachable
  <2> QED BY <1>3, <2>1 DEF PokeDecentral, Agree
<1> DEFINE yield == b.pending - totalPendingYield'
           principal == totalInvestedPrincipal - totalInvestedPrincipal'
<1>5. yield \in Nat /\ principal \in Nat /\ hollar' = hollar + yield + principal
  BY <1>1, <1>3, PokeMoves DEF VaultPokeDecentral
<1> HIDE DEF b
<1>6. /\ b \in Books /\ p \in NFTPosition /\ YieldInOrder(p) /\ pays \in BOOLEAN
      /\ b.pending \in Int /\ b.invested \in Int
  BY <1>2, <1>4, ExactIsTyped DEF ExactBook
<1>7. /\ q \in NFTPosition /\ q.maturityTime = p.maturityTime /\ YieldRate(q) = YieldRate(p)
  <2> HIDE DEF pays, p
  <2> QED BY <1>4, <1>6, PokeExact
<1>8. ExactBook(c)
  <2> HIDE DEF pays
  <2> QED BY <1>2, <1>4, <1>6, PokedExact, ZenonT(60)
<1> HIDE DEF pays, q, p
<1>9. /\ c.heap = b.heap /\ c.rateSum = b.rateSum
      /\ c.positions = [b.positions EXCEPT ![i] = q]
  BY <1>6 DEF Books
<1> HIDE DEF c
<1>10. Book' = c /\ totalPendingYield' = c.pending /\ totalInvestedPrincipal' = c.invested
  BY <1>3, <1>8, ExactIsTyped, StoreStores DEF Store
<1>11. c.pending \in Int /\ c.invested \in Int /\ b.invested = totalInvestedPrincipal
  BY <1>2, <1>8, ExactIsTyped DEF KeepsPrincipal
<1>12. yield = b.pending - c.pending /\ principal = b.invested - c.invested
  BY <1>10, <1>11
<1> HIDE DEF yield, principal
<1>13. c.pending <= b.pending /\ c.invested <= b.invested
  BY <1>5, <1>6, <1>11, <1>12
<1>14. InRoom(c, rate) /\ PaidBack(c, rate) - PaidBack(b, rate) = yield + principal
  BY <1>2, <1>4, <1>7, <1>8, <1>9, <1>12, <1>13, PokedInRoom DEF p
<1>15. hollar' \in Int /\ hollar' - hollar <= PaidBack(c, rate) - PaidBack(Book, rate)
  <2>1. /\ PaidBack(c, rate) \in Int /\ PaidBack(b, rate) \in Int /\ PaidBack(Book, rate) \in Int
    BY <1>1, <1>2, <1>8, PaidBackInt
  <2> QED BY <1>1, <1>2, <1>5, <1>14, <2>1
<1> QED BY <1>3, <1>8, <1>10, <1>14, <1>15, StoredInRoom

LEMMA VenueInRoom ==
  ASSUME NEW rate \in Nat, VaultInv, RoomInv(rate), VenueStep
  PROVE  RoomInv(rate)'
<1>1. ASSUME NEW i \in 1 .. MaxPositions, VenueRelease(i) PROVE RoomInv(rate)'
  <2>1. Book' = Book /\ now' = now /\ hollar' = hollar
    BY <1>1 DEF VenueRelease, Release, bookVars, tokenVars, Book
  <2>2. hollar \in Nat
    BY VaultNumbers
  <2> QED BY <2>1, <2>2, SameBookInRoom
<1>2. CASE VaultTick
  <2>1. Book' = Book /\ now' = now + 1 /\ now < MaxTime /\ hollar' = hollar
    BY <1>2 DEF VaultTick, Tick, bookVars, tokenVars, Book
  <2>2. now' <= MaxTime
    BY <2>1, VaultNumbers, PositionBookAssumption
  <2>3. InRoom(Book, rate)' /\ PaidBack(Book, rate)' = PaidBack(Book, rate)
    BY <2>1 DEF RoomInv, InRoom, PaidBack
  <2> QED BY <2>1, <2>2, <2>3 DEF RoomInv
<1> QED BY <1>1, <1>2 DEF VenueStep

LEMMA RoomNext ==
  ASSUME NEW rate \in Nat, RoomFor(rate), VaultInv, RoomInv(rate), [VaultNext]_vaultVars
  PROVE  RoomInv(rate)'
<1>1. CASE UserStep
  BY <1>1, UserInRoom
<1>2. CASE KeeperStep
  BY <1>2, PokeQueueInRoom, PokeDecentralInRoom, SyncStaysInRoom DEF KeeperStep
<1>3. CASE VenueStep
  BY <1>3, VenueInRoom
<1>4. CASE UNCHANGED vaultVars
  <2>1. Book' = Book /\ now' = now /\ hollar' = hollar
    BY <1>4 DEF vaultVars, vars, bookVars, tokenVars, Book
  <2>2. hollar \in Nat
    BY VaultNumbers
  <2> QED BY <2>1, <2>2, SameBookInRoom
<1> QED BY <1>1, <1>2, <1>3, <1>4 DEF VaultNext

\* Before the first deposit nothing has been paid back.
LEMMA RoomInit ==
  ASSUME NEW rate \in Nat, VaultInit
  PROVE  RoomInv(rate)
<1>1. /\ positions = <<>> /\ heap = <<>> /\ yieldRateSum = 0 /\ totalPendingYield = 0
      /\ totalInvestedPrincipal = 0 /\ now = 0 /\ hollar = 0
  BY DEF VaultInit, Init, Ledger!Init
<1>2. Len(positions) = 0 /\ Len(heap) = 0
  BY <1>1, EmptySeq
<1>3. 0 * rate = 0 /\ 0 * YieldLimit(rate) = 0 /\ 0 * (tvlCap + YieldLimit(rate)) = 0
  BY LimitNat
<1>4. InRoom(Book, rate)
  BY <1>1, <1>2, <1>3 DEF InRoom, Book
<1>5. PaidBack(Book, rate) = 0
  BY <1>1, <1>2, <1>3 DEF PaidBack, Book
<1> QED BY <1>1, <1>4, <1>5, PositionBookAssumption DEF RoomInv

\* Only the tick moves the clock.
LEMMA ClockTicks ==
  ASSUME VaultNext, now' # now
  PROVE  Tick
<1>1. ASSUME UserStep PROVE now' = now
  BY <1>1 DEF UserStep, VaultDeposit, VaultMint, Deposit, VaultRequestRedeem,
     VaultCancelRedeem, VaultRedeem, VaultWithdraw, vars
<1>2. ASSUME KeeperStep PROVE now' = now
  BY <1>2 DEF KeeperStep, VaultPokeQueue, PokeQueue, VaultPokeDecentral, PokeDecentral,
     VaultSyncMaturities, SyncMaturities
<1>3. ASSUME VenueStep PROVE Tick \/ now' = now
  BY <1>3 DEF VenueStep, VaultTick, VenueRelease, Release
<1> QED BY <1>1, <1>2, <1>3 DEF VaultNext

\* With room for all there can be, no step moves the yield out of bounds.
LEMMA StepInBounds ==
  ASSUME NEW rate \in Nat, RoomFor(rate), VaultInv, RoomInv(rate), VaultNext
  PROVE  YieldInBounds
<1> DEFINE k == MaxPositions * YieldLimit(rate)
<1>1. /\ ExactBook(Book) /\ Funded /\ InRoom(Book, rate) /\ Proved!IInv
      /\ now \in Nat /\ now <= MaxTime /\ YieldValue(Book) \in Nat
      /\ totalInvestedPrincipal \in Nat /\ idleHollar \in Nat /\ hollar \in Nat
      /\ MAX_MATURITY_SYNC \in Nat
  BY VaultNumbers DEF VaultInv, RoomInv
<1>2. /\ k \in Nat /\ MaxPositions \in Nat /\ MaxTime \in Nat
      /\ SyncCatchUp \in Nat /\ MaxAccrual \in Nat /\ SyncDust \in Nat /\ MaxAssets \in Nat
  BY LimitNat, ProductsNat, PositionBookAssumption, BILVaultAssumption
<1>3. MaxPositions <= SyncDust /\ 2 * k <= SyncCatchUp /\ 2 * k <= MaxAccrual
      /\ MaxPositions * (tvlCap + YieldLimit(rate)) + k < MaxAssets
  BY DEF RoomFor
<1>4. /\ AccruedYield(Book) \in Nat /\ AccruedYield(Book) <= k
      /\ totalPendingYield \in Nat /\ totalPendingYield <= k
  BY <1>1, YieldFits DEF Book
<1>5. Ledger!totalAssets < MaxAssets
  <2> DEFINE n == Len(positions)
             m == Len(heap)
             l == YieldLimit(rate)
             t == tvlCap + l
             nt == n * t
             mt == MaxPositions * t
             ml == m * l
  <2>1. /\ n \in Nat /\ n <= MaxPositions /\ m \in Nat /\ l \in Nat /\ t \in Nat
    <3>1. positions \in Seq(NFTPosition) /\ heap \in Seq(Nat)
      BY <1>1, ExactIsTyped DEF Book
    <3>2. Len(positions) \in Nat /\ Len(heap) \in Nat
      BY <3>1, LenProperties
    <3>3. Len(positions) <= MaxPositions
      BY <1>1 DEF ExactBook, Book
    <3>4. YieldLimit(rate) \in Nat /\ tvlCap + YieldLimit(rate) \in Nat
      BY LimitNat, BILVaultAssumption
    <3> QED BY <3>2, <3>3, <3>4
  <2>2. nt \in Nat /\ mt \in Nat /\ nt <= mt /\ ml \in Nat
    BY <1>2, <2>1, ProductsNat
  <2>3. hollar <= nt - (totalInvestedPrincipal + totalPendingYield + ml)
    BY DEF RoomInv, PaidBack, Book
  <2>4. mt + k < MaxAssets
    BY <1>3
  <2> HIDE DEF n, m, l, t, nt, mt, ml
  <2>5. totalReservedHollar \in Nat /\ idleHollar + totalReservedHollar <= hollar
    BY <1>1, Proved!CountersNat, BILVaultAssumption
       DEF Proved!IInv, Proved!MoneyInv, Proved!HollarBacked
  <2>6. YieldValue(Book) = AccruedYield(Book) + totalPendingYield
    BY DEF YieldValue, Book
  <2> HIDE DEF k
  <2>7. totalInvestedPrincipal + YieldValue(Book) + idleHollar + totalReservedHollar
          <= mt + k
    BY <1>1, <1>2, <1>4, <2>2, <2>3, <2>5, <2>6
  <2> QED BY <1>1, <1>2, <2>2, <2>4, <2>5, <2>7 DEF Ledger!totalAssets
<1>6. ASSUME NEW n \in (1 .. MaxPositions) \cup {MAX_MATURITY_SYNC}
      PROVE  YieldValue(Synced(n)) <= YieldValue(Book) + SyncCatchUp
  <2> DEFINE b == Synced(n)
  <2>1. n \in Nat
    BY <1>1, <1>2
  <2>2. ExactBook(b) /\ InRoom(b, rate)
    BY <1>1, <2>1, SyncExact, SyncInRoom
  <2> HIDE DEF b
  <2>3. /\ AccruedYield(b) \in Nat /\ AccruedYield(b) <= k
        /\ b.pending \in Nat /\ b.pending <= k
    BY <1>1, <2>2, YieldFits
  <2> HIDE DEF k
  <2>4. YieldValue(b) <= 2 * k /\ YieldValue(b) \in Nat
    BY <1>2, <2>3 DEF YieldValue
  <2>5. YieldValue(b) <= YieldValue(Book) + SyncCatchUp
    BY <1>1, <1>2, <1>3, <2>4
  <2> QED BY <2>5 DEF b
<1>7. ASSUME now' # now PROVE YieldValue(Book)' <= YieldValue(Book) + MaxAccrual
  <2>1. Tick /\ now' = now + 1 /\ now < MaxTime
    BY <1>7, ClockTicks DEF Tick
  <2>2. PICK t \in Int : /\ t <= now'
                         /\ YieldValue(Book)' = Running(t * yieldRateSum - yieldOffsetSum)
                                                 + totalPendingYield
    BY <1>1, <2>1, TickAccrues
  <2>3. t <= MaxTime
    BY <1>1, <1>2, <2>1, <2>2
  <2>4. /\ Len(positions) \in Nat /\ Len(positions) <= MaxPositions
        /\ yieldRateSum \in Nat /\ yieldOffsetSum \in Nat
        /\ yieldRateSum <= Len(positions) * rate
    <3>1. positions \in Seq(NFTPosition)
      BY <1>1, ExactIsTyped DEF Book
    <3> QED BY <1>1, <3>1, ExactIsTyped, TermsAreNat, TotalNat
            DEF ExactBook, SumsMatch, Book, InRoom
  <2>5. /\ Running(t * yieldRateSum - yieldOffsetSum) <= k
        /\ Running(t * yieldRateSum - yieldOffsetSum) \in Nat
    BY <2>3, <2>4, RunningFits, RunningNat
  <2> HIDE DEF k
  <2>6. YieldValue(Book)' <= 2 * k /\ YieldValue(Book)' \in Nat
    BY <1>2, <1>4, <2>2, <2>5
  <2> QED BY <1>1, <1>2, <1>3, <2>6
<1> QED BY <1>2, <1>3, <1>5, <1>6, <1>7 DEF YieldInBounds

-----------------------------------------------------------------------------
(* The vault implements the ledger.                                        *)

\* As long as the yield stays in bounds, whatever the bounds.
LEMMA VaultStaysSound ==
  VaultSpec /\ [][YieldInBounds]_vaultVars => []VaultInv /\ [][Ledger!Next]_(Ledger!vars)
<1>1. VaultInv /\ [VaultNext]_vaultVars /\ [YieldInBounds]_vaultVars
      => VaultInv' /\ [Ledger!Next]_(Ledger!vars)
  <2>1. [VaultNext]_vaultVars /\ [YieldInBounds]_vaultVars
        => [VaultNext /\ YieldInBounds]_vaultVars
    OBVIOUS
  <2> QED BY <2>1, StepRefines DEF Refines
<1> QED BY <1>1, VaultInitInv, PTL DEF VaultSpec

\* And in bounds with room for all there can be it stays.
LEMMA YieldStaysInBounds ==
  ASSUME NEW rate \in Nat, RoomFor(rate)
  PROVE  VaultSpec => [][YieldInBounds]_vaultVars
<1> DEFINE I == VaultInv /\ RoomInv(rate)
<1>1. VaultInit => I
  BY VaultInitInv, RoomInit
<1>2. I /\ [VaultNext]_vaultVars => I' /\ [YieldInBounds]_vaultVars
  <2> SUFFICES ASSUME VaultInv, RoomInv(rate), [VaultNext]_vaultVars
               PROVE  I' /\ [YieldInBounds]_vaultVars
    OBVIOUS
  <2>1. [VaultNext /\ YieldInBounds]_vaultVars
    BY StepInBounds
  <2>2. VaultInv'
    BY <2>1, StepRefines DEF Refines
  <2>3. RoomInv(rate)'
    BY RoomNext
  <2> QED BY <2>1, <2>2, <2>3
<1> QED BY <1>1, <1>2, PTL DEF VaultSpec

LEMMA VaultStaysInRoom ==
  ASSUME NEW rate \in Nat, RoomFor(rate)
  PROVE  VaultSpec => []VaultInv /\ [][Ledger!Next]_(Ledger!vars)
BY VaultStaysSound, YieldStaysInBounds, PTL

\* The vault whole does to shares, HOLLAR and the queue only what the ledger allows,
\* for any pools, rates, periods, users, amounts and budgets: the yield its prices are
\* made of, which the book computes from positions and time, moves as the ledger says.
\* Of the ledger, which does not know what earns, it asks only bounds large enough.
THEOREM VaultImplementsLedger ==
  ASSUME NEW rate \in Nat, RoomFor(rate)
  PROVE  VaultSpec => ImplementsLedger
<1>1. VaultInit => Ledger!Init
  BY DEF VaultInit
<1> QED BY <1>1, VaultStaysInRoom, PTL DEF VaultSpec, ImplementsLedger

LEMMA VaultIsProvedOf ==
  ASSUME NEW rate \in Nat, RoomFor(rate)
  PROVE  VaultSpec => Proved!Spec
<1>1. [Ledger!Next]_(Ledger!vars) => [Proved!Next]_(Proved!vars)
  BY SameLedger
<1>2. VaultInit => Proved!Init
  BY SameLedger DEF VaultInit
<1> QED BY <1>1, <1>2, VaultStaysInRoom, PTL DEF VaultSpec, Proved!Spec

\* What the ledger promises and is proved to keep: the counters are the sums over the
\* requests, escrow and HOLLAR cover them, nothing that waits is left behind the head,
\* and active shares keep a denominator.
VaultPromises ==
  /\ Ledger!CountersMatchEntries /\ Ledger!EscrowBacked /\ Ledger!HollarBacked
  /\ Ledger!RequestsConsistent /\ Ledger!HeadPrefixDone /\ Ledger!ActiveSupplyKept

\* The vault keeps the ledger's promises: no call on positions, no maturity and no
\* payment by Decentral leaves a counter, the escrow or the reserve without its cover.
THEOREM VaultKeepsLedgerPromises ==
  ASSUME NEW rate \in Nat, RoomFor(rate)
  PROVE  VaultSpec => []VaultPromises
<1>1. (Ledger!CountersMatchEntries <=> Proved!CountersMatchEntries)
  BY DEF Ledger!Fold, Proved!Fold, Ledger!SumTo, Proved!SumTo, Ledger!RequestIds,
     Proved!RequestIds, Ledger!SumQueued, Proved!SumQueued, Ledger!SumSettled,
     Proved!SumSettled, Ledger!SumOwed, Proved!SumOwed, Ledger!CountersMatchEntries,
     Proved!CountersMatchEntries
<1>2. /\ Ledger!EscrowBacked <=> Proved!EscrowBacked
      /\ Ledger!HollarBacked <=> Proved!HollarBacked
      /\ Ledger!ActiveSupplyKept <=> Proved!ActiveSupplyKept
  BY DEF Ledger!EscrowBacked, Proved!EscrowBacked, Ledger!HollarBacked,
     Proved!HollarBacked, Ledger!totalSupply, Proved!totalSupply, Ledger!activeSupply,
     Proved!activeSupply, Ledger!ActiveSupplyKept, Proved!ActiveSupplyKept
<1>3. /\ Ledger!RequestsConsistent <=> Proved!RequestsConsistent
      /\ Ledger!HeadPrefixDone <=> Proved!HeadPrefixDone
  BY DEF Ledger!RequestIds, Proved!RequestIds, Ledger!Hole, Proved!Hole,
     Ledger!RequestSound, Proved!RequestSound, Ledger!RequestsConsistent,
     Proved!RequestsConsistent, Ledger!Pending, Proved!Pending, Ledger!HeadPrefixDone,
     Proved!HeadPrefixDone
<1>4. VaultInv => VaultPromises
  <2> SUFFICES ASSUME VaultInv PROVE VaultPromises
    OBVIOUS
  <2>1. Proved!IInv
    BY DEF VaultInv
  <2>2. Proved!ActiveSupplyKept
    BY <2>1, Proved!IInvImplies, BILVaultAssumption
  <2> QED BY <1>1, <1>2, <1>3, <2>1, <2>2
       DEF VaultPromises, Proved!IInv, Proved!QueueInv, Proved!MoneyInv
<1> QED BY <1>4, VaultStaysInRoom, PTL

\* No call lowers the value of an active share but for what Decentral does in it.  A
\* pokeDecentral counts as well: what it collects is all that changes hands, whether the
\* position is closed by it or not, and the settlement that follows takes nothing from
\* the shares that stay.  The yield of a call is the book's as the call leaves it.
THEOREM VaultCallsKeepRate ==
  ASSUME NEW rate \in Nat, RoomFor(rate)
  PROVE  VaultSpec => Ledger!CallsNeverLowerRate
<1>1. Proved!Spec => Proved!CallsNeverLowerRate
  BY Proved!CallsKeepRate, BILVaultAssumption
<1>2. [LET gain == IF Proved!VenueStep THEN Proved!Holdings' - Proved!Holdings
                   ELSE YieldValue(Book)' - YieldValue(Book)
       IN  Proved!activeAssets' * Proved!activeSupply
             >= (Proved!activeAssets + gain) * Proved!activeSupply']_(Proved!vars)
      => [LET gain == IF Ledger!VenueStep THEN Ledger!Holdings' - Ledger!Holdings
                      ELSE YieldValue(Book)' - YieldValue(Book)
          IN  Ledger!activeAssets' * Ledger!activeSupply
                >= (Ledger!activeAssets + gain) * Ledger!activeSupply']_(Ledger!vars)
  <2>1. Ledger!VenueStep <=> Proved!VenueStep
    BY SameVenueStep
  <2>2. /\ Ledger!activeAssets = Proved!activeAssets /\ Ledger!activeSupply = Proved!activeSupply
        /\ Ledger!activeAssets' = Proved!activeAssets'
        /\ Ledger!activeSupply' = Proved!activeSupply'
    BY DEF Ledger!totalAssets, Proved!totalAssets, Ledger!activeAssets,
       Proved!activeAssets, Ledger!totalSupply, Proved!totalSupply, Ledger!activeSupply,
       Proved!activeSupply
  <2>3. Ledger!Holdings = Proved!Holdings /\ Ledger!Holdings' = Proved!Holdings'
    BY DEF Ledger!Holdings, Proved!Holdings
  <2> QED BY <2>1, <2>2, <2>3, SameLedger
<1> QED BY <1>1, <1>2, VaultIsProvedOf, PTL
        DEF Ledger!CallsNeverLowerRate, Proved!CallsNeverLowerRate

\* No request is settled while an earlier one waits, also when it is the principal of a
\* matured position that pokeDecentral settles the queue with.
THEOREM VaultSettlesInOrder ==
  ASSUME NEW rate \in Nat, RoomFor(rate)
  PROVE  VaultSpec => Ledger!SettlementIsFifo
<1>1. Proved!Spec => Proved!SettlementIsFifo
  BY Proved!SettlesInOrder, BILVaultAssumption
<1>2. [\A j \in Proved!RequestIds : queue'[j].bilSettled > queue[j].bilSettled =>
         \A i \in Proved!RequestIds : i < j => Proved!Pending(queue'[i]) = 0]_(Proved!vars)
      => [\A j \in Ledger!RequestIds : queue'[j].bilSettled > queue[j].bilSettled =>
            \A i \in Ledger!RequestIds : i < j => Ledger!Pending(queue'[i]) = 0]_(Ledger!vars)
  BY SameLedger DEF Ledger!RequestIds, Proved!RequestIds, Ledger!Pending, Proved!Pending
<1> QED BY <1>1, <1>2, VaultIsProvedOf, PTL
        DEF Ledger!SettlementIsFifo, Proved!SettlementIsFifo

\* What leaves the vault and is not invested is a claim, and pays one controller from
\* what is reserved for that controller's own requests: no payment by Decentral, no
\* reinvestment and no other call of the vault takes from a reserve.
THEOREM VaultClaimsPayOwn ==
  ASSUME NEW rate \in Nat, RoomFor(rate)
  PROVE  VaultSpec => Ledger!ClaimsPayOwnReserve
<1>1. Proved!Spec => Proved!ClaimsPayOwnReserve
  BY Proved!ClaimsPayOwn, BILVaultAssumption
<1>2. Ledger!RequestIds = Proved!RequestIds
  BY DEF Ledger!RequestIds, Proved!RequestIds
<1>3. \A c : Ledger!OwedTo(c) = Proved!OwedTo(c) /\ Ledger!OwedTo(c)' = Proved!OwedTo(c)'
  BY DEF Ledger!Fold, Proved!Fold, Ledger!SumTo, Proved!SumTo, Ledger!RequestIds,
     Proved!RequestIds, Ledger!OwedTo, Proved!OwedTo
<1>4. [LET paid == (hollar - hollar') - (totalInvestedPrincipal' - totalInvestedPrincipal)
         IN  hollar' < hollar /\ paid # 0 =>
               \E c \in Controllers :
                 /\ Proved!OwedTo(c)' = Proved!OwedTo(c) - paid
                 /\ \A i \in Proved!RequestIds : queue[i].user # c => queue'[i] = queue[i]]_(Proved!vars)
      => [LET paid == (hollar - hollar') - (totalInvestedPrincipal' - totalInvestedPrincipal)
            IN  hollar' < hollar /\ paid # 0 =>
                  \E c \in Controllers :
                    /\ Ledger!OwedTo(c)' = Ledger!OwedTo(c) - paid
                    /\ \A i \in Ledger!RequestIds : queue[i].user # c => queue'[i] = queue[i]]_(Ledger!vars)
  BY <1>2, <1>3, SameLedger
<1> QED BY <1>1, <1>4, VaultIsProvedOf, PTL
        DEF Ledger!ClaimsPayOwnReserve, Proved!ClaimsPayOwnReserve

=============================================================================
