------------------------- MODULE VaultLedgerProofs -------------------------
(***************************************************************************)
(* The ledger's safety invariants hold for every number of controllers and *)
(* requests and every value of the parameters.                             *)
(*                                                                         *)
(* The inductive invariant IInv has a queue half (the requests, their      *)
(* order, and the three counters that summarise them) and a money half     *)
(* (balances and what they must cover).  The queue half rests on lemmas    *)
(* about the loops of QueueLib, for any budget, which come first; the      *)
(* money half follows from it by arithmetic.                               *)
(***************************************************************************)
EXTENDS VaultLedger, IterationProofs

-----------------------------------------------------------------------------
(* Integer division, as Solidity does it.                                  *)

\* Integer division rounds down.
LEMMA DivBounds ==
  ASSUME NEW a \in Nat, NEW b \in Nat \ {0}
  PROVE  /\ a \div b \in Nat
         /\ b * (a \div b) <= a
         /\ a < b * (a \div b) + b
OBVIOUS

\* A factor common to both sides of a strict inequality of products cancels.
LEMMA MulCancel ==
  ASSUME NEW a \in Nat, NEW b \in Nat, NEW c \in Nat, c * a < c * b
  PROVE  a < b
<1>1. SUFFICES ASSUME b <= a PROVE FALSE
  OBVIOUS
<1>2. PICK d \in Nat : a = b + d
  <2>1. a - b \in Nat /\ a = b + (a - b) BY <1>1
  <2> QED BY <2>1
<1>3. c * a = c * b + c * d /\ c * d \in Nat /\ c * b \in Nat
  BY <1>2
<1> QED BY <1>3

\* Multiplication by a natural preserves the order.
LEMMA MulMono ==
  ASSUME NEW a \in Nat, NEW b \in Nat, NEW c \in Nat, a <= b
  PROVE  c * a <= c * b /\ a * c <= b * c
<1>1. PICK d \in Nat : b = a + d
  <2>1. b - a \in Nat /\ b = a + (b - a) OBVIOUS
  <2> QED BY <2>1
<1>2. c * b = c * a + c * d /\ c * d \in Nat /\ c * a \in Nat
  BY <1>1
<1>3. a * c = c * a /\ b * c = c * b
  OBVIOUS
<1> QED BY <1>2, <1>3

\* The shares a partial fill locks are no more than are waiting, and the HOLLAR
\* it reserves for them is no more than is available.
LEMMA PartialFill ==
  ASSUME NEW pending \in Nat, NEW rate \in Nat, NEW available \in Nat,
         NEW w \in Nat \ {0},
         available < (pending * rate) \div w
  PROVE  LET part == (available * w) \div rate
         IN  /\ part \in Nat
             /\ part <= pending
             /\ (part * rate) \div w \in Nat
             /\ (part * rate) \div w <= available
<1> DEFINE part    == (available * w) \div rate
           value   == (pending * rate) \div w
           reserve == (part * rate) \div w
<1>1. pending * rate \in Nat /\ available * w \in Nat
  OBVIOUS
<1>2. value \in Nat /\ w * value <= pending * rate
  BY <1>1, DivBounds
<1>3. rate # 0
  <2>1. SUFFICES ASSUME rate = 0 PROVE FALSE OBVIOUS
  <2>2. pending * rate = 0 BY <2>1
  <2>3. value = 0 BY <2>2, <1>2
  <2> QED BY <2>3
<1>4. part \in Nat /\ rate * part <= available * w
  BY <1>1, <1>3, DivBounds
<1>5. part * rate \in Nat /\ part * rate = rate * part
  BY <1>4
<1>6. reserve \in Nat /\ w * reserve <= part * rate
  BY <1>5, DivBounds
<1> HIDE DEF part, value, reserve
<1>7. available * w < pending * rate
  <2>1. w * (available + 1) <= w * value
    BY <1>2, MulMono DEF value
  <2>2. w * (available + 1) = available * w + w
    OBVIOUS
  <2> QED BY <1>1, <1>2, <2>1, <2>2
<1>8. part < pending
  <2>1. pending * rate = rate * pending OBVIOUS
  <2>2. rate * part < rate * pending BY <1>1, <1>4, <1>5, <1>7, <2>1
  <2> QED BY <1>4, <2>2, MulCancel
<1>9. reserve <= available
  <2>1. SUFFICES ASSUME available < reserve PROVE FALSE BY <1>6
  <2>2. w * (available + 1) <= w * reserve
    BY <1>6, <2>1, MulMono
  <2>3. w * (available + 1) = available * w + w
    OBVIOUS
  <2> QED BY <1>1, <1>4, <1>5, <1>6, <2>2, <2>3
<1> QED BY <1>4, <1>6, <1>8, <1>9 DEF part, reserve

\* The pro-rata part of `whole` that belongs to `take` of `total`.
LEMMA ProRata ==
  ASSUME NEW take \in Nat, NEW total \in Nat \ {0}, NEW whole \in Nat, take <= total
  PROVE  LET part == (take * whole) \div total
         IN  /\ part \in Nat
             /\ part <= whole
             /\ take = total => part = whole
             /\ take < total /\ whole > 0 => part < whole
<1> DEFINE part == (take * whole) \div total
<1>1. take * whole \in Nat /\ take * whole <= total * whole
  BY MulMono
<1>2. part \in Nat /\ total * part <= take * whole /\ take * whole < total * part + total
  BY <1>1, DivBounds
<1> HIDE DEF part
<1>3. part <= whole
  <2>1. SUFFICES ASSUME whole < part PROVE FALSE BY <1>2
  <2>2. total * (whole + 1) <= total * part BY <1>2, <2>1, MulMono
  <2>3. total * (whole + 1) = total * whole + total OBVIOUS
  <2> QED BY <1>1, <1>2, <2>2, <2>3
<1>4. ASSUME take = total PROVE part = whole
  <2>1. SUFFICES ASSUME part < whole PROVE FALSE BY <1>2, <1>3
  <2>2. total * (part + 1) <= total * whole BY <1>2, <2>1, MulMono
  <2>3. total * (part + 1) = total * part + total BY <1>2
  <2> QED BY <1>1, <1>2, <1>4, <2>2, <2>3
<1>5. ASSUME take < total, whole > 0 PROVE part < whole
  <2>1. take * whole < total * whole
    <3>1. (take + 1) * whole <= total * whole BY <1>5, MulMono
    <3>2. (take + 1) * whole = take * whole + whole OBVIOUS
    <3> QED BY <1>1, <1>5, <3>1, <3>2
  <2>2. total * part < total * whole BY <1>1, <1>2, <2>1
  <2> QED BY <1>2, <2>2, MulCancel
<1> QED BY <1>2, <1>3, <1>4, <1>5 DEF part

-----------------------------------------------------------------------------
(* The counters under one changed request.                                 *)

\* Writing one queue entry changes each of the three sums by the change of that
\* entry's field (and the sums of a well-formed queue are naturals that bound
\* every entry).
LEMMA SumsOfUpdate ==
  ASSUME NEW q \in Queues, NEW i \in RequestIds, NEW r \in Request
  PROVE  LET p == [q EXCEPT ![i] = r]
         IN  /\ p \in Queues
             /\ SumQueued(p)  = SumQueued(q) - q[i].bilAmount + r.bilAmount
             /\ SumSettled(p) = SumSettled(q) - q[i].bilSettled + r.bilSettled
             /\ SumOwed(p)    = SumOwed(q) - q[i].hollarOwed + r.hollarOwed
<1> DEFINE p == [q EXCEPT ![i] = r]
<1>1. MaxRequests \in Nat /\ RequestIds = 0 .. (MaxRequests - 1)
  BY QueueLibAssumption DEF RequestIds
<1>2. p \in Queues /\ p[i] = r /\ \A k \in RequestIds : k # i => p[k] = q[k]
  BY DEF Queues
<1>3. \A k \in RequestIds : q[k] \in Request /\ p[k] \in Request
  BY <1>2 DEF Queues
<1> HIDE DEF p
<1>4. SumQueued(p) = SumQueued(q) - q[i].bilAmount + r.bilAmount
  <2> DEFINE f == [k \in RequestIds |-> q[k].bilAmount]
             g == [k \in RequestIds |-> p[k].bilAmount]
  <2>1. \A k \in RequestIds : f[k] \in Int /\ g[k] \in Int
    BY <1>3 DEF Request
  <2>2. \A k \in RequestIds : k # i => g[k] = f[k]
    BY <1>2
  <2>3. f[i] = q[i].bilAmount /\ g[i] = r.bilAmount
    BY <1>2
  <2> HIDE DEF f, g
  <2>4. SumTo(g, MaxRequests) = SumTo(f, MaxRequests) - f[i] + g[i]
    BY <1>1, <2>1, <2>2, SumUpdate
  <2> QED BY <2>3, <2>4 DEF SumQueued, f, g
<1>5. SumSettled(p) = SumSettled(q) - q[i].bilSettled + r.bilSettled
  <2> DEFINE f == [k \in RequestIds |-> q[k].bilSettled]
             g == [k \in RequestIds |-> p[k].bilSettled]
  <2>1. \A k \in RequestIds : f[k] \in Int /\ g[k] \in Int
    BY <1>3 DEF Request
  <2>2. \A k \in RequestIds : k # i => g[k] = f[k]
    BY <1>2
  <2>3. f[i] = q[i].bilSettled /\ g[i] = r.bilSettled
    BY <1>2
  <2> HIDE DEF f, g
  <2>4. SumTo(g, MaxRequests) = SumTo(f, MaxRequests) - f[i] + g[i]
    BY <1>1, <2>1, <2>2, SumUpdate
  <2> QED BY <2>3, <2>4 DEF SumSettled, f, g
<1>6. SumOwed(p) = SumOwed(q) - q[i].hollarOwed + r.hollarOwed
  <2> DEFINE f == [k \in RequestIds |-> q[k].hollarOwed]
             g == [k \in RequestIds |-> p[k].hollarOwed]
  <2>1. \A k \in RequestIds : f[k] \in Int /\ g[k] \in Int
    BY <1>3 DEF Request
  <2>2. \A k \in RequestIds : k # i => g[k] = f[k]
    BY <1>2
  <2>3. f[i] = q[i].hollarOwed /\ g[i] = r.hollarOwed
    BY <1>2
  <2> HIDE DEF f, g
  <2>4. SumTo(g, MaxRequests) = SumTo(f, MaxRequests) - f[i] + g[i]
    BY <1>1, <2>1, <2>2, SumUpdate
  <2> QED BY <2>3, <2>4 DEF SumOwed, f, g
<1> QED BY <1>2, <1>4, <1>5, <1>6 DEF p

\* The sums over a well-formed queue are naturals; no entry exceeds its sum.
LEMMA SumsNat ==
  ASSUME NEW q \in Queues
  PROVE  /\ SumQueued(q) \in Nat /\ SumSettled(q) \in Nat /\ SumOwed(q) \in Nat
         /\ \A i \in RequestIds :
              /\ q[i].bilAmount <= SumQueued(q)
              /\ q[i].bilSettled <= SumSettled(q)
              /\ q[i].hollarOwed <= SumOwed(q)
<1>1. MaxRequests \in Nat /\ RequestIds = 0 .. (MaxRequests - 1)
  BY QueueLibAssumption DEF RequestIds
<1>2. \A k \in RequestIds : q[k] \in Request
  BY DEF Queues
<1>3. /\ SumQueued(q) \in Nat
      /\ \A i \in RequestIds : q[i].bilAmount <= SumQueued(q)
  <2> DEFINE f == [k \in RequestIds |-> q[k].bilAmount]
  <2>1. \A k \in RequestIds : f[k] \in Nat /\ f[k] = q[k].bilAmount
    BY <1>2 DEF Request
  <2> HIDE DEF f
  <2>2. SumTo(f, MaxRequests) \in Nat /\ \A k \in RequestIds : f[k] <= SumTo(f, MaxRequests)
    BY <1>1, <2>1, SumNat
  <2> QED BY <2>1, <2>2 DEF SumQueued, f
<1>4. /\ SumSettled(q) \in Nat
      /\ \A i \in RequestIds : q[i].bilSettled <= SumSettled(q)
  <2> DEFINE f == [k \in RequestIds |-> q[k].bilSettled]
  <2>1. \A k \in RequestIds : f[k] \in Nat /\ f[k] = q[k].bilSettled
    BY <1>2 DEF Request
  <2> HIDE DEF f
  <2>2. SumTo(f, MaxRequests) \in Nat /\ \A k \in RequestIds : f[k] <= SumTo(f, MaxRequests)
    BY <1>1, <2>1, SumNat
  <2> QED BY <2>1, <2>2 DEF SumSettled, f
<1>5. /\ SumOwed(q) \in Nat
      /\ \A i \in RequestIds : q[i].hollarOwed <= SumOwed(q)
  <2> DEFINE f == [k \in RequestIds |-> q[k].hollarOwed]
  <2>1. \A k \in RequestIds : f[k] \in Nat /\ f[k] = q[k].hollarOwed
    BY <1>2 DEF Request
  <2> HIDE DEF f
  <2>2. SumTo(f, MaxRequests) \in Nat /\ \A k \in RequestIds : f[k] <= SumTo(f, MaxRequests)
    BY <1>1, <2>1, SumNat
  <2> QED BY <2>1, <2>2 DEF SumOwed, f
<1> QED BY <1>3, <1>4, <1>5

\* Settled never exceeds queued over the whole queue.
LEMMA SettledWithinQueued ==
  ASSUME NEW q \in Queues, \A i \in RequestIds : RequestSound(q[i])
  PROVE  SumSettled(q) <= SumQueued(q)
<1> DEFINE f == [k \in RequestIds |-> q[k].bilSettled]
           g == [k \in RequestIds |-> q[k].bilAmount]
<1>1. MaxRequests \in Nat /\ RequestIds = 0 .. (MaxRequests - 1)
  BY QueueLibAssumption DEF RequestIds
<1>2. \A k \in RequestIds : f[k] \in Nat /\ g[k] \in Nat /\ f[k] <= g[k]
  BY DEF Queues, Request, RequestSound
<1> HIDE DEF f, g
<1>3. SumTo(f, MaxRequests) <= SumTo(g, MaxRequests)
  BY <1>1, <1>2, SumMonotone
<1> QED BY <1>3 DEF SumSettled, SumQueued, f, g

-----------------------------------------------------------------------------
(* processQueue.                                                           *)

\* What holds before and after every iteration of the settlement loop started
\* on queue q with `available` HOLLAR and the window up to `tail`.
WalkInv(w, q, tail, available, rate) ==
  /\ w \in QueueWalks
  /\ w.cursor = w.head /\ w.head <= tail
  /\ \A i \in RequestIds :
       /\ RequestSound(w.queue[i])
       /\ w.queue[i].user = q[i].user
       /\ w.queue[i].bilAmount = q[i].bilAmount
       /\ q[i].bilSettled <= w.queue[i].bilSettled
       /\ w.queue[i] # q[i] => i <= w.head /\ i < tail
       /\ i < w.head => Pending(w.queue[i]) = 0
  /\ w.used + w.available <= available
  /\ w.used * WAD <= w.locked * rate
  /\ SumSettled(w.queue) = SumSettled(q) + w.locked
  /\ SumOwed(w.queue) = SumOwed(q) + w.used

\* The request that results from locking shares and HOLLAR on r.
LEMMA LockedRequest ==
  ASSUME NEW r \in Request, NEW shares \in Nat, NEW paid \in Nat
  PROVE  LET d == Locked(r, shares, paid)
         IN  /\ d \in Request
             /\ d.user = r.user /\ d.bilAmount = r.bilAmount
             /\ d.bilSettled = r.bilSettled + shares
             /\ d.hollarOwed = r.hollarOwed + paid
<1> DEFINE a == r.bilSettled + shares
           b == r.hollarOwed + paid
<1>1. a \in Nat /\ b \in Nat
  BY DEF Request
<1>2. Locked(r, shares, paid) = [r EXCEPT !.bilSettled = a, !.hollarOwed = b]
  BY DEF Locked
<1> HIDE DEF a, b
<1>3. [r EXCEPT !.bilSettled = a, !.hollarOwed = b] \in Request
  BY <1>1 DEF Request
<1> QED BY <1>2, <1>3 DEF a, b, Request

\* Settling shares of the entry under the cursor, field by field.
LEMMA SettleFields ==
  ASSUME NEW w \in QueueWalks, w.cursor \in RequestIds,
         w.queue[w.cursor].user # NoUser,
         NEW shares \in Nat, NEW paid \in Nat
  PROVE  /\ Settle(w, shares, paid) \in QueueWalks
         /\ Settle(w, shares, paid).queue
              = [w.queue EXCEPT ![w.cursor] = Locked(w.queue[w.cursor], shares, paid)]
         /\ Settle(w, shares, paid).cursor = w.cursor
         /\ Settle(w, shares, paid).head = w.head
         /\ Settle(w, shares, paid).available = w.available
         /\ Settle(w, shares, paid).used = w.used + paid
         /\ Settle(w, shares, paid).locked = w.locked + shares
<1> DEFINE r == w.queue[w.cursor]
           d == Locked(r, shares, paid)
           p == [w.queue EXCEPT ![w.cursor] = d]
           b == [w.settledBy EXCEPT ![r.user] = IndexSettled(@, r, w.cursor)]
           s == Settle(w, shares, paid)
<1>1. r \in Request /\ d \in Request /\ w.queue \in Queues /\ w.settledBy \in Indexes
  <2>1. w.queue \in Queues /\ w.settledBy \in Indexes
    BY DEF QueueWalks
  <2>2. r \in Request
    BY <2>1 DEF Queues
  <2>3. d \in Request
    <3> HIDE DEF r
    <3> QED BY <2>2, LockedRequest
  <2> QED BY <2>1, <2>2, <2>3
<1>2. p \in Queues
  BY <1>1 DEF Queues
<1>3. b \in Indexes
  <2>1. r.user \in Controllers
    BY <1>1 DEF Request
  <2>2. IndexSettled(w.settledBy[r.user], r, w.cursor) \in Seq(RequestIds)
    BY <1>1, <2>1 DEF IndexSettled, Indexes
  <2> QED BY <1>1, <2>1, <2>2 DEF Indexes
<1>4. s = [w EXCEPT !.queue = p, !.settledBy = b,
                    !.used = @ + paid, !.locked = @ + shares]
  BY DEF Settle
<1> HIDE DEF p, b, s, d
<1>5. s \in QueueWalks
  <2> DEFINE u == w.used + paid
             l == w.locked + shares
  <2>1. u \in Nat /\ l \in Nat
    BY DEF QueueWalks
  <2>2. s = [w EXCEPT !.queue = p, !.settledBy = b, !.used = u, !.locked = l]
    BY <1>4
  <2> HIDE DEF u, l
  <2> QED BY <1>2, <1>3, <2>1, <2>2 DEF QueueWalks
<1>6. /\ s.queue = p /\ s.cursor = w.cursor /\ s.head = w.head
      /\ s.available = w.available
      /\ s.used = w.used + paid /\ s.locked = w.locked + shares
  BY <1>4 DEF QueueWalks
<1> QED BY <1>1, <1>5, <1>6 DEF p, s, d

\* Passing the entry under the cursor, field by field.
LEMMA PassEntryFields ==
  ASSUME NEW w \in QueueWalks, w.cursor = w.head
  PROVE  LET p == PassEntry(w)
         IN  /\ p \in QueueWalks
             /\ p.cursor = w.cursor + 1 /\ p.head = w.head + 1
             /\ p.queue = w.queue /\ p.available = w.available
             /\ p.used = w.used /\ p.locked = w.locked /\ p.skips = w.skips
<1> DEFINE c == w.cursor + 1
           h == w.head + 1
<1>1. c \in Nat /\ h \in Nat
  BY DEF QueueWalks
<1>2. PassEntry(w) = [w EXCEPT !.cursor = c, !.head = h]
  BY DEF PassEntry
<1> HIDE DEF c, h
<1>3. PassEntry(w) \in QueueWalks
  BY <1>1, <1>2 DEF QueueWalks
<1> QED BY <1>2, <1>3 DEF QueueWalks, c, h

\* Locking some of the pending shares of the entry under the cursor keeps the
\* loop invariant, whether or not the cursor then moves on.
LEMMA LockKeepsWalkInv ==
  ASSUME NEW q \in Queues, NEW tail \in 0 .. MaxRequests, NEW available \in Nat,
         NEW rate \in Nat,
         NEW w, NEW v \in QueueWalks, WalkInv(w, q, tail, available, rate),
         w.cursor < tail,
         w.queue[w.cursor].user # NoUser,
         NEW shares \in Nat, NEW paid \in Nat,
         paid * WAD <= shares * rate,
         shares > 0, shares <= Pending(w.queue[w.cursor]),
         v.queue = [w.queue EXCEPT ![w.cursor] =
                      Locked(w.queue[w.cursor], shares, paid)],
         v.used = w.used + paid, v.locked = w.locked + shares,
         v.available + paid <= w.available,
         v.cursor = v.head,
         \/ v.head = w.head
         \/ v.head = w.head + 1 /\ shares = Pending(w.queue[w.cursor])
  PROVE  WalkInv(v, q, tail, available, rate)
<1> DEFINE r == w.queue[w.cursor]
           d == Locked(r, shares, paid)
<1>1. /\ w \in QueueWalks /\ w.cursor = w.head /\ w.head \in Nat
      /\ w.queue \in Queues /\ v.queue \in Queues
      /\ w.used \in Nat /\ w.available \in Nat /\ w.locked \in Nat
      /\ v.available \in Nat /\ v.head \in Nat
  BY DEF WalkInv, QueueWalks
<1>2. w.cursor \in RequestIds
  BY <1>1, QueueLibAssumption DEF RequestIds
<1>3. r \in Request
  BY <1>1, <1>2 DEF Queues
<1>4. /\ d \in Request
      /\ d.user = r.user /\ d.bilAmount = r.bilAmount
      /\ d.bilSettled = r.bilSettled + shares
      /\ d.hollarOwed = r.hollarOwed + paid
  <2> HIDE DEF r
  <2> QED BY <1>3, LockedRequest
<1>5. RequestSound(r) /\ r.user # NoUser
  BY <1>2 DEF WalkInv
<1>6. v.queue = [w.queue EXCEPT ![w.cursor] = d]
  OBVIOUS
<1> HIDE DEF r, d
<1>7. RequestSound(d)
  <2>1. r.bilAmount # 0 /\ r.bilSettled \in Nat /\ r.bilAmount \in Nat
        /\ r.bilSettled + shares <= r.bilAmount
    BY <1>3, <1>5 DEF RequestSound, Request, Pending, r
  <2>2. d # Hole
    BY <1>4, <1>5 DEF Hole
  <2> QED BY <1>4, <1>5, <2>1, <2>2 DEF RequestSound
<1>8. /\ SumSettled(v.queue) = SumSettled(q) + v.locked
      /\ SumOwed(v.queue) = SumOwed(q) + v.used
  <2>1. /\ SumSettled(v.queue) = SumSettled(w.queue) - r.bilSettled + d.bilSettled
        /\ SumOwed(v.queue) = SumOwed(w.queue) - r.hollarOwed + d.hollarOwed
    BY <1>1, <1>2, <1>4, <1>6, SumsOfUpdate DEF r
  <2>2. /\ SumSettled(w.queue) = SumSettled(q) + w.locked
        /\ SumOwed(w.queue) = SumOwed(q) + w.used
    BY DEF WalkInv
  <2>3. SumSettled(q) \in Nat /\ SumOwed(q) \in Nat
    BY SumsNat
  <2>4. r.bilSettled \in Nat /\ r.hollarOwed \in Nat
    BY <1>3 DEF Request
  <2> QED BY <1>1, <1>4, <2>1, <2>2, <2>3, <2>4
<1>9. ASSUME NEW i \in RequestIds
      PROVE  /\ RequestSound(v.queue[i])
             /\ v.queue[i].user = q[i].user
             /\ v.queue[i].bilAmount = q[i].bilAmount
             /\ q[i].bilSettled <= v.queue[i].bilSettled
             /\ v.queue[i] # q[i] => i <= v.head /\ i < tail
             /\ i < v.head => Pending(v.queue[i]) = 0
  <2>0. i \in Nat /\ q[i] \in Request /\ q[i].bilSettled \in Nat
    BY QueueLibAssumption DEF RequestIds, Queues, Request
  <2>1. /\ RequestSound(w.queue[i])
        /\ w.queue[i].user = q[i].user
        /\ w.queue[i].bilAmount = q[i].bilAmount
        /\ q[i].bilSettled <= w.queue[i].bilSettled
        /\ w.queue[i] # q[i] => i <= w.head /\ i < tail
        /\ i < w.head => Pending(w.queue[i]) = 0
    BY DEF WalkInv
  <2>2. CASE i = w.cursor
    <3>1. v.queue[i] = d /\ w.queue[i] = r
      BY <1>1, <1>2, <1>6, <2>2 DEF Queues, r
    <3>2. r.bilSettled \in Nat /\ r.bilAmount \in Nat
      BY <1>3 DEF Request
    <3>3. v.head = w.head + 1 => Pending(d) = 0
      <4>1. Pending(r) = r.bilAmount - r.bilSettled
        BY DEF Pending
      <4> QED BY <1>1, <1>4, <3>2, <4>1 DEF Pending, r
    <3> QED BY <1>1, <1>4, <1>7, <2>0, <2>1, <2>2, <3>1, <3>2, <3>3
  <2>3. CASE i # w.cursor
    <3>1. v.queue[i] = w.queue[i]
      BY <1>1, <1>6, <2>3 DEF Queues
    <3>2. i < v.head => i < w.head
      BY <1>1, <2>0, <2>3
    <3>3. i <= w.head => i <= v.head
      BY <1>1, <2>0
    <3> QED BY <2>1, <3>1, <3>2, <3>3
  <2> QED BY <2>2, <2>3
<1>10. v.used + v.available <= available /\ v.head <= tail
  <2>1. w.used + w.available <= available
    BY DEF WalkInv
  <2> QED BY <1>1, <2>1
<1>11. v.used * WAD <= v.locked * rate
  <2>1. w.used * WAD <= w.locked * rate /\ WAD \in Nat
    BY QueueLibAssumption DEF WalkInv
  <2>2. /\ (w.used + paid) * WAD = w.used * WAD + paid * WAD
        /\ (w.locked + shares) * rate = w.locked * rate + shares * rate
    BY <1>1, <2>1
  <2>3. /\ w.used * WAD \in Nat /\ paid * WAD \in Nat
        /\ w.locked * rate \in Nat /\ shares * rate \in Nat
    BY <1>1, <2>1
  <2>4. (w.used + paid) * WAD <= (w.locked + shares) * rate
    BY <2>1, <2>2, <2>3
  <2> QED BY <2>4
<1> QED BY <1>8, <1>9, <1>10, <1>11 DEF WalkInv

\* A step that moves no money keeps the loop invariant: it leaves the queue and
\* the totals alone and at most passes an entry with nothing pending.
LEMMA PassKeepsWalkInv ==
  ASSUME NEW q, NEW tail \in Nat, NEW available \in Nat,
         NEW rate \in Nat,
         NEW w, NEW v \in QueueWalks, WalkInv(w, q, tail, available, rate),
         v.queue = w.queue, v.available = w.available,
         v.used = w.used, v.locked = w.locked,
         v.cursor = v.head,
         \/ v.head = w.head
         \/ /\ v.head = w.head + 1 /\ w.cursor < tail
            /\ w.cursor \in RequestIds => Pending(w.queue[w.cursor]) = 0
  PROVE  WalkInv(v, q, tail, available, rate)
<1>1. w \in QueueWalks /\ w.cursor = w.head /\ w.head \in Nat /\ v.head \in Nat
      /\ w.head <= tail
  BY DEF WalkInv, QueueWalks
<1>2. ASSUME NEW i \in RequestIds
      PROVE  /\ RequestSound(v.queue[i])
             /\ v.queue[i].user = q[i].user
             /\ v.queue[i].bilAmount = q[i].bilAmount
             /\ q[i].bilSettled <= v.queue[i].bilSettled
             /\ v.queue[i] # q[i] => i <= v.head /\ i < tail
             /\ i < v.head => Pending(v.queue[i]) = 0
  <2>1. /\ RequestSound(w.queue[i])
        /\ w.queue[i].user = q[i].user
        /\ w.queue[i].bilAmount = q[i].bilAmount
        /\ q[i].bilSettled <= w.queue[i].bilSettled
        /\ w.queue[i] # q[i] => i <= w.head /\ i < tail
        /\ i < w.head => Pending(w.queue[i]) = 0
    BY DEF WalkInv
  <2>2. i \in Nat
    BY DEF RequestIds
  <2>3. i < v.head => i < w.head \/ (i = w.cursor /\ v.head = w.head + 1)
    BY <1>1, <2>2
  <2>4. i < v.head => Pending(v.queue[i]) = 0
    BY <2>1, <2>3
  <2>5. v.queue[i] # q[i] => i <= v.head /\ i < tail
    BY <1>1, <2>1, <2>2
  <2> QED BY <2>1, <2>4, <2>5
<1>3. v.head <= tail
  BY <1>1
<1>4. v.used * WAD <= v.locked * rate
  BY DEF WalkInv
<1> QED BY <1>1, <1>2, <1>3, <1>4 DEF WalkInv

\* A full fill, after which the cursor moves on, keeps the loop invariant.
LEMMA FullFillKeepsWalkInv ==
  ASSUME NEW q \in Queues, NEW tail \in 0 .. MaxRequests, NEW available \in Nat,
         NEW rate \in Nat,
         NEW w, WalkInv(w, q, tail, available, rate),
         w.cursor < tail, w.queue[w.cursor].user # NoUser,
         NEW shares \in Nat, NEW paid \in Nat,
         paid * WAD <= shares * rate,
         shares > 0, shares = Pending(w.queue[w.cursor]), paid <= w.available
  PROVE  WalkInv(PassEntry([Settle(w, shares, paid) EXCEPT !.available = @ - paid]),
                 q, tail, available, rate)
<1> DEFINE s == Settle(w, shares, paid)
           a == s.available - paid
           u == [s EXCEPT !.available = a]
           v == PassEntry(u)
<1>1. /\ w \in QueueWalks /\ w.cursor = w.head /\ w.cursor \in Nat
      /\ w.available \in Nat /\ w.cursor \in RequestIds
  BY QueueLibAssumption DEF WalkInv, QueueWalks, RequestIds
<1>2. /\ s \in QueueWalks
      /\ s.queue = [w.queue EXCEPT ![w.cursor] =
              Locked(w.queue[w.cursor], shares, paid)]
      /\ s.cursor = w.cursor /\ s.head = w.head
      /\ s.available = w.available
      /\ s.used = w.used + paid /\ s.locked = w.locked + shares
  BY <1>1, SettleFields
<1>3. a \in Nat /\ a + paid = w.available
  BY <1>1, <1>2
<1> HIDE DEF s, a
<1>4. /\ u \in QueueWalks /\ u.available = a
      /\ u.queue = s.queue /\ u.cursor = s.cursor /\ u.head = s.head
      /\ u.used = s.used /\ u.locked = s.locked
  BY <1>2, <1>3 DEF QueueWalks
<1> HIDE DEF u
<1>5. /\ v \in QueueWalks
      /\ v.cursor = u.cursor + 1 /\ v.head = u.head + 1
      /\ v.queue = u.queue /\ v.available = u.available
      /\ v.used = u.used /\ v.locked = u.locked
  BY <1>1, <1>2, <1>4, PassEntryFields
<1> HIDE DEF v
<1>6. /\ v.queue = [w.queue EXCEPT ![w.cursor] =
              Locked(w.queue[w.cursor], shares, paid)]
      /\ v.used = w.used + paid /\ v.locked = w.locked + shares
      /\ v.available + paid <= w.available
      /\ v.cursor = v.head /\ v.head = w.head + 1
  BY <1>1, <1>2, <1>3, <1>4, <1>5
<1>7. shares <= Pending(w.queue[w.cursor])
  OBVIOUS
<1>8. WalkInv(v, q, tail, available, rate)
  BY <1>5, <1>6, <1>7, LockKeepsWalkInv
<1> QED BY <1>8 DEF v, u, a, s

\* A partial fill, after which nothing is available, keeps the loop invariant.
LEMMA PartFillKeepsWalkInv ==
  ASSUME NEW q \in Queues, NEW tail \in 0 .. MaxRequests, NEW available \in Nat,
         NEW rate \in Nat,
         NEW w, WalkInv(w, q, tail, available, rate),
         w.cursor < tail, w.queue[w.cursor].user # NoUser,
         NEW shares \in Nat, NEW paid \in Nat,
         paid * WAD <= shares * rate,
         shares > 0, shares <= Pending(w.queue[w.cursor]), paid <= w.available
  PROVE  WalkInv([Settle(w, shares, paid) EXCEPT !.available = 0],
                 q, tail, available, rate)
<1> DEFINE s == Settle(w, shares, paid)
           v == [s EXCEPT !.available = 0]
<1>1. /\ w \in QueueWalks /\ w.cursor = w.head /\ w.cursor \in Nat
      /\ w.available \in Nat /\ w.cursor \in RequestIds
  BY QueueLibAssumption DEF WalkInv, QueueWalks, RequestIds
<1>2. /\ s \in QueueWalks
      /\ s.queue = [w.queue EXCEPT ![w.cursor] =
              Locked(w.queue[w.cursor], shares, paid)]
      /\ s.cursor = w.cursor /\ s.head = w.head
      /\ s.used = w.used + paid /\ s.locked = w.locked + shares
  BY <1>1, SettleFields
<1> HIDE DEF s
<1>3. /\ v \in QueueWalks /\ v.available = 0
      /\ v.queue = s.queue /\ v.cursor = s.cursor /\ v.head = s.head
      /\ v.used = s.used /\ v.locked = s.locked
  BY <1>2 DEF QueueWalks
<1> HIDE DEF v
<1>4. /\ v.queue = [w.queue EXCEPT ![w.cursor] =
              Locked(w.queue[w.cursor], shares, paid)]
      /\ v.used = w.used + paid /\ v.locked = w.locked + shares
      /\ v.available + paid <= w.available
      /\ v.cursor = v.head /\ v.head = w.head
  BY <1>1, <1>2, <1>3
<1>5. WalkInv(v, q, tail, available, rate)
  BY <1>3, <1>4, LockKeepsWalkInv
<1> QED BY <1>5 DEF v, s

\* One iteration of the settlement loop keeps its invariant.
LEMMA QueueWalkStepKeepsInv ==
  ASSUME NEW q \in Queues, NEW tail \in 0 .. MaxRequests, NEW available \in Nat,
         NEW rate \in Nat, NEW w, WalkInv(w, q, tail, available, rate)
  PROVE  WalkInv(QueueWalkStep(w, tail, rate), q, tail, available, rate)
<1> DEFINE r     == w.queue[w.cursor]
           value == (Pending(r) * rate) \div WAD
           part  == (w.available * WAD) \div rate
           begun == [w EXCEPT !.iterations = @ + 1]
<1>1. /\ w \in QueueWalks /\ w.cursor = w.head /\ w.cursor \in Nat
      /\ w.available \in Nat /\ w.iterations \in Nat
  BY DEF WalkInv, QueueWalks
<1>2. CASE \/ w.stopped \/ w.cursor >= tail
           \/ w.iterations >= MAX_QUEUE_ITERATIONS \/ w.skips >= MAX_QUEUE_SKIPS
  BY <1>2 DEF QueueWalkStep
<1>3. CASE ~ (\/ w.stopped \/ w.cursor >= tail
              \/ w.iterations >= MAX_QUEUE_ITERATIONS \/ w.skips >= MAX_QUEUE_SKIPS)
  <2>1. w.cursor < tail /\ w.cursor \in RequestIds
    BY <1>1, <1>3, QueueLibAssumption DEF RequestIds
  <2>2. /\ RequestSound(r) /\ r \in Request
        /\ r.bilAmount \in Nat /\ r.bilSettled \in Nat
        /\ Pending(r) = r.bilAmount - r.bilSettled
    BY <1>1, <2>1 DEF WalkInv, QueueWalks, Queues, Request, Pending
  <2>3. CASE r.user = NoUser \/ r.bilSettled = r.bilAmount
    <3> DEFINE p == PassEntry(w)
               k == p.skips + 1
               v == [p EXCEPT !.skips = k]
    <3>1. QueueWalkStep(w, tail, rate) = v
      BY <1>3, <2>3 DEF QueueWalkStep
    <3>2. /\ p \in QueueWalks
          /\ p.cursor = w.cursor + 1 /\ p.head = w.head + 1
          /\ p.queue = w.queue /\ p.available = w.available
          /\ p.used = w.used /\ p.locked = w.locked
      BY <1>1, PassEntryFields
    <3>3. k \in Nat
      BY <3>2 DEF QueueWalks
    <3> HIDE DEF p, k
    <3>4. /\ v \in QueueWalks
          /\ v.cursor = p.cursor /\ v.head = p.head
          /\ v.queue = p.queue /\ v.available = p.available
          /\ v.used = p.used /\ v.locked = p.locked
      BY <3>2, <3>3 DEF QueueWalks
    <3> HIDE DEF v
    <3>5. Pending(r) = 0
      BY <2>2, <2>3 DEF RequestSound, Hole
    <3> QED BY <1>1, <2>1, <3>1, <3>2, <3>4, <3>5, PassKeepsWalkInv
  <2>4. CASE r.user # NoUser /\ r.bilSettled # r.bilAmount
    <3>1. CASE w.available = 0
      <4> DEFINE v == [w EXCEPT !.stopped = TRUE]
      <4>1. QueueWalkStep(w, tail, rate) = v
        BY <1>3, <2>4, <3>1 DEF QueueWalkStep
      <4>2. /\ v \in QueueWalks
            /\ v.cursor = w.cursor /\ v.head = w.head
            /\ v.queue = w.queue /\ v.available = w.available
            /\ v.used = w.used /\ v.locked = w.locked
        BY <1>1 DEF QueueWalks
      <4> HIDE DEF v
      <4> QED BY <1>1, <4>1, <4>2, PassKeepsWalkInv
    <3>2. CASE w.available # 0
      <4>1. QueueWalkStep(w, tail, rate) = SettleEntry(w, rate)
        BY <1>3, <2>4, <3>2 DEF QueueWalkStep
      <4>2. /\ begun \in QueueWalks
            /\ begun.cursor = w.cursor /\ begun.head = w.head
            /\ begun.queue = w.queue /\ begun.available = w.available
            /\ begun.used = w.used /\ begun.locked = w.locked
        <5> DEFINE n == w.iterations + 1
        <5>1. n \in Nat /\ begun = [w EXCEPT !.iterations = n]
          BY <1>1
        <5> HIDE DEF n, begun
        <5> QED BY <1>1, <5>1 DEF QueueWalks
      <4>3. value \in Nat
        <5>1. Pending(r) \in Nat
          BY <2>2 DEF RequestSound
        <5>2. Pending(r) * rate \in Nat
          BY <5>1
        <5> QED BY <5>2, QueueLibAssumption, DivBounds
      <4>4. Pending(r) \in Nat /\ Pending(r) > 0
        BY <2>2, <2>4 DEF RequestSound
      <4>5. CASE value = 0
        <5> DEFINE v == [begun EXCEPT !.stopped = TRUE]
        <5>1. SettleEntry(w, rate) = v
          BY <4>5 DEF SettleEntry
        <5> HIDE DEF begun
        <5>2. /\ v \in QueueWalks
              /\ v.cursor = w.cursor /\ v.head = w.head
              /\ v.queue = w.queue /\ v.available = w.available
              /\ v.used = w.used /\ v.locked = w.locked
          BY <4>2 DEF QueueWalks
        <5> HIDE DEF v
        <5> QED BY <1>1, <4>1, <5>1, <5>2, PassKeepsWalkInv
      <4>6. WalkInv(begun, q, tail, available, rate)
        <5> HIDE DEF begun
        <5> QED BY <1>1, <4>2, PassKeepsWalkInv
      <4>7. begun.cursor < tail /\ begun.queue[begun.cursor] = r
        <5> HIDE DEF begun
        <5> QED BY <2>1, <4>2
      <4>8. CASE value # 0 /\ w.available >= value
        <5> DEFINE pend == Pending(r)
        <5>1. SettleEntry(w, rate)
              = PassEntry([Settle(begun, pend, value) EXCEPT !.available = @ - value])
          BY <4>8 DEF SettleEntry
        <5>2. pend \in Nat /\ pend > 0 /\ pend = Pending(begun.queue[begun.cursor])
          <6> HIDE DEF begun, r
          <6> QED BY <4>4, <4>7
        <5>3. begun.queue[begun.cursor].user # NoUser /\ value <= begun.available
          <6> HIDE DEF begun, r, value
          <6> QED BY <1>1, <2>4, <4>2, <4>3, <4>7, <4>8
        <5>4. value * WAD <= pend * rate
          <6>1. pend * rate \in Nat
            BY <4>4
          <6>2. WAD * value <= pend * rate
            BY <6>1, QueueLibAssumption, DivBounds
          <6> HIDE DEF value, pend
          <6> QED BY <4>3, <6>2, QueueLibAssumption
        <5> HIDE DEF begun, value, r, pend
        <5> QED BY <4>1, <4>3, <4>6, <4>7, <5>1, <5>2, <5>3, <5>4, FullFillKeepsWalkInv
      <4>9. CASE value # 0 /\ w.available < value /\ part = 0
        <5> DEFINE v == [begun EXCEPT !.stopped = TRUE]
        <5>1. SettleEntry(w, rate) = v
          BY <1>1, <4>3, <4>9 DEF SettleEntry
        <5> HIDE DEF begun
        <5>2. /\ v \in QueueWalks
              /\ v.cursor = w.cursor /\ v.head = w.head
              /\ v.queue = w.queue /\ v.available = w.available
              /\ v.used = w.used /\ v.locked = w.locked
          BY <4>2 DEF QueueWalks
        <5> HIDE DEF v
        <5> QED BY <1>1, <4>1, <5>1, <5>2, PassKeepsWalkInv
      <4>10. CASE value # 0 /\ w.available < value /\ part # 0
        <5> DEFINE reserve == PartialReserve(part, rate, w.available)
        <5>1. SettleEntry(w, rate)
              = [Settle(begun, part, reserve) EXCEPT !.available = 0]
          BY <1>1, <4>3, <4>10 DEF SettleEntry
        <5>2. /\ part \in Nat /\ part <= Pending(r)
              /\ reserve \in Nat /\ reserve <= w.available
          BY <1>1, <4>4, <4>10, QueueLibAssumption, PartialFill DEF PartialReserve
        <5>3. /\ begun.queue[begun.cursor].user # NoUser /\ reserve <= begun.available
              /\ part <= Pending(begun.queue[begun.cursor]) /\ part > 0
          <6> HIDE DEF begun, r, reserve, part
          <6> QED BY <2>4, <4>2, <4>7, <4>10, <5>2
        <5>4. reserve * WAD <= part * rate
          <6> HIDE DEF part
          <6>1. part * rate \in Nat
            BY <5>2
          <6>2. WAD * reserve <= part * rate
            BY <6>1, QueueLibAssumption, DivBounds DEF PartialReserve
          <6> HIDE DEF reserve
          <6> QED BY <5>2, <6>2, QueueLibAssumption
        <5> HIDE DEF begun, r, part, reserve, value
        <5> QED BY <4>1, <4>6, <4>7, <5>1, <5>2, <5>3, <5>4, PartFillKeepsWalkInv
      <4> QED BY <1>1, <4>3, <4>5, <4>8, <4>9, <4>10
    <3> QED BY <3>1, <3>2
  <2> QED BY <2>3, <2>4
<1> QED BY <1>2, <1>3

\* What a call of processQueue returns, for any queue at rest, any amount of
\* HOLLAR, any rate and any budgets.
LEMMA ProcessQueueResult ==
  ASSUME NEW q \in Queues, NEW settled \in Indexes,
         NEW tail \in 0 .. MaxRequests, NEW head \in 0 .. tail,
         NEW available \in Nat, NEW rate \in Nat,
         \A i \in RequestIds : RequestSound(q[i]) /\ (i < head => Pending(q[i]) = 0)
  PROVE  LET w == ProcessQueue(q, settled, head, tail, available, rate)
         IN  WalkInv(w, q, tail, available, rate)
<1> DEFINE w0 == [queue |-> q, settledBy |-> settled, cursor |-> head,
                  head |-> head, available |-> available, iterations |-> 0,
                  skips |-> 0, used |-> 0, locked |-> 0, stopped |-> FALSE]
           F == [w \in QueueWalks |-> QueueWalkStep(w, tail, rate)]
           T == {w \in QueueWalks : WalkInv(w, q, tail, available, rate)}
<1>1. w0 \in QueueWalks
  BY QueueLibAssumption DEF QueueWalks
<1>2. SumSettled(q) \in Nat /\ SumOwed(q) \in Nat
  BY SumsNat
<1>3. WalkInv(w0, q, tail, available, rate)
  <2>1. \A i \in RequestIds : q[i].bilSettled \in Nat
    BY DEF Queues, Request
  <2>2. 0 * WAD <= 0 * rate
    BY QueueLibAssumption
  <2> QED BY <1>1, <1>2, <2>1, <2>2 DEF WalkInv
<1>4. \A x \in T : F[x] \in T
  <2> SUFFICES ASSUME NEW x \in QueueWalks, WalkInv(x, q, tail, available, rate)
               PROVE  QueueWalkStep(x, tail, rate) \in T
    OBVIOUS
  <2>1. WalkInv(QueueWalkStep(x, tail, rate), q, tail, available, rate)
    BY QueueWalkStepKeepsInv
  <2> QED BY <2>1 DEF WalkInv
<1> HIDE DEF F, T, w0
<1>5. w0 \in T
  BY <1>1, <1>3 DEF T
<1>6. MAX_QUEUE_ITERATIONS + MAX_QUEUE_SKIPS \in Nat
  BY QueueLibAssumption
<1>7. Iterate(F, w0, MAX_QUEUE_ITERATIONS + MAX_QUEUE_SKIPS) \in T
  BY <1>4, <1>5, <1>6, IterateInvariant
<1> QED BY <1>7 DEF ProcessQueue, F, T, w0

-----------------------------------------------------------------------------
(* claimByShares and claimByAssets.                                        *)

\* What holds before and after every iteration of a claim walk of `controller`
\* started on queue q.
ClaimInv(c, q, controller) ==
  /\ c \in ClaimWalks
  /\ c.at <= Len(c.ids)
  /\ \A i \in RequestIds :
       /\ RequestSound(c.queue[i])
       /\ Pending(c.queue[i]) = Pending(q[i])
       /\ c.queue[i].bilSettled <= q[i].bilSettled
       /\ q[i].user # controller => c.queue[i] = q[i]
       /\ q[i].user = controller => c.queue[i].user \in {controller, NoUser}
  /\ SumQueued(q)  = SumQueued(c.queue) + c.shares
  /\ SumSettled(q) = SumSettled(c.queue) + c.shares
  /\ SumOwed(q)    = SumOwed(c.queue) + c.assets

\* Swap-and-pop leaves an index of request ids, one shorter.
LEMMA SwapPopSeq ==
  ASSUME NEW ids \in Seq(RequestIds), NEW j \in 1 .. Len(ids)
  PROVE  /\ SwapPop(ids, j) \in Seq(RequestIds)
         /\ Len(SwapPop(ids, j)) = Len(ids) - 1
<1> DEFINE n == Len(ids) - 1
           t == [k \in 1 .. n |-> IF k = j THEN ids[Len(ids)] ELSE ids[k]]
<1>1. Len(ids) \in Nat /\ n \in Nat /\ ids \in [1 .. Len(ids) -> RequestIds]
  BY LenProperties
<1>2. \A k \in 1 .. n : k \in 1 .. Len(ids) /\ Len(ids) \in 1 .. Len(ids)
  BY <1>1
<1>3. t \in [1 .. n -> RequestIds]
  BY <1>1, <1>2
<1> HIDE DEF n
<1>4. t \in Seq(RequestIds)
  BY <1>1, <1>3, SeqDef
<1>5. DOMAIN t = 1 .. n /\ DOMAIN t = 1 .. Len(t) /\ Len(t) \in Nat
  BY <1>3, <1>4, LenProperties
<1>6. Len(t) = n
  BY <1>1, <1>5
<1> QED BY <1>4, <1>6 DEF SwapPop, n

\* A request from which no more is drawn than it has is again well-formed.
LEMMA DrawnRequest ==
  ASSUME NEW r \in Request, RequestSound(r), r.user # NoUser,
         NEW shares \in Nat, NEW paid \in Nat,
         shares <= r.bilSettled, paid <= r.hollarOwed,
         shares = r.bilSettled => paid = r.hollarOwed
  PROVE  LET e == Kept(Drawn(r, shares, paid))
         IN  /\ e \in Request /\ RequestSound(e)
             /\ e.user \in {r.user, NoUser}
             /\ Pending(e) = Pending(r)
             /\ e.bilAmount = r.bilAmount - shares
             /\ e.bilSettled = r.bilSettled - shares
             /\ e.hollarOwed = r.hollarOwed - paid
<1> DEFINE a == r.bilSettled - shares
           b == r.bilAmount - shares
           h == r.hollarOwed - paid
           d == Drawn(r, shares, paid)
           e == Kept(d)
<1>1. /\ r.user \in Controllers /\ r.bilAmount \in Nat /\ r.bilSettled \in Nat
      /\ r.hollarOwed \in Nat /\ r.bilSettled <= r.bilAmount
  BY DEF Request, RequestSound
<1>2. a \in Nat /\ b \in Nat /\ h \in Nat /\ a <= b /\ (h > 0 => a > 0)
  BY <1>1
<1>3. d = [r EXCEPT !.bilSettled = a, !.bilAmount = b, !.hollarOwed = h]
  BY DEF Drawn
<1>4. Hole \in Request /\ Hole.bilAmount = 0 /\ Hole.bilSettled = 0
      /\ Hole.hollarOwed = 0 /\ Hole.user = NoUser
  BY DEF Hole, Request
<1>5. Pending(r) = b - a /\ Pending(r) = r.bilAmount - r.bilSettled
  BY <1>1 DEF Pending
<1> HIDE DEF a, b, h, d
<1>6. d \in Request
  BY <1>2, <1>3 DEF Request
<1>7. d.bilSettled = a /\ d.bilAmount = b /\ d.hollarOwed = h /\ d.user = r.user
  BY <1>2, <1>3 DEF Request
<1>8. CASE b = 0
  <2>1. e = Hole /\ a = 0 /\ h = 0
    BY <1>2, <1>7, <1>8 DEF Kept
  <2>2. RequestSound(Hole) /\ Pending(Hole) = 0
    BY <1>4 DEF RequestSound, Pending
  <2>3. e.bilAmount = b /\ e.bilSettled = a /\ e.hollarOwed = h
    BY <1>4, <1>8, <2>1
  <2>4. Pending(e) = Pending(r)
    BY <1>5, <1>8, <2>1, <2>2
  <2> QED BY <1>4, <2>1, <2>2, <2>3, <2>4 DEF a, b, h, d
<1>9. CASE b # 0
  <2>1. e = d
    BY <1>7, <1>9 DEF Kept
  <2>2. d # Hole
    BY <1>4, <1>7, <1>9
  <2>3. RequestSound(d)
    BY <1>2, <1>7, <1>9, <2>2 DEF RequestSound
  <2>4. Pending(d) = Pending(r)
    BY <1>5, <1>7 DEF Pending
  <2> QED BY <1>6, <1>7, <2>1, <2>3, <2>4 DEF a, b, h, d
<1> QED BY <1>8, <1>9

\* Evicting an index entry keeps the claim invariant.
LEMMA EvictKeepsClaimInv ==
  ASSUME NEW q, NEW controller,
         NEW c, ClaimInv(c, q, controller), c.at # 0
  PROVE  ClaimInv(Evict(c), q, controller)
<1> DEFINE s == SwapPop(c.ids, c.at)
           n == c.at - 1
           e == [c EXCEPT !.ids = s, !.at = n]
<1>1. /\ c \in ClaimWalks /\ c.ids \in Seq(RequestIds) /\ c.at \in Nat
      /\ Len(c.ids) \in Nat /\ c.at <= Len(c.ids)
  BY LenProperties DEF ClaimInv, ClaimWalks
<1>2. s \in Seq(RequestIds) /\ Len(s) = Len(c.ids) - 1
  BY <1>1, SwapPopSeq
<1>3. n \in Nat /\ n <= Len(s)
  BY <1>1, <1>2
<1>4. Evict(c) = e
  BY DEF Evict
<1> HIDE DEF s, n
<1>5. /\ e \in ClaimWalks /\ e.ids = s /\ e.at = n /\ e.queue = c.queue
      /\ e.shares = c.shares /\ e.assets = c.assets
  BY <1>1, <1>2, <1>3 DEF ClaimWalks
<1> HIDE DEF e
<1> QED BY <1>3, <1>4, <1>5 DEF ClaimInv

\* A draw on the request under the index cursor, field by field.
LEMMA DrawFields ==
  ASSUME NEW c \in ClaimWalks, c.at \in 1 .. Len(c.ids), NEW i \in RequestIds,
         NEW shares \in Nat, NEW paid \in Nat,
         Kept(Drawn(c.queue[i], shares, paid)) \in Request
  PROVE  /\ Draw(c, i, shares, paid) \in ClaimWalks
         /\ Draw(c, i, shares, paid).queue = [c.queue EXCEPT ![i] = Kept(Drawn(c.queue[i], shares, paid))]
         /\ Draw(c, i, shares, paid).shares = c.shares + shares
         /\ Draw(c, i, shares, paid).assets = c.assets + paid
         /\ Draw(c, i, shares, paid).at <= Len(Draw(c, i, shares, paid).ids)
         /\ Draw(c, i, shares, paid).remaining = c.remaining
<1> DEFINE e  == Kept(Drawn(c.queue[i], shares, paid))
           p  == [c.queue EXCEPT ![i] = e]
           s  == IF e.bilSettled = 0 THEN SwapPop(c.ids, c.at) ELSE c.ids
           sh == c.shares + shares
           as == c.assets + paid
           n  == c.at - 1
           d  == [c EXCEPT !.queue = p, !.ids = s, !.shares = sh, !.assets = as, !.at = n]
<1>1. /\ c.queue \in Queues /\ c.ids \in Seq(RequestIds) /\ c.at \in Nat
      /\ Len(c.ids) \in Nat /\ c.shares \in Nat /\ c.assets \in Nat
  BY LenProperties DEF ClaimWalks
<1>2. p \in Queues
  BY <1>1 DEF Queues
<1>3. s \in Seq(RequestIds) /\ (Len(s) = Len(c.ids) \/ Len(s) = Len(c.ids) - 1)
  BY <1>1, SwapPopSeq
<1>4. sh \in Nat /\ as \in Nat /\ n \in Nat /\ n <= Len(s)
  <2>1. sh \in Nat /\ as \in Nat
    BY <1>1
  <2>2. c.at \in Nat \ {0} /\ c.at <= Len(c.ids)
    BY <1>1
  <2>3. n \in Nat /\ n <= Len(c.ids) - 1
    BY <1>1, <2>2
  <2>4. Len(s) \in Nat /\ Len(s) >= Len(c.ids) - 1
    <3> HIDE DEF s, n
    <3> QED BY <1>1, <1>3
  <2> HIDE DEF s, n
  <2> QED BY <1>1, <2>1, <2>3, <2>4
<1>5. Draw(c, i, shares, paid) = d
  BY DEF Draw
<1> HIDE DEF p, s, sh, as, n
<1>6. d \in ClaimWalks
  BY <1>2, <1>3, <1>4 DEF ClaimWalks
<1>7. /\ d.queue = p /\ d.shares = sh /\ d.assets = as /\ d.at = n /\ d.ids = s
      /\ d.remaining = c.remaining
  BY DEF ClaimWalks
<1> HIDE DEF d
<1> QED BY <1>4, <1>5, <1>6, <1>7 DEF p, sh, as

\* What leaves one entry leaves the sum, and joins what was taken before.
LEMMA TakenFromSum ==
  ASSUME NEW before \in Nat, NEW old \in Nat, NEW had \in Nat, NEW taken \in Nat
  PROVE  before + had = (before - old + (old - taken)) + (had + taken)
OBVIOUS

\* A draw that takes no more than the request has, and everything owed when it
\* takes every settled share, keeps the claim invariant.
LEMMA DrawKeepsClaimInv ==
  ASSUME NEW q \in Queues, NEW controller \in Controllers,
         NEW c, ClaimInv(c, q, controller), c.at \in 1 .. Len(c.ids),
         NEW i \in RequestIds, c.queue[i].user = controller,
         NEW shares \in Nat, NEW paid \in Nat, NEW rest \in Nat,
         shares <= c.queue[i].bilSettled, paid <= c.queue[i].hollarOwed,
         shares = c.queue[i].bilSettled => paid = c.queue[i].hollarOwed
  PROVE  ClaimInv([Draw(c, i, shares, paid) EXCEPT !.remaining = rest], q, controller)
<1> DEFINE r == c.queue[i]
           e == Kept(Drawn(r, shares, paid))
           d == Draw(c, i, shares, paid)
           v == [d EXCEPT !.remaining = rest]
<1>1. /\ c \in ClaimWalks /\ c.queue \in Queues /\ r \in Request /\ RequestSound(r)
      /\ c.shares \in Nat /\ c.assets \in Nat
      /\ r.bilAmount \in Nat /\ r.bilSettled \in Nat /\ r.hollarOwed \in Nat
  BY DEF ClaimInv, ClaimWalks, Queues, Request
<1>2. r.user # NoUser /\ q[i].user = controller
  BY <1>1, QueueLibAssumption DEF ClaimInv
<1> HIDE DEF r
<1>3. /\ e \in Request /\ RequestSound(e)
      /\ e.user \in {r.user, NoUser}
      /\ Pending(e) = Pending(r)
      /\ e.bilAmount = r.bilAmount - shares
      /\ e.bilSettled = r.bilSettled - shares
      /\ e.hollarOwed = r.hollarOwed - paid
  BY <1>1, <1>2, DrawnRequest DEF r
<1>4. e = Kept(Drawn(c.queue[i], shares, paid))
  BY DEF r
<1> HIDE DEF e
<1>5. /\ d \in ClaimWalks /\ d.queue = [c.queue EXCEPT ![i] = e]
      /\ d.shares = c.shares + shares /\ d.assets = c.assets + paid
      /\ d.at <= Len(d.ids)
  <2>1. /\ c \in ClaimWalks /\ c.at \in 1 .. Len(c.ids) /\ i \in RequestIds
        /\ shares \in Nat /\ paid \in Nat /\ Kept(Drawn(c.queue[i], shares, paid)) \in Request
    BY <1>1, <1>3, <1>4
  <2>2. /\ Draw(c, i, shares, paid) \in ClaimWalks
        /\ Draw(c, i, shares, paid).queue
             = [c.queue EXCEPT ![i] = Kept(Drawn(c.queue[i], shares, paid))]
        /\ Draw(c, i, shares, paid).shares = c.shares + shares
        /\ Draw(c, i, shares, paid).assets = c.assets + paid
        /\ Draw(c, i, shares, paid).at <= Len(Draw(c, i, shares, paid).ids)
    BY ONLY <2>1, DrawFields
  <2> QED BY <1>4, <2>2
<1> HIDE DEF d
<1>6. /\ v \in ClaimWalks /\ v.queue = d.queue /\ v.at = d.at /\ v.ids = d.ids
      /\ v.shares = d.shares /\ v.assets = d.assets
  BY <1>5 DEF ClaimWalks
<1> HIDE DEF v
<1>7. /\ SumQueued(v.queue) = SumQueued(c.queue) - r.bilAmount + e.bilAmount
      /\ SumSettled(v.queue) = SumSettled(c.queue) - r.bilSettled + e.bilSettled
      /\ SumOwed(v.queue) = SumOwed(c.queue) - r.hollarOwed + e.hollarOwed
  <2>1. v.queue = [c.queue EXCEPT ![i] = e]
    BY <1>5, <1>6
  <2> HIDE DEF v
  <2> DEFINE p == [c.queue EXCEPT ![i] = e]
  <2>2. /\ SumQueued(p) = SumQueued(c.queue) - c.queue[i].bilAmount + e.bilAmount
        /\ SumSettled(p) = SumSettled(c.queue) - c.queue[i].bilSettled + e.bilSettled
        /\ SumOwed(p) = SumOwed(c.queue) - c.queue[i].hollarOwed + e.hollarOwed
    BY <1>1, <1>3, SumsOfUpdate
  <2>3. v.queue = p /\ c.queue[i] = r
    BY <2>1 DEF r
  <2> HIDE DEF p
  <2> QED BY <2>2, <2>3
<1>8. /\ SumQueued(q)  = SumQueued(v.queue) + v.shares
      /\ SumSettled(q) = SumSettled(v.queue) + v.shares
      /\ SumOwed(q)    = SumOwed(v.queue) + v.assets
  <2>1. SumQueued(c.queue) \in Nat /\ SumSettled(c.queue) \in Nat
        /\ SumOwed(c.queue) \in Nat
    BY <1>1, SumsNat
  <2>2. /\ SumQueued(q)  = SumQueued(c.queue) + c.shares
        /\ SumSettled(q) = SumSettled(c.queue) + c.shares
        /\ SumOwed(q)    = SumOwed(c.queue) + c.assets
    BY DEF ClaimInv
  <2>3. v.shares = c.shares + shares /\ v.assets = c.assets + paid
    BY <1>5, <1>6
  <2>4. /\ e.bilAmount = r.bilAmount - shares
        /\ e.bilSettled = r.bilSettled - shares
        /\ e.hollarOwed = r.hollarOwed - paid
        /\ c.shares \in Nat /\ c.assets \in Nat
        /\ r.bilAmount \in Nat /\ r.bilSettled \in Nat /\ r.hollarOwed \in Nat
    BY <1>1, <1>3
  <2> HIDE DEF v
  <2>5. SumQueued(q)  = SumQueued(v.queue) + v.shares
    <3>1. SumQueued(v.queue) = SumQueued(c.queue) - r.bilAmount + (r.bilAmount - shares)
      BY <1>7, <2>4
    <3>2. SumQueued(c.queue) + c.shares
          = (SumQueued(c.queue) - r.bilAmount + (r.bilAmount - shares)) + (c.shares + shares)
      BY <2>1, <2>4, TakenFromSum
    <3> QED BY <2>2, <2>3, <3>1, <3>2
  <2>6. SumSettled(q) = SumSettled(v.queue) + v.shares
    <3>1. SumSettled(v.queue) = SumSettled(c.queue) - r.bilSettled + (r.bilSettled - shares)
      BY <1>7, <2>4
    <3>2. SumSettled(c.queue) + c.shares
          = (SumSettled(c.queue) - r.bilSettled + (r.bilSettled - shares)) + (c.shares + shares)
      BY <2>1, <2>4, TakenFromSum
    <3> QED BY <2>2, <2>3, <3>1, <3>2
  <2>7. SumOwed(q)    = SumOwed(v.queue) + v.assets
    <3>1. SumOwed(v.queue) = SumOwed(c.queue) - r.hollarOwed + (r.hollarOwed - paid)
      BY <1>7, <2>4
    <3>2. SumOwed(c.queue) + c.assets
          = (SumOwed(c.queue) - r.hollarOwed + (r.hollarOwed - paid)) + (c.assets + paid)
      BY <2>1, <2>4, TakenFromSum
    <3> QED BY <2>2, <2>3, <3>1, <3>2
  <2> QED BY <2>5, <2>6, <2>7
<1>9. ASSUME NEW k \in RequestIds
      PROVE  /\ RequestSound(v.queue[k])
             /\ Pending(v.queue[k]) = Pending(q[k])
             /\ v.queue[k].bilSettled <= q[k].bilSettled
             /\ q[k].user # controller => v.queue[k] = q[k]
             /\ q[k].user = controller => v.queue[k].user \in {controller, NoUser}
  <2>1. /\ RequestSound(c.queue[k])
        /\ Pending(c.queue[k]) = Pending(q[k])
        /\ c.queue[k].bilSettled <= q[k].bilSettled
        /\ q[k].user # controller => c.queue[k] = q[k]
        /\ q[k].user = controller => c.queue[k].user \in {controller, NoUser}
    BY DEF ClaimInv
  <2>2. CASE k = i
    <3>1. v.queue[k] = e
      BY <1>1, <1>5, <1>6, <2>2 DEF Queues
    <3>2. q[k].bilSettled \in Nat
      BY DEF Queues, Request
    <3>3. e.bilSettled <= q[k].bilSettled
      BY <1>1, <1>3, <2>1, <2>2, <3>2 DEF r
    <3> QED BY <1>2, <1>3, <2>1, <2>2, <3>1, <3>3 DEF r
  <2>3. CASE k # i
    <3>1. v.queue[k] = c.queue[k]
      BY <1>1, <1>5, <1>6, <2>3 DEF Queues
    <3> QED BY <2>1, <3>1
  <2> QED BY <2>2, <2>3
<1>10. ClaimInv(v, q, controller)
  BY <1>5, <1>6, <1>8, <1>9 DEF ClaimInv
<1> QED BY <1>10 DEF v, d

\* One iteration of claimByShares keeps the claim invariant.
LEMMA ClaimSharesStepKeepsInv ==
  ASSUME NEW q \in Queues, NEW controller \in Controllers,
         NEW c, ClaimInv(c, q, controller)
  PROVE  ClaimInv(ClaimSharesStep(c, controller), q, controller)
<1> DEFINE i    == c.ids[c.at]
           r    == c.queue[i]
           take == Lesser(r.bilSettled, c.remaining)
           part == (take * r.hollarOwed) \div r.bilSettled
           rest == c.remaining - take
<1>1. /\ c \in ClaimWalks /\ c.ids \in Seq(RequestIds) /\ c.at \in Nat
      /\ Len(c.ids) \in Nat /\ c.at <= Len(c.ids) /\ c.remaining \in Nat
      /\ c.queue \in Queues
  BY LenProperties DEF ClaimInv, ClaimWalks
<1>2. CASE c.at = 0 \/ c.remaining = 0
  BY <1>2 DEF ClaimSharesStep
<1>3. CASE /\ ~(c.at = 0 \/ c.remaining = 0)
           /\ r.user # controller \/ r.bilSettled = 0
  <2>1. ClaimSharesStep(c, controller) = Evict(c)
    BY <1>3 DEF ClaimSharesStep
  <2> QED BY <1>3, <2>1, EvictKeepsClaimInv
<1>4. CASE /\ ~(c.at = 0 \/ c.remaining = 0)
           /\ ~(r.user # controller \/ r.bilSettled = 0)
  <2>1. ClaimSharesStep(c, controller) = [Draw(c, i, take, part) EXCEPT !.remaining = rest]
    BY <1>1, <1>4 DEF ClaimSharesStep, Draw
  <2>2. c.at \in 1 .. Len(c.ids) /\ i \in RequestIds
    BY <1>1, <1>4, ElementOfSeq
  <2> HIDE DEF i
  <2>3. /\ r.bilSettled \in Nat /\ r.hollarOwed \in Nat /\ r.bilSettled # 0
        /\ RequestSound(r) /\ r.user = controller
    BY <1>1, <1>4, <2>2 DEF ClaimInv, Queues, Request
  <2>4. take \in Nat /\ take > 0 /\ take <= r.bilSettled /\ rest \in Nat
    BY <1>1, <1>4, <2>3 DEF Lesser
  <2> HIDE DEF take, rest
  <2>5. /\ part \in Nat /\ part <= r.hollarOwed
        /\ take = r.bilSettled => part = r.hollarOwed
        /\ take < r.bilSettled /\ r.hollarOwed > 0 => part < r.hollarOwed
    <3> HIDE DEF r
    <3> QED BY <2>3, <2>4, ProRata
  <2>6. take = r.bilSettled => part = r.hollarOwed
    BY <2>5
  <2> HIDE DEF part
  <2> QED BY <2>1, <2>2, <2>3, <2>4, <2>5, <2>6, DrawKeepsClaimInv
<1> QED BY <1>2, <1>3, <1>4

\* One iteration of claimByAssets keeps the claim invariant.
LEMMA ClaimAssetsStepKeepsInv ==
  ASSUME NEW q \in Queues, NEW controller \in Controllers,
         NEW c, ClaimInv(c, q, controller)
  PROVE  ClaimInv(ClaimAssetsStep(c, controller), q, controller)
<1> DEFINE i    == c.ids[c.at]
           r    == c.queue[i]
           take == Lesser(r.hollarOwed, c.remaining)
           part == (take * r.bilSettled) \div r.hollarOwed
           rest == c.remaining - take
<1>1. /\ c \in ClaimWalks /\ c.ids \in Seq(RequestIds) /\ c.at \in Nat
      /\ Len(c.ids) \in Nat /\ c.at <= Len(c.ids) /\ c.remaining \in Nat
      /\ c.queue \in Queues
  BY LenProperties DEF ClaimInv, ClaimWalks
<1>2. CASE c.at = 0 \/ c.remaining = 0
  BY <1>2 DEF ClaimAssetsStep
<1>3. CASE /\ ~(c.at = 0 \/ c.remaining = 0)
           /\ r.user # controller \/ r.hollarOwed = 0
  <2>1. ClaimAssetsStep(c, controller) = Evict(c)
    BY <1>3 DEF ClaimAssetsStep
  <2> QED BY <1>3, <2>1, EvictKeepsClaimInv
<1>4. CASE /\ ~(c.at = 0 \/ c.remaining = 0)
           /\ ~(r.user # controller \/ r.hollarOwed = 0)
  <2>1. ClaimAssetsStep(c, controller) = [Draw(c, i, part, take) EXCEPT !.remaining = rest]
    BY <1>1, <1>4 DEF ClaimAssetsStep, Draw
  <2>2. c.at \in 1 .. Len(c.ids) /\ i \in RequestIds
    BY <1>1, <1>4, ElementOfSeq
  <2> HIDE DEF i
  <2>3. /\ r.bilSettled \in Nat /\ r.hollarOwed \in Nat /\ r.hollarOwed # 0
        /\ RequestSound(r) /\ r.user = controller
    BY <1>1, <1>4, <2>2 DEF ClaimInv, Queues, Request
  <2>4. take \in Nat /\ take > 0 /\ take <= r.hollarOwed /\ rest \in Nat
    BY <1>1, <1>4, <2>3 DEF Lesser
  <2> HIDE DEF take, rest
  <2>5. /\ part \in Nat /\ part <= r.bilSettled
        /\ take = r.hollarOwed => part = r.bilSettled
        /\ take < r.hollarOwed /\ r.bilSettled > 0 => part < r.bilSettled
    <3>1. PICK total \in Nat \ {0} : total = r.hollarOwed
      BY <2>3
    <3>2. PICK whole \in Nat : whole = r.bilSettled
      BY <2>3
    <3>3. take \in Nat /\ take <= total
      BY <2>4, <3>1
    <3> DEFINE share == (take * whole) \div total
    <3>4. /\ share \in Nat /\ share <= whole
          /\ take = total => share = whole
          /\ take < total /\ whole > 0 => share < whole
      BY <3>3, ProRata
    <3>5. part = share
      BY <3>1, <3>2
    <3> HIDE DEF share, part, r
    <3> QED BY <3>1, <3>2, <3>4, <3>5
  <2>6. part = r.bilSettled => take = r.hollarOwed
    <3>1. r.bilSettled > 0
      BY <2>3 DEF RequestSound
    <3> HIDE DEF part, r
    <3> QED BY <2>3, <2>4, <2>5, <3>1
  <2> HIDE DEF part
  <2> QED BY <2>1, <2>2, <2>3, <2>4, <2>5, <2>6, DrawKeepsClaimInv
<1> QED BY <1>2, <1>3, <1>4

\* Both claim walks, for any queue at rest, any index and any amount.
LEMMA ClaimResult ==
  ASSUME NEW q \in Queues, \A i \in RequestIds : RequestSound(q[i]),
         NEW ids \in Seq(RequestIds), NEW controller \in Controllers,
         NEW amount \in Nat
  PROVE  /\ ClaimInv(ClaimByShares(q, ids, controller, amount), q, controller)
         /\ ClaimInv(ClaimByAssets(q, ids, controller, amount), q, controller)
<1> DEFINE c0 == ClaimStart(q, ids, amount)
           F == [c \in ClaimWalks |-> ClaimSharesStep(c, controller)]
           G == [c \in ClaimWalks |-> ClaimAssetsStep(c, controller)]
           T == {c \in ClaimWalks : ClaimInv(c, q, controller)}
<1>1. Len(ids) \in Nat
  BY LenProperties
<1>2. c0 \in ClaimWalks
  BY <1>1 DEF ClaimStart, ClaimWalks
<1>3. SumQueued(q) \in Nat /\ SumSettled(q) \in Nat /\ SumOwed(q) \in Nat
  BY SumsNat
<1>4. c0 \in T
  <2>1. \A i \in RequestIds : q[i].bilSettled \in Nat
    BY DEF Queues, Request
  <2>2. /\ c0.queue = q /\ c0.ids = ids /\ c0.at = Len(ids)
        /\ c0.shares = 0 /\ c0.assets = 0
    BY DEF ClaimStart
  <2> HIDE DEF c0
  <2>3. ClaimInv(c0, q, controller)
    BY <1>1, <1>2, <1>3, <2>1, <2>2 DEF ClaimInv
  <2> QED BY <1>2, <2>3
<1>5. \A x \in T : F[x] \in T
  <2> SUFFICES ASSUME NEW x \in ClaimWalks, ClaimInv(x, q, controller)
               PROVE  ClaimSharesStep(x, controller) \in T
    OBVIOUS
  <2>1. ClaimInv(ClaimSharesStep(x, controller), q, controller)
    BY ClaimSharesStepKeepsInv
  <2> QED BY <2>1 DEF ClaimInv
<1>6. \A x \in T : G[x] \in T
  <2> SUFFICES ASSUME NEW x \in ClaimWalks, ClaimInv(x, q, controller)
               PROVE  ClaimAssetsStep(x, controller) \in T
    OBVIOUS
  <2>1. ClaimInv(ClaimAssetsStep(x, controller), q, controller)
    BY ClaimAssetsStepKeepsInv
  <2> QED BY <2>1 DEF ClaimInv
<1> HIDE DEF F, G, T, c0
<1>7. Iterate(F, c0, Len(ids)) \in T
  BY <1>1, <1>4, <1>5, IterateInvariant
<1>8. Iterate(G, c0, Len(ids)) \in T
  BY <1>1, <1>4, <1>6, IterateInvariant
<1> QED BY <1>7, <1>8 DEF ClaimByShares, ClaimByAssets, F, G, T, c0

-----------------------------------------------------------------------------
(* advanceQueueHead.                                                       *)

\* The sweep moves the head forward, inside the window, over empty slots only.
LEMMA AdvanceQueueHeadResult ==
  ASSUME NEW q \in Queues, NEW tail \in Nat, NEW head \in 0 .. tail, NEW budget \in Nat
  PROVE  LET h == AdvanceQueueHead(q, head, tail, budget)
         IN  /\ h \in head .. tail
             /\ \A i \in head .. (h - 1) : q[i].user = NoUser
<1> DEFINE holes(n) == \A i \in head .. (head + n - 1) : q[i].user = NoUser
           m == Lesser(budget, tail - head)
           R == {n \in 0 .. m : n < m => ~holes(n + 1)}
           B == {n \in Nat : n \in 0 .. m /\ (n < m => ~holes(n + 1))}
<1>1. m \in Nat /\ m <= tail - head
  BY DEF Lesser
<1> HIDE DEF m
<1>2. PICK n \in B : \A k \in B : n <= k
  <2>1. m \in B
    BY <1>1
  <2> QED BY <2>1, NatMinimal
<1>3. holes(n)
  <2>1. CASE n = 0
    BY <2>1
  <2>2. CASE n # 0
    <3>1. n - 1 \in Nat /\ n - 1 < m /\ n - 1 \notin B
      BY <1>1, <1>2, <2>2
    <3>2. holes((n - 1) + 1)
      BY <1>1, <3>1
    <3>3. (n - 1) + 1 = n
      BY <1>2
    <3> QED BY <3>2, <3>3
  <2> QED BY <2>1, <2>2
<1>4. n \in 0 .. m /\ holes(n) /\ (n < m => ~holes(n + 1))
  BY <1>2, <1>3
<1> DEFINE z == CHOOSE k \in 0 .. m : holes(k) /\ (k < m => ~holes(k + 1))
<1>5. z \in 0 .. m /\ holes(z)
  <2> HIDE DEF holes
  <2> QED BY <1>4
<1>6. AdvanceQueueHead(q, head, tail, budget) = head + z
  BY DEF AdvanceQueueHead, m
<1> HIDE DEF z
<1> QED BY <1>1, <1>5, <1>6

-----------------------------------------------------------------------------
(* The inductive invariant.                                                *)

QueueInv ==
  /\ queue \in Queues /\ settledBy \in Indexes
  /\ queueTail \in 0 .. MaxRequests /\ queueHead \in 0 .. queueTail
  /\ RequestsConsistent
  /\ CountersMatchEntries
  /\ HeadPrefixDone

\* Once there are shares at all, the first deposit's dead shares are among them.
DeadSharesKept == totalSupply > 0 => dead = DEAD_SHARES

MoneyInv ==
  /\ idleHollar \in Nat /\ hollar \in Nat
  /\ totalInvestedPrincipal \in Nat /\ yieldValue \in Nat
  /\ circulating \in Nat /\ escrow \in Nat /\ dead \in Nat
  /\ paused \in BOOLEAN /\ depositsPaused \in BOOLEAN
  /\ EscrowBacked /\ HollarBacked /\ DeadSharesKept

IInv == QueueInv /\ MoneyInv

\* The counters are naturals, and settled never exceeds queued.
LEMMA CountersNat ==
  ASSUME QueueInv
  PROVE  /\ totalQueuedBil \in Nat /\ totalSettledBil \in Nat
         /\ totalReservedHollar \in Nat
         /\ totalSettledBil <= totalQueuedBil
<1>1. queue \in Queues /\ \A i \in RequestIds : RequestSound(queue[i])
  BY DEF QueueInv, RequestsConsistent
<1>2. SumSettled(queue) <= SumQueued(queue)
  BY <1>1, SettledWithinQueued
<1> QED BY <1>1, <1>2, SumsNat DEF QueueInv, CountersMatchEntries

\* The same of the state a step leads to.
LEMMA CountersNext ==
  (IInv => /\ totalQueuedBil \in Nat /\ totalSettledBil \in Nat
           /\ totalReservedHollar \in Nat
           /\ totalSettledBil <= totalQueuedBil)'
<1>1. IInv => /\ totalQueuedBil \in Nat /\ totalSettledBil \in Nat
              /\ totalReservedHollar \in Nat
              /\ totalSettledBil <= totalQueuedBil
  BY CountersNat DEF IInv
<1> QED BY <1>1, PTL

\* The inductive invariant is stronger than the invariants the runs check.
LEMMA IInvImplies ==
  ASSUME IInv
  PROVE  /\ TypeOK /\ CountersMatchEntries /\ EscrowBacked /\ HollarBacked
         /\ RequestsConsistent /\ HeadPrefixDone /\ ActiveSupplyKept
<1>1. /\ totalQueuedBil \in Nat /\ totalSettledBil \in Nat
      /\ totalReservedHollar \in Nat /\ totalSettledBil <= totalQueuedBil
  BY CountersNat DEF IInv
<1>2. TypeOK
  BY <1>1 DEF IInv, QueueInv, MoneyInv, TypeOK
<1>3. ActiveSupplyKept
  <2>1. /\ circulating \in Nat /\ escrow \in Nat /\ dead \in Nat
        /\ escrow >= totalQueuedBil
        /\ totalSupply > 0 => dead = DEAD_SHARES
    BY DEF IInv, MoneyInv, EscrowBacked, DeadSharesKept
  <2>2. DEAD_SHARES \in Nat \ {0}
    BY VaultLedgerAssumption
  <2>3. totalSupply = circulating + escrow + dead
    BY DEF totalSupply
  <2> HIDE DEF totalSupply
  <2> SUFFICES ASSUME totalSupply > 0 PROVE activeSupply >= DEAD_SHARES
    BY DEF ActiveSupplyKept
  <2>4. totalSupply > totalSettledBil /\ totalSupply - totalSettledBil >= DEAD_SHARES
    BY <1>1, <2>1, <2>2, <2>3
  <2> QED BY <2>4 DEF activeSupply
<1> QED BY <1>2, <1>3 DEF IInv, QueueInv, MoneyInv

\* The empty vault satisfies the inductive invariant.
LEMMA InitIInv == Init => IInv
<1> SUFFICES ASSUME Init PROVE IInv
  OBVIOUS
<1>1. MaxRequests \in Nat /\ RequestIds = 0 .. (MaxRequests - 1)
  BY QueueLibAssumption DEF RequestIds
<1>2. Hole \in Request /\ RequestSound(Hole) /\ Pending(Hole) = 0
  BY DEF Hole, Request, RequestSound, Pending
<1>3. queue \in Queues /\ \A i \in RequestIds : queue[i] = Hole
  BY <1>2 DEF Init, Queues
<1>4. settledBy \in Indexes
  BY DEF Init, Indexes
<1>5. RequestsConsistent /\ HeadPrefixDone
  BY <1>2, <1>3 DEF RequestsConsistent, HeadPrefixDone
<1>6. SumQueued(queue) = 0 /\ SumSettled(queue) = 0 /\ SumOwed(queue) = 0
  <2>1. /\ \A k \in RequestIds : [i \in RequestIds |-> queue[i].bilAmount][k] = 0
        /\ \A k \in RequestIds : [i \in RequestIds |-> queue[i].bilSettled][k] = 0
        /\ \A k \in RequestIds : [i \in RequestIds |-> queue[i].hollarOwed][k] = 0
    BY <1>3 DEF Hole
  <2>2. SumQueued(queue) = 0
    BY <1>1, <2>1, SumOfZeros DEF SumQueued
  <2>3. SumSettled(queue) = 0
    BY <1>1, <2>1, SumOfZeros DEF SumSettled
  <2>4. SumOwed(queue) = 0
    BY <1>1, <2>1, SumOfZeros DEF SumOwed
  <2> QED BY <2>2, <2>3, <2>4
<1>7. QueueInv
  BY <1>1, <1>3, <1>4, <1>5, <1>6 DEF Init, QueueInv, CountersMatchEntries
<1>8. MoneyInv
  <2>1. paused \in BOOLEAN /\ depositsPaused \in BOOLEAN
    BY Zenon DEF Init
  <2>2. EscrowBacked /\ HollarBacked
    BY DEF Init, EscrowBacked, HollarBacked
  <2>3. DeadSharesKept
    BY DEF Init, DeadSharesKept, totalSupply
  <2> QED BY <2>1, <2>2, <2>3 DEF Init, MoneyInv
<1> QED BY <1>7, <1>8 DEF IInv

-----------------------------------------------------------------------------
(* Steps that leave the queue alone.                                       *)

\* A step that leaves the requests and their counters alone keeps the queue half.
LEMMA QueueUnchanged ==
  ASSUME QueueInv, UNCHANGED <<queueVars, totalVars>>
  PROVE  QueueInv'
BY DEF QueueInv, queueVars, totalVars, RequestsConsistent, CountersMatchEntries,
       HeadPrefixDone

\* What the views are made of.
LEMMA ViewsNat ==
  ASSUME IInv
  PROVE  /\ totalSupply \in Nat /\ activeSupply \in Nat
         /\ activeAssets = totalInvestedPrincipal + yieldValue + idleHollar
         /\ activeAssets \in Nat
<1>1. /\ totalSettledBil \in Nat /\ totalReservedHollar \in Nat
      /\ idleHollar \in Nat /\ totalInvestedPrincipal \in Nat /\ yieldValue \in Nat
      /\ circulating \in Nat /\ escrow \in Nat /\ dead \in Nat
  BY CountersNat DEF IInv, MoneyInv
<1>2. totalSupply \in Nat
  BY <1>1 DEF totalSupply
<1>3. activeSupply \in Nat
  BY <1>1, <1>2 DEF activeSupply
<1>4. activeAssets = totalInvestedPrincipal + yieldValue + idleHollar
      /\ activeAssets \in Nat
  BY <1>1 DEF activeAssets, totalAssets
<1> QED BY <1>2, <1>3, <1>4

\* A rate is a natural, rounded down.
LEMMA RateNat ==
  ASSUME IInv, NEW assets \in Nat
  PROVE  /\ RateOf(assets) \in Nat
         /\ activeSupply > 0 => activeSupply * RateOf(assets) <= assets * WAD
<1>1. WAD \in Nat /\ assets * WAD \in Nat /\ activeSupply \in Nat
  BY ViewsNat, QueueLibAssumption
<1>2. CASE activeSupply = 0
  BY <1>1, <1>2 DEF RateOf
<1>3. CASE activeSupply # 0
  <2>1. activeSupply \in Nat \ {0} /\ RateOf(assets) = (assets * WAD) \div activeSupply
    BY <1>1, <1>3 DEF RateOf
  <2> QED BY <1>1, <2>1, DivBounds
<1> QED BY <1>2, <1>3

\* A maturity sync never takes more yield than there is, and an idle pool earns none.
LEMMA SyncedNat ==
  ASSUME IInv
  PROVE  /\ SyncedYields \subseteq Nat
         /\ totalInvestedPrincipal = 0 /\ yieldValue = 0 => SyncedYields \subseteq {0}
<1>1. yieldValue \in Nat /\ totalInvestedPrincipal \in Nat
      /\ SyncDust \in Nat /\ SyncCatchUp \in Nat
  BY VaultLedgerAssumption DEF IInv, MoneyInv
<1> QED BY <1>1 DEF SyncedYields

\* Naturals are closed under addition, and a positive term makes a sum positive.
LEMMA NatSum ==
  /\ \A a, b \in Nat : a + b \in Nat
  /\ \A a \in Nat : \A b \in Nat \ {0} : a + b > 0
OBVIOUS

\* What the views are made of, in the successor state.
LEMMA ViewsNext ==
  ASSUME IInv'
  PROVE  /\ totalInvestedPrincipal' \in Nat /\ yieldValue' \in Nat /\ idleHollar' \in Nat
         /\ totalReservedHollar' \in Nat
         /\ circulating' \in Nat /\ escrow' \in Nat /\ dead' \in Nat
         /\ activeAssets' = totalInvestedPrincipal' + yieldValue' + idleHollar'
         /\ activeAssets' \in Nat
         /\ totalSupply' = circulating' + escrow' + dead'
<1>1. /\ totalInvestedPrincipal' \in Nat /\ yieldValue' \in Nat /\ idleHollar' \in Nat
      /\ circulating' \in Nat /\ escrow' \in Nat /\ dead' \in Nat
  BY DEF IInv, MoneyInv
<1>2. totalReservedHollar' \in Nat
  <2>1. totalReservedHollar' = SumOwed(queue') /\ queue' \in Queues
    BY DEF IInv, QueueInv, CountersMatchEntries
  <2> QED BY <2>1, SumsNat
<1>3. activeAssets' = totalInvestedPrincipal' + yieldValue' + idleHollar'
  BY <1>1, <1>2 DEF activeAssets, totalAssets
<1>4. totalInvestedPrincipal' + yieldValue' \in Nat
  BY <1>1, NatSum
<1>5. activeAssets' \in Nat
  BY <1>1, <1>3, <1>4, NatSum
<1> QED BY <1>1, <1>2, <1>3, <1>5 DEF totalSupply

\* What a deposit mints and what a mint costs are naturals.
LEMMA PreviewsNat ==
  ASSUME IInv, NEW n \in Nat
  PROVE  previewDeposit(n) \in Nat /\ previewMint(n) \in Nat
<1>1. /\ totalSupply \in Nat /\ activeSupply \in Nat /\ activeAssets \in Nat
      /\ DEAD_SHARES \in Nat
  BY ViewsNat, VaultLedgerAssumption
<1>2. previewDeposit(n) \in Nat
  <2>1. n <= DEAD_SHARES \/ n - DEAD_SHARES \in Nat
    BY <1>1
  <2>2. n * activeSupply \in Nat
    BY <1>1
  <2>3. activeAssets # 0 => (n * activeSupply) \div activeAssets \in Nat
    BY <1>1, <2>2, DivBounds
  <2> QED BY <2>1, <2>3 DEF previewDeposit
<1>3. previewMint(n) \in Nat
  <2>1. n * activeAssets \in Nat
    BY <1>1
  <2>2. ASSUME activeSupply # 0
        PROVE  (n * activeAssets + activeSupply - 1) \div activeSupply \in Nat
    <3>1. n * activeAssets + activeSupply - 1 \in Nat
      BY <1>1, <2>1, <2>2
    <3> QED BY <1>1, <2>2, <3>1, DivBounds
  <2> QED BY <1>1, <2>2 DEF previewMint
<1> QED BY <1>2, <1>3

\* A deposit or mint keeps the invariant: it adds shares and principal and leaves
\* the queue alone.
LEMMA TakeDepositKeepsIInv ==
  ASSUME IInv, NEW assets \in Nat, NEW shares \in Nat, TakeDeposit(assets, shares)
  PROVE  IInv'
<1>1. QueueInv'
  BY QueueUnchanged DEF IInv, TakeDeposit
<1>2. MoneyInv'
  <2>1. DEAD_SHARES \in Nat
    BY VaultLedgerAssumption
  <2>2. /\ circulating' \in Nat /\ dead' \in Nat /\ totalInvestedPrincipal' \in Nat
    BY <2>1 DEF IInv, MoneyInv, TakeDeposit, DeadAfterDeposit
  <2>3. dead' = DEAD_SHARES
    <3>1. totalSupply \in Nat
      BY ViewsNat
    <3> QED BY <3>1 DEF IInv, MoneyInv, TakeDeposit, DeadAfterDeposit, DeadSharesKept
  <2> QED BY <2>2, <2>3 DEF IInv, MoneyInv, TakeDeposit, EscrowBacked, HollarBacked,
             DeadSharesKept, hollarVars, flagVars, totalVars
<1> QED BY <1>1, <1>2 DEF IInv

-----------------------------------------------------------------------------
(* Steps that change requests.                                             *)

\* requestRedeem keeps the invariant: the new request fills the free slot at
\* queueTail and its shares move into escrow.
LEMMA RequestRedeemKeepsIInv ==
  ASSUME IInv, NEW controller \in Controllers, NEW shares \in Nat,
         RequestRedeem(controller, shares)
  PROVE  IInv'
<1> DEFINE r == [user |-> controller, bilAmount |-> shares,
                 bilSettled |-> 0, hollarOwed |-> 0]
<1>1. /\ queue \in Queues /\ queueTail \in RequestIds /\ queueTail \in Nat
      /\ queueHead \in 0 .. queueTail /\ queueTail + 1 \in 0 .. MaxRequests
      /\ queue[queueTail] = Hole /\ controller # NoUser /\ shares > 0
      /\ MaxRequests \in Nat /\ RequestIds = 0 .. (MaxRequests - 1)
  <2>1. queue \in Queues /\ queueTail \in Nat /\ queueHead \in 0 .. queueTail
        /\ MaxRequests \in Nat /\ queueTail < MaxRequests
        /\ RequestIds = 0 .. (MaxRequests - 1)
    BY QueueLibAssumption DEF IInv, QueueInv, RequestRedeem, RequestIds
  <2>2. queueTail \in RequestIds
    BY <2>1
  <2>3. queue[queueTail] = Hole
    BY <2>1, <2>2 DEF IInv, QueueInv, RequestsConsistent
  <2>4. shares > 0
    BY VaultLedgerAssumption DEF RequestRedeem
  <2> QED BY <2>1, <2>2, <2>3, <2>4, QueueLibAssumption
<1>2. /\ r \in Request /\ r.user = controller /\ r.bilAmount = shares
      /\ r.bilSettled = 0 /\ r.hollarOwed = 0
  BY <1>1 DEF Request
<1>3. queue' = [queue EXCEPT ![queueTail] = r] /\ queueTail' = queueTail + 1
  BY DEF RequestRedeem
<1> HIDE DEF r
<1>4. /\ queue' \in Queues
      /\ SumQueued(queue') = SumQueued(queue) + shares
      /\ SumSettled(queue') = SumSettled(queue)
      /\ SumOwed(queue') = SumOwed(queue)
  <2>1. /\ queue' \in Queues
        /\ SumQueued(queue')  = SumQueued(queue) - 0 + shares
        /\ SumSettled(queue') = SumSettled(queue) - 0 + 0
        /\ SumOwed(queue')    = SumOwed(queue) - 0 + 0
    <3>1. /\ queue[queueTail].bilAmount = 0 /\ queue[queueTail].bilSettled = 0
          /\ queue[queueTail].hollarOwed = 0
      BY <1>1 DEF Hole
    <3>2. /\ queue' \in Queues
          /\ SumQueued(queue')  = SumQueued(queue) - queue[queueTail].bilAmount + r.bilAmount
          /\ SumSettled(queue') = SumSettled(queue) - queue[queueTail].bilSettled + r.bilSettled
          /\ SumOwed(queue')    = SumOwed(queue) - queue[queueTail].hollarOwed + r.hollarOwed
      BY <1>1, <1>2, <1>3, SumsOfUpdate
    <3> QED BY <1>2, <3>1, <3>2
  <2>2. SumQueued(queue) \in Nat /\ SumSettled(queue) \in Nat /\ SumOwed(queue) \in Nat
    BY <1>1, SumsNat
  <2> QED BY <2>1, <2>2
<1>5. ASSUME NEW i \in RequestIds
      PROVE  /\ RequestSound(queue'[i])
             /\ i >= queueTail' => queue'[i] = Hole
             /\ i < queueHead' => Pending(queue'[i]) = 0
  <2>1. /\ RequestSound(queue[i])
        /\ i >= queueTail => queue[i] = Hole
        /\ i < queueHead => Pending(queue[i]) = 0
    BY DEF IInv, QueueInv, RequestsConsistent, HeadPrefixDone
  <2>2. queueHead' = queueHead /\ i \in Nat
    BY <1>1 DEF RequestRedeem
  <2>3. CASE i = queueTail
    <3>1. queue'[i] = r
      BY <1>1, <1>3, <2>3 DEF Queues
    <3>2. RequestSound(r)
      BY <1>1, <1>2 DEF RequestSound, Hole
    <3> QED BY <1>1, <1>3, <2>2, <2>3, <3>1, <3>2
  <2>4. CASE i # queueTail
    <3>1. queue'[i] = queue[i]
      BY <1>1, <1>3, <2>4 DEF Queues
    <3>2. i >= queueTail' => i >= queueTail
      BY <1>1, <1>3, <2>2
    <3> QED BY <2>1, <2>2, <3>1, <3>2
  <2> QED BY <2>3, <2>4
<1>6. CountersMatchEntries'
  BY <1>4 DEF CountersMatchEntries, IInv, QueueInv, RequestRedeem
<1>7. QueueInv'
  <2>1. RequestsConsistent' /\ HeadPrefixDone'
    BY <1>5 DEF RequestsConsistent, HeadPrefixDone
  <2>2. settledBy' \in Indexes /\ queueTail' \in 0 .. MaxRequests
        /\ queueHead' \in 0 .. queueTail'
    BY <1>1 DEF IInv, QueueInv, RequestRedeem
  <2> QED BY <1>4, <1>6, <2>1, <2>2 DEF QueueInv
<1>8. MoneyInv'
  <2>1. totalQueuedBil \in Nat /\ totalReservedHollar' = totalReservedHollar
        /\ totalQueuedBil' = totalQueuedBil + shares
    BY CountersNat DEF IInv, RequestRedeem
  <2>2. /\ circulating' = circulating - shares /\ escrow' = escrow + shares
        /\ circulating \in Nat /\ escrow \in Nat /\ dead \in Nat
        /\ shares <= circulating /\ dead' = dead
    BY DEF IInv, MoneyInv, RequestRedeem, TransferToVault
  <2>3. circulating' \in Nat /\ escrow' \in Nat /\ totalSupply' = totalSupply
    BY <2>2 DEF totalSupply
  <2>4. EscrowBacked'
    BY <2>1, <2>2 DEF IInv, MoneyInv, EscrowBacked
  <2>5. DeadSharesKept'
    BY <2>2, <2>3 DEF IInv, MoneyInv, DeadSharesKept
  <2> QED BY <2>1, <2>2, <2>3, <2>4, <2>5 DEF IInv, MoneyInv, RequestRedeem, HollarBacked,
             venueVars, hollarVars, flagVars
<1> QED BY <1>7, <1>8 DEF IInv

\* cancelRedeem keeps the invariant: the refunded shares leave the counter, the
\* entry and the escrow together, and the sweep of queueHead passes only holes.
LEMMA CancelRedeemKeepsIInv ==
  ASSUME IInv, NEW id \in RequestIds, CancelRedeem(id)
  PROVE  IInv'
<1> DEFINE r == queue[id]
           s == IF r.bilSettled = 0 THEN Hole ELSE [r EXCEPT !.bilAmount = r.bilSettled]
<1>1. /\ queue \in Queues /\ r \in Request /\ RequestSound(r) /\ r.user # NoUser
      /\ r.bilAmount \in Nat /\ r.bilSettled \in Nat /\ r.hollarOwed \in Nat
      /\ Pending(r) = r.bilAmount - r.bilSettled /\ Pending(r) \in Nat
      /\ queueTail \in Nat /\ queueHead \in 0 .. queueTail /\ id < queueTail
      /\ id \in Nat
  <2>1. queue \in Queues /\ queueTail \in Nat /\ queueHead \in 0 .. queueTail
        /\ RequestSound(r) /\ r.user # NoUser /\ id < queueTail /\ id \in Nat
    BY QueueLibAssumption DEF IInv, QueueInv, RequestsConsistent, CancelRedeem, RequestIds
  <2>2. r \in Request
    BY <2>1 DEF Queues
  <2>3. /\ r.bilAmount \in Nat /\ r.bilSettled \in Nat /\ r.hollarOwed \in Nat
        /\ r.bilSettled <= r.bilAmount
    BY <2>1, <2>2 DEF Request, RequestSound
  <2>4. Pending(r) = r.bilAmount - r.bilSettled
    BY DEF Pending
  <2> QED BY <2>1, <2>2, <2>3, <2>4
<1>2. queue' = [queue EXCEPT ![id] = s]
  BY DEF CancelRedeem
<1> HIDE DEF r
<1>3. /\ s \in Request /\ RequestSound(s) /\ Pending(s) = 0
      /\ s.bilAmount = r.bilSettled /\ s.bilSettled = r.bilSettled
      /\ s.hollarOwed = r.hollarOwed
  <2>1. CASE r.bilSettled = 0
    <3>1. s = Hole /\ r.hollarOwed = 0
      BY <1>1, <2>1 DEF RequestSound
    <3> QED BY <2>1, <3>1 DEF Hole, Request, RequestSound, Pending
  <2>2. CASE r.bilSettled # 0
    <3>1. s = [r EXCEPT !.bilAmount = r.bilSettled]
      BY <2>2
    <3> HIDE DEF s
    <3>2. s \in Request
      BY <1>1, <3>1 DEF Request
    <3>3. /\ s.bilAmount = r.bilSettled /\ s.bilSettled = r.bilSettled
          /\ s.hollarOwed = r.hollarOwed /\ s.user = r.user
      BY <1>1, <3>1 DEF Request
    <3>4. s # Hole
      BY <1>1, <3>3 DEF Hole
    <3>5. RequestSound(s)
      BY <1>1, <2>2, <3>3, <3>4 DEF RequestSound
    <3> QED BY <1>1, <3>2, <3>3, <3>5 DEF Pending
  <2> QED BY <2>1, <2>2
<1> HIDE DEF s
<1>4. /\ queue' \in Queues
      /\ SumQueued(queue') = SumQueued(queue) - Pending(r)
      /\ SumSettled(queue') = SumSettled(queue)
      /\ SumOwed(queue') = SumOwed(queue)
  <2>1. /\ queue' \in Queues
        /\ SumQueued(queue')  = SumQueued(queue) - r.bilAmount + r.bilSettled
        /\ SumSettled(queue') = SumSettled(queue) - r.bilSettled + r.bilSettled
        /\ SumOwed(queue')    = SumOwed(queue) - r.hollarOwed + r.hollarOwed
    <3> DEFINE p == [queue EXCEPT ![id] = s]
    <3>1. /\ p \in Queues
          /\ SumQueued(p)  = SumQueued(queue) - queue[id].bilAmount + s.bilAmount
          /\ SumSettled(p) = SumSettled(queue) - queue[id].bilSettled + s.bilSettled
          /\ SumOwed(p)    = SumOwed(queue) - queue[id].hollarOwed + s.hollarOwed
      BY <1>1, <1>3, SumsOfUpdate
    <3>2. queue' = p /\ queue[id] = r
      BY <1>2 DEF r
    <3> HIDE DEF p
    <3> QED BY <1>3, <3>1, <3>2
  <2>2. SumQueued(queue) \in Nat /\ SumSettled(queue) \in Nat /\ SumOwed(queue) \in Nat
    BY <1>1, SumsNat
  <2> QED BY <1>1, <2>1, <2>2
<1>5. ASSUME NEW i \in RequestIds
      PROVE  /\ RequestSound(queue'[i])
             /\ i >= queueTail => queue'[i] = Hole
             /\ i < queueHead => Pending(queue'[i]) = 0
  <2>1. /\ RequestSound(queue[i])
        /\ i >= queueTail => queue[i] = Hole
        /\ i < queueHead => Pending(queue[i]) = 0
    BY DEF IInv, QueueInv, RequestsConsistent, HeadPrefixDone
  <2>2. CASE i = id
    <3>1. queue'[i] = s /\ ~(i >= queueTail)
      BY <1>1, <1>2, <2>2 DEF Queues
    <3> QED BY <1>3, <3>1
  <2>3. CASE i # id
    <3>1. queue'[i] = queue[i]
      BY <1>1, <1>2, <2>3 DEF Queues
    <3> QED BY <2>1, <3>1
  <2> QED BY <2>2, <2>3
<1>6. /\ queueHead' \in queueHead .. queueTail
      /\ \A i \in queueHead .. (queueHead' - 1) : queue'[i].user = NoUser
  <2>1. CASE queueHead' = queueHead
    BY <1>1, <2>1
  <2>2. CASE queueHead' = AdvanceQueueHead(queue', queueHead, queueTail, MAX_QUEUE_ITERATIONS)
    BY <1>1, <1>4, <2>2, AdvanceQueueHeadResult, QueueLibAssumption
  <2> QED BY <2>1, <2>2 DEF CancelRedeem
<1>7. HeadPrefixDone'
  <2> SUFFICES ASSUME NEW i \in RequestIds, i < queueHead' PROVE Pending(queue'[i]) = 0
    BY DEF HeadPrefixDone
  <2>1. i \in Nat
    BY DEF RequestIds
  <2>2. CASE i < queueHead
    BY <1>5, <2>2
  <2>3. CASE ~(i < queueHead)
    <3>1. i \in queueHead .. (queueHead' - 1)
      BY <1>1, <1>6, <2>1, <2>3
    <3>2. queue'[i] = Hole
      BY <1>5, <1>6, <3>1 DEF RequestSound
    <3> QED BY <3>2 DEF Pending, Hole
  <2> QED BY <2>2, <2>3
<1>8. QueueInv'
  <2>1. CountersMatchEntries'
    BY <1>4 DEF CountersMatchEntries, IInv, QueueInv, CancelRedeem, r
  <2>2. RequestsConsistent'
    BY <1>5 DEF RequestsConsistent, CancelRedeem
  <2>3. settledBy' \in Indexes /\ queueTail' = queueTail /\ queueTail \in 0 .. MaxRequests
    BY DEF IInv, QueueInv, CancelRedeem
  <2>4. queueHead' \in 0 .. queueTail'
    BY <1>1, <1>6, <2>3
  <2> QED BY <1>4, <1>7, <2>1, <2>2, <2>3, <2>4 DEF QueueInv
<1>9. MoneyInv'
  <2>1. /\ totalQueuedBil \in Nat /\ totalQueuedBil' = totalQueuedBil - Pending(r)
        /\ totalQueuedBil = SumQueued(queue)
        /\ totalReservedHollar' = totalReservedHollar
    BY CountersNat DEF IInv, QueueInv, CountersMatchEntries, CancelRedeem, r
  <2>2. Pending(r) <= totalQueuedBil
    <3>1. r.bilAmount <= SumQueued(queue)
      BY <1>1, SumsNat DEF r
    <3> QED BY <1>1, <2>1, <3>1
  <2>3. /\ circulating' = circulating + Pending(r) /\ escrow' = escrow - Pending(r)
        /\ circulating \in Nat /\ escrow \in Nat /\ dead \in Nat
        /\ escrow >= totalQueuedBil /\ dead' = dead
    BY DEF IInv, MoneyInv, EscrowBacked, CancelRedeem, r
  <2>4. circulating' \in Nat /\ escrow' \in Nat /\ totalSupply' = totalSupply
    BY <1>1, <2>1, <2>2, <2>3 DEF totalSupply
  <2>5. EscrowBacked'
    BY <1>1, <2>1, <2>3 DEF EscrowBacked
  <2>6. DeadSharesKept'
    BY <2>3, <2>4 DEF IInv, MoneyInv, DeadSharesKept
  <2> QED BY <2>1, <2>3, <2>4, <2>5, <2>6 DEF IInv, MoneyInv, CancelRedeem, HollarBacked,
             venueVars, hollarVars, flagVars
<1> QED BY <1>8, <1>9 DEF IInv

-----------------------------------------------------------------------------
(* Claims.                                                                 *)

\* Applying a claim walk's result keeps the invariant: shares burned and HOLLAR
\* paid are what the walk took off the entries.
LEMMA ApplyClaimKeepsIInv ==
  ASSUME IInv, NEW controller \in Controllers, NEW c,
         ClaimInv(c, queue, controller), ApplyClaim(controller, c)
  PROVE  IInv'
<1>1. /\ queue \in Queues /\ settledBy \in Indexes
      /\ queueTail \in 0 .. MaxRequests /\ queueHead \in 0 .. queueTail
      /\ controller # NoUser
  BY QueueLibAssumption DEF IInv, QueueInv
<1>2. /\ c \in ClaimWalks /\ c.queue \in Queues /\ c.ids \in Seq(RequestIds)
      /\ c.shares \in Nat /\ c.assets \in Nat
  BY DEF ClaimInv, ClaimWalks
<1>3. /\ queue' = c.queue /\ queueHead' = queueHead /\ queueTail' = queueTail
      /\ settledBy' = [settledBy EXCEPT ![controller] = c.ids]
  BY DEF ApplyClaim
<1>4. /\ SumQueued(c.queue) \in Nat /\ SumSettled(c.queue) \in Nat
      /\ SumOwed(c.queue) \in Nat
  BY <1>2, SumsNat
<1>5. /\ totalQueuedBil' = SumQueued(c.queue)
      /\ totalSettledBil' = SumSettled(c.queue)
      /\ totalReservedHollar' = SumOwed(c.queue)
  BY <1>2, <1>4 DEF IInv, QueueInv, CountersMatchEntries, ApplyClaim, ClaimInv
<1>6. ASSUME NEW i \in RequestIds
      PROVE  /\ RequestSound(queue'[i])
             /\ i >= queueTail' => queue'[i] = Hole
             /\ i < queueHead' => Pending(queue'[i]) = 0
  <2>1. /\ RequestSound(queue[i])
        /\ i >= queueTail => queue[i] = Hole
        /\ i < queueHead => Pending(queue[i]) = 0
    BY DEF IInv, QueueInv, RequestsConsistent, HeadPrefixDone
  <2>2. /\ RequestSound(c.queue[i]) /\ Pending(c.queue[i]) = Pending(queue[i])
        /\ queue[i].user # controller => c.queue[i] = queue[i]
    BY DEF ClaimInv
  <2>3. queue[i] = Hole => c.queue[i] = Hole
    BY <1>1, <2>2 DEF Hole
  <2> QED BY <1>3, <2>1, <2>2, <2>3
<1>7. QueueInv'
  <2>1. settledBy' \in Indexes
    BY <1>1, <1>2, <1>3 DEF Indexes
  <2>2. RequestsConsistent' /\ HeadPrefixDone'
    BY <1>6 DEF RequestsConsistent, HeadPrefixDone
  <2>3. CountersMatchEntries'
    BY <1>3, <1>5 DEF CountersMatchEntries
  <2> QED BY <1>1, <1>2, <1>3, <2>1, <2>2, <2>3 DEF QueueInv
<1>8. MoneyInv'
  <2>1. /\ totalQueuedBil \in Nat /\ totalReservedHollar \in Nat
        /\ totalQueuedBil' = totalQueuedBil - c.shares
        /\ totalReservedHollar' = totalReservedHollar - c.assets
        /\ totalQueuedBil' \in Nat /\ totalReservedHollar' \in Nat
    BY <1>4, <1>5, CountersNat DEF IInv, ApplyClaim
  <2>2. /\ escrow' = escrow - c.shares /\ hollar' = hollar - c.assets
        /\ circulating' = circulating /\ dead' = dead /\ idleHollar' = idleHollar
        /\ totalInvestedPrincipal' = totalInvestedPrincipal /\ yieldValue' = yieldValue
        /\ paused' = paused /\ depositsPaused' = depositsPaused
    BY DEF ApplyClaim, venueVars, flagVars
  <2>3. /\ escrow \in Nat /\ hollar \in Nat /\ idleHollar \in Nat
        /\ circulating \in Nat /\ dead \in Nat
        /\ escrow >= totalQueuedBil /\ hollar >= idleHollar + totalReservedHollar
        /\ totalSupply > 0 => dead = DEAD_SHARES
    BY DEF IInv, MoneyInv, EscrowBacked, HollarBacked, DeadSharesKept
  <2>4. escrow' \in Nat /\ escrow' >= totalQueuedBil'
    <3>1. /\ escrow \in Nat /\ escrow >= totalQueuedBil /\ escrow' = escrow - c.shares
          /\ totalQueuedBil' = totalQueuedBil - c.shares /\ totalQueuedBil' \in Nat
          /\ totalQueuedBil \in Nat
      BY <2>1, <2>2, <2>3
    <3>2. c.shares \in Nat
      BY <1>2
    <3> QED BY <3>1, <3>2
  <2>5. hollar' \in Nat /\ hollar' >= idleHollar' + totalReservedHollar'
    <3>1. hollar - c.assets >= idleHollar + (totalReservedHollar - c.assets)
          /\ totalReservedHollar - c.assets \in Nat
      BY <1>2, <2>1, <2>3
    <3>2. hollar - c.assets \in Nat
      BY <1>2, <2>3, <3>1
    <3> QED BY <2>1, <2>2, <3>1, <3>2
  <2>6. totalSupply' > 0 => totalSupply > 0
    BY <1>2, <2>2, <2>3, <2>4 DEF totalSupply
  <2>7. DeadSharesKept'
    BY <2>2, <2>3, <2>6 DEF DeadSharesKept
  <2> QED BY <2>2, <2>4, <2>5, <2>7 DEF IInv, MoneyInv, EscrowBacked, HollarBacked
<1> QED BY <1>7, <1>8 DEF IInv

\* redeem and withdraw keep the invariant.
LEMMA ClaimsKeepIInv ==
  ASSUME IInv, NEW controller \in Controllers, NEW n \in Nat
  PROVE  /\ Redeem(controller, n) => IInv'
         /\ Withdraw(controller, n) => IInv'
<1>1. /\ queue \in Queues /\ \A i \in RequestIds : RequestSound(queue[i])
      /\ settledBy[controller] \in Seq(RequestIds)
  BY DEF IInv, QueueInv, RequestsConsistent, Indexes
<1>2. /\ ClaimInv(ClaimByShares(queue, settledBy[controller], controller, n), queue, controller)
      /\ ClaimInv(ClaimByAssets(queue, settledBy[controller], controller, n), queue, controller)
  BY <1>1, ClaimResult
<1> QED BY <1>2, ApplyClaimKeepsIInv DEF Redeem, Withdraw

\* A claim only takes HOLLAR out of the vault.
LEMMA ClaimsPayOut ==
  ASSUME IInv, NEW controller \in Controllers, NEW n \in Nat,
         Redeem(controller, n) \/ Withdraw(controller, n)
  PROVE  hollar' <= hollar
<1>1. /\ queue \in Queues /\ \A i \in RequestIds : RequestSound(queue[i])
      /\ settledBy[controller] \in Seq(RequestIds) /\ hollar \in Nat
  BY DEF IInv, QueueInv, MoneyInv, RequestsConsistent, Indexes
<1>2. ASSUME NEW c, ClaimInv(c, queue, controller), ApplyClaim(controller, c)
      PROVE  hollar' <= hollar
  <2>1. c.assets \in Nat /\ hollar' = hollar - c.assets
    BY <1>2 DEF ClaimInv, ClaimWalks, ApplyClaim
  <2> QED BY <1>1, <2>1
<1>3. /\ ClaimInv(ClaimByShares(queue, settledBy[controller], controller, n), queue, controller)
      /\ ClaimInv(ClaimByAssets(queue, settledBy[controller], controller, n), queue, controller)
  BY <1>1, ClaimResult
<1> QED BY <1>2, <1>3 DEF Redeem, Withdraw

-----------------------------------------------------------------------------
(* Settlement.                                                             *)

\* Whatever HOLLAR and rate a settlement is given, it keeps the queue half of
\* the invariant and spends no more than it was given.
LEMMA SettlementKeepsQueueInv ==
  ASSUME QueueInv, NEW available \in Nat, NEW rate \in Nat,
         ApplySettlement(Settlement(available, rate))
  PROVE  /\ QueueInv'
         /\ totalQueuedBil' = totalQueuedBil
         /\ Settlement(available, rate).used \in Nat
         /\ Settlement(available, rate).used <= available
         /\ totalReservedHollar' = totalReservedHollar + Settlement(available, rate).used
<1> DEFINE w == Settlement(available, rate)
<1>1. /\ queue \in Queues /\ settledBy \in Indexes
      /\ queueTail \in 0 .. MaxRequests /\ queueHead \in 0 .. queueTail
      /\ \A i \in RequestIds :
           RequestSound(queue[i]) /\ (i < queueHead => Pending(queue[i]) = 0)
  BY DEF QueueInv, RequestsConsistent, HeadPrefixDone
<1>2. WalkInv(w, queue, queueTail, available, rate)
  BY <1>1, ProcessQueueResult DEF Settlement
<1>3. /\ queue' = w.queue /\ settledBy' = w.settledBy /\ queueHead' = w.head
      /\ totalReservedHollar' = totalReservedHollar + w.used
      /\ totalSettledBil' = totalSettledBil + w.locked
      /\ queueTail' = queueTail /\ totalQueuedBil' = totalQueuedBil
  BY DEF ApplySettlement
<1> HIDE DEF w
<1>4. /\ w.queue \in Queues /\ w.settledBy \in Indexes /\ w.head \in Nat
      /\ w.used \in Nat /\ w.available \in Nat /\ w.locked \in Nat /\ w.head <= queueTail
      /\ w.used + w.available <= available
  BY <1>2 DEF WalkInv, QueueWalks
<1>5. w.used <= available
  BY <1>4
<1>6. ASSUME NEW i \in RequestIds
      PROVE  /\ RequestSound(w.queue[i])
             /\ w.queue[i].bilAmount = queue[i].bilAmount
             /\ i >= queueTail => w.queue[i] = queue[i]
             /\ i < w.head => Pending(w.queue[i]) = 0
  <2>1. i \in Nat /\ queueTail \in Nat
    BY <1>1, QueueLibAssumption DEF RequestIds
  <2> QED BY <1>2, <2>1 DEF WalkInv
<1>7. SumQueued(w.queue) = SumQueued(queue)
  BY <1>6 DEF SumQueued
<1>8. CountersMatchEntries'
  <2>1. /\ SumSettled(w.queue) = SumSettled(queue) + w.locked
        /\ SumOwed(w.queue) = SumOwed(queue) + w.used
    BY <1>2 DEF WalkInv
  <2> QED BY <1>3, <1>7, <2>1 DEF QueueInv, CountersMatchEntries
<1>9. RequestsConsistent' /\ HeadPrefixDone'
  BY <1>3, <1>6 DEF QueueInv, RequestsConsistent, HeadPrefixDone
<1>10. QueueInv'
  BY <1>1, <1>3, <1>4, <1>8, <1>9 DEF QueueInv
<1> QED BY <1>3, <1>4, <1>5, <1>10 DEF w

\* The money half of the invariant, for a step that moves no shares: what is
\* left to prove is that the vault's HOLLAR still covers what it must.
LEMMA SharesUnchanged ==
  ASSUME IInv, UNCHANGED shareVars, totalQueuedBil' = totalQueuedBil,
         idleHollar' \in Nat, hollar' \in Nat,
         totalInvestedPrincipal' \in Nat, yieldValue' \in Nat,
         paused' \in BOOLEAN, depositsPaused' \in BOOLEAN,
         HollarBacked'
  PROVE  MoneyInv'
<1>1. EscrowBacked' /\ DeadSharesKept'
  BY DEF IInv, MoneyInv, EscrowBacked, DeadSharesKept, totalSupply, shareVars
<1> QED BY <1>1 DEF IInv, MoneyInv, shareVars

\* pokeQueue keeps the invariant: what it reserves or reinvests was idle.
LEMMA PokeQueueKeepsIInv ==
  ASSUME IInv, PokeQueue
  PROVE  IInv'
<1>1. /\ idleHollar \in Nat /\ hollar \in Nat /\ totalInvestedPrincipal \in Nat
      /\ totalReservedHollar \in Nat
      /\ hollar >= idleHollar + totalReservedHollar
      /\ QueueInv
      /\ paused \in BOOLEAN /\ depositsPaused \in BOOLEAN
  BY CountersNat DEF IInv, MoneyInv, HollarBacked
<1>2. PICK synced \in SyncedYields, accepted \in BOOLEAN :
        LET s      == Settlement(idleHollar,
                                 RateOf(totalInvestedPrincipal + synced + idleHollar))
            amount == IF accepted THEN ReinvestAmount(s.used) ELSE 0
        IN  /\ ApplySettlement(s)
            /\ idleHollar' = idleHollar - s.used - amount
            /\ totalInvestedPrincipal' = totalInvestedPrincipal + amount
            /\ hollar' = hollar - amount
            /\ yieldValue' = synced
            /\ UNCHANGED <<shareVars, flagVars>>
  BY DEF PokeQueue
<1> DEFINE rate   == RateOf(totalInvestedPrincipal + synced + idleHollar)
           w      == Settlement(idleHollar, rate)
<1>8. synced \in Nat /\ rate \in Nat
  BY <1>1, SyncedNat, RateNat
<1>9. ApplySettlement(w)
  BY <1>2
<1> DEFINE amount == IF accepted THEN ReinvestAmount(w.used) ELSE 0
<1>3. /\ QueueInv' /\ totalQueuedBil' = totalQueuedBil
      /\ w.used \in Nat /\ w.used <= idleHollar
      /\ totalReservedHollar' = totalReservedHollar + w.used
  <2> HIDE DEF rate
  <2> QED BY <1>1, <1>8, <1>9, SettlementKeepsQueueInv
<1>5. /\ idleHollar' = idleHollar - w.used - amount
      /\ totalInvestedPrincipal' = totalInvestedPrincipal + amount
      /\ hollar' = hollar - amount
      /\ yieldValue' \in Nat
      /\ UNCHANGED <<shareVars, flagVars>>
  BY <1>2, <1>8
<1> HIDE DEF w
<1>4. amount \in Nat /\ w.used + amount <= idleHollar
  <2>1. tvlCap \in Nat
    BY VaultLedgerAssumption
  <2>2. ReinvestAmount(w.used) \in Nat /\ ReinvestAmount(w.used) <= idleHollar
    BY <1>1, <2>1 DEF ReinvestAmount, Lesser
  <2>3. w.used # 0 => ReinvestAmount(w.used) = 0
    BY DEF ReinvestAmount
  <2>4. CASE amount = 0
    BY <1>1, <1>3, <2>4
  <2>5. CASE amount # 0
    <3>1. amount = ReinvestAmount(w.used) /\ w.used = 0
      BY <2>3, <2>5
    <3> QED BY <1>1, <2>2, <3>1
  <2> QED BY <2>4, <2>5
<1> HIDE DEF amount
<1>6. /\ idleHollar' \in Nat /\ hollar' \in Nat /\ totalInvestedPrincipal' \in Nat
      /\ hollar' >= idleHollar' + totalReservedHollar'
  BY <1>1, <1>3, <1>4, <1>5
<1>7. MoneyInv'
  BY <1>1, <1>3, <1>5, <1>6, SharesUnchanged DEF HollarBacked, flagVars
<1> QED BY <1>3, <1>7 DEF IInv

\* The principal arm of pokeDecentral keeps the invariant, whatever the pool pays.
LEMMA ClaimPrincipalKeepsIInv ==
  ASSUME IInv, NEW expected \in Nat, NEW received \in Nat, NEW backlog \in BOOLEAN,
         ClaimPrincipal(expected, received, backlog)
  PROVE  IInv'
<1> DEFINE idle   == idleHollar + received
           rate   == RateOf(totalInvestedPrincipal' + yieldValue' + idle)
           w      == Settlement(idle, rate)
           settle == totalQueuedBil > 0 /\ idle > 0 /\ ~backlog
<1>1. /\ idleHollar \in Nat /\ hollar \in Nat /\ totalInvestedPrincipal \in Nat
      /\ totalReservedHollar \in Nat
      /\ hollar >= idleHollar + totalReservedHollar
      /\ QueueInv /\ expected <= totalInvestedPrincipal
      /\ paused \in BOOLEAN /\ depositsPaused \in BOOLEAN
  BY CountersNat DEF IInv, MoneyInv, HollarBacked, ClaimPrincipal
<1>2. /\ totalInvestedPrincipal' = totalInvestedPrincipal - expected
      /\ hollar' = hollar + received
      /\ idleHollar' = IF settle THEN idle - w.used ELSE idle
      /\ IF settle THEN ApplySettlement(w) ELSE UNCHANGED <<queueVars, totalVars>>
      /\ UNCHANGED <<shareVars, flagVars>>
  BY DEF ClaimPrincipal, Credit, PayoutRate
<1>4. totalInvestedPrincipal' \in Nat /\ hollar' \in Nat /\ yieldValue' \in Nat
  BY <1>1, <1>2, SyncedNat DEF ClaimPrincipal
<1>3. idle \in Nat /\ rate \in Nat
  <2>1. idle \in Nat
    BY <1>1
  <2>2. totalInvestedPrincipal' + yieldValue' + idle \in Nat
    BY <1>4, <2>1, NatSum
  <2> QED BY <2>1, <2>2, RateNat
<1>5. CASE settle
  <2>1. /\ QueueInv' /\ totalQueuedBil' = totalQueuedBil
        /\ w.used \in Nat /\ w.used <= idle
        /\ totalReservedHollar' = totalReservedHollar + w.used
    <3> HIDE DEF idle, rate
    <3> QED BY <1>1, <1>2, <1>3, <1>5, SettlementKeepsQueueInv
  <2>2. idleHollar' = idle - w.used
    BY <1>2, <1>5
  <2> HIDE DEF w, rate
  <2>3. idleHollar' \in Nat /\ hollar' >= idleHollar' + totalReservedHollar'
    BY <1>1, <1>2, <1>3, <2>1, <2>2
  <2>4. MoneyInv'
    BY <1>1, <1>2, <1>4, <2>1, <2>3, SharesUnchanged DEF HollarBacked, flagVars
  <2> QED BY <2>1, <2>4 DEF IInv
<1>6. CASE ~settle
  <2>1. UNCHANGED <<queueVars, totalVars>> /\ idleHollar' = idle
    BY <1>2, <1>6
  <2>2. QueueInv' /\ totalQueuedBil' = totalQueuedBil
        /\ totalReservedHollar' = totalReservedHollar
    BY <1>1, <2>1, QueueUnchanged DEF totalVars
  <2> HIDE DEF w, rate
  <2>3. idleHollar' \in Nat /\ hollar' >= idleHollar' + totalReservedHollar'
    BY <1>1, <1>2, <1>3, <2>1, <2>2
  <2>4. MoneyInv'
    BY <1>1, <1>2, <1>4, <2>2, <2>3, SharesUnchanged DEF HollarBacked, flagVars
  <2> QED BY <2>2, <2>4 DEF IInv
<1> QED BY <1>5, <1>6

\* Yield, donations and the guardian's switches keep the invariant.
LEMMA OtherStepsKeepIInv ==
  ASSUME IInv, NEW n \in Nat, NEW m \in Nat, NEW b \in BOOLEAN,
         \/ AccrueYield \/ SyncMaturities \/ ClaimYield(n, m)
         \/ DonateShares(n) \/ DonateHollar(n)
         \/ SetPaused(b) \/ SetDepositsPaused(b)
         \/ UNCHANGED vars
  PROVE  IInv'
<1>1. /\ idleHollar \in Nat /\ hollar \in Nat /\ totalInvestedPrincipal \in Nat
      /\ yieldValue \in Nat /\ totalReservedHollar \in Nat /\ totalQueuedBil \in Nat
      /\ circulating \in Nat /\ escrow \in Nat /\ dead \in Nat
      /\ hollar >= idleHollar + totalReservedHollar /\ QueueInv
      /\ escrow >= totalQueuedBil
      /\ paused \in BOOLEAN /\ depositsPaused \in BOOLEAN
  BY CountersNat DEF IInv, MoneyInv, HollarBacked, EscrowBacked
<1>2. UNCHANGED <<queueVars, totalVars>>
  BY DEF AccrueYield, SyncMaturities, ClaimYield, DonateShares, DonateHollar,
         SetPaused, SetDepositsPaused, vars
<1>3. QueueInv' /\ totalQueuedBil' = totalQueuedBil
      /\ totalReservedHollar' = totalReservedHollar
  BY <1>1, <1>2, QueueUnchanged DEF totalVars
<1>4. CASE AccrueYield \/ SyncMaturities
  <2>1. yieldValue' \in Nat /\ UNCHANGED <<totalInvestedPrincipal, shareVars, hollarVars, flagVars>>
    BY <1>1, <1>4, SyncedNat DEF AccrueYield, SyncMaturities
  <2> QED BY <1>1, <1>3, <2>1, SharesUnchanged
             DEF HollarBacked, flagVars, hollarVars, IInv
<1>5. CASE ClaimYield(n, m)
  <2>1. yieldValue' \in Nat /\ idleHollar' = idleHollar + m /\ hollar' = hollar + m
    BY <1>1, <1>5, SyncedNat DEF ClaimYield, Credit
  <2>2. HollarBacked'
    BY <1>1, <1>3, <2>1 DEF HollarBacked
  <2> QED BY <1>1, <1>3, <1>5, <2>1, <2>2, SharesUnchanged DEF ClaimYield, flagVars, IInv
<1>6. CASE DonateShares(n)
  <2>1. /\ circulating' = circulating - n /\ escrow' = escrow + n /\ n <= circulating
        /\ dead' = dead /\ UNCHANGED <<venueVars, hollarVars, flagVars>>
    BY <1>6 DEF DonateShares, TransferToVault
  <2>2. circulating' \in Nat /\ escrow' \in Nat /\ totalSupply' = totalSupply
    BY <1>1, <2>1 DEF totalSupply
  <2>3. EscrowBacked'
    BY <1>1, <1>3, <2>1 DEF EscrowBacked
  <2>4. HollarBacked' /\ DeadSharesKept'
    BY <1>3, <2>1, <2>2 DEF IInv, MoneyInv, HollarBacked, DeadSharesKept, hollarVars
  <2>5. MoneyInv'
    BY <1>1, <2>1, <2>2, <2>3, <2>4 DEF MoneyInv, venueVars, hollarVars, flagVars
  <2> QED BY <1>3, <2>5 DEF IInv
<1>7. CASE DonateHollar(n)
  <2>1. hollar' = hollar + n /\ UNCHANGED <<venueVars, shareVars, idleHollar, flagVars>>
    BY <1>7 DEF DonateHollar
  <2>2. HollarBacked'
    BY <1>1, <1>3, <2>1 DEF HollarBacked
  <2> QED BY <1>1, <1>3, <2>1, <2>2, SharesUnchanged DEF flagVars, venueVars, IInv
<1>8. CASE SetPaused(b)
  <2>1. /\ UNCHANGED <<venueVars, shareVars, hollarVars>>
        /\ paused' \in BOOLEAN /\ depositsPaused' \in BOOLEAN
    BY <1>1, <1>8, Zenon DEF SetPaused
  <2> QED BY <1>1, <1>3, <2>1, SharesUnchanged DEF HollarBacked, venueVars, hollarVars, IInv
<1>9. CASE SetDepositsPaused(b)
  <2>1. /\ UNCHANGED <<venueVars, shareVars, hollarVars>>
        /\ paused' \in BOOLEAN /\ depositsPaused' \in BOOLEAN
    BY <1>1, <1>9, Zenon DEF SetDepositsPaused
  <2> QED BY <1>1, <1>3, <2>1, SharesUnchanged DEF HollarBacked, venueVars, hollarVars, IInv
<1>10. CASE UNCHANGED vars
  BY <1>1, <1>3, <1>10, SharesUnchanged
     DEF vars, venueVars, hollarVars, flagVars, HollarBacked, IInv
<1> QED BY <1>4, <1>5, <1>6, <1>7, <1>8, <1>9, <1>10

-----------------------------------------------------------------------------
(* The invariants, for every value of the constants.                       *)

\* Every step of the ledger, and a stutter, keeps the inductive invariant.
LEMMA NextKeepsIInv == IInv /\ [Next]_vars => IInv'
<1> SUFFICES ASSUME IInv, [Next]_vars PROVE IInv'
  OBVIOUS
<1>1. ASSUME NEW n \in 1 .. tvlCap, Deposit(n) \/ Mint(n)
      PROVE  IInv'
  <2>1. n \in Nat /\ previewDeposit(n) \in Nat /\ previewMint(n) \in Nat
    BY <1>1, PreviewsNat, VaultLedgerAssumption
  <2>2. CASE Deposit(n)
    BY <2>1, <2>2, TakeDepositKeepsIInv DEF Deposit
  <2>3. CASE Mint(n)
    BY <2>1, <2>3, TakeDepositKeepsIInv DEF Mint
  <2> QED BY <1>1, <2>2, <2>3
<1>2. ASSUME NEW c \in Controllers, NEW n \in Nat,
             RequestRedeem(c, n) \/ Redeem(c, n) \/ Withdraw(c, n)
      PROVE  IInv'
  BY <1>2, RequestRedeemKeepsIInv, ClaimsKeepIInv
<1>3. ASSUME NEW id \in RequestIds, CancelRedeem(id)
      PROVE  IInv'
  BY <1>3, CancelRedeemKeepsIInv
<1>4. CASE UserStep
  <2>1. \A m : 1 .. m \subseteq Nat
    OBVIOUS
  <2> QED BY <1>1, <1>2, <1>3, <1>4, <2>1 DEF UserStep
<1>5. CASE PokeQueue
  BY <1>5, PokeQueueKeepsIInv
<1>6. CASE VenueStep
  <2>1. ASSUME NEW e \in Nat, NEW r \in Nat, ClaimYield(e, r)
        PROVE  IInv'
    BY <2>1, OtherStepsKeepIInv
  <2>2. ASSUME NEW e \in Nat, NEW r \in Nat, NEW backlog \in BOOLEAN,
               ClaimPrincipal(e, r, backlog)
        PROVE  IInv'
    BY <2>2, ClaimPrincipalKeepsIInv
  <2>3. CASE AccrueYield \/ SyncMaturities
    <3>1. 0 \in Nat /\ TRUE \in BOOLEAN
      OBVIOUS
    <3> QED BY <2>3, <3>1, OtherStepsKeepIInv
  <2>4. /\ \A m : 1 .. m \subseteq Nat
        /\ \A e : Payouts(e) \subseteq Nat
    BY DEF Payouts
  <2> QED BY <1>6, <2>1, <2>2, <2>3, <2>4 DEF VenueStep
<1>7. CASE OtherStep
  <2>1. ASSUME NEW n \in Nat, DonateShares(n) \/ DonateHollar(n)
        PROVE  IInv'
    BY <2>1, OtherStepsKeepIInv
  <2>2. ASSUME NEW b \in BOOLEAN, SetPaused(b) \/ SetDepositsPaused(b)
        PROVE  IInv'
    BY <2>2, OtherStepsKeepIInv
  <2>3. 1 .. MaxDonation \subseteq Nat
    OBVIOUS
  <2> QED BY <1>7, <2>1, <2>2, <2>3 DEF OtherStep
<1>8. CASE UNCHANGED vars
  <2>1. 0 \in Nat /\ TRUE \in BOOLEAN
    OBVIOUS
  <2> QED BY <1>8, <2>1, OtherStepsKeepIInv
<1> QED BY <1>4, <1>5, <1>6, <1>7, <1>8 DEF Next

\* The inductive invariant holds in every reachable state.
THEOREM InvariantHolds == Spec => []IInv
BY InitIInv, NextKeepsIInv, PTL DEF Spec

\* No subtraction of the ledger underflows: every counter stays a natural.
THEOREM TypeCorrect == Spec => []TypeOK
<1>1. IInv => TypeOK
  BY IInvImplies
<1> QED BY <1>1, InvariantHolds, PTL

\* The vault's counters are exactly the sums over the live requests.
THEOREM CountersCorrect == Spec => []CountersMatchEntries
<1>1. IInv => CountersMatchEntries
  BY IInvImplies
<1> QED BY <1>1, InvariantHolds, PTL

\* Queued shares are always in escrow.
THEOREM EscrowCovers == Spec => []EscrowBacked
<1>1. IInv => EscrowBacked
  BY IInvImplies
<1> QED BY <1>1, InvariantHolds, PTL

\* The vault's HOLLAR covers what is idle and what is reserved.
THEOREM HollarCovers == Spec => []HollarBacked
<1>1. IInv => HollarBacked
  BY IInvImplies
<1> QED BY <1>1, InvariantHolds, PTL

\* Every request is well-formed, and deleted or future slots are empty.
THEOREM RequestsStayConsistent == Spec => []RequestsConsistent
<1>1. IInv => RequestsConsistent
  BY IInvImplies
<1> QED BY <1>1, InvariantHolds, PTL

\* No pending request is ever left behind the head of the queue.
THEOREM NothingLeftBehindHead == Spec => []HeadPrefixDone
<1>1. IInv => HeadPrefixDone
  BY IInvImplies
<1> QED BY <1>1, InvariantHolds, PTL

\* The rate's denominator never falls below the dead shares.
THEOREM ActiveSupplyStays == Spec => []ActiveSupplyKept
<1>1. IInv => ActiveSupplyKept
  BY IInvImplies
<1> QED BY <1>1, InvariantHolds, PTL

-----------------------------------------------------------------------------
(* First come, first settled.                                              *)

FifoStep ==
  \A j \in RequestIds : queue'[j].bilSettled > queue[j].bilSettled =>
    \A i \in RequestIds : i < j => Pending(queue'[i]) = 0

\* A step that raises no request's settled shares settles nothing out of order.
LEMMA NoRiseIsFifo ==
  ASSUME queue \in Queues, queue' \in Queues,
         \A j \in RequestIds : queue'[j].bilSettled <= queue[j].bilSettled
  PROVE  FifoStep
<1>1. \A j \in RequestIds : queue'[j].bilSettled \in Nat /\ queue[j].bilSettled \in Nat
  BY DEF Queues, Request
<1> QED BY <1>1 DEF FifoStep

\* A settlement touches nothing beyond the entry under the cursor, and leaves
\* nothing pending before it.
LEMMA SettlementIsFifoStep ==
  ASSUME QueueInv, NEW available \in Nat, NEW rate \in Nat,
         ApplySettlement(Settlement(available, rate))
  PROVE  FifoStep
<1> DEFINE w == Settlement(available, rate)
<1>1. /\ queue \in Queues /\ settledBy \in Indexes
      /\ queueTail \in 0 .. MaxRequests /\ queueHead \in 0 .. queueTail
      /\ \A i \in RequestIds :
           RequestSound(queue[i]) /\ (i < queueHead => Pending(queue[i]) = 0)
  BY DEF QueueInv, RequestsConsistent, HeadPrefixDone
<1>2. WalkInv(w, queue, queueTail, available, rate) /\ queue' = w.queue
  BY <1>1, ProcessQueueResult DEF Settlement, ApplySettlement
<1> HIDE DEF w
<1>3. SUFFICES ASSUME NEW j \in RequestIds, queue'[j].bilSettled > queue[j].bilSettled,
                      NEW i \in RequestIds, i < j
               PROVE  Pending(queue'[i]) = 0
  BY DEF FifoStep
<1>4. w.queue[j] # queue[j]
  <2>1. queue[j].bilSettled \in Nat
    BY <1>1 DEF Queues, Request
  <2> QED BY <1>2, <1>3, <2>1
<1>5. j <= w.head /\ w.head \in Nat /\ i \in Nat /\ j \in Nat
  BY <1>2, <1>4 DEF WalkInv, QueueWalks, RequestIds
<1>6. i < w.head
  BY <1>3, <1>5
<1> QED BY <1>2, <1>6 DEF WalkInv

\* Every step settles in request order.
LEMMA NextIsFifo == IInv /\ [Next]_vars => FifoStep
<1> SUFFICES ASSUME IInv, [Next]_vars PROVE FifoStep
  OBVIOUS
<1>1. queue \in Queues /\ queue' \in Queues /\ QueueInv
  BY NextKeepsIInv DEF IInv, QueueInv
<1>2. \A j \in RequestIds : queue[j].bilSettled \in Nat /\ queue[j] \in Request
  BY <1>1 DEF Queues, Request
<1>3. ASSUME queue' = queue PROVE FifoStep
  BY <1>1, <1>2, <1>3, NoRiseIsFifo
<1>4. ASSUME NEW c \in Controllers, NEW n \in Nat, RequestRedeem(c, n)
      PROVE  FifoStep
  <2>1. ASSUME NEW j \in RequestIds
        PROVE  queue'[j].bilSettled <= queue[j].bilSettled
    BY <1>1, <1>2, <1>4 DEF RequestRedeem, Queues
  <2> QED BY <1>1, <2>1, NoRiseIsFifo
<1>5. ASSUME NEW c \in Controllers, NEW n \in Nat, Redeem(c, n) \/ Withdraw(c, n)
      PROVE  FifoStep
  <2>1. settledBy[c] \in Seq(RequestIds) /\ \A i \in RequestIds : RequestSound(queue[i])
    BY <1>1 DEF QueueInv, RequestsConsistent, Indexes
  <2>2. /\ ClaimInv(ClaimByShares(queue, settledBy[c], c, n), queue, c)
        /\ ClaimInv(ClaimByAssets(queue, settledBy[c], c, n), queue, c)
    BY <1>1, <2>1, ClaimResult
  <2>3. \E k : ClaimInv(k, queue, c) /\ queue' = k.queue
    BY <1>5, <2>2 DEF Redeem, Withdraw, ApplyClaim
  <2>4. \A j \in RequestIds : queue'[j].bilSettled <= queue[j].bilSettled
    BY <2>3 DEF ClaimInv
  <2> QED BY <1>1, <2>4, NoRiseIsFifo
<1>6. ASSUME NEW id \in RequestIds, CancelRedeem(id)
      PROVE  FifoStep
  <2> DEFINE s == IF queue[id].bilSettled = 0 THEN Hole
                  ELSE [queue[id] EXCEPT !.bilAmount = queue[id].bilSettled]
  <2>1. queue' = [queue EXCEPT ![id] = s]
    BY <1>6 DEF CancelRedeem
  <2>2. s.bilSettled = queue[id].bilSettled
    BY <1>2 DEF Hole, Request
  <2> HIDE DEF s
  <2>3. ASSUME NEW j \in RequestIds
        PROVE  queue'[j].bilSettled <= queue[j].bilSettled
    <3>1. queue'[j] = IF j = id THEN s ELSE queue[j]
      BY <1>1, <2>1 DEF Queues
    <3> QED BY <1>2, <2>2, <3>1
  <2> QED BY <1>1, <2>3, NoRiseIsFifo
<1>7. CASE UserStep
  <2>1. \A m : 1 .. m \subseteq Nat
    OBVIOUS
  <2>2. ASSUME NEW n, Deposit(n) \/ Mint(n)
        PROVE  FifoStep
    BY <1>3, <2>2 DEF Deposit, Mint, TakeDeposit, queueVars
  <2> QED BY <1>4, <1>5, <1>6, <1>7, <2>1, <2>2 DEF UserStep
<1>8. CASE PokeQueue
  <2>1. PICK synced \in SyncedYields :
          ApplySettlement(Settlement(idleHollar,
                            RateOf(totalInvestedPrincipal + synced + idleHollar)))
    BY <1>8 DEF PokeQueue
  <2>2. idleHollar \in Nat /\ RateOf(totalInvestedPrincipal + synced + idleHollar) \in Nat
    BY SyncedNat, RateNat DEF IInv, MoneyInv
  <2> QED BY <1>1, <2>1, <2>2, SettlementIsFifoStep
<1>9. CASE VenueStep
  <2>1. ASSUME NEW e \in Nat, NEW r \in Nat, NEW backlog \in BOOLEAN,
               ClaimPrincipal(e, r, backlog)
        PROVE  FifoStep
    <3> DEFINE idle   == idleHollar + r
               rate   == RateOf(totalInvestedPrincipal' + yieldValue' + idle)
    <3>1. queue' = queue \/ ApplySettlement(Settlement(idle, rate))
      BY <2>1 DEF ClaimPrincipal, Credit, PayoutRate, queueVars
    <3>2. idle \in Nat /\ rate \in Nat
      <4>1. idle \in Nat
        BY DEF IInv, MoneyInv
      <4>2. totalInvestedPrincipal' \in Nat /\ yieldValue' \in Nat
        BY NextKeepsIInv, ViewsNext
      <4>3. totalInvestedPrincipal' + yieldValue' + idle \in Nat
        BY <4>1, <4>2, NatSum
      <4> QED BY <4>1, <4>3, RateNat
    <3> HIDE DEF idle, rate
    <3> QED BY <1>1, <1>3, <3>1, <3>2, SettlementIsFifoStep
  <2>2. /\ \A m : 1 .. m \subseteq Nat
        /\ \A e : Payouts(e) \subseteq Nat
    BY DEF Payouts
  <2>3. ASSUME NEW e, NEW r, AccrueYield \/ SyncMaturities \/ ClaimYield(e, r)
        PROVE  FifoStep
    BY <1>3, <2>3 DEF AccrueYield, SyncMaturities, ClaimYield, queueVars
  <2> QED BY <1>9, <2>1, <2>2, <2>3 DEF VenueStep
<1>10. CASE OtherStep \/ UNCHANGED vars
  BY <1>3, <1>10 DEF OtherStep, DonateShares, DonateHollar, SetPaused,
                     SetDepositsPaused, vars, queueVars
<1> QED BY <1>7, <1>8, <1>9, <1>10 DEF Next

\* Requests are settled strictly in the order they were made.
THEOREM SettlesInOrder == Spec => SettlementIsFifo
<1>1. IInv /\ [Next]_vars =>
        [\A j \in RequestIds : queue'[j].bilSettled > queue[j].bilSettled =>
           \A i \in RequestIds : i < j => Pending(queue'[i]) = 0]_vars
  BY NextIsFifo DEF FifoStep
<1> QED BY <1>1, InvariantHolds, PTL DEF Spec, SettlementIsFifo

-----------------------------------------------------------------------------
(* No call lowers the value of an active share.                            *)

\* Before the first deposit the vault owns nothing that prices a share.
EmptyVault == totalSupply = 0 => activeAssets = 0

\* The dead shares are never burned, so the supply never returns to zero.
LEMMA SupplyStays ==
  ASSUME IInv, [Next]_vars, totalSupply > 0
  PROVE  totalSupply' > 0
<1>1. dead' = dead
  BY DEF Next, UserStep, VenueStep, OtherStep, Deposit, Mint, TakeDeposit,
         DeadAfterDeposit, RequestRedeem, CancelRedeem, Redeem, Withdraw, ApplyClaim,
         PokeQueue, AccrueYield, SyncMaturities, ClaimYield, ClaimPrincipal,
         DonateShares, DonateHollar,
         SetPaused, SetDepositsPaused, vars, shareVars
<1>2. dead = DEAD_SHARES /\ DEAD_SHARES \in Nat \ {0}
  BY VaultLedgerAssumption DEF IInv, MoneyInv, DeadSharesKept
<1>3. /\ circulating' \in Nat /\ escrow' \in Nat
      /\ totalSupply' = circulating' + escrow' + dead'
  BY NextKeepsIInv, ViewsNext
<1>4. circulating' + escrow' \in Nat
  BY <1>3, NatSum
<1>5. (circulating' + escrow') + dead' > 0
  BY <1>1, <1>2, <1>4, NatSum
<1> QED BY <1>3, <1>5

\* What a reinvestment may take.
LEMMA ReinvestBounds ==
  ASSUME IInv, NEW used \in Nat
  PROVE  /\ ReinvestAmount(used) \in Nat
         /\ ReinvestAmount(used) <= idleHollar
         /\ used # 0 => ReinvestAmount(used) = 0
<1>1. tvlCap \in Nat /\ totalInvestedPrincipal \in Nat /\ idleHollar \in Nat
  BY VaultLedgerAssumption DEF IInv, MoneyInv
<1> QED BY <1>1 DEF ReinvestAmount, Lesser

\* What the active shares would be worth with the yield the step leaves.
SyncedAssets == activeAssets - yieldValue + yieldValue'

\* PokeQueue moves exactly the reserved HOLLAR and the locked shares out of the
\* pricing, at no more than the synced rate.
LEMMA PokeQueueEffect ==
  ASSUME IInv, PokeQueue
  PROVE  \E used, locked \in Nat :
           /\ used * WAD <= locked * RateOf(SyncedAssets)
           /\ used <= idleHollar
           /\ yieldValue' \in SyncedYields
           /\ activeAssets' = SyncedAssets - used
           /\ totalSettledBil' = totalSettledBil + locked
           /\ totalSupply' = totalSupply
<1>1. PICK synced \in SyncedYields, accepted \in BOOLEAN :
        LET s      == Settlement(idleHollar,
                                 RateOf(totalInvestedPrincipal + synced + idleHollar))
            amount == IF accepted THEN ReinvestAmount(s.used) ELSE 0
        IN  /\ ApplySettlement(s)
            /\ idleHollar' = idleHollar - s.used - amount
            /\ totalInvestedPrincipal' = totalInvestedPrincipal + amount
            /\ yieldValue' = synced
            /\ UNCHANGED shareVars
  BY DEF PokeQueue
<1> DEFINE assets == totalInvestedPrincipal + synced + idleHollar
           w      == Settlement(idleHollar, RateOf(assets))
           amount == IF accepted THEN ReinvestAmount(w.used) ELSE 0
<1>2. /\ queue \in Queues /\ settledBy \in Indexes
      /\ queueTail \in 0 .. MaxRequests /\ queueHead \in 0 .. queueTail
      /\ \A i \in RequestIds :
           RequestSound(queue[i]) /\ (i < queueHead => Pending(queue[i]) = 0)
  BY DEF IInv, QueueInv, RequestsConsistent, HeadPrefixDone
<1>3. idleHollar \in Nat /\ synced \in Nat /\ activeAssets \in Nat
      /\ totalInvestedPrincipal \in Nat /\ yieldValue \in Nat
      /\ activeAssets = totalInvestedPrincipal + yieldValue + idleHollar
  BY SyncedNat, ViewsNat DEF IInv, MoneyInv
<1>4. SyncedAssets = assets /\ yieldValue' = synced
  BY <1>1, <1>3 DEF SyncedAssets
<1>5. assets \in Nat /\ RateOf(assets) \in Nat
  BY <1>3, RateNat
<1>6. /\ ApplySettlement(w)
      /\ idleHollar' = idleHollar - w.used - amount
      /\ totalInvestedPrincipal' = totalInvestedPrincipal + amount
      /\ UNCHANGED shareVars
  BY <1>1
<1> HIDE DEF assets
<1>7. WalkInv(w, queue, queueTail, idleHollar, RateOf(assets))
  BY <1>2, <1>3, <1>5, ProcessQueueResult DEF Settlement
<1> HIDE DEF w
<1>8. /\ w.used \in Nat /\ w.locked \in Nat /\ w.available \in Nat
      /\ w.used + w.available <= idleHollar
      /\ w.used * WAD <= w.locked * RateOf(assets)
  BY <1>7 DEF WalkInv, QueueWalks
<1>9. amount \in Nat
  BY <1>8, ReinvestBounds
<1>10. /\ totalSupply' = totalSupply
       /\ totalSettledBil' = totalSettledBil + w.locked
  BY <1>6 DEF ApplySettlement, shareVars, totalSupply
<1> HIDE DEF amount
<1>11. activeAssets' = totalInvestedPrincipal' + yieldValue' + idleHollar'
  BY PokeQueueKeepsIInv, ViewsNext
<1>12. activeAssets' = assets - w.used /\ w.used <= idleHollar
  BY <1>3, <1>4, <1>6, <1>8, <1>9, <1>11 DEF assets
<1> QED BY <1>1, <1>4, <1>8, <1>10, <1>12

\* A vault without shares stays without assets.
LEMMA EmptyVaultKept == IInv /\ EmptyVault /\ [Next]_vars => EmptyVault'
<1> SUFFICES ASSUME IInv, EmptyVault, [Next]_vars, totalSupply' = 0
             PROVE  activeAssets' = 0
  BY DEF EmptyVault
<1>1. totalSupply = 0 /\ totalSupply \in Nat
  <2>1. totalSupply \in Nat
    BY ViewsNat
  <2> QED BY <2>1, SupplyStays
<1>2. /\ totalInvestedPrincipal = 0 /\ yieldValue = 0 /\ idleHollar = 0
      /\ circulating = 0 /\ escrow = 0 /\ dead = 0 /\ activeAssets = 0
  <2>1. activeAssets = 0 /\ activeAssets = totalInvestedPrincipal + yieldValue + idleHollar
    BY <1>1, ViewsNat DEF EmptyVault
  <2>2. /\ totalInvestedPrincipal \in Nat /\ yieldValue \in Nat /\ idleHollar \in Nat
        /\ circulating \in Nat /\ escrow \in Nat /\ dead \in Nat
    BY DEF IInv, MoneyInv
  <2> QED BY <1>1, <2>1, <2>2 DEF totalSupply
<1>3. activeAssets' = totalInvestedPrincipal' + yieldValue' + idleHollar'
  BY NextKeepsIInv, ViewsNext
<1>4. ASSUME totalInvestedPrincipal' = totalInvestedPrincipal,
             yieldValue' = yieldValue, idleHollar' = idleHollar
      PROVE  activeAssets' = 0
  BY <1>2, <1>3, <1>4
<1>5. ASSUME NEW n, NEW m, TakeDeposit(n, m)
      PROVE  FALSE
  <2>1. dead' = DEAD_SHARES /\ DEAD_SHARES \in Nat \ {0}
    BY <1>1, <1>5, VaultLedgerAssumption DEF TakeDeposit, DeadAfterDeposit
  <2>2. /\ circulating' \in Nat /\ escrow' \in Nat
        /\ totalSupply' = circulating' + escrow' + dead'
    BY NextKeepsIInv, ViewsNext
  <2>3. circulating' + escrow' \in Nat
    BY <2>2, NatSum
  <2>4. (circulating' + escrow') + dead' > 0
    BY <2>1, <2>3, NatSum
  <2> QED BY <2>2, <2>4
<1>6. CASE UserStep
  BY <1>4, <1>5, <1>6 DEF UserStep, Deposit, Mint, RequestRedeem, CancelRedeem, Redeem,
     Withdraw, ApplyClaim, venueVars, hollarVars
<1>7. CASE PokeQueue
  <2>1. PICK used \in Nat : /\ used <= idleHollar /\ yieldValue' \in SyncedYields
                           /\ activeAssets' = SyncedAssets - used
    BY <1>7, PokeQueueEffect
  <2>2. yieldValue' = 0
    BY <1>2, <2>1, SyncedNat
  <2> QED BY <1>2, <2>1, <2>2 DEF SyncedAssets
<1>8. CASE VenueStep
  <2>1. SyncedYields \subseteq {0}
    BY <1>2, SyncedNat
  <2>2. ASSUME SyncMaturities PROVE activeAssets' = 0
    BY <1>2, <1>4, <2>1, <2>2 DEF SyncMaturities, hollarVars
  <2>3. \A e \in 1 .. (yieldValue + SyncCatchUp) : \A r : ~ClaimYield(e, r)
    <3>1. \A e \in 1 .. (yieldValue + SyncCatchUp) : ~(e <= 0)
      BY <1>2
    <3> QED BY <2>1, <3>1 DEF ClaimYield
  <2>4. 1 .. totalInvestedPrincipal = {}
    BY <1>2
  <2> QED BY <1>2, <1>8, <2>2, <2>3, <2>4 DEF VenueStep, AccrueYield
<1>9. CASE OtherStep \/ UNCHANGED vars
  BY <1>4, <1>9 DEF OtherStep, DonateShares, DonateHollar, SetPaused, SetDepositsPaused,
     vars, venueVars, hollarVars
<1> QED BY <1>6, <1>7, <1>8, <1>9 DEF Next

\* A deposit that mints at most its proportion of shares does not dilute.
LEMMA DepositArithmetic ==
  ASSUME NEW A \in Nat, NEW S \in Nat, NEW a \in Nat, NEW n \in Nat, n * A <= a * S
  PROVE  (A + a) * S >= A * (S + n)
<1>1. (A + a) * S = A * S + a * S /\ A * (S + n) = A * S + n * A
  OBVIOUS
<1>2. A * S \in Nat /\ a * S \in Nat /\ n * A \in Nat
  OBVIOUS
<1> QED BY <1>1, <1>2

\* Shares locked at no more than the rate, which is itself rounded down, take no
\* more than their proportion of the assets.
LEMMA SettlementArithmetic ==
  ASSUME NEW A \in Nat, NEW S \in Nat, NEW u \in Nat, NEW l \in Nat, NEW R \in Nat,
         NEW W \in Nat \ {0},
         u * W <= l * R, S * R <= A * W, u <= A, l <= S
  PROVE  (A - u) * S >= A * (S - l)
<1>1. u * S <= A * l
  <2>1. SUFFICES ASSUME A * l < u * S PROVE FALSE
    <3>1. A * l \in Nat /\ u * S \in Nat
      OBVIOUS
    <3> QED BY <3>1
  <2> DEFINE x == A * l
             y == u * S
             z == S * R
             t == A * W
             v == u * W
             k == l * R
  <2>2. x \in Nat /\ y \in Nat /\ z \in Nat /\ t \in Nat /\ v \in Nat /\ k \in Nat
    OBVIOUS
  <2>3. W * y = v * S /\ k * S = l * z /\ l * t = W * x
    OBVIOUS
  <2> HIDE DEF x, y, z, t, v, k
  <2>4. v * S <= k * S
    BY <2>2, MulMono DEF v, k
  <2>5. l * z <= l * t
    BY <2>2, MulMono DEF z, t
  <2>6. W * y <= W * x
    BY <2>2, <2>3, <2>4, <2>5
  <2>7. W * (x + 1) <= W * y
    BY <2>1, <2>2, MulMono DEF x, y
  <2>8. W * (x + 1) = W * x + W /\ W * x \in Nat /\ W * y \in Nat
    BY <2>2
  <2> QED BY <2>6, <2>7, <2>8
<1>2. (A - u) * S = A * S - u * S /\ A * (S - l) = A * S - A * l
  OBVIOUS
<1>3. A * S \in Nat /\ u * S \in Nat /\ A * l \in Nat
  OBVIOUS
<1> QED BY <1>1, <1>2, <1>3

\* Division rounded up, as previewMint does it, loses nothing.
LEMMA CeilDiv ==
  ASSUME NEW x \in Nat, NEW d \in Nat \ {0}
  PROVE  x <= ((x + d - 1) \div d) * d
<1> DEFINE c == (x + d - 1) \div d
<1>1. x + d - 1 \in Nat
  OBVIOUS
<1>2. c \in Nat /\ x + d - 1 < d * c + d
  BY <1>1, DivBounds
<1> HIDE DEF c
<1>3. c * d = d * c /\ d * c \in Nat
  BY <1>2
<1>4. x <= d * c
  BY <1>2, <1>3
<1> QED BY <1>3, <1>4 DEF c

\* Once there are shares, the active supply is the supply less what is settled.
LEMMA ActiveSupplyIs ==
  IInv /\ totalSupply > 0 =>
    /\ activeSupply = totalSupply - totalSettledBil
    /\ activeSupply \in Nat \ {0}
<1> SUFFICES ASSUME IInv, totalSupply > 0
             PROVE  /\ activeSupply = totalSupply - totalSettledBil
                    /\ activeSupply \in Nat \ {0}
  OBVIOUS
<1>1. activeSupply >= DEAD_SHARES /\ DEAD_SHARES \in Nat \ {0} /\ activeSupply \in Nat
  BY IInvImplies, ViewsNat, VaultLedgerAssumption DEF ActiveSupplyKept
<1>2. activeSupply # 0
  BY <1>1
<1> QED BY <1>1, <1>2 DEF activeSupply

\* The same in the successor state.
LEMMA ActiveSupplyNext ==
  (IInv /\ totalSupply > 0 =>
    /\ activeSupply = totalSupply - totalSettledBil
    /\ activeSupply \in Nat \ {0})'
BY ActiveSupplyIs, PTL

\* The active supply is a natural in every state the invariant allows.
LEMMA ActiveSupplyNat == IInv => activeSupply \in Nat
BY ViewsNat

RateKept == activeAssets' * activeSupply >= SyncedAssets * activeSupply'

\* A deposit of a HOLLAR for n shares keeps the rate when n shares are worth at
\* most a HOLLAR.
LEMMA DepositKeepsRate ==
  ASSUME IInv, [Next]_vars, totalSupply > 0, NEW a \in Nat, NEW n \in Nat,
         TakeDeposit(a, n), n * activeAssets <= a * activeSupply
  PROVE  RateKept
<1>1. /\ activeSupply = totalSupply - totalSettledBil /\ activeSupply \in Nat
      /\ activeSupply' = totalSupply' - totalSettledBil'
  BY NextKeepsIInv, SupplyStays, ActiveSupplyIs, ActiveSupplyNext
<1>2. /\ totalInvestedPrincipal \in Nat /\ yieldValue \in Nat /\ idleHollar \in Nat
      /\ circulating \in Nat /\ escrow \in Nat /\ dead \in Nat
      /\ totalSettledBil \in Nat /\ activeAssets \in Nat
      /\ activeAssets = totalInvestedPrincipal + yieldValue + idleHollar
  BY ViewsNat, CountersNat DEF IInv, MoneyInv
<1>3. /\ activeAssets' = totalInvestedPrincipal' + yieldValue' + idleHollar'
      /\ totalSupply' = circulating' + escrow' + dead'
  BY NextKeepsIInv, ViewsNext
<1>4. /\ totalInvestedPrincipal' = totalInvestedPrincipal + a
      /\ yieldValue' = yieldValue /\ idleHollar' = idleHollar
      /\ circulating' = circulating + n /\ escrow' = escrow /\ dead' = dead
      /\ totalSettledBil' = totalSettledBil
  BY DEF TakeDeposit, DeadAfterDeposit, totalVars, hollarVars
<1>5. activeAssets' = activeAssets + a
  BY <1>2, <1>3, <1>4
<1>6. totalSupply' = totalSupply + n /\ totalSupply \in Nat
  BY <1>2, <1>3, <1>4 DEF totalSupply
<1>7. activeSupply' = activeSupply + n
  BY <1>1, <1>2, <1>4, <1>6
<1>8. SyncedAssets = activeAssets
  BY <1>2, <1>4 DEF SyncedAssets
<1> QED BY <1>1, <1>2, <1>5, <1>7, <1>8, DepositArithmetic DEF RateKept

\* A step that moves neither what prices a share nor the active shares.
LEMMA StillKeepsRate ==
  ASSUME IInv, [Next]_vars, totalSupply > 0,
         UNCHANGED venueVars, idleHollar' = idleHollar,
         totalSupply' - totalSettledBil' = totalSupply - totalSettledBil
  PROVE  RateKept
<1>1. /\ activeSupply = totalSupply - totalSettledBil /\ activeSupply \in Nat
      /\ activeSupply' = totalSupply' - totalSettledBil'
  BY NextKeepsIInv, SupplyStays, ActiveSupplyIs, ActiveSupplyNext
<1>2. activeAssets' = activeAssets /\ activeAssets \in Nat
  BY NextKeepsIInv, ViewsNext, ViewsNat DEF venueVars
<1>3. activeSupply' = activeSupply
  BY <1>1
<1>4. SyncedAssets = activeAssets
  BY <1>2 DEF SyncedAssets, venueVars, IInv, MoneyInv
<1> QED BY <1>1, <1>2, <1>3, <1>4 DEF RateKept

\* Settling at the current rate keeps it.
LEMMA PokeQueueKeepsRate ==
  ASSUME IInv, [Next]_vars, totalSupply > 0, PokeQueue
  PROVE  RateKept
<1>1. PICK u, l \in Nat :
        /\ u * WAD <= l * RateOf(SyncedAssets)
        /\ u <= idleHollar
        /\ yieldValue' \in SyncedYields
        /\ activeAssets' = SyncedAssets - u
        /\ totalSettledBil' = totalSettledBil + l
        /\ totalSupply' = totalSupply
  BY PokeQueueEffect
<1>2. /\ activeSupply = totalSupply - totalSettledBil /\ activeSupply \in Nat \ {0}
      /\ activeSupply' = totalSupply' - totalSettledBil' /\ activeSupply' \in Nat
  BY NextKeepsIInv, SupplyStays, ActiveSupplyIs, ActiveSupplyNext
<1>3. /\ activeAssets \in Nat /\ totalSupply \in Nat /\ totalSettledBil \in Nat
      /\ WAD \in Nat \ {0} /\ idleHollar \in Nat
      /\ totalInvestedPrincipal \in Nat /\ yieldValue \in Nat /\ yieldValue' \in Nat
      /\ activeAssets = totalInvestedPrincipal + yieldValue + idleHollar
  BY <1>1, SyncedNat, ViewsNat, CountersNat, QueueLibAssumption DEF IInv, MoneyInv
<1>4. activeSupply' = activeSupply - l /\ l <= activeSupply
  BY <1>1, <1>2, <1>3
<1>5. u <= SyncedAssets /\ SyncedAssets \in Nat
  <2>1. \A p, y, z, i \in Nat : u <= i =>
          /\ (p + y + i) - y + z \in Nat
          /\ u <= (p + y + i) - y + z
    OBVIOUS
  <2> QED BY <1>1, <1>3, <2>1 DEF SyncedAssets
<1>6. /\ RateOf(SyncedAssets) \in Nat
      /\ activeSupply * RateOf(SyncedAssets) <= SyncedAssets * WAD
  BY <1>2, <1>5, RateNat
<1> HIDE DEF SyncedAssets
<1>7. (SyncedAssets - u) * activeSupply >= SyncedAssets * (activeSupply - l)
  BY <1>1, <1>2, <1>3, <1>4, <1>5, <1>6, SettlementArithmetic
<1> QED BY <1>1, <1>4, <1>7 DEF RateKept

\* Every step but Decentral's keeps the rate.
LEMMA NextKeepsRate ==
  ASSUME IInv, EmptyVault, [Next]_vars, ~VenueStep
  PROVE  RateKept
<1>1. activeAssets \in Nat /\ activeSupply \in Nat /\ totalSupply \in Nat
  BY ViewsNat
<1>2. CASE totalSupply = 0
  <2>1. SyncedAssets = 0
    <3>1. activeAssets = 0 /\ totalInvestedPrincipal = 0 /\ yieldValue = 0
      <4>1. activeAssets = 0
        BY <1>2 DEF EmptyVault
      <4>2. /\ activeAssets = totalInvestedPrincipal + yieldValue + idleHollar
            /\ totalInvestedPrincipal \in Nat /\ yieldValue \in Nat /\ idleHollar \in Nat
        BY ViewsNat DEF IInv, MoneyInv
      <4> QED BY <4>1, <4>2
    <3>2. SyncedYields \subseteq {0}
      BY <3>1, SyncedNat
    <3>3. yieldValue' \in SyncedYields \/ yieldValue' = yieldValue
      BY DEF Next, UserStep, OtherStep, Deposit, Mint, TakeDeposit, RequestRedeem,
             CancelRedeem, Redeem, Withdraw, ApplyClaim, PokeQueue, DonateShares,
             DonateHollar, SetPaused, SetDepositsPaused, vars, venueVars
    <3>4. yieldValue' = 0
      BY <3>1, <3>2, <3>3
    <3> QED BY <3>1, <3>4 DEF SyncedAssets
  <2>2. activeSupply = 0
    <3>1. totalSettledBil \in Nat
      BY CountersNat DEF IInv
    <3> QED BY <1>2, <3>1 DEF activeSupply
  <2>3. activeAssets' \in Nat
    BY NextKeepsIInv, ViewsNext
  <2>4. activeSupply' \in Nat
    <3>1. (IInv => activeSupply \in Nat)'
      BY ActiveSupplyNat, PTL
    <3> QED BY <3>1, NextKeepsIInv
  <2>5. \A a, s \in Nat : a * 0 >= 0 * s
    OBVIOUS
  <2>6. activeAssets' * 0 >= 0 * activeSupply'
    BY <2>3, <2>4, <2>5
  <2> QED BY <2>1, <2>2, <2>6 DEF RateKept
<1>3. CASE totalSupply > 0
  <2>1. activeSupply # 0 /\ activeSupply \in Nat \ {0}
    BY <1>3, ActiveSupplyIs
  <2>2. ASSUME NEW n \in Nat, Deposit(n)
        PROVE  RateKept
    <3>1. previewDeposit(n) > 0 /\ TakeDeposit(n, previewDeposit(n))
      BY <2>2 DEF Deposit
    <3>2. activeAssets # 0 /\ previewDeposit(n) = (n * activeSupply) \div activeAssets
      BY <1>3, <2>1, <3>1 DEF previewDeposit
    <3>3. n * activeSupply \in Nat /\ activeAssets \in Nat \ {0}
      BY <1>1, <3>2
    <3>4. /\ (n * activeSupply) \div activeAssets \in Nat
          /\ activeAssets * ((n * activeSupply) \div activeAssets) <= n * activeSupply
      BY <3>3, DivBounds
    <3>5. previewDeposit(n) * activeAssets <= n * activeSupply
      BY <3>2, <3>3, <3>4
    <3> QED BY <1>3, <3>1, <3>2, <3>4, <3>5, DepositKeepsRate
  <2>3. ASSUME NEW n \in Nat, Mint(n)
        PROVE  RateKept
    <3>1. TakeDeposit(previewMint(n), n)
      BY <2>3 DEF Mint
    <3>2. previewMint(n) = (n * activeAssets + activeSupply - 1) \div activeSupply
      BY <2>1 DEF previewMint
    <3>3. previewMint(n) \in Nat
      BY PreviewsNat
    <3>4. n * activeAssets \in Nat
      BY <1>1
    <3>5. n * activeAssets <= previewMint(n) * activeSupply
      BY <2>1, <3>2, <3>4, CeilDiv
    <3> QED BY <1>3, <3>1, <3>3, <3>5, DepositKeepsRate
  <2>4. tvlCap \in Nat /\ 1 .. tvlCap \subseteq Nat
    BY VaultLedgerAssumption
  <2>5. ASSUME UNCHANGED venueVars, idleHollar' = idleHollar,
               totalSupply' - totalSettledBil' = totalSupply - totalSettledBil
        PROVE  RateKept
    BY <1>3, <2>5, StillKeepsRate
  <2>6. /\ circulating \in Nat /\ escrow \in Nat /\ dead \in Nat
        /\ totalSettledBil \in Nat /\ totalReservedHollar \in Nat
        /\ totalQueuedBil \in Nat
    BY CountersNat DEF IInv, MoneyInv
  <2>7. ASSUME NEW n \in Nat, TransferToVault(n), dead' = dead,
               totalSettledBil' = totalSettledBil
        PROVE  totalSupply' - totalSettledBil' = totalSupply - totalSettledBil
    BY <2>6, <2>7 DEF TransferToVault, totalSupply
  <2>8. CASE UserStep
    <3>1. ASSUME NEW c \in Controllers, NEW n \in 1 .. circulating, RequestRedeem(c, n)
          PROVE  RateKept
      <4>1. n \in Nat
        BY <2>6
      <4> QED BY <2>5, <2>7, <3>1, <4>1 DEF RequestRedeem, venueVars, hollarVars
    <3>2. ASSUME NEW id \in RequestIds, CancelRedeem(id)
          PROVE  RateKept
      <4> DEFINE p == Pending(queue[id])
      <4>1. p \in Nat
        BY DEF IInv, QueueInv, RequestsConsistent, RequestSound, Queues, Request, Pending
      <4>2. /\ circulating' = circulating + p /\ escrow' = escrow - p /\ dead' = dead
            /\ totalSettledBil' = totalSettledBil
        BY <3>2 DEF CancelRedeem
      <4> HIDE DEF p
      <4>3. totalSupply' - totalSettledBil' = totalSupply - totalSettledBil
        BY <2>6, <4>1, <4>2 DEF totalSupply
      <4> QED BY <2>5, <3>2, <4>3 DEF CancelRedeem, venueVars, hollarVars
    <3>3. ASSUME NEW controller, NEW c, c.shares \in Nat, ApplyClaim(controller, c)
          PROVE  RateKept
      <4>1. /\ circulating' = circulating /\ escrow' = escrow - c.shares /\ dead' = dead
            /\ totalSettledBil' = totalSettledBil - c.shares
        BY <3>3 DEF ApplyClaim
      <4>2. totalSupply' - totalSettledBil' = totalSupply - totalSettledBil
        BY <2>6, <3>3, <4>1 DEF totalSupply
      <4> QED BY <2>5, <3>3, <4>2 DEF ApplyClaim
    <3>4. ASSUME NEW c \in Controllers, NEW n \in Nat, Redeem(c, n) \/ Withdraw(c, n)
          PROVE  RateKept
      <4>1. /\ queue \in Queues /\ \A i \in RequestIds : RequestSound(queue[i])
            /\ settledBy[c] \in Seq(RequestIds)
        BY DEF IInv, QueueInv, RequestsConsistent, Indexes
      <4>2. /\ ClaimByShares(queue, settledBy[c], c, n).shares \in Nat
            /\ ClaimByAssets(queue, settledBy[c], c, n).shares \in Nat
        BY <4>1, ClaimResult DEF ClaimInv, ClaimWalks
      <4> QED BY <3>3, <3>4, <4>2 DEF Redeem, Withdraw
    <3>5. 1 .. totalSettledBil \subseteq Nat /\ 1 .. totalReservedHollar \subseteq Nat
      BY <2>6
    <3> QED BY <2>2, <2>3, <2>4, <2>8, <3>1, <3>2, <3>4, <3>5 DEF UserStep
  <2>9. CASE PokeQueue
    BY <1>3, <2>9, PokeQueueKeepsRate
  <2>10. CASE OtherStep
    <3>1. 1 .. MaxDonation \subseteq Nat
      BY VaultLedgerAssumption
    <3>2. ASSUME NEW n \in 1 .. MaxDonation, DonateShares(n)
          PROVE  RateKept
      BY <2>5, <2>7, <3>1, <3>2 DEF DonateShares, totalVars, hollarVars
    <3>3. ASSUME UNCHANGED <<totalVars, venueVars, shareVars, idleHollar>>
          PROVE  RateKept
      BY <2>5, <3>3 DEF totalVars, shareVars, totalSupply
    <3> QED BY <2>10, <3>2, <3>3 DEF OtherStep, DonateHollar, SetPaused, SetDepositsPaused,
               hollarVars
  <2>11. CASE UNCHANGED vars
    BY <2>5, <2>11 DEF vars, totalVars, shareVars, hollarVars, totalSupply
  <2> QED BY <2>8, <2>9, <2>10, <2>11 DEF Next
<1> QED BY <1>1, <1>2, <1>3

\* The claim of principal moves exactly the reserved HOLLAR and the locked shares out
\* of the pricing, at no more than the rate the payout leaves, or nothing.
LEMMA ClaimPrincipalEffect ==
  ASSUME IInv, [Next]_vars, NEW expected \in Nat, NEW received \in Nat,
         NEW backlog \in BOOLEAN, ClaimPrincipal(expected, received, backlog)
  PROVE  \E paidIn, used, locked \in Nat :
           /\ paidIn = activeAssets + (Holdings' - Holdings)
           /\ used * WAD <= locked * RateOf(paidIn) /\ used <= paidIn
           /\ activeAssets' = paidIn - used
           /\ totalSettledBil' = totalSettledBil + locked
           /\ totalSupply' = totalSupply
<1> DEFINE idle   == idleHollar + received
           paidIn == totalInvestedPrincipal' + yieldValue' + idle
           w      == Settlement(idle, RateOf(paidIn))
           settle == totalQueuedBil > 0 /\ idle > 0 /\ ~backlog
<1>1. /\ totalInvestedPrincipal' = totalInvestedPrincipal - expected
      /\ hollar' = hollar + received /\ expected <= totalInvestedPrincipal
      /\ idleHollar' = IF settle THEN idle - w.used ELSE idle
      /\ IF settle THEN ApplySettlement(w) ELSE UNCHANGED <<queueVars, totalVars>>
      /\ UNCHANGED <<shareVars, flagVars>>
  BY DEF ClaimPrincipal, Credit, PayoutRate, IInv, MoneyInv
<1>2. /\ idleHollar \in Nat /\ yieldValue \in Nat /\ totalInvestedPrincipal \in Nat
      /\ hollar \in Nat /\ totalSettledBil \in Nat
      /\ activeAssets = totalInvestedPrincipal + yieldValue + idleHollar
  BY ViewsNat, CountersNat DEF IInv, MoneyInv
<1>3. /\ totalInvestedPrincipal' \in Nat /\ yieldValue' \in Nat
      /\ activeAssets' = totalInvestedPrincipal' + yieldValue' + idleHollar'
  BY NextKeepsIInv, ViewsNext
<1>4. idle \in Nat /\ paidIn \in Nat /\ idle <= paidIn
  <2>1. idle \in Nat
    BY <1>2
  <2>2. totalInvestedPrincipal' \in Nat /\ yieldValue' \in Nat
    BY <1>3
  <2>3. \A a, b, c \in Nat : a + b + c \in Nat /\ c <= a + b + c
    OBVIOUS
  <2> QED BY <2>1, <2>2, <2>3
<1>5. paidIn = activeAssets + (Holdings' - Holdings)
  BY <1>1, <1>2, <1>3 DEF Holdings
<1>6. totalSupply' = totalSupply
  BY <1>1 DEF shareVars, totalSupply
<1>7. CASE settle
  <2>1. /\ queue \in Queues /\ settledBy \in Indexes
        /\ queueTail \in 0 .. MaxRequests /\ queueHead \in 0 .. queueTail
        /\ \A i \in RequestIds :
             RequestSound(queue[i]) /\ (i < queueHead => Pending(queue[i]) = 0)
    BY DEF IInv, QueueInv, RequestsConsistent, HeadPrefixDone
  <2>2. RateOf(paidIn) \in Nat
    <3> HIDE DEF paidIn
    <3> QED BY <1>4, RateNat
  <2>3. ApplySettlement(w) /\ idleHollar' = idle - w.used
    BY <1>1, <1>7
  <2> HIDE DEF idle, paidIn
  <2>4. WalkInv(w, queue, queueTail, idle, RateOf(paidIn))
    BY <1>4, <2>1, <2>2, ProcessQueueResult DEF Settlement
  <2> HIDE DEF w
  <2>5. /\ w.used \in Nat /\ w.locked \in Nat /\ w.available \in Nat
        /\ w.used + w.available <= idle
        /\ w.used * WAD <= w.locked * RateOf(paidIn)
    BY <2>4 DEF WalkInv, QueueWalks
  <2>6. w.used <= paidIn
    BY <1>4, <2>5
  <2>7. activeAssets' = paidIn - w.used
    BY <1>2, <1>3, <1>4, <2>3, <2>5 DEF paidIn
  <2>8. totalSettledBil' = totalSettledBil + w.locked
    BY <2>3 DEF ApplySettlement
  <2> QED BY <1>4, <1>5, <1>6, <2>5, <2>6, <2>7, <2>8
<1>8. CASE ~settle
  <2>1. idleHollar' = idle /\ totalSettledBil' = totalSettledBil + 0
    BY <1>1, <1>2, <1>8 DEF totalVars
  <2>2. activeAssets' = paidIn - 0
    BY <1>3, <1>4, <2>1
  <2> HIDE DEF idle, paidIn
  <2>3. RateOf(paidIn) \in Nat
    BY <1>4, RateNat
  <2>4. 0 * WAD <= 0 * RateOf(paidIn) /\ 0 <= paidIn
    BY <1>4, <2>3, QueueLibAssumption
  <2> QED BY <1>4, <1>5, <1>6, <2>1, <2>2, <2>4
<1> QED BY <1>7, <1>8

VenueRateKept ==
  activeAssets' * activeSupply >= (activeAssets + (Holdings' - Holdings)) * activeSupply'

\* What Decentral pays, short or not, is all that a step of Decentral takes from the
\* shares: the settlement in it keeps the rate that the payout leaves.
LEMMA VenueKeepsRate ==
  ASSUME IInv, EmptyVault, [Next]_vars, VenueStep
  PROVE  VenueRateKept
<1>1. /\ totalInvestedPrincipal \in Nat /\ yieldValue \in Nat /\ idleHollar \in Nat
      /\ hollar \in Nat /\ activeAssets \in Nat /\ totalSupply \in Nat
      /\ totalSettledBil \in Nat
      /\ activeAssets = totalInvestedPrincipal + yieldValue + idleHollar
  BY ViewsNat, CountersNat DEF IInv, MoneyInv
<1>2. /\ totalInvestedPrincipal' \in Nat /\ yieldValue' \in Nat /\ idleHollar' \in Nat
      /\ hollar' \in Nat /\ activeAssets' \in Nat
      /\ activeAssets' = totalInvestedPrincipal' + yieldValue' + idleHollar'
  <2>1. IInv'
    BY NextKeepsIInv
  <2> QED BY <2>1, NextKeepsIInv, ViewsNext DEF IInv, MoneyInv
<1>3. totalSupply' = totalSupply
  BY DEF VenueStep, AccrueYield, SyncMaturities, ClaimYield, ClaimPrincipal, shareVars,
         totalSupply
<1>4. CASE totalSupply = 0
  <2>1. activeSupply = 0 /\ activeSupply' = 0
    <3>1. totalSettledBil' \in Nat
      BY NextKeepsIInv, CountersNext
    <3>2. totalSupply' = 0
      BY <1>3, <1>4
    <3>3. ~(totalSupply > totalSettledBil) /\ ~(totalSupply' > totalSettledBil')
      BY <1>1, <1>4, <3>1, <3>2
    <3> QED BY <3>3 DEF activeSupply
  <2>2. activeAssets + (Holdings' - Holdings) \in Int
    BY <1>1, <1>2 DEF Holdings
  <2>3. \A a \in Nat : \A b \in Int : a * 0 >= b * 0
    OBVIOUS
  <2> QED BY <1>2, <2>1, <2>2, <2>3 DEF VenueRateKept
<1>5. CASE totalSupply > 0
  <2>1. /\ activeSupply = totalSupply - totalSettledBil /\ activeSupply \in Nat \ {0}
        /\ activeSupply' = totalSupply' - totalSettledBil' /\ activeSupply' \in Nat
    BY <1>5, NextKeepsIInv, SupplyStays, ActiveSupplyIs, ActiveSupplyNext
  <2>2. ASSUME totalSettledBil' = totalSettledBil,
               activeAssets' = activeAssets + (Holdings' - Holdings)
        PROVE  VenueRateKept
    <3>1. activeSupply' = activeSupply
      BY <1>3, <2>1, <2>2
    <3>2. activeAssets' * activeSupply \in Nat
      BY <1>2, <2>1
    <3> QED BY <2>2, <3>1, <3>2 DEF VenueRateKept
  <2>3. CASE AccrueYield \/ SyncMaturities
    <3>1. UNCHANGED <<totalVars, totalInvestedPrincipal, hollarVars>>
      BY <2>3 DEF AccrueYield, SyncMaturities
    <3> QED BY <1>1, <1>2, <2>2, <3>1 DEF Holdings, totalVars, hollarVars
  <2>4. ASSUME NEW e \in Nat, NEW r \in Nat, ClaimYield(e, r)
        PROVE  VenueRateKept
    <3>1. /\ UNCHANGED <<totalVars, totalInvestedPrincipal>>
          /\ idleHollar' = idleHollar + r /\ hollar' = hollar + r
      BY <2>4 DEF ClaimYield, Credit
    <3> QED BY <1>1, <1>2, <2>2, <2>4, <3>1 DEF Holdings, totalVars
  <2>5. ASSUME NEW e \in Nat, NEW r \in Nat, NEW backlog \in BOOLEAN,
               ClaimPrincipal(e, r, backlog)
        PROVE  VenueRateKept
    <3>1. PICK p, u, l \in Nat :
            /\ p = activeAssets + (Holdings' - Holdings)
            /\ u * WAD <= l * RateOf(p) /\ u <= p
            /\ activeAssets' = p - u
            /\ totalSettledBil' = totalSettledBil + l
      BY <2>5, ClaimPrincipalEffect
    <3>2. activeSupply' = activeSupply - l /\ l <= activeSupply
      BY <1>1, <1>3, <2>1, <3>1
    <3>3. /\ RateOf(p) \in Nat /\ activeSupply * RateOf(p) <= p * WAD
          /\ WAD \in Nat \ {0}
      BY <2>1, <3>1, RateNat, QueueLibAssumption
    <3>4. (p - u) * activeSupply >= p * (activeSupply - l)
      BY <2>1, <3>1, <3>2, <3>3, SettlementArithmetic
    <3> QED BY <3>1, <3>2, <3>4 DEF VenueRateKept
  <2>6. /\ \A e \in 1 .. (yieldValue + SyncCatchUp) : e \in Nat /\ Payouts(e) \subseteq Nat
        /\ \A e \in 1 .. totalInvestedPrincipal : e \in Nat /\ Payouts(e) \subseteq Nat
    BY <1>1, VaultLedgerAssumption DEF Payouts
  <2> QED BY <2>3, <2>4, <2>5, <2>6 DEF VenueStep
<1> QED BY <1>1, <1>4, <1>5

\* No call lowers the value of an active share but for what Decentral does in it, for
\* any amounts, budgets and tolerance: the deposits, mints, claims and both settlements,
\* pokeQueue's and the one inside a pokeDecentral that is paid short of the record, take
\* nothing from the shares that stay.
THEOREM CallsKeepRate == Spec => CallsNeverLowerRate
<1>1. Init => EmptyVault
  BY DEF Init, EmptyVault, activeAssets, totalAssets
<1>2. IInv /\ EmptyVault /\ [Next]_vars =>
        [LET gain == IF VenueStep THEN Holdings' - Holdings ELSE yieldValue' - yieldValue
         IN  activeAssets' * activeSupply >= (activeAssets + gain) * activeSupply']_vars
  <2> SUFFICES ASSUME IInv, EmptyVault, [Next]_vars
               PROVE  activeAssets' * activeSupply
                        >= (activeAssets + (IF VenueStep THEN Holdings' - Holdings
                                                         ELSE yieldValue' - yieldValue))
                             * activeSupply'
    OBVIOUS
  <2>1. CASE VenueStep
    <3>1. VenueRateKept
      BY <2>1, VenueKeepsRate
    <3> QED BY <2>1, <3>1 DEF VenueRateKept
  <2>2. CASE ~VenueStep
    <3>1. RateKept
      BY <2>2, NextKeepsRate
    <3>2. yieldValue \in Nat /\ yieldValue' \in Nat /\ activeAssets \in Nat
      BY NextKeepsIInv, ViewsNat, ViewsNext DEF IInv, MoneyInv
    <3>3. SyncedAssets = activeAssets + (yieldValue' - yieldValue)
      BY <3>2 DEF SyncedAssets
    <3> QED BY <2>2, <3>1, <3>3 DEF RateKept
  <2> QED BY <2>1, <2>2
<1> QED BY <1>1, <1>2, InvariantHolds, EmptyVaultKept, PTL DEF Spec, CallsNeverLowerRate

-----------------------------------------------------------------------------
(* A claim is paid out of its controller's own reserve.                    *)

OwedIn(q, c) ==
  SumTo([i \in RequestIds |-> IF q[i].user = c THEN q[i].hollarOwed ELSE 0], MaxRequests)

\* What a claim walk pays is what its controller's requests are owed less after it.
LEMMA ClaimLowersOwed ==
  ASSUME NEW q \in Queues, NEW controller \in Controllers,
         NEW c, ClaimInv(c, q, controller)
  PROVE  OwedIn(c.queue, controller) = OwedIn(q, controller) - c.assets
<1> DEFINE p == c.queue
           f == [i \in RequestIds |-> IF q[i].user = controller THEN q[i].hollarOwed ELSE 0]
           g == [i \in RequestIds |-> IF p[i].user = controller THEN p[i].hollarOwed ELSE 0]
           u == [i \in RequestIds |-> q[i].hollarOwed]
           v == [i \in RequestIds |-> p[i].hollarOwed]
<1>1. MaxRequests \in Nat /\ RequestIds = 0 .. (MaxRequests - 1)
  BY QueueLibAssumption DEF RequestIds
<1>2. p \in Queues /\ c.assets \in Nat
  BY DEF ClaimInv, ClaimWalks
<1>3. ASSUME NEW i \in RequestIds
      PROVE  /\ f[i] \in Nat /\ g[i] \in Nat /\ u[i] \in Nat /\ v[i] \in Nat
             /\ f[i] - g[i] = u[i] - v[i]
  <2>1. q[i].hollarOwed \in Nat /\ p[i].hollarOwed \in Nat
    BY <1>2 DEF Queues, Request
  <2>2. /\ q[i].user # controller => p[i] = q[i]
        /\ q[i].user = controller => p[i].user \in {controller, NoUser}
        /\ p[i].user = NoUser => p[i].hollarOwed = 0
    BY DEF ClaimInv, RequestSound, Hole
  <2>3. CASE q[i].user # controller
    BY <2>1, <2>2, <2>3
  <2>4. CASE q[i].user = controller
    BY <2>1, <2>2, <2>4
  <2> QED BY <2>3, <2>4
<1> HIDE DEF f, g, u, v
<1>4. SumTo(f, MaxRequests) - SumTo(g, MaxRequests) = SumTo(u, MaxRequests) - SumTo(v, MaxRequests)
  <2>1. \A k \in 0 .. (MaxRequests - 1) :
          /\ f[k] \in Int /\ g[k] \in Int /\ u[k] \in Int /\ v[k] \in Int
          /\ f[k] - g[k] = u[k] - v[k]
    BY <1>1, <1>3
  <2> QED BY <1>1, <2>1, SumsDifferAlike
<1>5. /\ SumTo(f, MaxRequests) \in Nat /\ SumTo(g, MaxRequests) \in Nat
      /\ SumTo(u, MaxRequests) \in Nat /\ SumTo(v, MaxRequests) \in Nat
  BY <1>1, <1>3, SumNat
<1>6. SumTo(u, MaxRequests) = SumTo(v, MaxRequests) + c.assets
  BY DEF ClaimInv, SumOwed, u, v
<1>7. SumTo(g, MaxRequests) = SumTo(f, MaxRequests) - c.assets
  BY <1>2, <1>4, <1>5, <1>6
<1> QED BY <1>7 DEF OwedIn, f, g

PaysOwnReserveStep ==
  LET paid == (hollar - hollar') - (totalInvestedPrincipal' - totalInvestedPrincipal)
  IN  hollar' < hollar /\ paid # 0 =>
        \E c \in Controllers :
          /\ OwedTo(c)' = OwedTo(c) - paid
          /\ \A i \in RequestIds : queue[i].user # c => queue'[i] = queue[i]

\* A claim lowers its controller's reserve by what it pays, and no other request.
LEMMA ClaimPaysOwnReserve ==
  ASSUME IInv, NEW controller \in Controllers, NEW c,
         ClaimInv(c, queue, controller), ApplyClaim(controller, c)
  PROVE  PaysOwnReserveStep
<1>1. /\ queue' = c.queue /\ hollar' = hollar - c.assets
      /\ totalInvestedPrincipal' = totalInvestedPrincipal
  BY DEF ApplyClaim, venueVars
<1>2. /\ queue \in Queues /\ hollar \in Nat /\ totalInvestedPrincipal \in Nat
      /\ c.assets \in Nat
  BY DEF IInv, QueueInv, MoneyInv, ClaimInv, ClaimWalks
<1>3. (hollar - hollar') - (totalInvestedPrincipal' - totalInvestedPrincipal) = c.assets
  BY <1>1, <1>2
<1>4. OwedTo(controller)' = OwedTo(controller) - c.assets
  <2>1. OwedIn(c.queue, controller) = OwedIn(queue, controller) - c.assets
    BY <1>2, ClaimLowersOwed
  <2> QED BY <1>1, <2>1 DEF OwedIn, OwedTo
<1>5. \A i \in RequestIds : queue[i].user # controller => queue'[i] = queue[i]
  BY <1>1 DEF ClaimInv
<1> QED BY <1>3, <1>4, <1>5 DEF PaysOwnReserveStep

\* A step that is no claim moves HOLLAR in, or into Decentral as principal.
LEMMA OthersPayNobody ==
  ASSUME IInv,
         hollar' >= hollar
           \/ hollar - hollar' = totalInvestedPrincipal' - totalInvestedPrincipal,
         hollar' \in Nat, totalInvestedPrincipal' \in Nat
  PROVE  PaysOwnReserveStep
<1>1. hollar \in Nat /\ totalInvestedPrincipal \in Nat
  BY DEF IInv, MoneyInv
<1>2. CASE hollar' >= hollar
  BY <1>1, <1>2 DEF PaysOwnReserveStep
<1>3. CASE hollar - hollar' = totalInvestedPrincipal' - totalInvestedPrincipal
  <2>1. \A m \in Int : m - m = 0
    OBVIOUS
  <2>2. hollar - hollar' \in Int
    BY <1>1
  <2>3. (hollar - hollar') - (totalInvestedPrincipal' - totalInvestedPrincipal) = 0
    BY <1>3, <2>1, <2>2, Zenon
  <2> QED BY <2>3 DEF PaysOwnReserveStep
<1> QED BY <1>2, <1>3

\* In every step HOLLAR leaves only into Decentral or as a claim on one's own reserve.
LEMMA NextPaysOwnReserve == IInv /\ [Next]_vars => PaysOwnReserveStep
<1> SUFFICES ASSUME IInv, [Next]_vars PROVE PaysOwnReserveStep
  OBVIOUS
<1>1. /\ hollar \in Nat /\ totalInvestedPrincipal \in Nat
      /\ hollar' \in Nat /\ totalInvestedPrincipal' \in Nat
  BY NextKeepsIInv DEF IInv, MoneyInv
<1>2. ASSUME hollar' = hollar PROVE PaysOwnReserveStep
  <2>1. hollar' >= hollar BY <1>1, <1>2
  <2> QED BY <1>1, <2>1, OthersPayNobody
<1>3. ASSUME NEW n \in Nat, hollar' = hollar + n PROVE PaysOwnReserveStep
  <2>1. hollar' >= hollar BY <1>1, <1>3
  <2> QED BY <1>1, <2>1, OthersPayNobody
<1>4. ASSUME NEW c \in Controllers, NEW n \in Nat, Redeem(c, n) \/ Withdraw(c, n)
      PROVE  PaysOwnReserveStep
  <2>1. /\ queue \in Queues /\ settledBy[c] \in Seq(RequestIds)
        /\ \A i \in RequestIds : RequestSound(queue[i])
    BY DEF IInv, QueueInv, RequestsConsistent, Indexes
  <2>2. /\ ClaimInv(ClaimByShares(queue, settledBy[c], c, n), queue, c)
        /\ ClaimInv(ClaimByAssets(queue, settledBy[c], c, n), queue, c)
    BY <2>1, ClaimResult
  <2> QED BY <1>4, <2>2, ClaimPaysOwnReserve DEF Redeem, Withdraw
<1>5. CASE UserStep
  <2>1. ASSUME NEW n, Deposit(n) \/ Mint(n)
        PROVE  PaysOwnReserveStep
    BY <1>2, <2>1 DEF Deposit, Mint, TakeDeposit, hollarVars
  <2>2. ASSUME NEW c, NEW n, RequestRedeem(c, n) \/ CancelRedeem(n)
        PROVE  PaysOwnReserveStep
    BY <1>2, <2>2 DEF RequestRedeem, CancelRedeem, hollarVars
  <2>3. \A m : 1 .. m \subseteq Nat
    OBVIOUS
  <2> QED BY <1>4, <1>5, <2>1, <2>2, <2>3 DEF UserStep
<1>6. CASE PokeQueue
  <2>1. PICK synced \in SyncedYields, accepted \in BOOLEAN :
          LET w     == Settlement(idleHollar,
                                  RateOf(totalInvestedPrincipal + synced + idleHollar))
              moved == IF accepted THEN ReinvestAmount(w.used) ELSE 0
          IN  /\ ApplySettlement(w)
              /\ totalInvestedPrincipal' = totalInvestedPrincipal + moved
              /\ hollar' = hollar - moved
    BY <1>6 DEF PokeQueue
  <2> DEFINE rate  == RateOf(totalInvestedPrincipal + synced + idleHollar)
             used  == Settlement(idleHollar, rate).used
             moved == IF accepted THEN ReinvestAmount(used) ELSE 0
  <2>2. moved \in Nat
    <3>1. QueueInv /\ idleHollar \in Nat /\ rate \in Nat
      BY SyncedNat, RateNat DEF IInv, MoneyInv
    <3>2. used \in Nat
      <4> HIDE DEF rate
      <4> QED BY <2>1, <3>1, SettlementKeepsQueueInv DEF rate
    <3> HIDE DEF used
    <3> QED BY <3>2, ReinvestBounds
  <2>3. totalInvestedPrincipal' = totalInvestedPrincipal + moved /\ hollar' = hollar - moved
    BY <2>1
  <2> HIDE DEF moved
  <2>4. hollar - hollar' = totalInvestedPrincipal' - totalInvestedPrincipal
    BY <1>1, <2>2, <2>3
  <2> QED BY <1>1, <2>4, OthersPayNobody
<1>7. CASE VenueStep
  <2>1. ASSUME NEW e \in Nat, NEW r \in Nat, NEW backlog,
               ClaimYield(e, r) \/ ClaimPrincipal(e, r, backlog)
        PROVE  PaysOwnReserveStep
    BY <1>3, <2>1 DEF ClaimYield, ClaimPrincipal
  <2>2. /\ \A m : 1 .. m \subseteq Nat
        /\ \A e : Payouts(e) \subseteq Nat
    BY DEF Payouts
  <2>3. CASE AccrueYield \/ SyncMaturities
    BY <1>2, <2>3 DEF AccrueYield, SyncMaturities, hollarVars
  <2> QED BY <1>7, <2>1, <2>2, <2>3 DEF VenueStep
<1>8. CASE OtherStep
  <2>1. ASSUME NEW n \in Nat, DonateShares(n) \/ DonateHollar(n)
        PROVE  PaysOwnReserveStep
    BY <1>2, <1>3, <2>1 DEF DonateShares, DonateHollar, hollarVars
  <2>2. ASSUME NEW b, SetPaused(b) \/ SetDepositsPaused(b)
        PROVE  PaysOwnReserveStep
    BY <1>2, <2>2 DEF SetPaused, SetDepositsPaused, hollarVars
  <2>3. 1 .. MaxDonation \subseteq Nat
    OBVIOUS
  <2> QED BY <1>8, <2>1, <2>2, <2>3 DEF OtherStep
<1>9. CASE UNCHANGED vars
  BY <1>2, <1>9 DEF vars, hollarVars
<1> QED BY <1>5, <1>6, <1>7, <1>8, <1>9 DEF Next

\* HOLLAR leaves the vault only into Decentral, or as a claim that is paid in full
\* out of the reserve of the one controller it is made for.
THEOREM ClaimsPayOwn == Spec => ClaimsPayOwnReserve
<1>1. IInv /\ [Next]_vars =>
        [LET paid == (hollar - hollar') - (totalInvestedPrincipal' - totalInvestedPrincipal)
         IN  hollar' < hollar /\ paid # 0 =>
               \E c \in Controllers :
                 /\ OwedTo(c)' = OwedTo(c) - paid
                 /\ \A i \in RequestIds : queue[i].user # c => queue'[i] = queue[i]]_vars
  BY NextPaysOwnReserve DEF PaysOwnReserveStep
<1> QED BY <1>1, InvariantHolds, PTL DEF Spec, ClaimsPayOwnReserve

-----------------------------------------------------------------------------
(* The per-controller index, in vaults that lose nothing.                  *)

\* The index of c leads to each of its settled requests, once, and nowhere else.
IndexOf(q, ids, c) ==
  /\ \A k \in 1 .. Len(ids) : q[ids[k]].user = c /\ q[ids[k]].bilSettled > 0
  /\ \A k, l \in 1 .. Len(ids) : ids[k] = ids[l] => k = l
  /\ \A i \in RequestIds : q[i].user = c /\ q[i].bilSettled > 0 =>
       \E k \in 1 .. Len(ids) : ids[k] = i

Covered(q) == \A i \in RequestIds : q[i].bilSettled > 0 => q[i].hollarOwed > 0

Indexed(q, b) == Covered(q) /\ \A c \in Controllers : IndexOf(q, b[c], c)

\* Indexed says what IndexExact says.
LEMMA IndexedIsExact ==
  ASSUME settledBy \in Indexes, Indexed(queue, settledBy)
  PROVE  IndexExact
<1> SUFFICES ASSUME NEW i \in RequestIds, NEW c \in Controllers
             PROVE  LET places == {k \in 1 .. Len(settledBy[c]) : settledBy[c][k] = i}
                    IN  IF queue[i].user = c /\ queue[i].bilSettled > 0
                        THEN \E k \in places : places = {k}
                        ELSE places = {}
  BY DEF IndexExact
<1> DEFINE ids    == settledBy[c]
           places == {k \in 1 .. Len(ids) : ids[k] = i}
<1>1. IndexOf(queue, ids, c)
  BY DEF Indexed
<1> HIDE DEF ids
<1>2. CASE queue[i].user = c /\ queue[i].bilSettled > 0
  <2>1. PICK k \in 1 .. Len(ids) : ids[k] = i
    BY <1>1, <1>2 DEF IndexOf
  <2>2. places = {k}
    BY <1>1, <2>1 DEF IndexOf
  <2> QED BY <1>2, <2>1, <2>2 DEF ids
<1>3. CASE ~(queue[i].user = c /\ queue[i].bilSettled > 0)
  <2>1. places = {}
    BY <1>1, <1>3 DEF IndexOf
  <2> QED BY <1>3, <2>1 DEF ids
<1> QED BY <1>2, <1>3

\* A queue in which no request's settled part has changed is as well indexed.
LEMMA IndexedKept ==
  ASSUME NEW q, NEW p, NEW b \in Indexes, Indexed(q, b),
         \A i \in RequestIds :
           /\ p[i].bilSettled = q[i].bilSettled
           /\ q[i].bilSettled > 0 => p[i].user = q[i].user /\ p[i].hollarOwed = q[i].hollarOwed
  PROVE  Indexed(p, b)
<1>1. Covered(p)
  BY DEF Indexed, Covered
<1>2. ASSUME NEW c \in Controllers
      PROVE  IndexOf(p, b[c], c)
  <2>1. IndexOf(q, b[c], c) /\ b[c] \in Seq(RequestIds)
    BY DEF Indexed, Indexes
  <2>2. \A k \in 1 .. Len(b[c]) : b[c][k] \in RequestIds
    BY <2>1, ElementOfSeq
  <2> QED BY <2>1, <2>2 DEF IndexOf
<1> QED BY <1>1, <1>2 DEF Indexed

\* Settling shares against HOLLAR, with the entry indexed when it is the first time.
LEMMA LockKeepsIndexed ==
  ASSUME NEW q \in Queues, NEW b \in Indexes, Indexed(q, b),
         NEW i \in RequestIds, q[i].user # NoUser,
         NEW shares \in Nat \ {0}, NEW paid \in Nat \ {0}
  PROVE  LET r == q[i]
         IN  Indexed([q EXCEPT ![i] = Locked(r, shares, paid)],
                     [b EXCEPT ![r.user] = IndexSettled(b[r.user], r, i)])
<1> DEFINE r   == q[i]
           d   == Locked(r, shares, paid)
           p   == [q EXCEPT ![i] = d]
           u   == r.user
           ids == b[u]
           new == IndexSettled(ids, r, i)
           s   == [b EXCEPT ![u] = new]
<1>1. r \in Request /\ u \in Controllers /\ r.bilSettled \in Nat /\ r.hollarOwed \in Nat
  BY DEF Queues, Request
<1>2. /\ d.user = u /\ d.bilSettled = r.bilSettled + shares
      /\ d.hollarOwed = r.hollarOwed + paid
  <2>1. r \in Request /\ shares \in Nat /\ paid \in Nat
    BY <1>1
  <2> HIDE DEF r, u
  <2>2. /\ Locked(r, shares, paid).user = r.user
        /\ Locked(r, shares, paid).bilSettled = r.bilSettled + shares
        /\ Locked(r, shares, paid).hollarOwed = r.hollarOwed + paid
    BY ONLY <2>1, LockedRequest
  <2> QED BY <2>2 DEF u
<1>3. p[i] = d /\ \A k \in RequestIds : k # i => p[k] = q[k]
  BY DEF Queues
<1>4. /\ ids \in Seq(RequestIds) /\ IndexOf(q, ids, u)
      /\ s[u] = new /\ \A c \in Controllers : c # u => s[c] = b[c]
  BY <1>1 DEF Indexes, Indexed
<1>5. d.bilSettled > 0 /\ d.hollarOwed > 0
  <2> HIDE DEF d
  <2> QED BY <1>1, <1>2
<1> HIDE DEF p, s, d
<1>6. Covered(p)
  BY <1>3, <1>5 DEF Indexed, Covered
<1>7. ASSUME NEW c \in Controllers, c # u
      PROVE  IndexOf(p, s[c], c)
  <2>1. IndexOf(q, b[c], c) /\ b[c] \in Seq(RequestIds)
    BY DEF Indexed, Indexes
  <2>2. \A k \in 1 .. Len(b[c]) : b[c][k] \in RequestIds /\ b[c][k] # i
    BY <1>7, <2>1, ElementOfSeq DEF IndexOf
  <2>3. \A j \in RequestIds : p[j].user = c => j # i
    BY <1>2, <1>3, <1>7
  <2>4. s[c] = b[c]
    BY <1>4, <1>7
  <2> DEFINE o == b[c]
  <2>5. IndexOf(q, o, c) /\ \A k \in 1 .. Len(o) : o[k] \in RequestIds /\ o[k] # i
    BY <2>1, <2>2
  <2> HIDE DEF o
  <2>6. IndexOf(p, o, c)
    BY <1>3, <2>3, <2>5 DEF IndexOf
  <2> QED BY <2>4, <2>6 DEF o
<1>8. IndexOf(p, new, u)
  <2>0. \A k \in 1 .. Len(ids) : ids[k] \in RequestIds
    BY <1>4, ElementOfSeq
  <2>1. CASE r.bilSettled = 0
    <3>1. new = Append(ids, i)
      BY <2>1 DEF IndexSettled
    <3>2. /\ Len(ids) \in Nat /\ Len(new) = Len(ids) + 1 /\ new[Len(ids) + 1] = i
          /\ \A k \in 1 .. Len(ids) : new[k] = ids[k]
      <4> HIDE DEF ids, new
      <4> QED BY <1>4, <3>1, AppendProperties, LenProperties
    <3>3. \A k \in 1 .. Len(ids) : ids[k] # i
      BY <1>4, <2>1 DEF IndexOf
    <3>4. \A k \in 1 .. Len(new) : k = Len(ids) + 1 \/ k \in 1 .. Len(ids)
      BY <3>2
    <3> HIDE DEF ids, new
    <3>5. \A k \in 1 .. Len(new) : p[new[k]].user = u /\ p[new[k]].bilSettled > 0
      BY <1>2, <1>3, <1>4, <1>5, <2>0, <3>2, <3>3, <3>4 DEF IndexOf
    <3>6. \A k, l \in 1 .. Len(new) : new[k] = new[l] => k = l
      BY <1>4, <3>2, <3>3, <3>4 DEF IndexOf
    <3>7. ASSUME NEW j \in RequestIds, p[j].user = u, p[j].bilSettled > 0
          PROVE  \E k \in 1 .. Len(new) : new[k] = j
      <4>1. CASE j = i
        <5>1. Len(ids) + 1 \in 1 .. Len(new)
          BY <3>2
        <5> QED BY <3>2, <4>1, <5>1
      <4>2. CASE j # i
        <5>1. PICK k \in 1 .. Len(ids) : ids[k] = j
          BY <1>3, <1>4, <3>7, <4>2 DEF IndexOf
        <5>2. k \in 1 .. Len(new)
          BY <3>2
        <5> QED BY <3>2, <5>1, <5>2
      <4> QED BY <4>1, <4>2
    <3> QED BY <3>5, <3>6, <3>7 DEF IndexOf
  <2>2. CASE r.bilSettled # 0
    <3>1. new = ids
      BY <2>2 DEF IndexSettled
    <3>2. r.bilSettled > 0
      BY <1>1, <2>2
    <3> HIDE DEF ids, new
    <3>3. \A k \in 1 .. Len(ids) : p[ids[k]].user = u /\ p[ids[k]].bilSettled > 0
      BY <1>2, <1>3, <1>4, <1>5, <2>0 DEF IndexOf
    <3>4. \A j \in RequestIds : p[j].user = u /\ p[j].bilSettled > 0 =>
            q[j].user = u /\ q[j].bilSettled > 0
      BY <1>3, <3>2
    <3> QED BY <1>4, <3>1, <3>3, <3>4 DEF IndexOf
  <2> QED BY <2>1, <2>2
<1>9. Indexed(p, s)
  BY <1>4, <1>6, <1>7, <1>8 DEF Indexed
<1> QED BY <1>9 DEF p, s, d

\* At a rate of par or more, locked shares have HOLLAR behind them.
LEMMA ParReserve ==
  ASSUME NEW shares \in Nat \ {0}, NEW rate \in Nat, NEW w \in Nat \ {0}, rate >= w
  PROVE  (shares * rate) \div w \in Nat \ {0}
<1> DEFINE x == shares * rate
           d == x \div w
<1>1. w <= x /\ x \in Nat
  <2>1. PICK n \in Nat : shares = n + 1
    <3>1. shares - 1 \in Nat /\ shares = (shares - 1) + 1
      OBVIOUS
    <3> QED BY <3>1
  <2>2. x = n * rate + rate /\ n * rate \in Nat
    BY <2>1
  <2> QED BY <2>1, <2>2
<1> HIDE DEF x
<1>2. d \in Nat /\ w * d <= x /\ x < w * d + w
  BY <1>1, DivBounds
<1> HIDE DEF d
<1>3. d # 0
  BY <1>1, <1>2
<1> QED BY <1>2, <1>3 DEF d, x

\* An iteration of the settlement loop at par either leaves requests and index alone
\* or settles the entry under the cursor and indexes it when it must.
LEMMA QueueWalkStepIndexes ==
  ASSUME NEW tail \in 0 .. MaxRequests, NEW rate \in Nat, rate >= WAD,
         NEW w \in QueueWalks, \A i \in RequestIds : RequestSound(w.queue[i])
  PROVE  LET v == QueueWalkStep(w, tail, rate)
             r == w.queue[w.cursor]
         IN  \/ v.queue = w.queue /\ v.settledBy = w.settledBy
             \/ /\ w.cursor \in RequestIds /\ r.user # NoUser
                /\ \E shares \in Nat \ {0} : \E paid \in Nat \ {0} :
                     /\ v.queue = [w.queue EXCEPT ![w.cursor] = Locked(r, shares, paid)]
                     /\ v.settledBy = [w.settledBy EXCEPT
                          ![r.user] = IndexSettled(w.settledBy[r.user], r, w.cursor)]
<1> DEFINE v     == QueueWalkStep(w, tail, rate)
           r     == w.queue[w.cursor]
           value == (Pending(r) * rate) \div WAD
           part  == (w.available * WAD) \div rate
           begun == [w EXCEPT !.iterations = @ + 1]
           Same  == v.queue = w.queue /\ v.settledBy = w.settledBy
           Lock(shares, paid) ==
             /\ v.queue = [w.queue EXCEPT ![w.cursor] = Locked(r, shares, paid)]
             /\ v.settledBy = [w.settledBy EXCEPT
                  ![r.user] = IndexSettled(w.settledBy[r.user], r, w.cursor)]
<1>1. /\ w.cursor \in Nat /\ w.available \in Nat /\ WAD \in Nat \ {0} /\ rate \in Nat \ {0}
  BY QueueLibAssumption DEF QueueWalks
<1>2. CASE \/ w.stopped \/ w.cursor >= tail
           \/ w.iterations >= MAX_QUEUE_ITERATIONS \/ w.skips >= MAX_QUEUE_SKIPS
  BY <1>2 DEF QueueWalkStep
<1>3. CASE ~ (\/ w.stopped \/ w.cursor >= tail
              \/ w.iterations >= MAX_QUEUE_ITERATIONS \/ w.skips >= MAX_QUEUE_SKIPS)
  <2>1. w.cursor \in RequestIds
    BY <1>1, <1>3, QueueLibAssumption DEF RequestIds
  <2>2. CASE r.user = NoUser \/ r.bilSettled = r.bilAmount
    <3>1. v = [PassEntry(w) EXCEPT !.skips = @ + 1]
      BY <1>3, <2>2 DEF QueueWalkStep
    <3>2. Same
      BY <3>1 DEF PassEntry, QueueWalks
    <3> QED BY <3>2
  <2>3. CASE r.user # NoUser /\ r.bilSettled # r.bilAmount /\ w.available = 0
    <3>1. v = [w EXCEPT !.stopped = TRUE]
      BY <1>3, <2>3 DEF QueueWalkStep
    <3> QED BY <3>1 DEF QueueWalks
  <2>4. CASE r.user # NoUser /\ r.bilSettled # r.bilAmount /\ w.available # 0
    <3>1. v = SettleEntry(w, rate)
      BY <1>3, <2>4 DEF QueueWalkStep
    <3>2. Pending(r) \in Nat \ {0}
      BY <2>1, <2>4 DEF RequestSound, Pending, QueueWalks, Queues, Request
    <3>3. value \in Nat \ {0}
      <4> HIDE DEF r
      <4> QED BY <1>1, <3>2, ParReserve
    <3>4. CASE w.available >= value
      <4> DEFINE n == Pending(r)
                 s == Settle(begun, n, value)
      <4>1. v = PassEntry([s EXCEPT !.available = @ - value])
        BY <3>1, <3>3, <3>4 DEF SettleEntry
      <4>2. v.queue = s.queue /\ v.settledBy = s.settledBy
        <5>1. s \in QueueWalks
          <6>1. begun \in QueueWalks /\ begun.cursor = w.cursor /\ begun.queue = w.queue
            BY DEF QueueWalks
          <6> HIDE DEF begun
          <6> QED BY <2>1, <2>4, <3>2, <3>3, <6>1, SettleFields
        <5> DEFINE a == s.available - value
                   u == [s EXCEPT !.available = a]
        <5>2. v = PassEntry(u)
          BY <4>1
        <5> HIDE DEF s, a, v
        <5>3. u.queue = s.queue /\ u.settledBy = s.settledBy
          BY <5>1 DEF QueueWalks
        <5>4. PassEntry(u).queue = u.queue /\ PassEntry(u).settledBy = u.settledBy
          BY <5>1 DEF PassEntry, QueueWalks
        <5> QED BY <5>2, <5>3, <5>4
      <4>3. /\ s.queue = [w.queue EXCEPT ![w.cursor] = Locked(r, n, value)]
            /\ s.settledBy = [w.settledBy EXCEPT
                 ![r.user] = IndexSettled(w.settledBy[r.user], r, w.cursor)]
        BY DEF Settle, QueueWalks
      <4> HIDE DEF s, value, n
      <4>4. Lock(n, value)
        BY <4>2, <4>3
      <4> HIDE DEF Lock
      <4>5. n \in Nat \ {0}
        BY <3>2 DEF n
      <4> QED BY <2>1, <2>4, <3>3, <4>4, <4>5 DEF Lock
    <3>5. CASE w.available < value /\ part = 0
      <4>1. v = [begun EXCEPT !.stopped = TRUE]
        BY <1>1, <3>1, <3>3, <3>5 DEF SettleEntry
      <4> QED BY <4>1 DEF QueueWalks
    <3>6. CASE w.available < value /\ part # 0
      <4> DEFINE reserve == PartialReserve(part, rate, w.available)
                 s       == Settle(begun, part, reserve)
      <4>1. v = [s EXCEPT !.available = 0]
        <5>1. ~(value = 0) /\ ~(w.available >= value) /\ ~(part = 0)
          BY <1>1, <3>3, <3>6
        <5> QED BY <3>1, <5>1 DEF SettleEntry
      <4>2. v.queue = s.queue /\ v.settledBy = s.settledBy
        BY <4>1 DEF QueueWalks, Settle
      <4>3. /\ s.queue = [w.queue EXCEPT ![w.cursor] = Locked(r, part, reserve)]
            /\ s.settledBy = [w.settledBy EXCEPT
                 ![r.user] = IndexSettled(w.settledBy[r.user], r, w.cursor)]
        BY DEF Settle, QueueWalks
      <4>4. part \in Nat \ {0}
        <5>1. w.available * WAD \in Nat
          BY <1>1
        <5> QED BY <1>1, <3>6, <5>1, DivBounds
      <4> HIDE DEF s, part
      <4>5. reserve \in Nat \ {0}
        BY <1>1, <4>4, ParReserve DEF PartialReserve
      <4> HIDE DEF reserve
      <4>6. Lock(part, reserve)
        BY <4>2, <4>3
      <4> HIDE DEF Lock
      <4> QED BY <2>1, <2>4, <4>4, <4>5, <4>6 DEF Lock
    <3> HIDE DEF value, part
    <3>7. w.available >= value \/ w.available < value
      BY <1>1, <3>3
    <3> QED BY <3>4, <3>5, <3>6, <3>7
  <2> QED BY <2>2, <2>3, <2>4
<1> QED BY <1>2, <1>3

\* A call of processQueue at par or more leaves the index exact.
LEMMA ProcessQueueIndexes ==
  ASSUME NEW q \in Queues, NEW settled \in Indexes, Indexed(q, settled),
         NEW tail \in 0 .. MaxRequests, NEW head \in 0 .. tail,
         NEW available \in Nat, NEW rate \in Nat, rate >= WAD,
         \A i \in RequestIds : RequestSound(q[i]) /\ (i < head => Pending(q[i]) = 0)
  PROVE  LET w == ProcessQueue(q, settled, head, tail, available, rate)
         IN  Indexed(w.queue, w.settledBy)
<1> DEFINE w0 == [queue |-> q, settledBy |-> settled, cursor |-> head,
                  head |-> head, available |-> available, iterations |-> 0,
                  skips |-> 0, used |-> 0, locked |-> 0, stopped |-> FALSE]
           F == [w \in QueueWalks |-> QueueWalkStep(w, tail, rate)]
           T == {w \in QueueWalks : /\ WalkInv(w, q, tail, available, rate)
                                    /\ Indexed(w.queue, w.settledBy)}
<1>1. w0 \in QueueWalks
  BY QueueLibAssumption DEF QueueWalks
<1>2. WalkInv(w0, q, tail, available, rate)
  <2>1. \A i \in RequestIds : q[i].bilSettled \in Nat
    BY DEF Queues, Request
  <2>2. 0 * WAD <= 0 * rate
    BY QueueLibAssumption
  <2>3. SumSettled(q) \in Nat /\ SumOwed(q) \in Nat
    BY SumsNat
  <2> QED BY <1>1, <2>1, <2>2, <2>3 DEF WalkInv
<1>3. \A x \in T : F[x] \in T
  <2> SUFFICES ASSUME NEW x \in QueueWalks, WalkInv(x, q, tail, available, rate),
                      Indexed(x.queue, x.settledBy)
               PROVE  QueueWalkStep(x, tail, rate) \in T
    OBVIOUS
  <2> DEFINE v == QueueWalkStep(x, tail, rate)
             r == x.queue[x.cursor]
  <2>1. WalkInv(v, q, tail, available, rate)
    BY QueueWalkStepKeepsInv
  <2>2. \A i \in RequestIds : RequestSound(x.queue[i])
    BY DEF WalkInv
  <2>3. \/ v.queue = x.queue /\ v.settledBy = x.settledBy
        \/ /\ x.cursor \in RequestIds /\ r.user # NoUser
           /\ \E shares \in Nat \ {0} : \E paid \in Nat \ {0} :
                /\ v.queue = [x.queue EXCEPT ![x.cursor] = Locked(r, shares, paid)]
                /\ v.settledBy = [x.settledBy EXCEPT
                     ![r.user] = IndexSettled(x.settledBy[r.user], r, x.cursor)]
    BY <2>2, QueueWalkStepIndexes
  <2>4. x.queue \in Queues /\ x.settledBy \in Indexes
    BY DEF QueueWalks
  <2> HIDE DEF v, r
  <2>5. Indexed(v.queue, v.settledBy)
    <3>1. CASE v.queue = x.queue /\ v.settledBy = x.settledBy
      BY <3>1
    <3>2. CASE ~(v.queue = x.queue /\ v.settledBy = x.settledBy)
      <4>1. x.cursor \in RequestIds /\ x.queue[x.cursor].user # NoUser
        BY <2>3, <3>2 DEF r
      <4>2. PICK shares \in Nat \ {0}, paid \in Nat \ {0} :
              /\ v.queue = [x.queue EXCEPT ![x.cursor] = Locked(r, shares, paid)]
              /\ v.settledBy = [x.settledBy EXCEPT
                   ![r.user] = IndexSettled(x.settledBy[r.user], r, x.cursor)]
        BY <2>3, <3>2
      <4> DEFINE i == x.cursor
                 p == [x.queue EXCEPT ![i] = Locked(x.queue[i], shares, paid)]
                 s == [x.settledBy EXCEPT ![x.queue[i].user] =
                         IndexSettled(x.settledBy[x.queue[i].user], x.queue[i], i)]
      <4>3. i \in RequestIds /\ x.queue[i].user # NoUser
        BY <4>1
      <4>4. v.queue = p /\ v.settledBy = s
        BY <4>2 DEF r
      <4> HIDE DEF i
      <4>5. Indexed(p, s)
        BY <2>4, <4>3, LockKeepsIndexed
      <4> HIDE DEF p, s
      <4> QED BY <4>4, <4>5
    <3> QED BY <3>1, <3>2
  <2>6. v \in QueueWalks
    BY <2>1 DEF WalkInv
  <2> QED BY <2>1, <2>5, <2>6 DEF v
<1> HIDE DEF F, T, w0
<1>4. w0 \in T
  <2>1. w0.queue = q /\ w0.settledBy = settled
    BY DEF w0
  <2> QED BY <1>1, <1>2, <2>1 DEF T
<1>5. MAX_QUEUE_ITERATIONS + MAX_QUEUE_SKIPS \in Nat
  BY QueueLibAssumption
<1>6. Iterate(F, w0, MAX_QUEUE_ITERATIONS + MAX_QUEUE_SKIPS) \in T
  BY <1>3, <1>4, <1>5, IterateInvariant
<1> QED BY <1>6 DEF ProcessQueue, F, T, w0

\* Swap-and-pop removes one element of an index and keeps all others.
LEMMA SwapPopRemoves ==
  ASSUME NEW ids \in Seq(RequestIds), NEW j \in 1 .. Len(ids),
         \A k, l \in 1 .. Len(ids) : ids[k] = ids[l] => k = l
  PROVE  LET s == SwapPop(ids, j)
         IN  /\ \A k, l \in 1 .. Len(s) : s[k] = s[l] => k = l
             /\ \A k \in 1 .. Len(s) : \E l \in 1 .. Len(ids) : l # j /\ s[k] = ids[l]
             /\ \A l \in 1 .. Len(ids) : l # j => \E k \in 1 .. Len(s) : s[k] = ids[l]
<1> DEFINE s == SwapPop(ids, j)
           n == Len(ids)
<1>1. n \in Nat /\ Len(s) = n - 1
  BY SwapPopSeq, LenProperties
<1>2. \A k \in 1 .. (n - 1) : s[k] = IF k = j THEN ids[n] ELSE ids[k]
  BY DEF SwapPop
<1> HIDE DEF s
<1>3. \A k \in 1 .. (n - 1) : k \in 1 .. n /\ n \in 1 .. n /\ k # n
  BY <1>1
<1>4. \A k, l \in 1 .. (n - 1) : s[k] = s[l] => k = l
  BY <1>2, <1>3
<1>5. ASSUME NEW k \in 1 .. (n - 1)
      PROVE  \E l \in 1 .. n : l # j /\ s[k] = ids[l]
  <2>1. CASE k = j
    BY <1>2, <1>3, <2>1
  <2>2. CASE k # j
    BY <1>2, <1>3, <2>2
  <2> QED BY <2>1, <2>2
<1>6. ASSUME NEW l \in 1 .. n, l # j
      PROVE  \E k \in 1 .. (n - 1) : s[k] = ids[l]
  <2>1. CASE l = n
    <3>1. j \in 1 .. (n - 1)
      BY <1>1, <1>6, <2>1
    <3> QED BY <1>2, <2>1, <3>1
  <2>2. CASE l # n
    <3>1. l \in 1 .. (n - 1)
      BY <1>1, <2>2
    <3> QED BY <1>2, <1>6, <3>1
  <2> QED BY <2>1, <2>2
<1> QED BY <1>1, <1>4, <1>5, <1>6 DEF s

ClaimIndexed(c, controller) ==
  Covered(c.queue) /\ IndexOf(c.queue, c.ids, controller)

\* A draw that leaves shares exactly when it leaves HOLLAR keeps the index exact.
LEMMA DrawKeepsIndexed ==
  ASSUME NEW controller \in Controllers, NEW c \in ClaimWalks,
         ClaimIndexed(c, controller), c.at \in 1 .. Len(c.ids),
         \A k \in RequestIds : RequestSound(c.queue[k]),
         NEW shares \in Nat, NEW paid \in Nat, NEW rest,
         shares <= c.queue[c.ids[c.at]].bilSettled, paid <= c.queue[c.ids[c.at]].hollarOwed,
         shares = c.queue[c.ids[c.at]].bilSettled <=> paid = c.queue[c.ids[c.at]].hollarOwed
  PROVE  ClaimIndexed([Draw(c, c.ids[c.at], shares, paid) EXCEPT !.remaining = rest], controller)
<1> DEFINE i   == c.ids[c.at]
           r   == c.queue[i]
           e   == Kept(Drawn(r, shares, paid))
           p   == [c.queue EXCEPT ![i] = e]
           ids == c.ids
           s   == IF e.bilSettled = 0 THEN SwapPop(ids, c.at) ELSE ids
           d   == [Draw(c, i, shares, paid) EXCEPT !.remaining = rest]
<1>0. SUFFICES ClaimIndexed(d, controller)
  OBVIOUS
<1>1. c.queue \in Queues /\ ids \in Seq(RequestIds) /\ Len(ids) \in Nat /\ i \in RequestIds
  BY LenProperties, ElementOfSeq DEF ClaimWalks
<1>2. d.queue = p /\ d.ids = s
  BY DEF Draw, ClaimWalks
<1>3. /\ IndexOf(c.queue, ids, controller) /\ Covered(c.queue)
      /\ \A k \in 1 .. Len(ids) : ids[k] \in RequestIds
  BY <1>1, ElementOfSeq DEF ClaimIndexed
<1>4. /\ r \in Request /\ RequestSound(r) /\ r.user = controller /\ r.user # NoUser
      /\ r.bilSettled \in Nat /\ r.hollarOwed \in Nat /\ r.bilSettled > 0
  <2>1. r \in Request /\ RequestSound(r)
    BY <1>1 DEF Queues
  <2>2. r.user = controller /\ r.bilSettled > 0
    BY <1>3 DEF IndexOf
  <2> QED BY <2>1, <2>2, QueueLibAssumption DEF Request
<1> HIDE DEF i, d
<1>5. /\ e \in Request /\ RequestSound(e) /\ e.user \in {r.user, NoUser}
      /\ e.bilSettled = r.bilSettled - shares /\ e.hollarOwed = r.hollarOwed - paid
  <2>1. shares <= r.bilSettled /\ paid <= r.hollarOwed
        /\ (shares = r.bilSettled => paid = r.hollarOwed)
    BY DEF i
  <2> HIDE DEF r
  <2> QED BY <1>4, <2>1, DrawnRequest
<1>6. /\ e.bilSettled > 0 => e.user = controller /\ e.hollarOwed > 0
      /\ e.bilSettled \in Nat
  <2>1. e.bilSettled > 0 => e.user # NoUser
    BY <1>5 DEF RequestSound, Hole
  <2>2. e.bilSettled > 0 => shares # r.bilSettled
    <3> HIDE DEF e
    <3> QED BY <1>4, <1>5
  <2>3. shares # r.bilSettled => paid # r.hollarOwed
    BY DEF i
  <2>4. paid <= r.hollarOwed /\ (paid # r.hollarOwed => r.hollarOwed - paid > 0)
    <3>1. paid <= r.hollarOwed
      BY DEF i
    <3> HIDE DEF r
    <3> QED BY <1>4, <3>1
  <2>5. e.bilSettled \in Nat
    BY <1>5 DEF Request
  <2> HIDE DEF e
  <2> QED BY <1>4, <1>5, <2>1, <2>2, <2>3, <2>4, <2>5
<1> HIDE DEF e
<1>7. p[i] = e /\ \A k \in RequestIds : k # i => p[k] = c.queue[k]
  BY <1>1 DEF Queues
<1> HIDE DEF p, r
<1>8. Covered(p)
  BY <1>3, <1>6, <1>7 DEF Covered
<1>9. \A k \in 1 .. Len(ids) : ids[k] = i => k = c.at
  BY <1>3 DEF IndexOf, i
<1>10. CASE e.bilSettled = 0
  <2>1. /\ \A k, l \in 1 .. Len(s) : s[k] = s[l] => k = l
        /\ \A k \in 1 .. Len(s) : \E l \in 1 .. Len(ids) : l # c.at /\ s[k] = ids[l]
        /\ \A l \in 1 .. Len(ids) : l # c.at => \E k \in 1 .. Len(s) : s[k] = ids[l]
    <3> DEFINE j == c.at
               t == SwapPop(ids, j)
    <3>1. s = t
      BY <1>10
    <3>2. \A k, l \in 1 .. Len(ids) : ids[k] = ids[l] => k = l
      BY <1>3 DEF IndexOf
    <3>3. j \in 1 .. Len(ids)
      OBVIOUS
    <3> HIDE DEF s, ids, j
    <3>4. /\ \A k, l \in 1 .. Len(t) : t[k] = t[l] => k = l
          /\ \A k \in 1 .. Len(t) : \E l \in 1 .. Len(ids) : l # j /\ t[k] = ids[l]
          /\ \A l \in 1 .. Len(ids) : l # j => \E k \in 1 .. Len(t) : t[k] = ids[l]
      BY <1>1, <3>2, <3>3, SwapPopRemoves
    <3> HIDE DEF t
    <3> QED BY <3>1, <3>4 DEF j
  <2> HIDE DEF s, ids
  <2>2. \A k \in 1 .. Len(s) : p[s[k]].user = controller /\ p[s[k]].bilSettled > 0
    <3> SUFFICES ASSUME NEW k \in 1 .. Len(s)
                 PROVE  p[s[k]].user = controller /\ p[s[k]].bilSettled > 0
      OBVIOUS
    <3>1. PICK l \in 1 .. Len(ids) : l # c.at /\ s[k] = ids[l]
      BY <2>1
    <3>2. ids[l] \in RequestIds /\ ids[l] # i
      BY <1>3, <1>9, <3>1
    <3>3. c.queue[ids[l]].user = controller /\ c.queue[ids[l]].bilSettled > 0
      BY <1>3 DEF IndexOf
    <3> QED BY <1>7, <3>1, <3>2, <3>3
  <2>3. ASSUME NEW j \in RequestIds, p[j].user = controller, p[j].bilSettled > 0
        PROVE  \E k \in 1 .. Len(s) : s[k] = j
    <3>1. j # i
      BY <1>7, <1>10, <2>3
    <3>2. PICK l \in 1 .. Len(ids) : ids[l] = j
      BY <1>3, <1>7, <2>3, <3>1 DEF IndexOf
    <3>3. l # c.at
      BY <3>1, <3>2 DEF i, ids
    <3> QED BY <2>1, <3>2, <3>3
  <2> QED BY <1>2, <1>8, <2>1, <2>2, <2>3 DEF ClaimIndexed, IndexOf
<1>11. CASE e.bilSettled # 0
  <2>1. s = ids /\ e.bilSettled > 0
    BY <1>6, <1>11
  <2> HIDE DEF s, ids
  <2>2. \A k \in 1 .. Len(ids) : p[ids[k]].user = controller /\ p[ids[k]].bilSettled > 0
    BY <1>3, <1>6, <1>7, <2>1 DEF IndexOf
  <2>3. ASSUME NEW j \in RequestIds, p[j].user = controller, p[j].bilSettled > 0
        PROVE  \E k \in 1 .. Len(ids) : ids[k] = j
    <3>1. CASE j = i
      BY <3>1 DEF i, ids
    <3>2. CASE j # i
      BY <1>3, <1>7, <2>3, <3>2 DEF IndexOf
    <3> QED BY <3>1, <3>2
  <2>4. \A k, l \in 1 .. Len(ids) : ids[k] = ids[l] => k = l
    BY <1>3 DEF IndexOf
  <2> QED BY <1>2, <1>8, <2>1, <2>2, <2>3, <2>4 DEF ClaimIndexed, IndexOf
<1> QED BY <1>10, <1>11

\* One iteration of claimByShares keeps the index exact.
LEMMA ClaimSharesStepIndexes ==
  ASSUME NEW q \in Queues, NEW controller \in Controllers,
         NEW c, ClaimInv(c, q, controller), ClaimIndexed(c, controller)
  PROVE  ClaimIndexed(ClaimSharesStep(c, controller), controller)
<1> DEFINE i    == c.ids[c.at]
           r    == c.queue[i]
           take == Lesser(r.bilSettled, c.remaining)
           part == (take * r.hollarOwed) \div r.bilSettled
           rest == c.remaining - take
<1>1. /\ c \in ClaimWalks /\ c.ids \in Seq(RequestIds) /\ c.at \in Nat
      /\ Len(c.ids) \in Nat /\ c.at <= Len(c.ids) /\ c.remaining \in Nat
      /\ c.queue \in Queues /\ \A k \in RequestIds : RequestSound(c.queue[k])
  BY LenProperties DEF ClaimInv, ClaimWalks
<1>2. CASE c.at = 0 \/ c.remaining = 0
  BY <1>2 DEF ClaimSharesStep
<1>3. CASE ~(c.at = 0 \/ c.remaining = 0)
  <2>1. c.at \in 1 .. Len(c.ids) /\ i \in RequestIds
    BY <1>1, <1>3, ElementOfSeq
  <2>2. r.user = controller /\ r.bilSettled > 0 /\ r.hollarOwed > 0
        /\ r.bilSettled \in Nat /\ r.hollarOwed \in Nat
    <3>1. r.user = controller /\ r.bilSettled > 0
      BY <2>1 DEF ClaimIndexed, IndexOf
    <3>2. r.hollarOwed > 0
      BY <2>1, <3>1 DEF ClaimIndexed, Covered
    <3>3. r \in Request
      BY <1>1, <2>1 DEF Queues
    <3> QED BY <3>1, <3>2, <3>3 DEF Request
  <2>3. ClaimSharesStep(c, controller) = [Draw(c, i, take, part) EXCEPT !.remaining = rest]
    <3>1. ~(r.user # controller \/ r.bilSettled = 0)
      BY <2>2
    <3> QED BY <1>1, <1>3, <3>1 DEF ClaimSharesStep, Draw
  <2>4. take \in Nat /\ take > 0 /\ take <= r.bilSettled
    BY <1>1, <1>3, <2>2 DEF Lesser
  <2> HIDE DEF take, rest
  <2>5. /\ part \in Nat /\ part <= r.hollarOwed
        /\ take = r.bilSettled => part = r.hollarOwed
        /\ take < r.bilSettled => part < r.hollarOwed
    <3>1. r.bilSettled \in Nat \ {0}
      BY <2>2
    <3> HIDE DEF r
    <3> QED BY <2>2, <2>4, <3>1, ProRata
  <2> HIDE DEF part
  <2>6. take = r.bilSettled <=> part = r.hollarOwed
    <3> HIDE DEF r
    <3> QED BY <2>2, <2>4, <2>5
  <2>7. take <= c.queue[c.ids[c.at]].bilSettled /\ part <= c.queue[c.ids[c.at]].hollarOwed
        /\ (take = c.queue[c.ids[c.at]].bilSettled <=> part = c.queue[c.ids[c.at]].hollarOwed)
    BY <2>4, <2>5, <2>6
  <2>8. \A k \in RequestIds : RequestSound(c.queue[k])
    BY <1>1
  <2>9. take \in Nat /\ part \in Nat
    BY <2>4, <2>5
  <2> HIDE DEF r
  <2>10. ClaimIndexed([Draw(c, c.ids[c.at], take, part) EXCEPT !.remaining = rest], controller)
    BY <1>1, <2>1, <2>7, <2>8, <2>9, DrawKeepsIndexed
  <2> QED BY <2>3, <2>10
<1> QED BY <1>2, <1>3

\* One iteration of claimByAssets keeps the index exact.
LEMMA ClaimAssetsStepIndexes ==
  ASSUME NEW q \in Queues, NEW controller \in Controllers,
         NEW c, ClaimInv(c, q, controller), ClaimIndexed(c, controller)
  PROVE  ClaimIndexed(ClaimAssetsStep(c, controller), controller)
<1> DEFINE i    == c.ids[c.at]
           r    == c.queue[i]
           take == Lesser(r.hollarOwed, c.remaining)
           part == (take * r.bilSettled) \div r.hollarOwed
           rest == c.remaining - take
<1>1. /\ c \in ClaimWalks /\ c.ids \in Seq(RequestIds) /\ c.at \in Nat
      /\ Len(c.ids) \in Nat /\ c.at <= Len(c.ids) /\ c.remaining \in Nat
      /\ c.queue \in Queues /\ \A k \in RequestIds : RequestSound(c.queue[k])
  BY LenProperties DEF ClaimInv, ClaimWalks
<1>2. CASE c.at = 0 \/ c.remaining = 0
  BY <1>2 DEF ClaimAssetsStep
<1>3. CASE ~(c.at = 0 \/ c.remaining = 0)
  <2>1. c.at \in 1 .. Len(c.ids) /\ i \in RequestIds
    BY <1>1, <1>3, ElementOfSeq
  <2>2. r.user = controller /\ r.bilSettled > 0 /\ r.hollarOwed > 0
        /\ r.bilSettled \in Nat /\ r.hollarOwed \in Nat
    <3>1. r.user = controller /\ r.bilSettled > 0
      BY <2>1 DEF ClaimIndexed, IndexOf
    <3>2. r.hollarOwed > 0
      BY <2>1, <3>1 DEF ClaimIndexed, Covered
    <3>3. r \in Request
      BY <1>1, <2>1 DEF Queues
    <3> QED BY <3>1, <3>2, <3>3 DEF Request
  <2>3. ClaimAssetsStep(c, controller) = [Draw(c, i, part, take) EXCEPT !.remaining = rest]
    <3>1. ~(r.user # controller \/ r.hollarOwed = 0)
      BY <2>2
    <3> QED BY <1>1, <1>3, <3>1 DEF ClaimAssetsStep, Draw
  <2>4. take \in Nat /\ take > 0 /\ take <= r.hollarOwed
    BY <1>1, <1>3, <2>2 DEF Lesser
  <2> HIDE DEF take, rest
  <2>5. /\ part \in Nat /\ part <= r.bilSettled
        /\ take = r.hollarOwed => part = r.bilSettled
        /\ take < r.hollarOwed => part < r.bilSettled
    <3>1. r.hollarOwed \in Nat \ {0}
      BY <2>2
    <3> HIDE DEF r
    <3> QED BY <2>2, <2>4, <3>1, ProRata
  <2> HIDE DEF part
  <2>6. part = r.bilSettled <=> take = r.hollarOwed
    <3> HIDE DEF r
    <3> QED BY <2>2, <2>4, <2>5
  <2>7. part <= c.queue[c.ids[c.at]].bilSettled /\ take <= c.queue[c.ids[c.at]].hollarOwed
        /\ (part = c.queue[c.ids[c.at]].bilSettled <=> take = c.queue[c.ids[c.at]].hollarOwed)
    BY <2>4, <2>5, <2>6
  <2>8. \A k \in RequestIds : RequestSound(c.queue[k])
    BY <1>1
  <2>9. part \in Nat /\ take \in Nat
    BY <2>4, <2>5
  <2> HIDE DEF r
  <2>10. ClaimIndexed([Draw(c, c.ids[c.at], part, take) EXCEPT !.remaining = rest], controller)
    BY <1>1, <2>1, <2>7, <2>8, <2>9, DrawKeepsIndexed
  <2> QED BY <2>3, <2>10
<1> QED BY <1>2, <1>3

\* Both claim walks leave the index of their controller exact.
LEMMA ClaimsIndex ==
  ASSUME NEW q \in Queues, \A i \in RequestIds : RequestSound(q[i]), Covered(q),
         NEW ids \in Seq(RequestIds), NEW controller \in Controllers,
         IndexOf(q, ids, controller), NEW amount \in Nat
  PROVE  /\ ClaimIndexed(ClaimByShares(q, ids, controller, amount), controller)
         /\ ClaimIndexed(ClaimByAssets(q, ids, controller, amount), controller)
<1> DEFINE c0 == ClaimStart(q, ids, amount)
           F == [c \in ClaimWalks |-> ClaimSharesStep(c, controller)]
           G == [c \in ClaimWalks |-> ClaimAssetsStep(c, controller)]
           T == {c \in ClaimWalks : ClaimInv(c, q, controller) /\ ClaimIndexed(c, controller)}
<1>1. Len(ids) \in Nat /\ SumQueued(q) \in Nat /\ SumSettled(q) \in Nat /\ SumOwed(q) \in Nat
  BY SumsNat, LenProperties
<1>2. c0 \in T
  <2>1. \A i \in RequestIds : q[i].bilSettled \in Nat
    BY DEF Queues, Request
  <2>2. /\ c0.queue = q /\ c0.ids = ids /\ c0.at = Len(ids)
        /\ c0.shares = 0 /\ c0.assets = 0 /\ c0 \in ClaimWalks
    BY <1>1 DEF ClaimStart, ClaimWalks
  <2> HIDE DEF c0
  <2>3. ClaimInv(c0, q, controller)
    BY <1>1, <2>1, <2>2 DEF ClaimInv
  <2> QED BY <2>2, <2>3 DEF ClaimIndexed
<1>3. \A x \in T : F[x] \in T
  <2> SUFFICES ASSUME NEW x \in ClaimWalks, ClaimInv(x, q, controller),
                      ClaimIndexed(x, controller)
               PROVE  ClaimSharesStep(x, controller) \in T
    OBVIOUS
  <2>1. ClaimInv(ClaimSharesStep(x, controller), q, controller)
    BY ClaimSharesStepKeepsInv
  <2> QED BY <2>1, ClaimSharesStepIndexes DEF ClaimInv
<1>4. \A x \in T : G[x] \in T
  <2> SUFFICES ASSUME NEW x \in ClaimWalks, ClaimInv(x, q, controller),
                      ClaimIndexed(x, controller)
               PROVE  ClaimAssetsStep(x, controller) \in T
    OBVIOUS
  <2>1. ClaimInv(ClaimAssetsStep(x, controller), q, controller)
    BY ClaimAssetsStepKeepsInv
  <2> QED BY <2>1, ClaimAssetsStepIndexes DEF ClaimInv
<1> HIDE DEF F, G, T, c0
<1>5. Iterate(F, c0, Len(ids)) \in T /\ Iterate(G, c0, Len(ids)) \in T
  BY <1>1, <1>2, <1>3, <1>4, IterateInvariant
<1> QED BY <1>5 DEF ClaimByShares, ClaimByAssets, F, G, T, c0


-----------------------------------------------------------------------------
(* Vaults that lose nothing stay at par.                                   *)

\* Decentral pays what it owes, and no maturity sync rounds yield away: what it
\* does, and what a sync inside pokeQueue does, never lowers the total assets.
LossFreeStep == VenueStep \/ PokeQueue => totalAssets' >= totalAssets

LossFree == [][LossFreeStep]_vars

\* An active share is worth at least a HOLLAR.
AtPar == activeAssets >= activeSupply

\* At par, the rate is at least one.
LEMMA RateAtPar ==
  ASSUME IInv, NEW assets \in Nat, assets >= activeSupply
  PROVE  RateOf(assets) \in Nat /\ RateOf(assets) >= WAD
<1>1. WAD \in Nat \ {0} /\ activeSupply \in Nat /\ RateOf(assets) \in Nat
  BY ViewsNat, RateNat, QueueLibAssumption
<1>2. CASE activeSupply = 0
  BY <1>1, <1>2 DEF RateOf
<1>3. CASE activeSupply # 0
  <2> DEFINE s == activeSupply
             x == assets * WAD
             y == s * WAD
             r == x \div s
  <2>1. s \in Nat \ {0} /\ s <= assets
    BY <1>1, <1>3
  <2> HIDE DEF s
  <2>2. x \in Nat /\ y \in Nat /\ y <= x
    BY <1>1, <2>1, MulMono
  <2> HIDE DEF x
  <2>3. r \in Nat /\ x < s * r + s
    BY <2>1, <2>2, DivBounds
  <2> HIDE DEF r
  <2>4. WAD <= r
    <3>1. SUFFICES ASSUME r + 1 <= WAD PROVE FALSE
      BY <1>1, <2>3
    <3>2. s * (r + 1) <= y
      BY <1>1, <2>1, <2>3, <3>1, MulMono
    <3>3. s * (r + 1) = s * r + s /\ s * r \in Nat
      BY <2>1, <2>3
    <3> HIDE DEF y
    <3> QED BY <2>1, <2>2, <2>3, <3>2, <3>3
  <2>5. RateOf(assets) = r
    BY <1>3 DEF RateOf, r, s, x
  <2> QED BY <1>1, <2>3, <2>4, <2>5
<1> QED BY <1>2, <1>3

\* Assets that kept their proportion to a supply they covered cover the new one.
LEMMA ParArithmetic ==
  ASSUME NEW a \in Nat, NEW b \in Nat, NEW s \in Nat \ {0}, NEW t \in Nat,
         b >= s, a * s >= b * t
  PROVE  a >= t
<1>1. SUFFICES ASSUME a + 1 <= t PROVE FALSE
  OBVIOUS
<1> DEFINE x == s * t
           y == b * t
           z == s * a
<1>2. x <= y
  BY MulMono
<1>3. s * (a + 1) <= x
  BY <1>1, MulMono
<1>4. s * (a + 1) = z + s /\ z = a * s
  OBVIOUS
<1>5. x \in Nat /\ y \in Nat /\ z \in Nat /\ y <= z
  BY <1>4
<1> HIDE DEF x, y, z
<1> QED BY <1>2, <1>3, <1>4, <1>5

\* The views of the successor state are naturals too.
LEMMA ActiveSupplyNatNext == IInv' => activeSupply' \in Nat
<1>1. (IInv => activeSupply \in Nat)'
  BY ActiveSupplyNat, PTL
<1> QED BY <1>1

\* Without shares there are no active ones.
LEMMA NoActiveSupply == IInv /\ totalSupply = 0 => activeSupply = 0
BY CountersNat DEF IInv, activeSupply

\* A vault without shares is at par.
LEMMA NoSharesAtPar ==
  ASSUME IInv', totalSupply' = 0
  PROVE  AtPar'
<1>2. (IInv /\ totalSupply = 0 => activeSupply = 0)'
  BY NoActiveSupply, PTL
<1>3. activeAssets' >= 0
  BY ViewsNext
<1> QED BY <1>2, <1>3 DEF AtPar


\* pokeQueue settles at par or more.
LEMMA PokeQueueAtPar ==
  ASSUME IInv, AtPar, PokeQueue, totalAssets' >= totalAssets
  PROVE  /\ SyncedAssets >= activeAssets
         /\ \E rate \in Nat : rate >= WAD /\ ApplySettlement(Settlement(idleHollar, rate))
<1>1. PICK synced \in SyncedYields, accepted \in BOOLEAN :
        LET s      == Settlement(idleHollar,
                                 RateOf(totalInvestedPrincipal + synced + idleHollar))
            amount == IF accepted THEN ReinvestAmount(s.used) ELSE 0
        IN  /\ ApplySettlement(s)
            /\ idleHollar' = idleHollar - s.used - amount
            /\ totalInvestedPrincipal' = totalInvestedPrincipal + amount
            /\ yieldValue' = synced
  BY DEF PokeQueue
<1> DEFINE assets == totalInvestedPrincipal + synced + idleHollar
           rate   == RateOf(assets)
           w      == Settlement(idleHollar, rate)
           amount == IF accepted THEN ReinvestAmount(w.used) ELSE 0
<1>2. /\ idleHollar \in Nat /\ synced \in Nat /\ activeAssets \in Nat
      /\ totalInvestedPrincipal \in Nat /\ yieldValue \in Nat /\ totalReservedHollar \in Nat
      /\ activeAssets = totalInvestedPrincipal + yieldValue + idleHollar
      /\ QueueInv /\ activeSupply \in Nat
  BY SyncedNat, ViewsNat, CountersNat DEF IInv, MoneyInv
<1>3. assets \in Nat /\ rate \in Nat
  BY <1>2, RateNat
<1>4. /\ ApplySettlement(w)
      /\ idleHollar' = idleHollar - w.used - amount
      /\ totalInvestedPrincipal' = totalInvestedPrincipal + amount
      /\ yieldValue' = synced
  BY <1>1
<1> HIDE DEF rate
<1>5. w.used \in Nat /\ totalReservedHollar' = totalReservedHollar + w.used
  BY <1>2, <1>3, <1>4, SettlementKeepsQueueInv
<1> HIDE DEF w
<1>6. amount \in Nat
  BY <1>5, ReinvestBounds
<1> HIDE DEF amount
<1>7. totalAssets' = assets + totalReservedHollar
  BY <1>2, <1>4, <1>5, <1>6 DEF totalAssets
<1>8. totalAssets = activeAssets + totalReservedHollar
  BY <1>2 DEF totalAssets
<1>9. SyncedAssets = assets
  BY <1>2, <1>4 DEF SyncedAssets
<1> HIDE DEF assets
<1>10. assets >= activeAssets
  BY <1>2, <1>3, <1>7, <1>8
<1>11. assets >= activeSupply
  BY <1>2, <1>3, <1>10 DEF AtPar
<1>12. rate >= WAD
  BY <1>3, <1>11, RateAtPar DEF rate
<1> QED BY <1>3, <1>4, <1>9, <1>10, <1>12 DEF w

\* The principal arm of pokeDecentral, paid without a loss, settles at par or more
\* and leaves the vault at par.
LEMMA ClaimPrincipalAtPar ==
  ASSUME IInv, AtPar, [Next]_vars,
         NEW expected \in Nat, NEW received \in Nat, NEW backlog \in BOOLEAN,
         ClaimPrincipal(expected, received, backlog), totalAssets' >= totalAssets
  PROVE  /\ AtPar'
         /\ \/ UNCHANGED queueVars
            \/ \E available \in Nat : \E rate \in Nat :
                 rate >= WAD /\ ApplySettlement(Settlement(available, rate))
<1> DEFINE idle   == idleHollar + received
           assets == totalInvestedPrincipal' + yieldValue' + idle
           rate   == RateOf(assets)
           w      == Settlement(idle, rate)
           settle == totalQueuedBil > 0 /\ idle > 0 /\ ~backlog
<1>1. /\ idleHollar' = IF settle THEN idle - w.used ELSE idle
      /\ IF settle THEN ApplySettlement(w) ELSE UNCHANGED <<queueVars, totalVars>>
      /\ UNCHANGED <<shareVars, flagVars>>
  BY DEF ClaimPrincipal, Credit, PayoutRate
<1>2. /\ idleHollar \in Nat /\ activeAssets \in Nat /\ totalReservedHollar \in Nat
      /\ activeAssets = totalInvestedPrincipal + yieldValue + idleHollar
      /\ totalInvestedPrincipal \in Nat /\ yieldValue \in Nat
      /\ QueueInv /\ activeSupply \in Nat /\ totalSupply \in Nat /\ totalSettledBil \in Nat
  BY ViewsNat, CountersNat DEF IInv, MoneyInv
<1>3. /\ IInv'
      /\ totalInvestedPrincipal' \in Nat /\ yieldValue' \in Nat /\ activeAssets' \in Nat
      /\ activeAssets' = totalInvestedPrincipal' + yieldValue' + idleHollar'
      /\ activeSupply' \in Nat /\ totalReservedHollar' \in Nat
  BY NextKeepsIInv, ViewsNext, ActiveSupplyNatNext
<1>4. idle \in Nat /\ assets \in Nat /\ rate \in Nat
  <2>1. idle \in Nat
    BY <1>2
  <2>2. assets \in Nat
    BY <1>3, <2>1, NatSum
  <2> HIDE DEF assets
  <2> QED BY <2>1, <2>2, RateNat
<1>5. totalAssets = activeAssets + totalReservedHollar
      /\ totalAssets' = activeAssets' + totalReservedHollar'
  BY <1>2, <1>3 DEF totalAssets
<1>6. totalSupply' = totalSupply
  BY <1>1 DEF shareVars, totalSupply
<1>7. CASE ~settle
  <2>1. UNCHANGED <<queueVars, totalVars>>
    BY <1>1, <1>7
  <2>2. activeSupply' = activeSupply
    BY <1>6, <2>1 DEF activeSupply, totalVars
  <2>3. activeAssets' >= activeAssets
    BY <1>2, <1>3, <1>5, <2>1 DEF totalVars
  <2>4. AtPar'
    BY <1>2, <1>3, <2>2, <2>3 DEF AtPar
  <2> QED BY <2>1, <2>4
<1>8. CASE settle
  <2>1. ApplySettlement(w) /\ idleHollar' = idle - w.used
    BY <1>1, <1>8
  <2>2. /\ w.used \in Nat /\ w.used <= idle
        /\ totalReservedHollar' = totalReservedHollar + w.used
    <3> HIDE DEF rate, idle
    <3> QED BY <1>2, <1>4, <2>1, SettlementKeepsQueueInv
  <2>3. WalkInv(w, queue, queueTail, idle, rate)
    <3>1. /\ queue \in Queues /\ settledBy \in Indexes
          /\ queueTail \in 0 .. MaxRequests /\ queueHead \in 0 .. queueTail
          /\ \A i \in RequestIds :
               RequestSound(queue[i]) /\ (i < queueHead => Pending(queue[i]) = 0)
      BY DEF IInv, QueueInv, RequestsConsistent, HeadPrefixDone
    <3> HIDE DEF rate, idle
    <3> QED BY <1>4, <3>1, ProcessQueueResult DEF Settlement
  <2>4. w.locked \in Nat /\ w.used * WAD <= w.locked * rate
    BY <2>3 DEF WalkInv, QueueWalks
  <2>5. totalSettledBil' = totalSettledBil + w.locked
    BY <2>1 DEF ApplySettlement
  <2> HIDE DEF w
  <2>6. activeAssets' = assets - w.used /\ w.used <= assets
    <3>1. \A p, y \in Nat : /\ p + y + (idle - w.used) = (p + y + idle) - w.used
                            /\ w.used <= p + y + idle
      BY <1>4, <2>2
    <3> QED BY <1>3, <2>1, <3>1
  <2> HIDE DEF idle, assets
  <2>7. assets >= activeAssets
    BY <1>2, <1>3, <1>4, <1>5, <2>2, <2>6
  <2>8. assets >= activeSupply
    BY <1>2, <1>4, <2>7 DEF AtPar
  <2>9. rate >= WAD
    BY <1>4, <2>8, RateAtPar
  <2> HIDE DEF rate
  <2>10. AtPar'
    <3>1. CASE totalSupply = 0
      BY <1>3, <1>6, <3>1, NoSharesAtPar
    <3>2. CASE totalSupply # 0
      <4>1. /\ activeSupply = totalSupply - totalSettledBil /\ activeSupply \in Nat \ {0}
            /\ activeSupply' = totalSupply' - totalSettledBil'
        BY <1>2, <1>3, <1>6, <3>2, ActiveSupplyIs, ActiveSupplyNext
      <4>2. activeSupply' = activeSupply - w.locked /\ w.locked <= activeSupply
        BY <1>2, <1>3, <1>6, <2>4, <2>5, <4>1
      <4>3. activeSupply * rate <= assets * WAD
        BY <1>4, <4>1, RateNat DEF rate
      <4>4. (assets - w.used) * activeSupply >= assets * (activeSupply - w.locked)
        BY <1>4, <2>2, <2>4, <2>6, <4>1, <4>2, <4>3, QueueLibAssumption,
           SettlementArithmetic
      <4>5. activeAssets' * activeSupply >= assets * activeSupply'
        BY <2>6, <4>2, <4>4
      <4> QED BY <1>3, <1>4, <2>8, <4>1, <4>5, ParArithmetic DEF AtPar
    <3> QED BY <3>1, <3>2
  <2> QED BY <1>4, <2>1, <2>9, <2>10 DEF w
<1> QED BY <1>7, <1>8


\* Without shares, a deposit or mint is the only step that issues some.
LEMMA FirstShares ==
  ASSUME IInv, [Next]_vars, totalSupply = 0, totalSupply' # 0
  PROVE  \E n \in 1 .. tvlCap : Deposit(n) \/ Mint(n)
<1>1. SUFFICES ASSUME \A n \in 1 .. tvlCap : ~Deposit(n) /\ ~Mint(n) PROVE FALSE
  OBVIOUS
<1>2. dead' = dead
  BY <1>1 DEF Next, UserStep, VenueStep, OtherStep,
         RequestRedeem, CancelRedeem, Redeem, Withdraw, ApplyClaim,
         PokeQueue, AccrueYield, SyncMaturities, ClaimYield, ClaimPrincipal,
         DonateShares, DonateHollar,
         SetPaused, SetDepositsPaused, vars, shareVars
<1>3. circulating \in Nat /\ escrow \in Nat /\ dead \in Nat
  BY DEF IInv, MoneyInv
<1>4. dead = 0
  BY <1>3 DEF totalSupply
<1>5. /\ circulating' \in Nat /\ escrow' \in Nat /\ dead' \in Nat
      /\ totalSupply' = circulating' + escrow' + dead'
      /\ totalSupply' > 0 => dead' = DEAD_SHARES
  BY NextKeepsIInv, ViewsNext DEF IInv, MoneyInv, DeadSharesKept
<1>6. totalSupply' > 0
  <2>1. circulating' + escrow' \in Nat
    BY <1>5, NatSum
  <2>2. (circulating' + escrow') + dead' \in Nat
    BY <1>5, <2>1, NatSum
  <2>3. \A a \in Nat : a # 0 => a > 0
    OBVIOUS
  <2> QED BY <1>5, <2>2, <2>3
<1>7. DEAD_SHARES # 0
  BY VaultLedgerAssumption
<1> QED BY <1>2, <1>4, <1>5, <1>6, <1>7

\* The first deposit buys its shares, the dead ones included, one for one.
LEMMA FirstSharesAtPar ==
  ASSUME IInv, EmptyVault, [Next]_vars, totalSupply = 0,
         NEW n \in 1 .. tvlCap, Deposit(n) \/ Mint(n)
  PROVE  AtPar'
<1>1. /\ totalInvestedPrincipal = 0 /\ yieldValue = 0 /\ idleHollar = 0
      /\ circulating = 0 /\ escrow = 0 /\ dead = 0
  <2>1. activeAssets = 0 /\ activeAssets = totalInvestedPrincipal + yieldValue + idleHollar
    BY ViewsNat DEF EmptyVault
  <2>2. /\ totalInvestedPrincipal \in Nat /\ yieldValue \in Nat /\ idleHollar \in Nat
        /\ circulating \in Nat /\ escrow \in Nat /\ dead \in Nat
    BY DEF IInv, MoneyInv
  <2> QED BY <2>1, <2>2 DEF totalSupply
<1>2. totalSettledBil \in Nat /\ activeSupply = 0 /\ n \in Nat /\ DEAD_SHARES \in Nat \ {0}
  BY NoActiveSupply, CountersNat, VaultLedgerAssumption DEF IInv
<1>3. /\ IInv'
      /\ activeAssets' = totalInvestedPrincipal' + yieldValue' + idleHollar'
      /\ totalSupply' = circulating' + escrow' + dead'
  BY NextKeepsIInv, ViewsNext
<1>4. ASSUME NEW a \in Nat, NEW s \in Nat, a >= s + DEAD_SHARES, TakeDeposit(a, s)
      PROVE  AtPar'
  <2>1. /\ totalInvestedPrincipal' = a /\ yieldValue' = 0 /\ idleHollar' = 0
        /\ circulating' = s /\ escrow' = 0 /\ dead' = DEAD_SHARES
        /\ totalSettledBil' = totalSettledBil
    BY <1>1, <1>4 DEF TakeDeposit, DeadAfterDeposit, totalVars, hollarVars
  <2>2. activeAssets' = a /\ totalSupply' = s + DEAD_SHARES
    BY <1>2, <1>3, <2>1
  <2>3. totalSupply' > 0
    BY <1>2, <2>2
  <2>4. activeSupply' = totalSupply' - totalSettledBil'
    BY <1>3, <2>3, ActiveSupplyNext
  <2>5. activeSupply' <= s + DEAD_SHARES
    BY <1>2, <2>1, <2>2, <2>4
  <2>6. activeSupply' \in Nat
    BY <1>3, ActiveSupplyNatNext
  <2>7. activeAssets' >= activeSupply'
    BY <1>2, <1>4, <2>2, <2>5, <2>6
  <2> QED BY <2>7 DEF AtPar
<1>5. CASE Deposit(n)
  <2>1. previewDeposit(n) > 0 /\ TakeDeposit(n, previewDeposit(n))
    BY <1>5 DEF Deposit
  <2>2. n > DEAD_SHARES /\ previewDeposit(n) = n - DEAD_SHARES
    BY <1>2, <2>1 DEF previewDeposit
  <2> QED BY <1>2, <1>4, <2>1, <2>2
<1>6. CASE Mint(n)
  <2>1. TakeDeposit(previewMint(n), n)
    BY <1>6 DEF Mint
  <2>2. previewMint(n) = n + DEAD_SHARES
    BY <1>2 DEF previewMint
  <2> QED BY <1>2, <1>4, <2>1, <2>2
<1> QED BY <1>5, <1>6

\* In a vault that loses nothing, an active share stays worth a HOLLAR.
LEMMA NextKeepsPar == IInv /\ EmptyVault /\ AtPar /\ [Next]_vars /\ LossFreeStep => AtPar'
<1> SUFFICES ASSUME IInv, EmptyVault, AtPar, [Next]_vars, LossFreeStep
             PROVE  AtPar'
  OBVIOUS
<1>1. /\ activeAssets \in Nat /\ activeSupply \in Nat /\ totalSupply \in Nat
      /\ totalInvestedPrincipal \in Nat /\ yieldValue \in Nat /\ idleHollar \in Nat
      /\ totalReservedHollar \in Nat
      /\ activeAssets = totalInvestedPrincipal + yieldValue + idleHollar
  BY ViewsNat, CountersNat DEF IInv, MoneyInv
<1>2. /\ IInv' /\ activeAssets' \in Nat /\ activeSupply' \in Nat
      /\ totalInvestedPrincipal' \in Nat /\ yieldValue' \in Nat /\ idleHollar' \in Nat
      /\ totalReservedHollar' \in Nat
      /\ activeAssets' = totalInvestedPrincipal' + yieldValue' + idleHollar'
  BY NextKeepsIInv, ViewsNext, ActiveSupplyNatNext
<1>3. CASE totalSupply' = 0
  BY <1>2, <1>3, NoSharesAtPar
<1>4. CASE totalSupply = 0 /\ totalSupply' # 0
  <2>1. PICK n \in 1 .. tvlCap : Deposit(n) \/ Mint(n)
    BY <1>4, FirstShares
  <2> QED BY <1>4, <2>1, FirstSharesAtPar
<1>5. CASE totalSupply # 0 /\ ~VenueStep
  <2>1. activeSupply \in Nat \ {0}
    BY <1>1, <1>5, ActiveSupplyIs
  <2>2. activeAssets' * activeSupply >= SyncedAssets * activeSupply'
    BY <1>5, NextKeepsRate DEF RateKept
  <2>3. SyncedAssets \in Nat /\ SyncedAssets >= activeAssets
    <3>1. CASE PokeQueue
      <4>1. SyncedAssets >= activeAssets
        BY <3>1, PokeQueueAtPar DEF LossFreeStep
      <4>2. SyncedAssets \in Nat
        <5>1. \A p, y, z, i \in Nat : (p + y + i) - y + z \in Nat
          OBVIOUS
        <5> QED BY <1>1, <1>2, <5>1 DEF SyncedAssets
      <4> QED BY <4>1, <4>2
    <3>2. CASE ~PokeQueue
      <4>1. yieldValue' = yieldValue
        BY <1>5, <3>2 DEF Next, UserStep, OtherStep, Deposit, Mint, TakeDeposit,
           RequestRedeem, CancelRedeem, Redeem, Withdraw, ApplyClaim, DonateShares,
           DonateHollar, SetPaused, SetDepositsPaused, vars, venueVars
      <4>2. SyncedAssets = activeAssets
        BY <1>1, <4>1 DEF SyncedAssets
      <4> QED BY <1>1, <4>2
    <3> QED BY <3>1, <3>2
  <2> HIDE DEF SyncedAssets
  <2>4. SyncedAssets >= activeSupply
    BY <1>1, <2>3 DEF AtPar
  <2> QED BY <1>2, <2>1, <2>2, <2>3, <2>4, ParArithmetic DEF AtPar
<1>6. CASE totalSupply # 0 /\ VenueStep
  <2>1. totalAssets' >= totalAssets
    BY <1>6 DEF LossFreeStep
  <2>2. totalAssets = activeAssets + totalReservedHollar
        /\ totalAssets' = activeAssets' + totalReservedHollar'
    BY <1>1, <1>2 DEF totalAssets
  <2>3. ASSUME UNCHANGED <<totalVars, shareVars>>
        PROVE  AtPar'
    <3>1. activeSupply' = activeSupply
      BY <2>3 DEF totalVars, shareVars, activeSupply, totalSupply
    <3>2. activeAssets' >= activeAssets
      <4>1. totalReservedHollar' = totalReservedHollar
        BY <2>3 DEF totalVars
      <4>2. activeAssets' + totalReservedHollar >= activeAssets + totalReservedHollar
        BY <2>1, <2>2, <4>1
      <4>3. \A a, b, r \in Nat : b + r >= a + r => b >= a
        OBVIOUS
      <4> QED BY <1>1, <1>2, <4>2, <4>3
    <3>3. \A a, b, d \in Nat : b >= a /\ a >= d => b >= d
      OBVIOUS
    <3> QED BY <1>1, <1>2, <3>1, <3>2, <3>3 DEF AtPar
  <2>4. /\ \A m : 1 .. m \subseteq Nat
        /\ \A e : Payouts(e) \subseteq Nat
    BY DEF Payouts
  <2>5. ASSUME NEW e \in Nat, NEW r \in Nat, NEW backlog \in BOOLEAN,
               ClaimPrincipal(e, r, backlog)
        PROVE  AtPar'
    BY <2>1, <2>5, ClaimPrincipalAtPar
  <2> QED BY <1>6, <2>3, <2>4, <2>5 DEF VenueStep, AccrueYield, SyncMaturities, ClaimYield
<1> QED BY <1>3, <1>4, <1>5, <1>6


-----------------------------------------------------------------------------
(* The index stays exact in vaults that lose nothing.                      *)

\* Applying a claim's result keeps the index: the other controllers' requests and
\* indexes are not touched.
LEMMA ApplyClaimKeepsIndexed ==
  ASSUME IInv, Indexed(queue, settledBy), NEW controller \in Controllers, NEW c,
         ClaimInv(c, queue, controller), ClaimIndexed(c, controller),
         ApplyClaim(controller, c)
  PROVE  Indexed(queue', settledBy')
<1>1. queue' = c.queue /\ settledBy' = [settledBy EXCEPT ![controller] = c.ids]
  BY DEF ApplyClaim
<1>2. /\ settledBy \in Indexes /\ queue \in Queues /\ controller # NoUser
      /\ Covered(c.queue) /\ IndexOf(c.queue, c.ids, controller)
  BY QueueLibAssumption DEF IInv, QueueInv, ClaimIndexed
<1>3. ASSUME NEW d \in Controllers, d # controller
      PROVE  IndexOf(c.queue, settledBy[d], d)
  <2>1. IndexOf(queue, settledBy[d], d) /\ settledBy[d] \in Seq(RequestIds)
    BY <1>2 DEF Indexed, Indexes
  <2>2. \A k \in 1 .. Len(settledBy[d]) : settledBy[d][k] \in RequestIds
    BY <2>1, ElementOfSeq
  <2>3. \A i \in RequestIds :
          /\ queue[i].user # controller => c.queue[i] = queue[i]
          /\ queue[i].user = controller => c.queue[i].user \in {controller, NoUser}
    BY DEF ClaimInv
  <2>4. d # NoUser
    BY QueueLibAssumption
  <2>5. \A i \in RequestIds :
          queue[i].user = d \/ c.queue[i].user = d => c.queue[i] = queue[i]
    BY <1>3, <2>3, <2>4
  <2>6. \A k \in 1 .. Len(settledBy[d]) : c.queue[settledBy[d][k]] = queue[settledBy[d][k]]
    BY <2>1, <2>2, <2>5 DEF IndexOf
  <2> QED BY <2>1, <2>5, <2>6 DEF IndexOf
<1>4. \A d \in Controllers : settledBy'[d] = IF d = controller THEN c.ids ELSE settledBy[d]
  BY <1>1, <1>2 DEF Indexes
<1> QED BY <1>1, <1>2, <1>3, <1>4 DEF Indexed

\* redeem and withdraw keep the index.
LEMMA ClaimsKeepIndexed ==
  ASSUME IInv, Indexed(queue, settledBy), NEW controller \in Controllers, NEW n \in Nat,
         Redeem(controller, n) \/ Withdraw(controller, n)
  PROVE  Indexed(queue', settledBy')
<1>1. /\ queue \in Queues /\ \A i \in RequestIds : RequestSound(queue[i])
      /\ settledBy[controller] \in Seq(RequestIds)
      /\ Covered(queue) /\ IndexOf(queue, settledBy[controller], controller)
  BY DEF IInv, QueueInv, RequestsConsistent, Indexes, Indexed
<1>2. /\ ClaimInv(ClaimByShares(queue, settledBy[controller], controller, n), queue, controller)
      /\ ClaimInv(ClaimByAssets(queue, settledBy[controller], controller, n), queue, controller)
  BY <1>1, ClaimResult
<1>3. /\ ClaimIndexed(ClaimByShares(queue, settledBy[controller], controller, n), controller)
      /\ ClaimIndexed(ClaimByAssets(queue, settledBy[controller], controller, n), controller)
  BY <1>1, ClaimsIndex
<1> QED BY <1>2, <1>3, ApplyClaimKeepsIndexed DEF Redeem, Withdraw

\* A settlement at par keeps the index.
LEMMA SettlementKeepsIndexed ==
  ASSUME IInv, Indexed(queue, settledBy),
         NEW available \in Nat, NEW rate \in Nat, rate >= WAD,
         ApplySettlement(Settlement(available, rate))
  PROVE  Indexed(queue', settledBy')
<1> DEFINE w == ProcessQueue(queue, settledBy, queueHead, queueTail, available, rate)
<1>1. queue' = w.queue /\ settledBy' = w.settledBy
  BY DEF ApplySettlement, Settlement
<1>2. /\ queue \in Queues /\ settledBy \in Indexes
      /\ queueTail \in 0 .. MaxRequests /\ queueHead \in 0 .. queueTail
      /\ \A i \in RequestIds :
           RequestSound(queue[i]) /\ (i < queueHead => Pending(queue[i]) = 0)
  BY DEF IInv, QueueInv, RequestsConsistent, HeadPrefixDone
<1>3. Indexed(w.queue, w.settledBy)
  BY <1>2, ProcessQueueIndexes
<1> HIDE DEF w
<1> QED BY <1>1, <1>3

\* Requests and cancels leave settled parts alone.
LEMMA RequestsKeepIndexed ==
  ASSUME IInv, Indexed(queue, settledBy)
  PROVE  /\ \A c, n : RequestRedeem(c, n) => Indexed(queue', settledBy')
         /\ \A id \in RequestIds : CancelRedeem(id) => Indexed(queue', settledBy')
<1>1. /\ queue \in Queues /\ settledBy \in Indexes /\ queueTail \in Nat
      /\ \A i \in RequestIds : i >= queueTail => queue[i] = Hole
  BY QueueLibAssumption DEF IInv, QueueInv, RequestsConsistent
<1>2. ASSUME NEW c, NEW n, RequestRedeem(c, n)
      PROVE  Indexed(queue', settledBy')
  <2>1. settledBy' = settledBy /\ queueTail \in RequestIds
    BY <1>1, <1>2, QueueLibAssumption DEF RequestRedeem, RequestIds
  <2>2. queue[queueTail].bilSettled = 0
    BY <1>1, <2>1 DEF Hole
  <2>3. \A i \in RequestIds :
          IF i = queueTail THEN queue'[i].bilSettled = 0 ELSE queue'[i] = queue[i]
    BY <1>1, <1>2 DEF RequestRedeem, Queues
  <2>4. \A i \in RequestIds :
          /\ queue'[i].bilSettled = queue[i].bilSettled
          /\ queue[i].bilSettled > 0 =>
               queue'[i].user = queue[i].user /\ queue'[i].hollarOwed = queue[i].hollarOwed
    BY <2>2, <2>3
  <2>5. Indexed(queue', settledBy)
    BY <1>1, <2>4, IndexedKept
  <2> QED BY <2>1, <2>5
<1>3. ASSUME NEW id \in RequestIds, CancelRedeem(id)
      PROVE  Indexed(queue', settledBy')
  <2> DEFINE r      == queue[id]
             shrunk == IF r.bilSettled = 0 THEN Hole
                       ELSE [r EXCEPT !.bilAmount = r.bilSettled]
  <2>1. settledBy' = settledBy /\ queue' = [queue EXCEPT ![id] = shrunk]
    BY <1>3 DEF CancelRedeem
  <2>2. r \in Request
    BY <1>1 DEF Queues
  <2>3. /\ shrunk.bilSettled = r.bilSettled
        /\ r.bilSettled > 0 => shrunk.user = r.user /\ shrunk.hollarOwed = r.hollarOwed
    <3> HIDE DEF r
    <3> QED BY <2>2 DEF Hole, Request
  <2> HIDE DEF shrunk
  <2>4. \A i \in RequestIds : queue'[i] = IF i = id THEN shrunk ELSE queue[i]
    BY <1>1, <2>1 DEF Queues
  <2>5. \A i \in RequestIds :
          /\ queue'[i].bilSettled = queue[i].bilSettled
          /\ queue[i].bilSettled > 0 =>
               queue'[i].user = queue[i].user /\ queue'[i].hollarOwed = queue[i].hollarOwed
    BY <2>3, <2>4
  <2>6. Indexed(queue', settledBy)
    BY <1>1, <2>5, IndexedKept
  <2> QED BY <2>1, <2>6
<1> QED BY <1>2, <1>3

\* Every step of a vault that is at par keeps the index.
LEMMA NextKeepsIndexed ==
  IInv /\ AtPar /\ Indexed(queue, settledBy) /\ [Next]_vars /\ LossFreeStep =>
    Indexed(queue', settledBy')
<1> SUFFICES ASSUME IInv, AtPar, Indexed(queue, settledBy), [Next]_vars, LossFreeStep
             PROVE  Indexed(queue', settledBy')
  OBVIOUS
<1>1. ASSUME queue' = queue, settledBy' = settledBy
      PROVE  Indexed(queue', settledBy')
  BY <1>1
<1>2. /\ \A m : 1 .. m \subseteq Nat
      /\ \A e : Payouts(e) \subseteq Nat
      /\ idleHollar \in Nat
  BY DEF Payouts, IInv, MoneyInv
<1>3. CASE UserStep
  <2>1. ASSUME NEW n, Deposit(n) \/ Mint(n)
        PROVE  Indexed(queue', settledBy')
    BY <1>1, <2>1 DEF Deposit, Mint, TakeDeposit, queueVars
  <2> QED BY <1>2, <1>3, <2>1, RequestsKeepIndexed, ClaimsKeepIndexed DEF UserStep
<1>4. CASE PokeQueue
  <2>1. PICK rate \in Nat : rate >= WAD /\ ApplySettlement(Settlement(idleHollar, rate))
    BY <1>4, PokeQueueAtPar DEF LossFreeStep
  <2> QED BY <1>2, <2>1, SettlementKeepsIndexed
<1>5. CASE VenueStep
  <2>1. ASSUME NEW e \in Nat, NEW r \in Nat, NEW backlog \in BOOLEAN,
               ClaimPrincipal(e, r, backlog)
        PROVE  Indexed(queue', settledBy')
    <3>1. \/ UNCHANGED queueVars
          \/ \E available \in Nat : \E rate \in Nat :
               rate >= WAD /\ ApplySettlement(Settlement(available, rate))
      BY <1>5, <2>1, ClaimPrincipalAtPar DEF LossFreeStep
    <3> QED BY <1>1, <3>1, SettlementKeepsIndexed DEF queueVars
  <2> QED BY <1>1, <1>2, <1>5, <2>1 DEF VenueStep, AccrueYield, SyncMaturities, ClaimYield,
             queueVars
<1>6. CASE OtherStep \/ UNCHANGED vars
  BY <1>1, <1>6 DEF OtherStep, DonateShares, DonateHollar, SetPaused, SetDepositsPaused,
     vars, queueVars
<1> QED BY <1>3, <1>4, <1>5, <1>6 DEF Next

\* What the index theorems carry along.
ParInv == IInv /\ EmptyVault /\ AtPar /\ Indexed(queue, settledBy)

LEMMA ParInvHolds == Spec /\ LossFree => []ParInv
<1>1. Init => ParInv
  <2> SUFFICES ASSUME Init PROVE ParInv
    OBVIOUS
  <2>1. IInv
    BY InitIInv
  <2>2. EmptyVault /\ activeAssets = 0 /\ activeSupply = 0
    BY DEF Init, EmptyVault, activeAssets, totalAssets, activeSupply, totalSupply
  <2>3. \A i \in RequestIds : queue[i] = Hole
    BY DEF Init
  <2>4. \A c \in Controllers : settledBy[c] = << >> /\ Len(settledBy[c]) = 0
    BY DEF Init
  <2>5. 1 .. 0 = {} /\ ~(0 > 0)
    OBVIOUS
  <2>6. Indexed(queue, settledBy)
    BY <2>3, <2>4, <2>5 DEF Indexed, Covered, IndexOf, Hole
  <2>7. AtPar
    BY <2>2 DEF AtPar
  <2> QED BY <2>1, <2>2, <2>6, <2>7 DEF ParInv
<1>2. ParInv /\ [Next]_vars /\ [LossFreeStep]_vars => ParInv'
  <2> SUFFICES ASSUME ParInv, [Next]_vars, [LossFreeStep]_vars PROVE ParInv'
    OBVIOUS
  <2>1. LossFreeStep
    <3>1. ASSUME UNCHANGED vars PROVE LossFreeStep
      <4>1. totalAssets \in Nat
        BY CountersNat DEF ParInv, IInv, MoneyInv, totalAssets
      <4>2. totalAssets' = totalAssets
        BY <3>1 DEF vars, venueVars, hollarVars, totalVars, totalAssets
      <4>3. \A a \in Nat : a >= a
        OBVIOUS
      <4> QED BY <4>1, <4>2, <4>3 DEF LossFreeStep
    <3> QED BY <3>1
  <2> QED BY <2>1, NextKeepsIInv, EmptyVaultKept, NextKeepsPar, NextKeepsIndexed DEF ParInv
<1> QED BY <1>1, <1>2, PTL DEF Spec, LossFree

\* While Decentral pays what it owes, the index of every controller leads to each of
\* its settled requests exactly once.
THEOREM IndexStaysExact == Spec /\ LossFree => []IndexExact
<1>1. ParInv => IndexExact
  BY IndexedIsExact DEF ParInv, IInv, QueueInv
<1> QED BY <1>1, ParInvHolds, PTL


-----------------------------------------------------------------------------
(* maxRedeem and maxWithdraw, where the index is exact.                    *)

\* What the entries of an index have settled, and what they are owed.
SettledAt(q, ids) == [k \in 0 .. (Len(ids) - 1) |-> q[ids[k + 1]].bilSettled]
OwedAt(q, ids)    == [k \in 0 .. (Len(ids) - 1) |-> q[ids[k + 1]].hollarOwed]

\* The claimable totals of an exact index leave none of its entries out.
LEMMA ClaimableTotals ==
  ASSUME NEW q, NEW ids, NEW c, Len(ids) \in Nat, IndexOf(q, ids, c)
  PROVE  /\ SumSettledShares(q, ids, c) = SumTo(SettledAt(q, ids), Len(ids))
         /\ SumSettledAssets(q, ids, c) = SumTo(OwedAt(q, ids), Len(ids))
<1>1. \A k \in 0 .. (Len(ids) - 1) : q[ids[k + 1]].user = c
  <2>1. \A k \in 0 .. (Len(ids) - 1) : k + 1 \in 1 .. Len(ids)
    OBVIOUS
  <2> QED BY <2>1 DEF IndexOf
<1>2. SettledAt(q, ids) = [k \in 0 .. (Len(ids) - 1) |->
                             IF q[ids[k + 1]].user = c THEN q[ids[k + 1]].bilSettled ELSE 0]
  BY <1>1 DEF SettledAt
<1>3. OwedAt(q, ids) = [k \in 0 .. (Len(ids) - 1) |->
                          IF q[ids[k + 1]].user = c THEN q[ids[k + 1]].hollarOwed ELSE 0]
  BY <1>1 DEF OwedAt
<1> QED BY <1>2, <1>3 DEF SumSettledShares, SumSettledAssets

\* The terms of these totals, and the totals up to each entry.
LEMMA TotalsAt ==
  ASSUME NEW q \in Queues, NEW ids \in Seq(RequestIds)
  PROVE  /\ \A n \in 0 .. Len(ids) :
              SumTo(SettledAt(q, ids), n) \in Nat /\ SumTo(OwedAt(q, ids), n) \in Nat
         /\ \A n \in 1 .. Len(ids) :
              /\ SumTo(SettledAt(q, ids), n)
                   = SumTo(SettledAt(q, ids), n - 1) + q[ids[n]].bilSettled
              /\ SumTo(OwedAt(q, ids), n)
                   = SumTo(OwedAt(q, ids), n - 1) + q[ids[n]].hollarOwed
<1> DEFINE m == Len(ids)
           f == SettledAt(q, ids)
           g == OwedAt(q, ids)
<1>1. m \in Nat /\ \A k \in 1 .. m : q[ids[k]] \in Request
  BY LenProperties, ElementOfSeq DEF Queues
<1>2. \A k \in 0 .. (m - 1) : /\ k + 1 \in 1 .. m
                              /\ f[k] = q[ids[k + 1]].bilSettled
                              /\ g[k] = q[ids[k + 1]].hollarOwed
  BY <1>1 DEF SettledAt, OwedAt
<1>3. \A k \in 0 .. (m - 1) : f[k] \in Nat /\ g[k] \in Nat
  BY <1>1, <1>2 DEF Request
<1> HIDE DEF f, g
<1>4. ASSUME NEW n \in 0 .. m
      PROVE  SumTo(f, n) \in Nat /\ SumTo(g, n) \in Nat
  <2>1. n \in Nat /\ \A k \in 0 .. (n - 1) : k \in 0 .. (m - 1)
    BY <1>1
  <2> QED BY <1>3, <2>1, SumNat
<1>5. ASSUME NEW n \in 1 .. m
      PROVE  /\ SumTo(f, n) = SumTo(f, n - 1) + q[ids[n]].bilSettled
             /\ SumTo(g, n) = SumTo(g, n - 1) + q[ids[n]].hollarOwed
  <2>1. n - 1 \in 0 .. (m - 1) /\ n - 1 \in 0 .. m /\ n - 1 \in Nat /\ (n - 1) + 1 = n
    BY <1>1
  <2>2. SumTo(f, n - 1) \in Int /\ SumTo(g, n - 1) \in Int
    BY <1>4, <2>1
  <2>3. SumTo(f, (n - 1) + 1) = SumTo(f, n - 1) + f[n - 1]
        /\ SumTo(g, (n - 1) + 1) = SumTo(g, n - 1) + g[n - 1]
    BY <2>1, <2>2, SumStep
  <2>4. f[n - 1] = q[ids[n]].bilSettled /\ g[n - 1] = q[ids[n]].hollarOwed
    BY <1>2, <2>1
  <2> QED BY <2>1, <2>3, <2>4
<1> QED BY <1>4, <1>5 DEF f, g

\* A claim walk that has taken everything from the entries behind its cursor and
\* nothing yet from those before it.
Drained(c, q, ids) ==
  /\ c \in ClaimWalks
  /\ c.at = Len(c.ids) /\ c.at <= Len(ids)
  /\ \A k \in 1 .. Len(ids) :
       IF k <= c.at THEN c.ids[k] = ids[k] /\ c.queue[ids[k]] = q[ids[k]]
                    ELSE c.queue[ids[k]].hollarOwed = 0
  /\ c.shares + SumTo(SettledAt(q, ids), c.at) = SumTo(SettledAt(q, ids), Len(ids))
  /\ c.assets + SumTo(OwedAt(q, ids), c.at) = SumTo(OwedAt(q, ids), Len(ids))

\* Drawing all of the last entry takes it from the index and from the totals.
LEMMA DrawDrains ==
  ASSUME NEW q \in Queues, \A i \in RequestIds : RequestSound(q[i]),
         NEW ids \in Seq(RequestIds), NEW controller \in Controllers,
         IndexOf(q, ids, controller),
         NEW c, Drained(c, q, ids), c.at # 0, NEW rest \in Nat,
         NEW shares, shares = q[ids[c.at]].bilSettled,
         NEW paid, paid = q[ids[c.at]].hollarOwed
  PROVE  LET d == [Draw(c, c.ids[c.at], shares, paid) EXCEPT !.remaining = rest]
         IN  Drained(d, q, ids) /\ d.at = c.at - 1 /\ d.remaining = rest
<1> DEFINE m  == Len(ids)
           n  == c.at
           i  == ids[n]
           r  == q[i]
           e  == Kept(Drawn(r, shares, paid))
           u  == Draw(c, i, shares, paid)
           d  == [u EXCEPT !.remaining = rest]
<1>1. /\ c \in ClaimWalks /\ m \in Nat /\ n \in Nat /\ n \in 1 .. m /\ n = Len(c.ids)
      /\ i \in RequestIds /\ c.ids[n] = i /\ c.queue[i] = r
      /\ c.ids \in Seq(RequestIds) /\ c.queue \in Queues
      /\ c.shares \in Nat /\ c.assets \in Nat
  BY LenProperties, ElementOfSeq DEF Drained, ClaimWalks
<1>2. /\ r \in Request /\ RequestSound(r) /\ r.user # NoUser
      /\ shares \in Nat /\ paid \in Nat
      /\ shares = r.bilSettled /\ paid = r.hollarOwed
  <2>1. r \in Request /\ RequestSound(r)
    BY <1>1 DEF Queues
  <2>2. r.user = controller
    BY <1>1 DEF IndexOf
  <2>3. r.bilSettled \in Nat /\ r.hollarOwed \in Nat
    BY <2>1 DEF Request
  <2> QED BY <2>1, <2>2, <2>3, QueueLibAssumption
<1>3. e \in Request /\ e.bilSettled = 0 /\ e.hollarOwed = 0
  <2>1. shares <= r.bilSettled /\ paid <= r.hollarOwed
    BY <1>2
  <2> HIDE DEF r, e
  <2>2. e \in Request /\ e.bilSettled = r.bilSettled - shares
        /\ e.hollarOwed = r.hollarOwed - paid
    BY <1>2, <2>1, DrawnRequest DEF e
  <2> QED BY <1>2, <2>2
<1>4. /\ u \in ClaimWalks /\ u.queue = [c.queue EXCEPT ![i] = e]
      /\ u.shares = c.shares + shares /\ u.assets = c.assets + paid
  <2> DEFINE j == i
             a == shares
             b == paid
  <2>1. e = Kept(Drawn(c.queue[j], a, b))
    BY <1>1
  <2>2. /\ c \in ClaimWalks /\ c.at \in 1 .. Len(c.ids) /\ j \in RequestIds
        /\ a \in Nat /\ b \in Nat /\ e \in Request
    BY <1>1, <1>2, <1>3
  <2> HIDE DEF e, j, a, b
  <2>3. /\ Draw(c, j, a, b) \in ClaimWalks
        /\ Draw(c, j, a, b).queue = [c.queue EXCEPT ![j] = e]
        /\ Draw(c, j, a, b).shares = c.shares + a /\ Draw(c, j, a, b).assets = c.assets + b
    <3>1. Kept(Drawn(c.queue[j], a, b)) \in Request
      BY ONLY <2>1, <2>2
    <3>2. /\ Draw(c, j, a, b) \in ClaimWalks
          /\ Draw(c, j, a, b).queue = [c.queue EXCEPT ![j] = Kept(Drawn(c.queue[j], a, b))]
          /\ Draw(c, j, a, b).shares = c.shares + a /\ Draw(c, j, a, b).assets = c.assets + b
      BY ONLY <2>2, <3>1, DrawFields
    <3> QED BY ONLY <2>1, <3>2
  <2> QED BY <2>3 DEF j, a, b
<1>5. u.ids = SwapPop(c.ids, n) /\ u.at = n - 1
  <2>1. Kept(Drawn(c.queue[i], shares, paid)).bilSettled = 0
    BY <1>1, <1>3
  <2> QED BY <2>1 DEF Draw, ClaimWalks
<1>6. /\ d \in ClaimWalks /\ d.queue = [c.queue EXCEPT ![i] = e]
      /\ d.shares = c.shares + shares /\ d.assets = c.assets + paid
      /\ d.ids = SwapPop(c.ids, n) /\ d.at = n - 1 /\ d.remaining = rest
  <2> HIDE DEF u
  <2> QED BY <1>4, <1>5 DEF ClaimWalks
<1> HIDE DEF u, d
<1>7. /\ Len(d.ids) = n - 1
      /\ \A k \in 1 .. (n - 1) : d.ids[k] = c.ids[k]
  <2>1. Len(d.ids) = n - 1
    <3>1. n \in 1 .. Len(c.ids) /\ c.ids \in Seq(RequestIds)
      BY <1>1
    <3>2. Len(SwapPop(c.ids, n)) = Len(c.ids) - 1
      BY ONLY <3>1, SwapPopSeq
    <3> QED BY <1>1, <1>6, <3>2
  <2>2. \A k \in 1 .. (n - 1) : SwapPop(c.ids, n)[k] = c.ids[k]
    BY <1>1 DEF SwapPop
  <2> QED BY <1>6, <2>1, <2>2
<1> HIDE DEF e
<1>8. \A k \in RequestIds : d.queue[k] = IF k = i THEN e ELSE c.queue[k]
  BY <1>1, <1>6 DEF Queues
<1>9. ASSUME NEW k \in 1 .. m
      PROVE  IF k <= n - 1 THEN d.ids[k] = ids[k] /\ d.queue[ids[k]] = q[ids[k]]
                           ELSE d.queue[ids[k]].hollarOwed = 0
  <2>1. ids[k] \in RequestIds
    BY ElementOfSeq
  <2>2. CASE k = n
    <3>1. ~(k <= n - 1)
      BY <1>1, <2>2
    <3> QED BY <1>3, <1>8, <2>1, <2>2, <3>1
  <2>3. CASE k # n
    <3>1. ids[k] # i
      BY <1>1, <2>3 DEF IndexOf
    <3>2. d.queue[ids[k]] = c.queue[ids[k]]
      BY <1>8, <2>1, <3>1
    <3>3. CASE k <= n - 1
      <4>1. k \in 1 .. (n - 1) /\ k <= n
        BY <1>1, <3>3
      <4> QED BY <1>7, <3>2, <3>3, <4>1 DEF Drained
    <3>4. CASE ~(k <= n - 1)
      <4>1. ~(k <= n)
        BY <1>1, <2>3, <3>4
      <4> QED BY <3>2, <3>4, <4>1 DEF Drained
    <3> QED BY <3>3, <3>4
  <2> QED BY <2>2, <2>3
<1> DEFINE f == SettledAt(q, ids)
           g == OwedAt(q, ids)
<1>10. /\ n - 1 \in 0 .. m
       /\ SumTo(f, n) = SumTo(f, n - 1) + shares
       /\ SumTo(g, n) = SumTo(g, n - 1) + paid
  <2>1. n - 1 \in 0 .. m
    BY <1>1
  <2>2. /\ SumTo(f, n) = SumTo(f, n - 1) + q[ids[n]].bilSettled
        /\ SumTo(g, n) = SumTo(g, n - 1) + q[ids[n]].hollarOwed
    BY <1>1, TotalsAt
  <2> HIDE DEF f, g
  <2> QED BY <1>2, <2>1, <2>2
<1>11. SumTo(f, n - 1) \in Nat /\ SumTo(g, n - 1) \in Nat
  BY <1>10, TotalsAt
<1>12. c.shares + SumTo(f, n) = SumTo(f, m) /\ c.assets + SumTo(g, n) = SumTo(g, m)
  BY DEF Drained
<1> HIDE DEF f, g
<1>13. /\ (c.shares + shares) + SumTo(f, n - 1) = SumTo(f, m)
       /\ (c.assets + paid) + SumTo(g, n - 1) = SumTo(g, m)
  <2> DEFINE a == c.shares
             b == c.assets
             x == SumTo(f, n - 1)
             y == SumTo(g, n - 1)
  <2>1. /\ a \in Nat /\ b \in Nat /\ x \in Nat /\ y \in Nat
        /\ shares \in Nat /\ paid \in Nat
    BY <1>1, <1>2, <1>11
  <2>2. a + (x + shares) = SumTo(f, m) /\ b + (y + paid) = SumTo(g, m)
    BY <1>10, <1>12
  <2> HIDE DEF a, b, x, y
  <2>3. (a + shares) + x = a + (x + shares) /\ (b + paid) + y = b + (y + paid)
    BY ONLY <2>1
  <2> QED BY <2>2, <2>3 DEF a, b, x, y
<1>14. Drained(d, q, ids)
  BY <1>1, <1>6, <1>7, <1>9, <1>13 DEF Drained, f, g
<1> QED BY <1>1, <1>6, <1>14 DEF d, u


\* The state a draining walk starts in.
LEMMA StartDrained ==
  ASSUME NEW q \in Queues, NEW ids \in Seq(RequestIds), NEW amount \in Nat
  PROVE  LET c == ClaimStart(q, ids, amount)
         IN  Drained(c, q, ids) /\ c.at = Len(ids) /\ c.remaining = amount
<1> DEFINE c == ClaimStart(q, ids, amount)
           m == Len(ids)
<1>1. m \in Nat
  BY LenProperties
<1>2. /\ c \in ClaimWalks /\ c.queue = q /\ c.ids = ids /\ c.at = m
      /\ c.shares = 0 /\ c.assets = 0 /\ c.remaining = amount
  BY <1>1 DEF ClaimStart, ClaimWalks
<1> HIDE DEF c
<1>3. \A k \in 1 .. m : k <= m
  BY <1>1
<1>4. SumTo(SettledAt(q, ids), m) \in Nat /\ SumTo(OwedAt(q, ids), m) \in Nat
  <2>1. m \in 0 .. Len(ids)
    BY <1>1
  <2> QED BY <2>1, TotalsAt
<1>5. \A a \in Nat : 0 + a = a
  OBVIOUS
<1>6. m <= m
  BY <1>1
<1> QED BY <1>2, <1>3, <1>4, <1>5, <1>6 DEF Drained, c

\* A draining walk by shares takes the last entry whole.
LEMMA SharesStepDrains ==
  ASSUME NEW q \in Queues, \A i \in RequestIds : RequestSound(q[i]), Covered(q),
         NEW ids \in Seq(RequestIds), NEW controller \in Controllers,
         IndexOf(q, ids, controller),
         NEW c, Drained(c, q, ids), c.remaining = SumTo(SettledAt(q, ids), c.at)
  PROVE  LET d == ClaimSharesStep(c, controller)
         IN  /\ Drained(d, q, ids) /\ d.remaining = SumTo(SettledAt(q, ids), d.at)
             /\ d.at = IF c.at = 0 THEN 0 ELSE c.at - 1
<1> DEFINE i    == c.ids[c.at]
           r    == c.queue[i]
           take == Lesser(r.bilSettled, c.remaining)
           part == (take * r.hollarOwed) \div r.bilSettled
           rest == c.remaining - take
           f    == SettledAt(q, ids)
<1>1. CASE c.at = 0
  BY <1>1 DEF ClaimSharesStep
<1>2. CASE c.at # 0
  <2>1. /\ c.at \in 1 .. Len(ids) /\ c.at - 1 \in 0 .. Len(ids) /\ c.at \in Nat
    BY <1>2, LenProperties DEF Drained, ClaimWalks
  <2>2. i = ids[c.at] /\ i \in RequestIds /\ r = q[i]
    BY <2>1, ElementOfSeq DEF Drained
  <2>3. /\ r.user = controller /\ r.bilSettled \in Nat \ {0} /\ r.hollarOwed \in Nat
    <3>1. q[i].user = controller /\ q[i].bilSettled > 0
      BY <2>1, <2>2 DEF IndexOf
    <3>2. q[i] \in Request
      BY <2>2 DEF Queues
    <3> HIDE DEF i
    <3> QED BY <2>2, <3>1, <3>2 DEF Request
  <2>4. /\ SumTo(f, c.at) = SumTo(f, c.at - 1) + r.bilSettled
        /\ SumTo(f, c.at - 1) \in Nat
    <3>1. SumTo(f, c.at) = SumTo(f, c.at - 1) + q[ids[c.at]].bilSettled
      BY <2>1, TotalsAt
    <3>2. SumTo(f, c.at - 1) \in Nat
      BY <2>1, TotalsAt
    <3> QED BY <2>2, <3>1, <3>2
  <2> HIDE DEF f
  <2>5. /\ c.remaining = SumTo(f, c.at - 1) + r.bilSettled
    BY <2>4 DEF f
  <2>6. take = r.bilSettled /\ rest = SumTo(f, c.at - 1) /\ c.remaining # 0
    <3> HIDE DEF r
    <3>1. r.bilSettled <= c.remaining /\ c.remaining # 0
      BY <2>3, <2>4, <2>5
    <3>2. take = r.bilSettled
      BY <3>1 DEF Lesser
    <3> HIDE DEF take
    <3> QED BY <2>3, <2>4, <2>5, <3>1, <3>2
  <2>7. part = r.hollarOwed
    <3>1. /\ take \in Nat /\ take > 0 /\ take <= r.bilSettled
      <4> HIDE DEF r, take
      <4> QED BY <2>3, <2>6
    <3> HIDE DEF r, take
    <3> QED BY <2>3, <2>6, <3>1, ProRata
  <2>8. ClaimSharesStep(c, controller) = [Draw(c, i, take, part) EXCEPT !.remaining = rest]
    <3>1. ~(r.user # controller \/ r.bilSettled = 0) /\ ~(c.at = 0 \/ c.remaining = 0)
      BY <1>2, <2>3, <2>6
    <3> QED BY <3>1 DEF ClaimSharesStep, Draw
  <2> HIDE DEF take, part, rest
  <2>9. /\ rest \in Nat /\ take = q[ids[c.at]].bilSettled /\ part = q[ids[c.at]].hollarOwed
    BY <2>2, <2>4, <2>6, <2>7
  <2> DEFINE d == [Draw(c, c.ids[c.at], take, part) EXCEPT !.remaining = rest]
  <2>10. Drained(d, q, ids) /\ d.at = c.at - 1 /\ d.remaining = rest
    BY <1>2, <2>9, DrawDrains
  <2>11. ClaimSharesStep(c, controller) = d
    BY <2>8
  <2> HIDE DEF d
  <2> QED BY <1>2, <2>6, <2>10, <2>11 DEF f
<1> QED BY <1>1, <1>2

\* A draining walk by assets takes the last entry whole.
LEMMA AssetsStepDrains ==
  ASSUME NEW q \in Queues, \A i \in RequestIds : RequestSound(q[i]), Covered(q),
         NEW ids \in Seq(RequestIds), NEW controller \in Controllers,
         IndexOf(q, ids, controller),
         NEW c, Drained(c, q, ids), c.remaining = SumTo(OwedAt(q, ids), c.at)
  PROVE  LET d == ClaimAssetsStep(c, controller)
         IN  /\ Drained(d, q, ids) /\ d.remaining = SumTo(OwedAt(q, ids), d.at)
             /\ d.at = IF c.at = 0 THEN 0 ELSE c.at - 1
<1> DEFINE i    == c.ids[c.at]
           r    == c.queue[i]
           take == Lesser(r.hollarOwed, c.remaining)
           part == (take * r.bilSettled) \div r.hollarOwed
           rest == c.remaining - take
           g    == OwedAt(q, ids)
<1>1. CASE c.at = 0
  BY <1>1 DEF ClaimAssetsStep
<1>2. CASE c.at # 0
  <2>1. /\ c.at \in 1 .. Len(ids) /\ c.at - 1 \in 0 .. Len(ids) /\ c.at \in Nat
    BY <1>2, LenProperties DEF Drained, ClaimWalks
  <2>2. i = ids[c.at] /\ i \in RequestIds /\ r = q[i]
    BY <2>1, ElementOfSeq DEF Drained
  <2>3. /\ r.user = controller /\ r.bilSettled \in Nat /\ r.hollarOwed \in Nat \ {0}
    <3>1. q[i].user = controller /\ q[i].hollarOwed > 0
      BY <2>1, <2>2 DEF IndexOf, Covered
    <3>2. q[i] \in Request
      BY <2>2 DEF Queues
    <3> HIDE DEF i
    <3> QED BY <2>2, <3>1, <3>2 DEF Request
  <2>4. /\ SumTo(g, c.at) = SumTo(g, c.at - 1) + r.hollarOwed
        /\ SumTo(g, c.at - 1) \in Nat
    <3>1. SumTo(g, c.at) = SumTo(g, c.at - 1) + q[ids[c.at]].hollarOwed
      BY <2>1, TotalsAt
    <3>2. SumTo(g, c.at - 1) \in Nat
      BY <2>1, TotalsAt
    <3> QED BY <2>2, <3>1, <3>2
  <2> HIDE DEF g
  <2>5. /\ c.remaining = SumTo(g, c.at - 1) + r.hollarOwed
    BY <2>4 DEF g
  <2>6. take = r.hollarOwed /\ rest = SumTo(g, c.at - 1) /\ c.remaining # 0
    <3> HIDE DEF r
    <3>1. r.hollarOwed <= c.remaining /\ c.remaining # 0
      BY <2>3, <2>4, <2>5
    <3>2. take = r.hollarOwed
      BY <3>1 DEF Lesser
    <3> HIDE DEF take
    <3> QED BY <2>3, <2>4, <2>5, <3>1, <3>2
  <2>7. part = r.bilSettled
    <3>1. /\ take \in Nat /\ take > 0 /\ take <= r.hollarOwed
      <4> HIDE DEF r, take
      <4> QED BY <2>3, <2>6
    <3> HIDE DEF r, take
    <3> QED BY <2>3, <2>6, <3>1, ProRata
  <2>8. ClaimAssetsStep(c, controller) = [Draw(c, i, part, take) EXCEPT !.remaining = rest]
    <3>1. ~(r.user # controller \/ r.hollarOwed = 0) /\ ~(c.at = 0 \/ c.remaining = 0)
      BY <1>2, <2>3, <2>6
    <3> QED BY <3>1 DEF ClaimAssetsStep, Draw
  <2> HIDE DEF take, part, rest
  <2>9. /\ rest \in Nat /\ part = q[ids[c.at]].bilSettled /\ take = q[ids[c.at]].hollarOwed
    BY <2>2, <2>4, <2>6, <2>7
  <2> DEFINE d == [Draw(c, c.ids[c.at], part, take) EXCEPT !.remaining = rest]
  <2>10. Drained(d, q, ids) /\ d.at = c.at - 1 /\ d.remaining = rest
    BY <1>2, <2>9, DrawDrains
  <2>11. ClaimAssetsStep(c, controller) = d
    BY <2>8
  <2> HIDE DEF d
  <2> QED BY <1>2, <2>6, <2>10, <2>11 DEF g
<1> QED BY <1>1, <1>2


\* A walk that is to claim everything the index leads to drains all of it.
LEMMA FullClaims ==
  ASSUME NEW q \in Queues, \A i \in RequestIds : RequestSound(q[i]), Covered(q),
         NEW ids \in Seq(RequestIds), NEW controller \in Controllers,
         IndexOf(q, ids, controller),
         NEW shares, shares = SumTo(SettledAt(q, ids), Len(ids)),
         NEW assets, assets = SumTo(OwedAt(q, ids), Len(ids))
  PROVE  LET c == ClaimByShares(q, ids, controller, shares)
             d == ClaimByAssets(q, ids, controller, assets)
         IN  /\ c.remaining = 0 /\ c.assets = assets
             /\ d.remaining = 0 /\ d.shares = shares
             /\ \A k \in 1 .. Len(ids) : /\ c.queue[ids[k]].hollarOwed = 0
                                         /\ d.queue[ids[k]].hollarOwed = 0
<1> DEFINE m  == Len(ids)
           f  == SettledAt(q, ids)
           g  == OwedAt(q, ids)
           F  == [c \in ClaimWalks |-> ClaimSharesStep(c, controller)]
           G  == [c \in ClaimWalks |-> ClaimAssetsStep(c, controller)]
           V  == [n \in Nat |-> {c \in ClaimWalks : /\ Drained(c, q, ids)
                                                    /\ c.remaining = SumTo(f, c.at)
                                                    /\ n <= m => c.at = m - n}]
           W  == [n \in Nat |-> {c \in ClaimWalks : /\ Drained(c, q, ids)
                                                    /\ c.remaining = SumTo(g, c.at)
                                                    /\ n <= m => c.at = m - n}]
           c0 == ClaimStart(q, ids, shares)
           d0 == ClaimStart(q, ids, assets)
<1>1. m \in Nat /\ shares \in Nat /\ assets \in Nat
  <2>1. m \in Nat /\ m \in 0 .. m
    BY LenProperties
  <2> QED BY <2>1, TotalsAt
<1>2. /\ c0 \in V[0] /\ d0 \in W[0]
  <2>1. /\ Drained(c0, q, ids) /\ c0.at = m /\ c0.remaining = shares
        /\ Drained(d0, q, ids) /\ d0.at = m /\ d0.remaining = assets
    BY <1>1, StartDrained
  <2>2. m - 0 = m
    BY <1>1
  <2> HIDE DEF c0, d0
  <2> QED BY <2>1, <2>2 DEF Drained
<1>3. ASSUME NEW n \in Nat, NEW a \in Nat, n <= m => a = m - n
      PROVE  n + 1 <= m => (IF a = 0 THEN 0 ELSE a - 1) = m - (n + 1)
  BY <1>1, <1>3
<1>4. ASSUME NEW n \in Nat, NEW x \in V[n]
      PROVE  F[x] \in V[n + 1]
  <2> DEFINE y == ClaimSharesStep(x, controller)
  <2>1. /\ x \in ClaimWalks /\ Drained(x, q, ids) /\ x.remaining = SumTo(f, x.at)
        /\ x.at \in Nat /\ (n <= m => x.at = m - n)
    BY DEF ClaimWalks
  <2>2. /\ Drained(y, q, ids) /\ y.remaining = SumTo(f, y.at)
        /\ y.at = IF x.at = 0 THEN 0 ELSE x.at - 1
    BY <2>1, SharesStepDrains
  <2>3. F[x] = y
    BY <2>1
  <2> HIDE DEF y, F, f
  <2>4. n + 1 \in Nat /\ (n + 1 <= m => y.at = m - (n + 1))
    BY <1>3, <2>1, <2>2
  <2> QED BY <2>2, <2>3, <2>4 DEF Drained
<1>5. ASSUME NEW n \in Nat, NEW x \in W[n]
      PROVE  G[x] \in W[n + 1]
  <2> DEFINE y == ClaimAssetsStep(x, controller)
  <2>1. /\ x \in ClaimWalks /\ Drained(x, q, ids) /\ x.remaining = SumTo(g, x.at)
        /\ x.at \in Nat /\ (n <= m => x.at = m - n)
    BY DEF ClaimWalks
  <2>2. /\ Drained(y, q, ids) /\ y.remaining = SumTo(g, y.at)
        /\ y.at = IF x.at = 0 THEN 0 ELSE x.at - 1
    BY <2>1, AssetsStepDrains
  <2>3. G[x] = y
    BY <2>1
  <2> HIDE DEF y, G, g
  <2>4. n + 1 \in Nat /\ (n + 1 <= m => y.at = m - (n + 1))
    BY <1>3, <2>1, <2>2
  <2> QED BY <2>2, <2>3, <2>4 DEF Drained
<1> DEFINE c == Iterate(F, c0, m)
           d == Iterate(G, d0, m)
<1> HIDE DEF F, G, V, W, c0, d0
<1>6. c \in V[m] /\ d \in W[m]
  BY <1>1, <1>2, <1>4, <1>5, IterateReaches
<1> HIDE DEF c, d
<1>7. /\ Drained(c, q, ids) /\ c.remaining = SumTo(f, c.at) /\ c.at = 0
      /\ Drained(d, q, ids) /\ d.remaining = SumTo(g, d.at) /\ d.at = 0
  <2>1. m <= m /\ m - m = 0
    BY <1>1
  <2> QED BY <1>1, <1>6, <2>1 DEF V, W
<1>8. SumTo(f, 0) = 0 /\ SumTo(g, 0) = 0
  BY SumZero
<1>9. c.remaining = 0 /\ d.remaining = 0
  BY <1>7, <1>8
<1>10. c.assets = assets /\ d.shares = shares
  <2>1. /\ c.assets + SumTo(g, c.at) = assets /\ c.assets \in Nat
        /\ d.shares + SumTo(f, d.at) = shares /\ d.shares \in Nat
    BY <1>7 DEF Drained, ClaimWalks
  <2>2. c.assets + 0 = c.assets /\ d.shares + 0 = d.shares
    BY <2>1
  <2> QED BY <1>7, <1>8, <2>1, <2>2
<1>11. \A k \in 1 .. m : c.queue[ids[k]].hollarOwed = 0 /\ d.queue[ids[k]].hollarOwed = 0
  <2>1. \A k \in 1 .. m : ~(k <= 0)
    BY <1>1
  <2> QED BY <1>7, <2>1 DEF Drained
<1>12. c = ClaimByShares(q, ids, controller, shares)
       /\ d = ClaimByAssets(q, ids, controller, assets)
  BY DEF c, d, F, G, c0, d0, ClaimByShares, ClaimByAssets
<1> QED BY <1>9, <1>10, <1>11, <1>12

\* An exact index makes maxRedeem and maxWithdraw honest.
LEMMA ExactIndexHonours == ParInv => MaxClaimsHonoured
<1> SUFFICES ASSUME ParInv, NEW c \in Controllers
             PROVE  LET byShares == ClaimByShares(queue, settledBy[c], c, maxRedeem(c))
                        byAssets == ClaimByAssets(queue, settledBy[c], c, maxWithdraw(c))
                    IN  /\ byShares.remaining = 0 /\ byShares.assets = maxWithdraw(c)
                        /\ byAssets.remaining = 0 /\ byAssets.shares = maxRedeem(c)
                        /\ \A i \in RequestIds : queue[i].user = c =>
                             /\ byShares.queue[i].hollarOwed = 0
                             /\ byAssets.queue[i].hollarOwed = 0
  BY DEF MaxClaimsHonoured
<1> DEFINE ids == settledBy[c]
           s   == maxRedeem(c)
           a   == maxWithdraw(c)
           x   == ClaimByShares(queue, ids, c, s)
           y   == ClaimByAssets(queue, ids, c, a)
<1>1. /\ queue \in Queues /\ \A i \in RequestIds : RequestSound(queue[i])
      /\ ids \in Seq(RequestIds) /\ Len(ids) \in Nat
      /\ Covered(queue) /\ IndexOf(queue, ids, c)
  BY LenProperties DEF ParInv, IInv, QueueInv, RequestsConsistent, Indexes, Indexed
<1>2. s = SumTo(SettledAt(queue, ids), Len(ids)) /\ a = SumTo(OwedAt(queue, ids), Len(ids))
  BY <1>1, ClaimableTotals DEF maxRedeem, maxWithdraw
<1>3. s \in Nat /\ a \in Nat
  <2>1. Len(ids) \in 0 .. Len(ids)
    BY <1>1
  <2> QED BY <1>1, <1>2, <2>1, TotalsAt
<1> HIDE DEF ids, s, a
<1>4. /\ x.remaining = 0 /\ x.assets = a
      /\ y.remaining = 0 /\ y.shares = s
      /\ \A k \in 1 .. Len(ids) : /\ x.queue[ids[k]].hollarOwed = 0
                                  /\ y.queue[ids[k]].hollarOwed = 0
  BY <1>1, <1>2, FullClaims
<1>5. ClaimInv(x, queue, c) /\ ClaimInv(y, queue, c)
  BY <1>1, <1>3, ClaimResult
<1> HIDE DEF x, y
<1>6. ASSUME NEW i \in RequestIds, queue[i].user = c
      PROVE  x.queue[i].hollarOwed = 0 /\ y.queue[i].hollarOwed = 0
  <2>1. CASE queue[i].bilSettled > 0
    <3>1. PICK k \in 1 .. Len(ids) : ids[k] = i
      BY <1>1, <1>6, <2>1 DEF IndexOf
    <3> QED BY <1>4, <3>1
  <2>2. CASE ~(queue[i].bilSettled > 0)
    <3>1. /\ x.queue[i] \in Request /\ y.queue[i] \in Request /\ queue[i] \in Request
          /\ RequestSound(x.queue[i]) /\ RequestSound(y.queue[i])
          /\ x.queue[i].bilSettled <= queue[i].bilSettled
          /\ y.queue[i].bilSettled <= queue[i].bilSettled
      BY <1>1, <1>5 DEF ClaimInv, ClaimWalks, Queues
    <3> QED BY <2>2, <3>1 DEF RequestSound, Request
  <2> QED BY <2>1, <2>2
<1> QED BY <1>4, <1>6 DEF x, y, s, a, ids

\* While Decentral pays what it owes, claiming maxRedeem shares or maxWithdraw HOLLAR
\* succeeds, and either pays out everything the controller's requests have reserved.
THEOREM MaxClaimsSucceed == Spec /\ LossFree => []MaxClaimsHonoured
BY ParInvHolds, ExactIndexHonours, PTL

=============================================================================
