------------------------ MODULE CheckedOracleProofs ------------------------
(***************************************************************************)
(* Proofs about CheckedOracle for any feeds, decimals, bands, coefficients *)
(* and prices: what the gate promises of an accepted price, and that it    *)
(* never shuts an honest pusher out.                                       *)
(***************************************************************************)
EXTENDS CheckedOracle, IterationProofs

Typed ==
  /\ checkOracle \in Feeds \cup {NoFeed} /\ checkDecimals \in Nat
  /\ maxDiffBps \in Nat /\ coefficient \in 1 .. ONE
  /\ feed \in [Feeds -> FeedStates]

\* What is on view now has been recorded, and a gated price is near one of those.
IInv == Typed /\ Watch \subseteq shown /\ GatedPriceNearFeed

-----------------------------------------------------------------------------
(* Arithmetic.                                                             *)

LEMMA TenToPositive ==
  ASSUME NEW n \in Nat
  PROVE  TenTo(n) \in Nat \ {0}
<1> DEFINE T == Nat \ {0}
           F == [x \in Nat |-> 10 * x]
<1>1. 1 \in T /\ \A x \in T : F[x] \in T
  OBVIOUS
<1> HIDE DEF F, T
<1>2. Iterate(F, 1, n) \in T
  BY <1>1, IterateInvariant
<1> QED BY <1>2 DEF TenTo, F, T

\* Rounding up one way and down the other way is exact while the factor is at most 1.
LEMMA RoundTrip ==
  ASSUME NEW c \in Nat, NEW k \in 1 .. ONE
  PROVE  LET h == (c * ONE + k - 1) \div k
         IN  h \in Int /\ h * k >= c * ONE /\ (h * k) \div ONE = c
<1>1. ONE \in Nat \ {0} /\ k \in Nat \ {0}
  BY CheckedOracleAssumption
<1> DEFINE m == c * ONE + k - 1
           h == m \div k
<1>2. c * ONE \in Nat
  BY <1>1
<1>3. m \in Int
  BY <1>1, <1>2
<1> HIDE DEF m
<1>4. h \in Int /\ m = k * h + (m % k) /\ m % k \in 0 .. (k - 1)
  BY <1>1, <1>3
<1> HIDE DEF h
<1>5. PICK g \in Int : g = h * k
  BY <1>1, <1>4
<1>6. k * h = g
  BY <1>1, <1>4, <1>5
<1>7. c * ONE <= g /\ g <= c * ONE + k - 1
  BY <1>1, <1>2, <1>4, <1>6 DEF m
<1>8. g \div ONE = c
  <2>1. g = ONE * (g \div ONE) + (g % ONE) /\ g \div ONE \in Int /\ g % ONE \in 0 .. (ONE - 1)
    BY <1>1, <1>5
  <2> DEFINE d == (g \div ONE) - c
  <2>2. d \in Int /\ ONE * d = g - c * ONE - (g % ONE)
    BY <1>1, <1>2, <2>1
  <2> HIDE DEF d
  <2>3. ONE * d < ONE /\ ONE * d > -ONE
    <3>1. PICK x \in Nat : x = c * ONE
      BY <1>2
    <3>2. PICK y \in Int : y = ONE * d
      BY <1>1, <2>2
    <3>3. PICK r \in 0 .. (ONE - 1) : r = g % ONE
      BY <2>1
    <3>4. y = g - x - r /\ x <= g /\ g <= x + k - 1
      BY <1>7, <2>2, <3>1, <3>2, <3>3
    <3>5. k \in Int /\ k <= ONE /\ r \in Int /\ 0 <= r /\ r < ONE
      BY <1>1, <3>3
    <3>6. y < ONE /\ y > -ONE
      BY <1>1, <1>5, <3>1, <3>4, <3>5
    <3> QED BY <3>2, <3>6
  <2>4. ~(d >= 1)
    BY <1>1, <2>2, <2>3
  <2>5. ~(d <= -1)
    BY <1>1, <2>2, <2>3
  <2>6. d = 0
    BY <2>2, <2>4, <2>5
  <2> QED BY <2>1, <2>6 DEF d
<1> QED BY <1>4, <1>5, <1>7, <1>8 DEF h, m

LEMMA CheckPriceInt ==
  ASSUME Typed, FeedUsable
  PROVE  checkPrice \in Int
<1>1. checkOracle \in Feeds /\ feed[checkOracle] \in Int
  BY CheckedOracleAssumption DEF Typed, FeedUsable, checked, Positive, FeedStates
<1>2. DECIMALS \in Nat /\ checkDecimals \in Nat
  BY CheckedOracleAssumption DEF Typed
<1>3. CASE checkDecimals <= DECIMALS
  <2>1. TenTo(DECIMALS - checkDecimals) \in Nat \ {0}
    BY <1>2, <1>3, TenToPositive
  <2> QED BY <1>1, <1>3, <2>1 DEF checkPrice, Scale
<1>4. CASE ~(checkDecimals <= DECIMALS)
  <2>1. TenTo(checkDecimals - DECIMALS) \in Nat \ {0}
    BY <1>2, <1>4, TenToPositive
  <2> QED BY <1>1, <1>4, <2>1 DEF checkPrice, Scale
<1> QED BY <1>3, <1>4

-----------------------------------------------------------------------------
(* The gate.                                                               *)

LEMMA InitGate == Init => IInv
<1> SUFFICES ASSUME Init PROVE IInv
  OBVIOUS
<1>1. Typed
  BY CheckedOracleAssumption DEF Init, Typed, FeedStates
<1> QED BY <1>1 DEF Init, IInv, GatedPriceNearFeed

\* Prices, pushed through the gate or past it, move neither feed nor configuration.
LEMMA PushGate ==
  ASSUME IInv, NEW p \in Prices, SetPrice(p) \/ SetPriceUnchecked(p)
  PROVE  IInv'
<1>1. UNCHANGED <<configVars, feed, shown>>
  BY DEF SetPrice, SetPriceUnchecked
<1>2. Typed' /\ Watch' = Watch
  BY <1>1 DEF IInv, Typed, configVars, Watch, FeedUsable, FeedBreaks, checked, checkPrice, Scale
<1>3. GatedPriceNearFeed'
  <2>1. CASE SetPriceUnchecked(p)
    BY <2>1 DEF SetPriceUnchecked, GatedPriceNearFeed
  <2>2. CASE SetPrice(p) /\ ~checked
    BY <2>2 DEF SetPrice, GatedPriceNearFeed
  <2>3. CASE SetPrice(p) /\ checked
    <3>1. FeedUsable /\ WithinBand(answer', checkPrice)
      BY <2>3 DEF SetPrice, Accepts, Gate
    <3>2. checkPrice \in shown'
      BY <1>1, <3>1 DEF IInv, Watch
    <3>3. \A c : WithinBand(answer, c)' <=> WithinBand(answer', c)
      BY <1>1 DEF WithinBand, configVars
    <3> QED BY <3>1, <3>2, <3>3 DEF GatedPriceNearFeed
  <2> QED BY <2>1, <2>2, <2>3
<1> QED BY <1>1, <1>2, <1>3 DEF IInv

\* A new feed or band starts the record again; a price is not yet gated by it.
LEMMA ConfigGate ==
  ASSUME IInv,
         \/ \E f \in Feeds \cup {NoFeed} : SetCheckOracle(f)
         \/ \E b \in Bands : SetMaxDiffBps(b)
  PROVE  IInv'
<1>1. CASE \E f \in Feeds \cup {NoFeed} : SetCheckOracle(f)
  BY <1>1, CheckedOracleAssumption DEF SetCheckOracle, IInv, Typed, FeedStates, GatedPriceNearFeed
<1>2. CASE \E b \in Bands : SetMaxDiffBps(b)
  <2>1. PICK b \in Bands : SetMaxDiffBps(b)
    BY <1>2
  <2>2. Typed'
    BY <2>1, CheckedOracleAssumption DEF SetMaxDiffBps, IInv, Typed, FeedStates
  <2>3. Watch' = Watch
    BY <2>1 DEF SetMaxDiffBps, Watch, FeedUsable, FeedBreaks, checked, checkPrice, Scale
  <2> QED BY <2>1, <2>2, <2>3 DEF SetMaxDiffBps, IInv, GatedPriceNearFeed
<1> QED BY <1>1, <1>2

LEMMA MovesGate ==
  ASSUME IInv,
         \/ \E c \in Coefficients : SetCoefficient(c)
         \/ \E f \in Feeds : \E a \in FeedStates : FeedMoves(f, a)
  PROVE  IInv'
<1>1. maxDiffBps' = maxDiffBps /\ answer' = answer /\ gated' = gated /\ shown \subseteq shown'
  BY DEF SetCoefficient, FeedMoves, configVars
<1>2. GatedPriceNearFeed'
  BY <1>1 DEF IInv, GatedPriceNearFeed, WithinBand
<1>3. CASE \E c \in Coefficients : SetCoefficient(c)
  <2>1. Typed'
    BY <1>3, CheckedOracleAssumption DEF SetCoefficient, IInv, Typed, FeedStates
  <2>2. Watch' = Watch /\ shown' = shown
    BY <1>3 DEF SetCoefficient, Watch, FeedUsable, FeedBreaks, checked, checkPrice, Scale
  <2> QED BY <1>2, <2>1, <2>2 DEF IInv
<1>4. CASE \E f \in Feeds : \E a \in FeedStates : FeedMoves(f, a)
  <2>1. Typed' /\ Watch' \subseteq shown'
    BY <1>4 DEF FeedMoves, configVars, IInv, Typed, FeedStates
  <2> QED BY <1>2, <2>1 DEF IInv
<1> QED BY <1>3, <1>4

LEMMA NextGate == IInv /\ [Next]_vars => IInv'
<1> SUFFICES ASSUME IInv, [Next]_vars PROVE IInv'
  OBVIOUS
<1>1. CASE \E p \in Prices : SetPrice(p) \/ SetPriceUnchecked(p)
  BY <1>1, PushGate
<1>2. CASE \/ \E f \in Feeds \cup {NoFeed} : SetCheckOracle(f)
           \/ \E b \in Bands : SetMaxDiffBps(b)
  BY <1>2, ConfigGate
<1>3. CASE \/ \E c \in Coefficients : SetCoefficient(c)
           \/ \E f \in Feeds : \E a \in FeedStates : FeedMoves(f, a)
  BY <1>3, MovesGate
<1>4. CASE UNCHANGED vars
  BY <1>4 DEF vars, configVars, IInv, Typed, FeedStates, Watch, FeedUsable, FeedBreaks,
              checked, checkPrice, Scale, GatedPriceNearFeed, WithinBand
<1> QED BY <1>1, <1>2, <1>3, <1>4 DEF Next

-----------------------------------------------------------------------------
\* "Compromising it caps the damage at maxDiffBps around the pool EMA", for any feeds,
\* however they fail and move, and however the owner reconfigures in between: a price
\* that passed the gate is within the present band of a check price that was on view.
THEOREM GateHolds == Spec => []GatedPriceNearFeed
<1>1. IInv => GatedPriceNearFeed
  BY DEF IInv
<1> QED BY <1>1, InitGate, NextGate, PTL DEF Spec

\* The gate never shuts an honest pusher out: rounding the push up undoes the
\* discount's rounding down, for every check price, coefficient and band.
THEOREM HonestAlwaysAccepted == Spec => []HonestPushAccepted
<1>1. IInv => HonestPushAccepted
  <2> SUFFICES ASSUME IInv, FeedUsable, checkPrice > 0,
                      Fits(maxDiffBps * checkPrice), Fits(HonestPush * coefficient)
               PROVE  Accepts(HonestPush) /\ Discount(HonestPush) = checkPrice
    BY DEF HonestPushAccepted
  <2>1. checkPrice \in Nat \ {0}
    BY CheckPriceInt DEF IInv
  <2>2. coefficient \in 1 .. ONE /\ maxDiffBps \in Nat
        /\ ONE \in Nat \ {0} /\ MAX_BPS \in Nat /\ MaxUint \in Nat
    BY CheckedOracleAssumption DEF IInv, Typed
  <2>3. /\ HonestPush \in Int /\ HonestPush * coefficient >= checkPrice * ONE
        /\ Discount(HonestPush) = checkPrice
    BY <2>1, <2>2, RoundTrip DEF HonestPush, Discount
  <2>4. HonestPush > 0
    <3>1. checkPrice * ONE > 0
      BY <2>1, <2>2
    <3>2. coefficient \in Nat \ {0}
      BY <2>2
    <3>3. ASSUME NEW h \in Int, NEW k \in Nat \ {0}, h * k > 0
          PROVE  h > 0
      BY <3>3
    <3>4. PICK w \in Int : w = checkPrice * ONE
      BY <2>1, <2>2
    <3>5. PICK v \in Int : v = HonestPush * coefficient
      BY <2>3, <3>2
    <3> HIDE DEF HonestPush
    <3>6. HonestPush * coefficient > 0
      BY <2>3, <3>1, <3>4, <3>5
    <3> QED BY <2>3, <3>2, <3>3, <3>6
  <2>5. WithinBand(checkPrice, checkPrice)
    <3>1. Distance(checkPrice, checkPrice) = 0
      BY <2>1 DEF Distance
    <3>2. 0 * MAX_BPS = 0 /\ maxDiffBps * checkPrice >= 0
      BY <2>1, <2>2
    <3> QED BY <2>2, <3>1, <3>2 DEF WithinBand, Fits
  <2> QED BY <2>1, <2>3, <2>4, <2>5 DEF Accepts, Gate
<1> QED BY <1>1, InitGate, NextGate, PTL DEF Spec

=============================================================================
