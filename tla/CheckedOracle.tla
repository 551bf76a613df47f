--------------------------- MODULE CheckedOracle ---------------------------
(***************************************************************************)
(* The pushed price feeds of contracts/: ManagedOracle stores a price,     *)
(* CheckedOracle gates a push on a band around a check feed, and           *)
(* DiscountedCheckedOracle marks the pushed price down first.  A           *)
(* CheckedOracle is the case Coefficients = {ONE}, but for its             *)
(* constructor, which takes any price.                                     *)
(*                                                                         *)
(* The check feed is external: its answer moves, and it may revert or      *)
(* return something that does not decode.  Two things are left out: round  *)
(* ids and timestamps, which no decision here reads, and the pusher's      *)
(* address, since the owner may push through the same gate.                *)
(***************************************************************************)
EXTENDS Iteration

CONSTANTS
  Feeds, NoFeed,       \* check feeds; NoFeed is address(0)
  feedDecimals,        \* Feeds -> Nat: what decimals() answers, DECIMALS if it fails
  Answers,             \* integers a feed may answer
  Reverting, Garbled,  \* a feed whose call fails; one whose answer does not decode
  Prices,              \* prices that are pushed
  DECIMALS,            \* decimals of this oracle: 8
  MAX_FEED_DECIMALS,
  MAX_BPS, Bands,      \* 10_000, and the values of maxDiffBps
  ONE, Coefficients,   \* 1e8, and the coefficients the bounds permit
  MaxUint              \* 2^256 - 1

ASSUME CheckedOracleAssumption ==
  /\ feedDecimals \in [Feeds -> Nat] /\ NoFeed \notin Feeds
  /\ Answers \subseteq Int /\ Prices \subseteq Int
  /\ Reverting \notin Int /\ Garbled \notin Int
  /\ DECIMALS \in Nat /\ MAX_FEED_DECIMALS \in Nat
  /\ MAX_BPS \in Nat \ {0} /\ Bands \subseteq 0 .. MAX_BPS
  /\ ONE \in Nat \ {0} /\ Coefficients \subseteq 1 .. ONE
  /\ MaxUint \in Nat

VARIABLES
  answer,       \* currentRound.answer
  checkOracle, checkDecimals, maxDiffBps, coefficient,
  feed,         \* what each feed does when it is called (external)
  shown,        \* history: check prices on view since feed and band were last set
  gated         \* history: whether `answer` passed the gate since then

configVars == <<checkOracle, checkDecimals, maxDiffBps, coefficient>>
vars == <<answer, configVars, feed, shown, gated>>

FeedStates == Answers \cup {Reverting, Garbled}

Fits(n) == n <= MaxUint

Positive(a) == a \notin {Reverting, Garbled} /\ a > 0

-----------------------------------------------------------------------------
(* Reading the check feed.                                                 *)

checked == checkOracle # NoFeed

TenTo(n) == Iterate([x \in Nat |-> 10 * x], 1, n)

Scale(a) ==
  IF checkDecimals <= DECIMALS THEN a * TenTo(DECIMALS - checkDecimals)
  ELSE a \div TenTo(checkDecimals - DECIMALS)

\* The read itself reverts: the try/catch covers a failing call, but neither a
\* return value that does not decode nor the scaling that follows the call.
FeedBreaks ==
  checked /\ LET a == feed[checkOracle]
             IN  a = Garbled \/ (Positive(a) /\ ~Fits(Scale(a)))

\* _checkPrice answers ok.
FeedUsable == checked /\ ~FeedBreaks /\ Positive(feed[checkOracle])

checkPrice == Scale(feed[checkOracle])

Watch == IF FeedUsable THEN {checkPrice} ELSE {}

Distance(p, c) == IF p > c THEN p - c ELSE c - p

\* Seeded fault: the edges of the band are rejected.
InsideBand(p, c) == Distance(p, c) * MAX_BPS < maxDiffBps * c

WithinBand(p, c) ==
  /\ Fits(Distance(p, c) * MAX_BPS) /\ Fits(maxDiffBps * c)
  /\ Distance(p, c) * MAX_BPS <= maxDiffBps * c

Discount(raw) == (raw * coefficient) \div ONE

-----------------------------------------------------------------------------
(* Pushing a price.                                                        *)

Gate(raw) == checked => FeedUsable /\ WithinBand(Discount(raw), checkPrice)

\* What _setDiscountedPrice takes.  A check price scaled down to 0 accepts nothing.
Accepts(raw) ==
  raw > 0 /\ Fits(raw * coefficient) /\ Discount(raw) > 0 /\ Gate(raw)

SetPrice(raw) ==
  /\ Accepts(raw)
  /\ answer' = Discount(raw)
  /\ gated' = checked
  /\ UNCHANGED <<configVars, feed, shown>>

\* The owner's escape hatch takes any price and is not discounted, but the check
\* feed is read for the event.
SetPriceUnchecked(price) ==
  /\ ~FeedBreaks
  /\ answer' = price
  /\ gated' = FALSE
  /\ UNCHANGED <<configVars, feed, shown>>

-----------------------------------------------------------------------------
(* Configuration, by the owner.                                            *)

\* A feed must answer a positive price when it is set; NoFeed switches checking off.
CanCheck(f) ==
  f # NoFeed => feedDecimals[f] <= MAX_FEED_DECIMALS /\ Positive(feed[f])

\* The feed's decimals are read once.
SetCheckOracle(f) ==
  /\ CanCheck(f)
  /\ checkOracle' = f
  /\ checkDecimals' = IF f = NoFeed THEN 0 ELSE feedDecimals[f]
  /\ UNCHANGED <<answer, maxDiffBps, coefficient, feed>>
  /\ shown' = Watch' /\ gated' = FALSE

SetMaxDiffBps(b) ==
  /\ maxDiffBps' = b
  /\ shown' = Watch /\ gated' = FALSE
  /\ UNCHANGED <<answer, checkOracle, checkDecimals, coefficient, feed>>

\* Seeded fault: the new coefficient is applied to the stored price at once.
SetCoefficientNow(c) ==
  /\ coefficient' = c /\ answer' = (answer * c) \div ONE
  /\ UNCHANGED <<checkOracle, checkDecimals, maxDiffBps, feed, shown, gated>>

\* The stored price is left alone.
SetCoefficient(c) ==
  /\ coefficient' = c
  /\ UNCHANGED <<answer, checkOracle, checkDecimals, maxDiffBps, feed, shown, gated>>

\* A feed moves, fails, or recovers.
FeedMoves(f, a) ==
  /\ feed' = [feed EXCEPT ![f] = a]
  /\ UNCHANGED <<answer, configVars, gated>>
  /\ shown' = shown \cup Watch'

\* The constructor's price is discounted, but not gated.  Deployed while the feeds
\* work and agree.
Init ==
  /\ \E a \in Answers : feed = [f \in Feeds |-> a]
  /\ checkOracle \in Feeds \cup {NoFeed} /\ CanCheck(checkOracle)
  /\ checkDecimals = IF checkOracle = NoFeed THEN 0 ELSE feedDecimals[checkOracle]
  /\ ~FeedBreaks
  /\ maxDiffBps \in Bands /\ coefficient \in Coefficients
  /\ answer \in {Discount(p) : p \in {q \in Prices : q > 0}} \ {0}
  /\ shown = Watch /\ gated = FALSE

Next ==
  \/ \E p \in Prices : SetPrice(p) \/ SetPriceUnchecked(p)
  \/ \E f \in Feeds \cup {NoFeed} : SetCheckOracle(f)
  \/ \E b \in Bands : SetMaxDiffBps(b)
  \/ \E c \in Coefficients : SetCoefficient(c)
  \/ \E f \in Feeds : \E a \in FeedStates : FeedMoves(f, a)

Spec == Init /\ [][Next]_vars

-----------------------------------------------------------------------------
\* "Compromising it caps the damage at maxDiffBps around the pool EMA": a price
\* that passed the gate is inside the present band around a check price that was on
\* view since feed and band were set, whatever the feed and the owner's discount
\* dial did in between.
GatedPriceNearFeed == gated => \E c \in shown : WithinBand(answer, c)

\* Pushed so that the discount makes it the check price.
HonestPush == (checkPrice * ONE + coefficient - 1) \div coefficient

\* Rounding the discount down leaves no gap: an honest pusher can always publish the
\* check price itself, even with a band of 0, unless a number overflows or the feed
\* is below the oracle's precision.
HonestPushAccepted ==
  /\ FeedUsable /\ checkPrice > 0
  /\ Fits(maxDiffBps * checkPrice) /\ Fits(HonestPush * coefficient)
  => Accepts(HonestPush) /\ Discount(HonestPush) = checkPrice
=============================================================================
