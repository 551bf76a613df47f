---------------------------- MODULE LaunchProofs ----------------------------
(***************************************************************************)
(* Governance proposals: what holds of the chain and of every referendum,   *)
(* whatever is enacted, rejected or scheduled in whatever order.  In turn:   *)
(* batches, and what a run of one does to the chain; what each proposal's    *)
(* batch consists of; what the chain is after it; the chain at the start;    *)
(* the inductive invariant; the theorems.                                   *)
(***************************************************************************)
EXTENDS Launch, IterationProofs

-----------------------------------------------------------------------------
(* Recursion *)

\* The recursive definition of a course has the function it describes.
LEMMA CourseDef ==
  ASSUME NEW b, Len(b) \in Nat, NEW c
  PROVE  Course(b, c) = [i \in 0..Len(b) |->
           IF i = 0 THEN [c |-> c, ok |-> TRUE] ELSE After(Course(b, c)[i - 1], b[i], c)]
<1> DEFINE P(g, n) == g = [i \in 0..n |->
                             IF i = 0 THEN [c |-> c, ok |-> TRUE] ELSE After(g[i - 1], b[i], c)]
           T == {n \in Nat : \E g : P(g, n)}
<1>1. 0 \in T
  <2> DEFINE g == [i \in 0..0 |-> [c |-> c, ok |-> TRUE]]
  <2>1. P(g, 0) OBVIOUS
  <2> QED BY <2>1
<1>2. \A n \in Nat : n \in T => n + 1 \in T
  <2> SUFFICES ASSUME NEW n \in Nat, NEW g, P(g, n) PROVE \E h : P(h, n + 1)
    <3> HIDE DEF P
    <3>1. \A m \in Nat : m + 1 \in Nat
      OBVIOUS
    <3> QED BY <3>1
  <2> DEFINE h == [i \in 0..(n+1) |->
                     IF i = 0 THEN [c |-> c, ok |-> TRUE] ELSE After(g[i - 1], b[i], c)]
  <2>1. \A i \in 0..n : h[i] = g[i]
    <3> HIDE DEF P
    <3>1. g = [i \in 0..n |-> IF i = 0 THEN [c |-> c, ok |-> TRUE] ELSE After(g[i - 1], b[i], c)]
      BY DEF P
    <3>2. \A i \in 0..n : g[i] = IF i = 0 THEN [c |-> c, ok |-> TRUE] ELSE After(g[i - 1], b[i], c)
      BY <3>1
    <3>3. \A i \in 0..n : h[i] = IF i = 0 THEN [c |-> c, ok |-> TRUE] ELSE After(g[i - 1], b[i], c)
      OBVIOUS
    <3> HIDE DEF h
    <3> QED BY <3>2, <3>3
  <2>2. \A i \in 0..(n+1) : h[i] = IF i = 0 THEN [c |-> c, ok |-> TRUE] ELSE After(h[i - 1], b[i], c)
    <3> TAKE i \in 0..(n+1)
    <3>1. CASE i = 0 BY <3>1
    <3>2. CASE i # 0
      <4>1. i - 1 \in 0..n BY <3>2
      <4> QED BY <4>1, <2>1, <3>2
    <3> QED BY <3>1, <3>2
  <2>3. h = [i \in 0..(n+1) |-> h[i]] OBVIOUS
  <2> HIDE DEF h
  <2>4. h = [i \in 0..(n+1) |-> IF i = 0 THEN [c |-> c, ok |-> TRUE] ELSE After(h[i - 1], b[i], c)]
    BY <2>2, <2>3
  <2> QED BY <2>4
<1>3. \E g : P(g, Len(b))
  <2> HIDE DEF T, P
  <2>1. Nat \subseteq T BY <1>1, <1>2, NatSetInduction
  <2> QED BY <2>1 DEF T
<1> QED BY <1>3 DEF Course

LEMMA CourseSteps ==
  ASSUME NEW b, Len(b) \in Nat, NEW c
  PROVE  /\ Course(b, c)[0] = [c |-> c, ok |-> TRUE]
         /\ \A i \in 1..Len(b) : Course(b, c)[i] = After(Course(b, c)[i - 1], b[i], c)
<1> DEFINE f == Course(b, c)
<1>1. f = [i \in 0..Len(b) |-> IF i = 0 THEN [c |-> c, ok |-> TRUE] ELSE After(f[i - 1], b[i], c)]
  BY CourseDef
<1> HIDE DEF f
<1>2. /\ f[0] = [c |-> c, ok |-> TRUE]
      /\ \A i \in 1..Len(b) : f[i] = After(f[i - 1], b[i], c)
  <2>1. \A i \in 0..Len(b) : f[i] = IF i = 0 THEN [c |-> c, ok |-> TRUE] ELSE After(f[i - 1], b[i], c)
    BY <1>1
  <2>2. 0 \in 0..Len(b) /\ \A i \in 1..Len(b) : i \in 0..Len(b) /\ i # 0
    OBVIOUS
  <2> QED BY <2>1, <2>2
<1> QED BY <1>2 DEF f

LEMMA WithoutDef ==
  ASSUME NEW rs, Len(rs) \in Nat, NEW out
  PROVE  \E kept : /\ Without(rs, out) = kept[Len(rs)]
                   /\ kept[0] = << >>
                   /\ \A i \in 1..Len(rs) :
                        kept[i] = IF rs[i] \in out THEN kept[i - 1] ELSE Append(kept[i - 1], rs[i])
<1> DEFINE P(g, n) == g = [i \in 0..n |->
                             IF i = 0 THEN << >>
                             ELSE IF rs[i] \in out THEN g[i - 1] ELSE Append(g[i - 1], rs[i])]
           T == {n \in Nat : \E g : P(g, n)}
<1>1. 0 \in T
  <2> DEFINE g == [i \in 0..0 |-> << >>]
  <2>1. P(g, 0) OBVIOUS
  <2> QED BY <2>1
<1>2. \A n \in Nat : n \in T => n + 1 \in T
  <2> SUFFICES ASSUME NEW n \in Nat, NEW g, P(g, n) PROVE \E h : P(h, n + 1)
    <3> HIDE DEF P
    <3>1. \A m \in Nat : m + 1 \in Nat
      OBVIOUS
    <3> QED BY <3>1
  <2> DEFINE h == [i \in 0..(n+1) |->
                     IF i = 0 THEN << >>
                     ELSE IF rs[i] \in out THEN g[i - 1] ELSE Append(g[i - 1], rs[i])]
  <2>1. \A i \in 0..n : h[i] = g[i]
    <3> HIDE DEF P
    <3>1. g = [i \in 0..n |-> IF i = 0 THEN << >> ELSE IF rs[i] \in out THEN g[i - 1] ELSE Append(g[i - 1], rs[i])]
      BY DEF P
    <3>2. \A i \in 0..n : g[i] = IF i = 0 THEN << >> ELSE IF rs[i] \in out THEN g[i - 1] ELSE Append(g[i - 1], rs[i])
      BY <3>1
    <3>3. \A i \in 0..n : h[i] = IF i = 0 THEN << >> ELSE IF rs[i] \in out THEN g[i - 1] ELSE Append(g[i - 1], rs[i])
      OBVIOUS
    <3> HIDE DEF h
    <3> QED BY <3>2, <3>3
  <2>2. \A i \in 0..(n+1) : h[i] = IF i = 0 THEN << >>
                                   ELSE IF rs[i] \in out THEN h[i - 1] ELSE Append(h[i - 1], rs[i])
    <3> TAKE i \in 0..(n+1)
    <3>1. CASE i = 0 BY <3>1
    <3>2. CASE i # 0
      <4>1. i - 1 \in 0..n BY <3>2
      <4> QED BY <4>1, <2>1, <3>2
    <3> QED BY <3>1, <3>2
  <2>3. h = [i \in 0..(n+1) |-> h[i]] OBVIOUS
  <2> HIDE DEF h
  <2>4. h = [i \in 0..(n+1) |-> IF i = 0 THEN << >>
                                ELSE IF rs[i] \in out THEN h[i - 1] ELSE Append(h[i - 1], rs[i])]
    BY <2>2, <2>3
  <2> QED BY <2>4
<1>3. \E g : P(g, Len(rs))
  <2> HIDE DEF T, P
  <2>1. Nat \subseteq T BY <1>1, <1>2, NatSetInduction
  <2> QED BY <2>1 DEF T
<1> DEFINE kept == CHOOSE g : P(g, Len(rs))
<1>4. P(kept, Len(rs))
  <2> HIDE DEF P
  <2> QED BY <1>3
<1>5. Without(rs, out) = kept[Len(rs)]
  BY DEF Without
<1> HIDE DEF kept
<1>6. /\ kept[0] = << >>
      /\ \A i \in 1..Len(rs) :
           kept[i] = IF rs[i] \in out THEN kept[i - 1] ELSE Append(kept[i - 1], rs[i])
  <2>1. \A i \in 0..Len(rs) : kept[i] = IF i = 0 THEN << >>
                                         ELSE IF rs[i] \in out THEN kept[i - 1] ELSE Append(kept[i - 1], rs[i])
    BY <1>4
  <2>2. 0 \in 0..Len(rs) /\ \A i \in 1..Len(rs) : i \in 0..Len(rs) /\ i # 0
    OBVIOUS
  <2> HIDE DEF P
  <2> QED BY <2>1, <2>2
<1> QED BY <1>5, <1>6

\* What is left is what is not left out.
LEMMA WithoutResult ==
  ASSUME NEW S, NEW rs \in Seq(S), NEW out
  PROVE  /\ Without(rs, out) \in Seq(S)
         /\ Items(Without(rs, out)) = Items(rs) \ out
<1>1. Len(rs) \in Nat
  OBVIOUS
<1>2. PICK kept : /\ Without(rs, out) = kept[Len(rs)]
                  /\ kept[0] = << >>
                  /\ \A i \in 1..Len(rs) :
                       kept[i] = IF rs[i] \in out THEN kept[i - 1] ELSE Append(kept[i - 1], rs[i])
  BY <1>1, WithoutDef
<1> DEFINE First(n) == { rs[i] : i \in 1..n }
           T == {n \in Nat : n <= Len(rs) => kept[n] \in Seq(S) /\ Items(kept[n]) = First(n) \ out}
<1>3. 0 \in T
  <2>1. kept[0] \in Seq(S) /\ Items(kept[0]) = {}
    BY <1>2 DEF Items
  <2>2. First(0) = {}
    OBVIOUS
  <2> QED BY <2>1, <2>2
<1>4. \A n \in Nat : n \in T => n + 1 \in T
  <2> SUFFICES ASSUME NEW n \in Nat, n \in T, n + 1 <= Len(rs)
               PROVE  kept[n + 1] \in Seq(S) /\ Items(kept[n + 1]) = First(n + 1) \ out
    <3> HIDE DEF First
    <3>1. \A n \in Nat : n + 1 \in Nat
      OBVIOUS
    <3> QED BY <3>1, Zenon
  <2>1. n + 1 \in 1..Len(rs) /\ (n + 1) - 1 = n /\ n <= Len(rs) /\ rs[n + 1] \in S
    BY <1>1
  <2>2. kept[n] \in Seq(S) /\ Items(kept[n]) = First(n) \ out
    BY <2>1
  <2>3. First(n + 1) = First(n) \cup {rs[n + 1]}
    OBVIOUS
  <2> HIDE DEF First
  <2>4. CASE rs[n + 1] \in out
    BY <1>2, <2>1, <2>2, <2>3, <2>4
  <2>5. CASE rs[n + 1] \notin out
    <3>1. kept[n + 1] = Append(kept[n], rs[n + 1])
      BY <1>2, <2>1, <2>5
    <3>2. kept[n + 1] \in Seq(S) /\ Len(kept[n + 1]) = Len(kept[n]) + 1
      BY <2>1, <2>2, <3>1
    <3>3. \A i \in 1..Len(kept[n]) : kept[n + 1][i] = kept[n][i]
      BY <2>1, <2>2, <3>1
    <3>4. kept[n + 1][Len(kept[n]) + 1] = rs[n + 1]
      BY <2>1, <2>2, <3>1
    <3>5. Len(kept[n]) \in Nat
      BY <2>2
    <3>6. \A i : i \in 1..Len(kept[n + 1]) <=> i \in 1..Len(kept[n]) \/ i = Len(kept[n]) + 1
      BY <3>2, <3>5
    <3>7. Items(kept[n + 1]) = Items(kept[n]) \cup {rs[n + 1]}
      BY <3>3, <3>4, <3>6, Zenon DEF Items
    <3> QED BY <2>2, <2>3, <2>5, <3>2, <3>7
  <2> QED BY <2>4, <2>5
<1>5. Len(rs) \in T
  <2> HIDE DEF T
  <2>1. Nat \subseteq T
    BY <1>3, <1>4, NatSetInduction
  <2> QED BY <1>1, <2>1
<1>6. First(Len(rs)) = Items(rs)
  BY DEF Items
<1> QED BY <1>1, <1>2, <1>5, <1>6

-----------------------------------------------------------------------------
(* Batches *)

IsBatch(b) == b \in Seq(Items(b))

LEMMA BatchOf ==
  ASSUME NEW S, NEW s \in Seq(S)
  PROVE  IsBatch(s) /\ Items(s) \subseteq S /\ Len(s) \in Nat
<1>1. s = [i \in 1..Len(s) |-> s[i]] /\ Len(s) \in Nat
  OBVIOUS
<1>2. \A i \in 1..Len(s) : s[i] \in Items(s)
  BY DEF Items
<1>3. s \in [1..Len(s) -> Items(s)]
  BY <1>1, <1>2
<1>4. s \in Seq(Items(s))
  BY <1>1, <1>3, SeqDef
<1> QED BY <1>1, <1>4 DEF IsBatch, Items

LEMMA BatchConcat ==
  ASSUME NEW s, IsBatch(s), NEW t, IsBatch(t), NEW b, b = s \o t
  PROVE  /\ IsBatch(b)
         /\ Items(b) = Items(s) \cup Items(t)
         /\ Len(s) \in Nat /\ Len(t) \in Nat
         /\ Len(b) = Len(s) + Len(t)
         /\ \A i \in 1..Len(s) : b[i] = s[i]
         /\ \A i \in 1..Len(t) : b[Len(s) + i] = t[i]
<1> DEFINE S == Items(s) \cup Items(t)
<1>1. s \in Seq(S) /\ t \in Seq(S)
  BY DEF IsBatch
<1>2. /\ b \in Seq(S)
      /\ Len(s) \in Nat /\ Len(t) \in Nat
      /\ Len(b) = Len(s) + Len(t)
      /\ \A i \in 1..Len(s) : b[i] = s[i]
      /\ \A i \in 1..Len(t) : b[Len(s) + i] = t[i]
  BY <1>1
<1>3. IsBatch(b) /\ Items(b) \subseteq S
  BY <1>2, BatchOf
<1>4. \A i \in 1..Len(s) : i \in 1..Len(b)
  BY <1>2
<1>5. \A i \in 1..Len(t) : Len(s) + i \in 1..Len(b)
  BY <1>2
<1>6. Items(s) \subseteq Items(b)
  BY <1>2, <1>4 DEF Items
<1>7. Items(t) \subseteq Items(b)
  BY <1>2, <1>5 DEF Items
<1> QED BY <1>2, <1>3, <1>6, <1>7

LEMMA ConcatItems ==
  ASSUME NEW s, IsBatch(s), NEW t, IsBatch(t), NEW b, b = s \o t
  PROVE  IsBatch(b) /\ Items(b) = Items(s) \cup Items(t)
  BY BatchConcat

LEMMA BatchEmpty == IsBatch(<< >>) /\ Items(<< >>) = {}
  BY DEF IsBatch, Items

LEMMA BatchRow1 ==
  ASSUME NEW x1
  PROVE  IsBatch(<< x1 >>) /\ Items(<< x1 >>) = {x1}
<1> DEFINE b == << x1 >>
<1>1. b \in Seq({x1}) /\ Len(b) = 1
  OBVIOUS
<1>2. b[1] = x1
  OBVIOUS
<1>3. 1 \in 1..Len(b)
  BY <1>1
<1>4. IsBatch(b) /\ Items(b) \subseteq {x1}
  BY <1>1, BatchOf
<1> HIDE DEF b
<1>5. x1 \in Items(b)
  BY <1>2, <1>3 DEF Items
<1>6. IsBatch(b) /\ Items(b) = {x1}
  BY <1>4, <1>5
<1> QED BY <1>6 DEF b

LEMMA BatchRow2 ==
  ASSUME NEW x1, NEW x2
  PROVE  IsBatch(<< x1, x2 >>) /\ Items(<< x1, x2 >>) = {x1, x2}
<1> DEFINE b == << x1, x2 >>
<1>1. b \in Seq({x1, x2}) /\ Len(b) = 2
  OBVIOUS
<1>2. b[1] = x1 /\ b[2] = x2
  OBVIOUS
<1>3. 1 \in 1..Len(b) /\ 2 \in 1..Len(b)
  BY <1>1
<1>4. IsBatch(b) /\ Items(b) \subseteq {x1, x2}
  BY <1>1, BatchOf
<1> HIDE DEF b
<1>5. x1 \in Items(b) /\ x2 \in Items(b)
  BY <1>2, <1>3 DEF Items
<1>6. IsBatch(b) /\ Items(b) = {x1, x2}
  BY <1>4, <1>5
<1> QED BY <1>6 DEF b

LEMMA BatchRow3 ==
  ASSUME NEW x1, NEW x2, NEW x3
  PROVE  IsBatch(<< x1, x2, x3 >>) /\ Items(<< x1, x2, x3 >>) = {x1, x2, x3}
<1> DEFINE b == << x1, x2, x3 >>
<1>1. b \in Seq({x1, x2, x3}) /\ Len(b) = 3
  OBVIOUS
<1>2. b[1] = x1 /\ b[2] = x2 /\ b[3] = x3
  OBVIOUS
<1>3. 1 \in 1..Len(b) /\ 2 \in 1..Len(b) /\ 3 \in 1..Len(b)
  BY <1>1
<1>4. IsBatch(b) /\ Items(b) \subseteq {x1, x2, x3}
  BY <1>1, BatchOf
<1> HIDE DEF b
<1>5. x1 \in Items(b) /\ x2 \in Items(b) /\ x3 \in Items(b)
  BY <1>2, <1>3 DEF Items
<1>6. IsBatch(b) /\ Items(b) = {x1, x2, x3}
  BY <1>4, <1>5
<1> QED BY <1>6 DEF b

LEMMA BatchRow4 ==
  ASSUME NEW x1, NEW x2, NEW x3, NEW x4
  PROVE  IsBatch(<< x1, x2, x3, x4 >>) /\ Items(<< x1, x2, x3, x4 >>) = {x1, x2, x3, x4}
<1> DEFINE b == << x1, x2, x3, x4 >>
<1>1. b \in Seq({x1, x2, x3, x4}) /\ Len(b) = 4
  OBVIOUS
<1>2. b[1] = x1 /\ b[2] = x2 /\ b[3] = x3 /\ b[4] = x4
  OBVIOUS
<1>3. 1 \in 1..Len(b) /\ 2 \in 1..Len(b) /\ 3 \in 1..Len(b) /\ 4 \in 1..Len(b)
  BY <1>1
<1>4. IsBatch(b) /\ Items(b) \subseteq {x1, x2, x3, x4}
  BY <1>1, BatchOf
<1> HIDE DEF b
<1>5. x1 \in Items(b) /\ x2 \in Items(b) /\ x3 \in Items(b) /\ x4 \in Items(b)
  BY <1>2, <1>3 DEF Items
<1>6. IsBatch(b) /\ Items(b) = {x1, x2, x3, x4}
  BY <1>4, <1>5
<1> QED BY <1>6 DEF b

LEMMA BatchRow5 ==
  ASSUME NEW x1, NEW x2, NEW x3, NEW x4, NEW x5
  PROVE  IsBatch(<< x1, x2, x3, x4, x5 >>) /\ Items(<< x1, x2, x3, x4, x5 >>) = {x1, x2, x3, x4, x5}
<1> DEFINE b == << x1, x2, x3, x4, x5 >>
<1>1. b \in Seq({x1, x2, x3, x4, x5}) /\ Len(b) = 5
  OBVIOUS
<1>2. b[1] = x1 /\ b[2] = x2 /\ b[3] = x3 /\ b[4] = x4 /\ b[5] = x5
  OBVIOUS
<1>3. 1 \in 1..Len(b) /\ 2 \in 1..Len(b) /\ 3 \in 1..Len(b) /\ 4 \in 1..Len(b) /\ 5 \in 1..Len(b)
  BY <1>1
<1>4. IsBatch(b) /\ Items(b) \subseteq {x1, x2, x3, x4, x5}
  BY <1>1, BatchOf
<1> HIDE DEF b
<1>5. x1 \in Items(b) /\ x2 \in Items(b) /\ x3 \in Items(b) /\ x4 \in Items(b) /\ x5 \in Items(b)
  BY <1>2, <1>3 DEF Items
<1>6. IsBatch(b) /\ Items(b) = {x1, x2, x3, x4, x5}
  BY <1>4, <1>5
<1> QED BY <1>6 DEF b

LEMMA BatchRow6 ==
  ASSUME NEW x1, NEW x2, NEW x3, NEW x4, NEW x5, NEW x6
  PROVE  IsBatch(<< x1, x2, x3, x4, x5, x6 >>) /\ Items(<< x1, x2, x3, x4, x5, x6 >>) = {x1, x2, x3, x4, x5, x6}
<1> DEFINE b == << x1, x2, x3, x4, x5, x6 >>
<1>1. b \in Seq({x1, x2, x3, x4, x5, x6}) /\ Len(b) = 6
  OBVIOUS
<1>2. b[1] = x1 /\ b[2] = x2 /\ b[3] = x3 /\ b[4] = x4 /\ b[5] = x5 /\ b[6] = x6
  OBVIOUS
<1>3. 1 \in 1..Len(b) /\ 2 \in 1..Len(b) /\ 3 \in 1..Len(b) /\ 4 \in 1..Len(b) /\ 5 \in 1..Len(b) /\ 6 \in 1..Len(b)
  BY <1>1
<1>4. IsBatch(b) /\ Items(b) \subseteq {x1, x2, x3, x4, x5, x6}
  BY <1>1, BatchOf
<1> HIDE DEF b
<1>5. x1 \in Items(b) /\ x2 \in Items(b) /\ x3 \in Items(b) /\ x4 \in Items(b) /\ x5 \in Items(b) /\ x6 \in Items(b)
  BY <1>2, <1>3 DEF Items
<1>6. IsBatch(b) /\ Items(b) = {x1, x2, x3, x4, x5, x6}
  BY <1>4, <1>5
<1> QED BY <1>6 DEF b

-----------------------------------------------------------------------------
(* Chains.  A chain c is well formed; what it knows of its reserves hangs   *)
(* together; and a GIGA token is where it is only because the calls before  *)
(* it worked.                                                                *)

IsChain(c) ==
  /\ c = [facts |-> c.facts, nonce |-> c.nonce, farm |-> c.farm, lost |-> c.lost, strict |-> c.strict]
  /\ c.nonce \in Nat
  /\ c.farm \in Nat \ {0}

Sane(c) ==
  /\ \A r, n : AToken(r, n) \in c.facts =>
       n \in Nat /\ n + 3 <= c.nonce /\ Listed(r) \in c.facts
  /\ \A r, n, m : AToken(r, n) \in c.facts /\ AToken(r, m) \in c.facts => n = m
  /\ \A r : Listed(r) \in c.facts => \E n : AToken(r, n) \in c.facts
  /\ \A r : Collateral(r) \in c.facts => Listed(r) \in c.facts

\* A GIGA token, its pool share, the token of the asset in the pool and that asset.
Giga == { <<"gSOL", "2-POOL-GSOL", "aSOL", "SOL">>, <<"gETH", "2-POOL-GETH", "aETH", "ETH">> }
Earned(c) ==
  \A q \in Giga :
    /\ \A x : Holds(x, q[3]) \in c.facts => IsPair(q[4], q[3], c)
    /\ \A x : Holds(x, q[2]) \in c.facts => Seeded(q[2]) \in c.facts /\ IsPair(q[4], q[3], c)
    /\ (\E x : Holds(x, q[1]) \in c.facts) \/ InOmnipool(q[1]) \in c.facts =>
         IsPair(q[2], q[1], c) /\ Seeded(q[2]) \in c.facts /\ IsPair(q[4], q[3], c)

World(c) == IsChain(c) /\ Sane(c) /\ Earned(c)

\* What no call takes back.
Moved == {"aBIL", "GIGAHDX"}
Lasting(f) == /\ f[1] \notin {"holds", "isolationBorrow", "frozen", "whitelisted"}
              /\ f[1] = "located" => f[2] \notin Moved

Grown(c, d) ==
  /\ \A f \in c.facts : Lasting(f) => f \in d.facts
  /\ c.nonce <= d.nonce
  /\ c.nonce = d.nonce => \A f \in d.facts : f[1] \in {"listed", "aToken"} => f \in c.facts

LEMMA GrownReflexive ==
  ASSUME NEW c, IsChain(c)
  PROVE  Grown(c, c)
  BY DEF Grown, IsChain

LEMMA GrownTransitive ==
  ASSUME NEW c, NEW d, NEW e, IsChain(c), IsChain(d), IsChain(e), Grown(c, d), Grown(d, e)
  PROVE  Grown(c, e)
  BY DEF Grown, IsChain

\* What is asked of a call.
Tidy(call) ==
  /\ call.soft \in BOOLEAN
  /\ \A f \in call.drops : ~Lasting(f) /\ f[1] # "located"
  /\ \A f \in call.gets : f[1] # "aToken"
  /\ \A f \in call.gets : f[1] = "listed" => f[2] \in call.lists
  /\ \A r \in call.lists : call = InitReserves(r)
  /\ \A f \in call.gets : f[1] = "collateral" => Listed(f[2]) \in call.needs
  /\ call.moves \subseteq Moved

Hands(call, id) == \E f \in call.gets : f[1] = "holds" /\ f[3] = id
Asks(call, id) == \E y : Holds(y, id) \in call.needs
Honest(call) ==
  \A q \in Giga :
    /\ Hands(call, q[3]) => <<q[4], q[3]>> \in call.pairs \/ Asks(call, q[3])
    /\ Hands(call, q[2]) => Asks(call, q[2]) \/ (Seeded(q[2]) \in call.gets /\ Asks(call, q[3]))
    /\ Hands(call, q[1]) => Asks(call, q[1]) \/ (<<q[2], q[1]>> \in call.pairs /\ Asks(call, q[2]))
    /\ InOmnipool(q[1]) \in call.gets => Asks(call, q[1])

LEMMA InitReservesFields ==
  ASSUME NEW r
  PROVE  LET call == InitReserves(r) IN
         /\ call.soft = TRUE /\ call.needs = {Registered(r)} /\ call.bans = {Listed(r)}
         /\ call.gets = {Listed(r), Follows("rate", r)}
                        \cup (IF r \in Isolated THEN {} ELSE {Follows("ceiling", r)})
         /\ call.drops = {} /\ call.lists = {r} /\ call.pairs = {} /\ call.hops = {}
         /\ call.site = {} /\ call.code = {} /\ call.moves = {} /\ call.farm = 0
  BY DEF InitReserves, aaveManagerCall, Call, Underlying

LEMMA ThreeFields ==
  ASSUME NEW c,
         c = [facts |-> c.facts, nonce |-> c.nonce, farm |-> c.farm, lost |-> c.lost, strict |-> c.strict],
         NEW F, NEW N, NEW M, NEW d, d = [c EXCEPT !.facts = F, !.nonce = N, !.farm = M]
  PROVE  d = [facts |-> F, nonce |-> N, farm |-> M, lost |-> c.lost, strict |-> c.strict]
  OBVIOUS

LEMMA DoneFields ==
  ASSUME NEW c, IsChain(c), NEW call
  PROVE  LET d == Done(call, c) IN
         /\ d = [facts |-> d.facts, nonce |-> d.nonce, farm |-> d.farm, lost |-> d.lost, strict |-> d.strict]
         /\ d.facts = (c.facts \ (call.drops \cup LocatedAnywhere(call.moves, c)))
                      \cup call.gets \cup { AToken(r, c.nonce) : r \in call.lists }
         /\ d.nonce = IF call.lists = {} THEN c.nonce ELSE c.nonce + 3
         /\ d.farm = IF call = CreateGlobalFarm THEN c.farm + 1 ELSE c.farm
         /\ d.lost = c.lost /\ d.strict = c.strict
<1> DEFINE d == Done(call, c)
           F == (c.facts \ (call.drops \cup LocatedAnywhere(call.moves, c)))
                \cup call.gets \cup { AToken(r, c.nonce) : r \in call.lists }
           N == IF call.lists = {} THEN c.nonce ELSE c.nonce + 3
           M == IF call = CreateGlobalFarm THEN c.farm + 1 ELSE c.farm
<1>2. d = [c EXCEPT !.facts = F, !.nonce = N, !.farm = M]
  BY DEF Done
<1> HIDE DEF d, F, N, M
<1>3. d = [facts |-> F, nonce |-> N, farm |-> M, lost |-> c.lost, strict |-> c.strict]
  BY <1>2, ThreeFields DEF IsChain
<1>4. /\ d = [facts |-> d.facts, nonce |-> d.nonce, farm |-> d.farm, lost |-> d.lost, strict |-> d.strict]
      /\ d.facts = F /\ d.nonce = N /\ d.farm = M /\ d.lost = c.lost /\ d.strict = c.strict
  BY <1>3
<1> QED BY <1>4 DEF d, F, N, M

\* A call that works is a step forward.
LEMMA DoneChain ==
  ASSUME NEW c, IsChain(c), NEW call
  PROVE  IsChain(Done(call, c))
<1> DEFINE d == Done(call, c)
<1>1. /\ d = [facts |-> d.facts, nonce |-> d.nonce, farm |-> d.farm, lost |-> d.lost, strict |-> d.strict]
      /\ d.nonce = IF call.lists = {} THEN c.nonce ELSE c.nonce + 3
      /\ d.farm = IF call = CreateGlobalFarm THEN c.farm + 1 ELSE c.farm
  BY DoneFields
<1> HIDE DEF d
<1>2. d.nonce \in Nat /\ d.farm \in Nat \ {0}
  BY <1>1 DEF IsChain
<1>3. IsChain(d)
  BY <1>1, <1>2 DEF IsChain
<1> QED BY <1>3 DEF d

\* The facts of a step, by kind.
LEMMA DoneKinds ==
  ASSUME NEW c, World(c), NEW call, Tidy(call), Works(call, c), NEW d, d = Done(call, c)
  PROVE  /\ \A f \in c.facts : Lasting(f) => f \in d.facts
         /\ \A r, n : AToken(r, n) \in d.facts <=>
              AToken(r, n) \in c.facts \/ (r \in call.lists /\ n = c.nonce)
         /\ \A r : Listed(r) \in d.facts <=> Listed(r) \in c.facts \/ r \in call.lists
         /\ \A r \in call.lists : call = InitReserves(r) /\ Listed(r) \notin c.facts
                                  /\ Listed(r) \in call.gets
         /\ \A f \in d.facts : f[1] \in {"listed", "aToken"} /\ call.lists = {} => f \in c.facts
         /\ \A f \in call.gets : f \in d.facts
         /\ \A f \in d.facts : f \in c.facts \/ f \in call.gets \/ f[1] = "aToken"
         /\ d.nonce = IF call.lists = {} THEN c.nonce ELSE c.nonce + 3
<1>1. /\ d.facts = (c.facts \ (call.drops \cup LocatedAnywhere(call.moves, c)))
                   \cup call.gets \cup { AToken(r, c.nonce) : r \in call.lists }
      /\ d.nonce = IF call.lists = {} THEN c.nonce ELSE c.nonce + 3
  BY DoneFields DEF World
<1>2. \A f \in c.facts : Lasting(f) => f \in d.facts
  BY <1>1 DEF Tidy, Lasting, LocatedAnywhere
<1>3. \A r \in call.lists : call = InitReserves(r) /\ Listed(r) \notin c.facts /\ Listed(r) \in call.gets
  <2> SUFFICES ASSUME NEW r \in call.lists
               PROVE  call = InitReserves(r) /\ Listed(r) \notin c.facts /\ Listed(r) \in call.gets
    OBVIOUS
  <2>1. call = InitReserves(r)
    BY DEF Tidy
  <2>2. call.bans = {Listed(r)} /\ Listed(r) \in call.gets
    BY <2>1, InitReservesFields
  <2> QED BY <2>1, <2>2 DEF Works
<1>4. \A f \in d.facts : f \in c.facts \/ f \in call.gets \/ \E r \in call.lists : f = AToken(r, c.nonce)
  BY <1>1
<1>5. \A r, n : AToken(r, n)[1] = "aToken" /\ AToken(r, n)[2] = r /\ AToken(r, n)[3] = n
  BY DEF AToken
<1>6. \A r : Listed(r)[1] = "listed" /\ Listed(r)[2] = r
  BY DEF Listed
<1>7. \A r, n : AToken(r, n) \in d.facts <=> AToken(r, n) \in c.facts \/ (r \in call.lists /\ n = c.nonce)
  <2> TAKE r, n
  <2>1. AToken(r, n) \in d.facts => AToken(r, n) \in c.facts \/ (r \in call.lists /\ n = c.nonce)
    BY <1>4, <1>5 DEF Tidy
  <2>2. AToken(r, n) \in c.facts => AToken(r, n) \in d.facts
    BY <1>2, <1>5 DEF Lasting
  <2>3. r \in call.lists => AToken(r, c.nonce) \in d.facts
    BY <1>1
  <2> QED BY <2>1, <2>2, <2>3
<1>8. \A r : Listed(r) \in d.facts <=> Listed(r) \in c.facts \/ r \in call.lists
  <2> TAKE r
  <2>1. Listed(r) \in d.facts => Listed(r) \in c.facts \/ r \in call.lists
    BY <1>4, <1>5, <1>6 DEF Tidy
  <2>2. Listed(r) \in c.facts => Listed(r) \in d.facts
    BY <1>2, <1>6 DEF Lasting
  <2>3. r \in call.lists => Listed(r) \in d.facts
    BY <1>1, <1>3
  <2> QED BY <2>1, <2>2, <2>3
<1>9. \A f \in d.facts : f[1] \in {"listed", "aToken"} /\ call.lists = {} => f \in c.facts
  BY <1>4, <1>5 DEF Tidy
<1>10. \A f \in call.gets : f \in d.facts
  BY <1>1
<1>11. \A f \in d.facts : f \in c.facts \/ f \in call.gets \/ f[1] = "aToken"
  BY <1>4, <1>5
<1> QED BY <1>1, <1>2, <1>3, <1>7, <1>8, <1>9, <1>10, <1>11

LEMMA DoneGrown ==
  ASSUME NEW c, World(c), NEW call, Tidy(call), Works(call, c)
  PROVE  Grown(c, Done(call, c))
<1> DEFINE d == Done(call, c)
<1>1. \A f \in c.facts : Lasting(f) => f \in d.facts
  BY DoneKinds
<1>2. \A f \in d.facts : f[1] \in {"listed", "aToken"} /\ call.lists = {} => f \in c.facts
  BY DoneKinds
<1>3. d.nonce = IF call.lists = {} THEN c.nonce ELSE c.nonce + 3
  BY DoneKinds
<1>4. c.nonce \in Nat
  BY DEF World, IsChain
<1> HIDE DEF d
<1>5. Grown(c, d)
  BY <1>1, <1>2, <1>3, <1>4 DEF Grown
<1> QED BY <1>5 DEF d

LEMMA DoneSane ==
  ASSUME NEW c, World(c), NEW call, Tidy(call), Works(call, c)
  PROVE  Sane(Done(call, c))
<1> DEFINE d == Done(call, c)
<1>1. c.nonce \in Nat /\ Sane(c)
  BY DEF World, IsChain
<1>2. \A f \in c.facts : Lasting(f) => f \in d.facts
  BY DoneKinds
<1>3. \A r, n : AToken(r, n) \in d.facts <=> AToken(r, n) \in c.facts \/ (r \in call.lists /\ n = c.nonce)
  BY DoneKinds
<1>4. \A r : Listed(r) \in d.facts <=> Listed(r) \in c.facts \/ r \in call.lists
  BY DoneKinds
<1>5. \A r \in call.lists : call = InitReserves(r) /\ Listed(r) \notin c.facts /\ Listed(r) \in call.gets
  BY DoneKinds
<1>6. \A f \in d.facts : f \in c.facts \/ f \in call.gets \/ f[1] = "aToken"
  BY DoneKinds
<1>7. d.nonce = IF call.lists = {} THEN c.nonce ELSE c.nonce + 3
  BY DoneKinds
<1> HIDE DEF d
<1>8. \A r, n : AToken(r, n) \in d.facts => n \in Nat /\ n + 3 <= d.nonce /\ Listed(r) \in d.facts
  BY <1>1, <1>3, <1>4, <1>7 DEF Sane
<1>9. \A r, n, m : AToken(r, n) \in d.facts /\ AToken(r, m) \in d.facts => n = m
  BY <1>1, <1>3, <1>5 DEF Sane
<1>10. \A r : Listed(r) \in d.facts => \E n : AToken(r, n) \in d.facts
  BY <1>1, <1>3, <1>4 DEF Sane
<1>11. ASSUME NEW r, Collateral(r) \in d.facts
       PROVE  Listed(r) \in d.facts
  <2>1. Collateral(r)[1] = "collateral" /\ Collateral(r)[2] = r
    BY DEF Collateral
  <2>2. CASE Collateral(r) \in c.facts
    BY <1>1, <1>4, <2>2 DEF Sane
  <2>3. CASE Collateral(r) \in call.gets
    BY <1>4, <2>1, <2>3 DEF Tidy, Works
  <2> QED BY <1>6, <1>11, <2>1, <2>2, <2>3
<1>12. Sane(d)
  BY <1>8, <1>9, <1>10, <1>11 DEF Sane
<1> QED BY <1>12 DEF d

LEMMA PairKept ==
  ASSUME NEW c, IsChain(c), NEW d, IsChain(d), Grown(c, d), NEW u, NEW a, a \notin Moved, IsPair(u, a, c)
  PROVE  IsPair(u, a, d)
<1>1. PICK n \in 0..c.nonce : Located(a, n) \in c.facts /\ AToken(u, n) \in c.facts
  BY DEF IsPair
<1>2. Lasting(Located(a, n)) /\ Lasting(AToken(u, n))
  BY DEF Lasting, Located, AToken
<1>3. n \in 0..d.nonce
  BY DEF Grown, IsChain
<1> QED BY <1>1, <1>2, <1>3 DEF IsPair, Grown

\* A GIGA token has been earned when a call that works hands it on.
LEMMA DoneEarned ==
  ASSUME NEW c, World(c), NEW call, Tidy(call), Honest(call), Works(call, c)
  PROVE  Earned(Done(call, c))
<1> DEFINE d == Done(call, c)
<1>1. IsChain(d) /\ Grown(c, d) /\ IsChain(c) /\ Earned(c)
  BY DoneChain, DoneGrown DEF World
<1>2. \A f \in d.facts : f \in c.facts \/ f \in call.gets \/ f[1] = "aToken"
  BY DoneKinds
<1>3. \A f \in call.gets : f \in d.facts
  BY DoneKinds
<1> HIDE DEF d
<1>4. \A q \in Giga : q[3] \notin Moved /\ q[1] \notin Moved
  BY DEF Giga, Moved
<1> SUFFICES ASSUME NEW q \in Giga
    PROVE  /\ \A x : Holds(x, q[3]) \in d.facts => IsPair(q[4], q[3], d)
           /\ \A x : Holds(x, q[2]) \in d.facts => Seeded(q[2]) \in d.facts /\ IsPair(q[4], q[3], d)
           /\ (\E x : Holds(x, q[1]) \in d.facts) \/ InOmnipool(q[1]) \in d.facts =>
                IsPair(q[2], q[1], d) /\ Seeded(q[2]) \in d.facts /\ IsPair(q[4], q[3], d)
  BY DEF Earned, d
<1>5. /\ IsPair(q[4], q[3], c) => IsPair(q[4], q[3], d)
      /\ IsPair(q[2], q[1], c) => IsPair(q[2], q[1], d)
      /\ Seeded(q[2]) \in c.facts => Seeded(q[2]) \in d.facts
  <2>1. Lasting(Seeded(q[2]))
    BY DEF Lasting, Seeded
  <2> QED BY <1>1, <1>4, <2>1, PairKept DEF Grown
<1>6. /\ \A x : Holds(x, q[3]) \in c.facts => IsPair(q[4], q[3], c)
      /\ \A x : Holds(x, q[2]) \in c.facts => Seeded(q[2]) \in c.facts /\ IsPair(q[4], q[3], c)
      /\ (\E x : Holds(x, q[1]) \in c.facts) \/ InOmnipool(q[1]) \in c.facts =>
           IsPair(q[2], q[1], c) /\ Seeded(q[2]) \in c.facts /\ IsPair(q[4], q[3], c)
  BY <1>1 DEF Earned
<1>7. /\ \A u, a : <<u, a>> \in call.pairs => IsPair(u, a, c)
      /\ \A f \in call.needs : f \in c.facts
  BY DEF Works
<1>8. \A x, a : Holds(x, a) \in call.gets => Hands(call, a)
  BY DEF Hands, Holds
<1>13. \A x, a : Holds(x, a)[1] = "holds"
  BY DEF Holds
<1>9. ASSUME NEW x, Holds(x, q[3]) \in d.facts
      PROVE  IsPair(q[4], q[3], d)
  <2>1. CASE Holds(x, q[3]) \in c.facts
    BY <1>5, <1>6, <2>1
  <2>2. CASE Holds(x, q[3]) \in call.gets
    <3>1. <<q[4], q[3]>> \in call.pairs \/ Asks(call, q[3])
      BY <1>8, <2>2 DEF Honest
    <3> QED BY <1>5, <1>6, <1>7, <3>1 DEF Asks
  <2> QED BY <1>2, <1>13, <1>9, <2>1, <2>2
<1>10. ASSUME NEW x, Holds(x, q[2]) \in d.facts
       PROVE  Seeded(q[2]) \in d.facts /\ IsPair(q[4], q[3], d)
  <2>1. CASE Holds(x, q[2]) \in c.facts
    BY <1>5, <1>6, <2>1
  <2>2. CASE Holds(x, q[2]) \in call.gets
    <3>1. \/ Asks(call, q[2])
          \/ (Seeded(q[2]) \in call.gets /\ Asks(call, q[3]))
      BY <1>8, <2>2 DEF Honest
    <3> QED BY <1>3, <1>5, <1>6, <1>7, <3>1 DEF Asks
  <2> QED BY <1>2, <1>13, <1>10, <2>1, <2>2
<1>11. ASSUME NEW x, Holds(x, q[1]) \in d.facts
       PROVE  IsPair(q[2], q[1], d) /\ Seeded(q[2]) \in d.facts /\ IsPair(q[4], q[3], d)
  <2>1. CASE Holds(x, q[1]) \in c.facts
    BY <1>5, <1>6, <2>1
  <2>2. CASE Holds(x, q[1]) \in call.gets
    <3>1. \/ Asks(call, q[1])
          \/ (<<q[2], q[1]>> \in call.pairs /\ Asks(call, q[2]))
      BY <1>8, <2>2 DEF Honest
    <3> QED BY <1>5, <1>6, <1>7, <3>1 DEF Asks
  <2> QED BY <1>2, <1>13, <1>11, <2>1, <2>2
<1>12. ASSUME InOmnipool(q[1]) \in d.facts
       PROVE  IsPair(q[2], q[1], d) /\ Seeded(q[2]) \in d.facts /\ IsPair(q[4], q[3], d)
  <2>1. InOmnipool(q[1])[1] = "omnipool" /\ InOmnipool(q[1])[2] = q[1]
    BY DEF InOmnipool
  <2>2. CASE InOmnipool(q[1]) \in c.facts
    BY <1>5, <1>6, <2>2
  <2>3. CASE InOmnipool(q[1]) \in call.gets
    <3>1. Asks(call, q[1])
      BY <2>3 DEF Honest
    <3> QED BY <1>5, <1>6, <1>7, <3>1 DEF Asks
  <2> QED BY <1>2, <1>12, <2>1, <2>2, <2>3
<1> QED BY <1>9, <1>10, <1>11, <1>12

\* What a dispatched call that fails leaves.
Missed(call, c) == [c EXCEPT !.lost = @ \cup (call.gets \ c.facts)]
LEMMA MissedWorld ==
  ASSUME NEW c, World(c), NEW call, NEW d, d = Missed(call, c)
  PROVE  World(d) /\ Grown(c, d) /\ d.facts = c.facts /\ d.nonce = c.nonce /\ d.farm = c.farm
<1>1. /\ d = [facts |-> d.facts, nonce |-> d.nonce, farm |-> d.farm, lost |-> d.lost, strict |-> d.strict]
      /\ d.facts = c.facts /\ d.nonce = c.nonce /\ d.farm = c.farm
  BY DEF Missed, World, IsChain
<1>2. IsChain(d)
  BY <1>1 DEF World, IsChain
<1>3. Sane(d)
  BY <1>1 DEF World, Sane
<1>4. Earned(d)
  BY <1>1 DEF World, Earned, IsPair
<1>5. Grown(c, d)
  BY <1>1 DEF World, IsChain, Grown
<1> QED BY <1>1, <1>2, <1>3, <1>4, <1>5 DEF World

-----------------------------------------------------------------------------
(* Runs.  A batch that goes through leads along a path of chains.           *)

Step(call, c, d) ==
  IF Works(call, c) THEN d = Done(call, c) ELSE call.soft /\ d = Missed(call, c)
IsPath(b, h) == \A i \in 1..Len(b) : Step(b[i], h[i - 1], h[i])
Runs(b, x, y) == \E h : h[0] = x /\ h[Len(b)] = y /\ IsPath(b, h)

Going(e, c) == e = [c |-> c, ok |-> TRUE]
Halted(e, c) == e = [c |-> c, ok |-> FALSE]
LEMMA AfterStep ==
  ASSUME NEW before, NEW c, Going(before, c), NEW call, NEW d
  PROVE  LET e == After(before, call, d)
         IN Halted(e, d) \/ (Going(e, e.c) /\ Step(call, c, e.c))
<1> DEFINE e == After(before, call, d)
<1>1. before = [c |-> c, ok |-> TRUE] /\ before.c = c /\ before.ok = TRUE
  BY DEF Going
<1>2. ASSUME NEW x, NEW y, y = [before EXCEPT !.c = x]
      PROVE  y = [c |-> x, ok |-> TRUE]
  BY <1>1, <1>2
<1>3. [before EXCEPT !.c = Done(call, @)] = [c |-> Done(call, c), ok |-> TRUE]
  BY <1>1, <1>2
<1>4. [before EXCEPT !.c.lost = @ \cup (call.gets \ before.c.facts)] = [c |-> Missed(call, c), ok |-> TRUE]
  BY <1>1, <1>2 DEF Missed
<1>6. CASE Works(call, c)
  <2>1. e = [c |-> Done(call, c), ok |-> TRUE]
    BY <1>1, <1>3, <1>6 DEF After
  <2>2. e.c = Done(call, c)
    BY <2>1
  <2> HIDE DEF e
  <2>3. Going(e, e.c) /\ Step(call, c, e.c)
    BY <1>6, <2>1, <2>2 DEF Step, Going
  <2> QED BY <2>3 DEF e
<1>7. CASE ~Works(call, c) /\ call.soft
  <2>1. e = [c |-> Missed(call, c), ok |-> TRUE]
    BY <1>1, <1>4, <1>7 DEF After
  <2>2. e.c = Missed(call, c)
    BY <2>1
  <2> HIDE DEF e
  <2>3. Going(e, e.c) /\ Step(call, c, e.c)
    BY <1>7, <2>1, <2>2 DEF Step, Going
  <2> QED BY <2>3 DEF e
<1>8. CASE ~Works(call, c) /\ ~call.soft
  <2>1. e = [c |-> d, ok |-> FALSE]
    BY <1>1, <1>8 DEF After
  <2> QED BY <2>1 DEF Halted
<1> QED BY <1>6, <1>7, <1>8

\* A failing root call undoes the batch; otherwise the course is a path.
LEMMA DispatchCases ==
  ASSUME NEW b, Len(b) \in Nat, NEW x
  PROVE  \/ Dispatch(b, x) = [c |-> x, ok |-> FALSE]
         \/ Dispatch(b, x).ok = TRUE /\ Runs(b, x, Dispatch(b, x).c)
<1> DEFINE f == Course(b, x)
           h == [i \in 0..Len(b) |-> f[i].c]
           Good(i) == f[i] = [c |-> h[i], ok |-> TRUE] /\ \A j \in 1..i : Step(b[j], h[j - 1], h[j])
           T == {i \in Nat : i <= Len(b) => f[i] = [c |-> x, ok |-> FALSE] \/ Good(i)}
<1>1. f[0] = [c |-> x, ok |-> TRUE] /\ \A i \in 1..Len(b) : f[i] = After(f[i - 1], b[i], x)
  BY CourseSteps
<1> HIDE DEF f
<1>2. \A i \in 0..Len(b) : h[i] = f[i].c
  OBVIOUS
<1> HIDE DEF h
<1>3. 0 \in T
  <2>1. h[0] = x
    BY <1>1, <1>2
  <2>2. \A j \in 1..0 : FALSE
    OBVIOUS
  <2>3. Good(0)
    BY <1>1, <2>1, <2>2
  <2> QED BY <2>3
<1>4. \A n \in Nat : n \in T => n + 1 \in T
  <2> SUFFICES ASSUME NEW n \in Nat, n \in T, n + 1 <= Len(b)
               PROVE  f[n + 1] = [c |-> x, ok |-> FALSE] \/ Good(n + 1)
    <3> HIDE DEF Good
    <3>1. \A n \in Nat : n + 1 \in Nat
      OBVIOUS
    <3> QED BY <3>1, Zenon
  <2>1. n + 1 \in 1..Len(b) /\ (n + 1) - 1 = n /\ n <= Len(b) /\ n + 1 \in 0..Len(b)
    OBVIOUS
  <2>2. f[n + 1] = After(f[n], b[n + 1], x) /\ h[n + 1] = f[n + 1].c
    BY <1>1, <1>2, <2>1
  <2>3. CASE f[n] = [c |-> x, ok |-> FALSE]
    BY <2>2, <2>3 DEF After
  <2>4. CASE Good(n)
    <3>1. f[n] = [c |-> h[n], ok |-> TRUE]
      BY <2>4
    <3>2. \/ f[n + 1] = [c |-> x, ok |-> FALSE]
          \/ f[n + 1] = [c |-> f[n + 1].c, ok |-> TRUE] /\ Step(b[n + 1], h[n], f[n + 1].c)
      <4>1. Going(f[n], h[n])
        BY <3>1 DEF Going
      <4> HIDE DEF T
      <4>2. Halted(f[n + 1], x) \/ (Going(f[n + 1], f[n + 1].c) /\ Step(b[n + 1], h[n], f[n + 1].c))
        BY <2>2, <4>1, AfterStep
      <4> QED BY <4>2 DEF Going, Halted
    <3>3. CASE f[n + 1] = [c |-> f[n + 1].c, ok |-> TRUE] /\ Step(b[n + 1], h[n], f[n + 1].c)
      <4>1. f[n + 1] = [c |-> h[n + 1], ok |-> TRUE] /\ Step(b[n + 1], h[n], h[n + 1])
        BY <2>2, <3>3
      <4>2. \A j \in 1..(n+1) : j \in 1..n \/ j = n + 1
        OBVIOUS
      <4> QED BY <2>1, <2>4, <4>1, <4>2
    <3> QED BY <3>2, <3>3
  <2>5. f[n] = [c |-> x, ok |-> FALSE] \/ Good(n)
    BY <2>1
  <2> QED BY <2>3, <2>4, <2>5
<1>5. Len(b) \in T
  <2> HIDE DEF T
  <2>1. Nat \subseteq T
    BY <1>3, <1>4, NatSetInduction
  <2> QED BY <2>1
<1>6. Dispatch(b, x) = f[Len(b)]
  BY DEF Dispatch, f
<1> HIDE DEF T
<1>7. ASSUME Good(Len(b))
      PROVE  Dispatch(b, x).ok = TRUE /\ Runs(b, x, Dispatch(b, x).c)
  <2>1. f[Len(b)] = [c |-> h[Len(b)], ok |-> TRUE] /\ IsPath(b, h)
    BY <1>7 DEF IsPath
  <2>2. h[0] = x
    BY <1>1, <1>2
  <2> QED BY <1>6, <2>1, <2>2 DEF Runs
<1>8. f[Len(b)] = [c |-> x, ok |-> FALSE] \/ Good(Len(b))
  BY <1>5 DEF T
<1> HIDE DEF Good
<1> QED BY <1>6, <1>7, <1>8

\* A batch made of two runs as the two do.
LEMMA RunsConcat ==
  ASSUME NEW s, IsBatch(s), NEW t, IsBatch(t), NEW b, b = s \o t, NEW x, NEW z, Runs(b, x, z)
  PROVE  \E y : Runs(s, x, y) /\ Runs(t, y, z)
<1>1. /\ Len(s) \in Nat /\ Len(t) \in Nat /\ Len(b) = Len(s) + Len(t)
      /\ \A i \in 1..Len(s) : b[i] = s[i]
      /\ \A i \in 1..Len(t) : b[Len(s) + i] = t[i]
  BY BatchConcat
<1>2. PICK h : h[0] = x /\ h[Len(b)] = z /\ IsPath(b, h)
  BY DEF Runs
<1>3. IsPath(s, h)
  <2> SUFFICES ASSUME NEW i \in 1..Len(s)
               PROVE  Step(s[i], h[i - 1], h[i])
    BY DEF IsPath
  <2>1. i \in 1..Len(b)
    BY <1>1
  <2> QED BY <1>1, <1>2, <2>1 DEF IsPath
<1> DEFINE g == [i \in 0..Len(t) |-> h[Len(s) + i]]
<1>4. \A i \in 0..Len(t) : g[i] = h[Len(s) + i]
  OBVIOUS
<1> HIDE DEF g
<1>5. IsPath(t, g)
  <2> SUFFICES ASSUME NEW i \in 1..Len(t)
               PROVE  Step(t[i], g[i - 1], g[i])
    BY DEF IsPath
  <2>1. /\ Len(s) + i \in 1..Len(b) /\ Len(s) + (i - 1) = (Len(s) + i) - 1
        /\ i \in 0..Len(t) /\ i - 1 \in 0..Len(t)
    BY <1>1
  <2>2. g[i] = h[Len(s) + i] /\ g[i - 1] = h[(Len(s) + i) - 1]
    BY <1>4, <2>1
  <2>3. b[Len(s) + i] = t[i]
    BY <1>1
  <2>4. Step(b[Len(s) + i], h[(Len(s) + i) - 1], h[Len(s) + i])
    BY <1>2, <2>1 DEF IsPath
  <2> QED BY <2>2, <2>3, <2>4
<1>6. g[0] = h[Len(s)] /\ g[Len(t)] = z
  <2>1. 0 \in 0..Len(t) /\ Len(t) \in 0..Len(t) /\ Len(s) + 0 = Len(s)
    BY <1>1
  <2> QED BY <1>1, <1>2, <1>4, <2>1
<1> QED BY <1>2, <1>3, <1>5, <1>6 DEF Runs

\* Along the path of tidy calls the world holds, and grows.
Decent(b) == IsBatch(b) /\ \A call \in Items(b) : Tidy(call) /\ Honest(call)

LEMMA PathKeeps ==
  ASSUME NEW b, Decent(b), NEW h, IsPath(b, h), World(h[0])
  PROVE  /\ Len(b) \in Nat
         /\ \A j \in 0..Len(b) : World(h[j]) /\ \A i \in 0..j : Grown(h[i], h[j])
<1>1. Len(b) \in Nat
  BY DEF Decent, IsBatch
<1> DEFINE P(j) == World(h[j]) /\ \A i \in 0..j : World(h[i]) /\ Grown(h[i], h[j])
           T == {j \in Nat : j <= Len(b) => P(j)}
<1>2. 0 \in T
  <2>1. \A i \in 0..0 : i = 0
    OBVIOUS
  <2> QED BY <2>1, GrownReflexive DEF World
<1>3. \A n \in Nat : n \in T => n + 1 \in T
  <2> SUFFICES ASSUME NEW n \in Nat, n \in T, n + 1 <= Len(b)
               PROVE  P(n + 1)
    <3> HIDE DEF P
    <3>1. \A n \in Nat : n + 1 \in Nat
      OBVIOUS
    <3> QED BY <3>1, Zenon
  <2>1. n + 1 \in 1..Len(b) /\ (n + 1) - 1 = n /\ n <= Len(b) /\ n \in 0..n
    BY <1>1
  <2>2. World(h[n]) /\ \A i \in 0..n : World(h[i]) /\ Grown(h[i], h[n])
    BY <2>1
  <2>3. Tidy(b[n + 1]) /\ Honest(b[n + 1])
    BY <2>1 DEF Decent, Items
  <2>4. IF Works(b[n + 1], h[n]) THEN h[n + 1] = Done(b[n + 1], h[n])
        ELSE h[n + 1] = Missed(b[n + 1], h[n])
    BY <2>1 DEF IsPath, Step
  <2>5. World(h[n + 1]) /\ Grown(h[n], h[n + 1])
    <3>1. CASE Works(b[n + 1], h[n])
      BY <2>2, <2>3, <2>4, <3>1, DoneChain, DoneSane, DoneEarned, DoneGrown DEF World
    <3>2. CASE ~Works(b[n + 1], h[n])
      BY <2>2, <2>4, <3>2, MissedWorld
    <3> QED BY <3>1, <3>2
  <2>6. \A i \in 0..n : Grown(h[i], h[n + 1])
    BY <2>2, <2>5, GrownTransitive DEF World
  <2>7. Grown(h[n + 1], h[n + 1])
    BY <2>5, GrownReflexive DEF World
  <2>8. \A i \in 0..(n+1) : i \in 0..n \/ i = n + 1
    OBVIOUS
  <2> QED BY <2>2, <2>5, <2>6, <2>7, <2>8
<1>4. Nat \subseteq T
  <2> HIDE DEF T
  <2> QED BY <1>2, <1>3, NatSetInduction
<1>5. \A j \in 0..Len(b) : P(j)
  <2> HIDE DEF P
  <2>1. \A j \in 0..Len(b) : j \in Nat /\ j <= Len(b)
    BY <1>1
  <2> QED BY <1>4, <2>1
<1> QED BY <1>1, <1>5

LEMMA RunsKeep ==
  ASSUME NEW b, Decent(b), NEW x, World(x), NEW y, Runs(b, x, y)
  PROVE  World(y) /\ Grown(x, y)
<1>1. PICK h : h[0] = x /\ h[Len(b)] = y /\ IsPath(b, h)
  BY DEF Runs
<1>2. Len(b) \in Nat
  BY DEF Decent, IsBatch
<1>3. 0 \in 0..Len(b) /\ Len(b) \in 0..Len(b)
  BY <1>2
<1> QED BY <1>1, <1>3, PathKeeps

-----------------------------------------------------------------------------
(* Orders of calls *)

Followed(b, p, q) == \A i \in 1..Len(b) : b[i] = p => \E j \in (i+1)..Len(b) : b[j] = q
Preceded(b, q, p) == \A j \in 1..Len(b) : b[j] = q => \E i \in 1..(j-1) : b[i] = p

LEMMA OrderConcat ==
  ASSUME NEW s, IsBatch(s), NEW t, IsBatch(t), NEW b, b = s \o t, NEW p, NEW q
  PROVE  /\ Followed(s, p, q) \/ q \in Items(t) => (Followed(t, p, q) => Followed(b, p, q))
         /\ Preceded(t, q, p) \/ p \in Items(s) => (Preceded(s, q, p) => Preceded(b, q, p))
<1>1. /\ Len(s) \in Nat /\ Len(t) \in Nat /\ Len(b) = Len(s) + Len(t)
      /\ \A i \in 1..Len(s) : b[i] = s[i]
      /\ \A i \in 1..Len(t) : b[Len(s) + i] = t[i]
  BY BatchConcat
<1>2. ASSUME Followed(s, p, q) \/ q \in Items(t), Followed(t, p, q)
      PROVE  Followed(b, p, q)
  <2> SUFFICES ASSUME NEW i \in 1..Len(b), b[i] = p
               PROVE  \E j \in (i+1)..Len(b) : b[j] = q
    BY DEF Followed
  <2>1. CASE i \in 1..Len(s)
    <3>1. CASE Followed(s, p, q)
      <4>1. PICK j \in (i+1)..Len(s) : s[j] = q
        BY <1>1, <2>1, <3>1 DEF Followed
      <4>2. j \in 1..Len(s) /\ j \in (i+1)..Len(b)
        BY <1>1, <2>1
      <4> QED BY <1>1, <4>1, <4>2
    <3>2. CASE q \in Items(t)
      <4>1. PICK k \in 1..Len(t) : t[k] = q
        BY <3>2 DEF Items
      <4>2. Len(s) + k \in (i+1)..Len(b)
        BY <1>1, <2>1
      <4> QED BY <1>1, <4>1, <4>2
    <3> QED BY <1>2, <3>1, <3>2
  <2>2. CASE i \notin 1..Len(s)
    <3> DEFINE m == i - Len(s)
    <3>1. m \in 1..Len(t) /\ Len(s) + m = i
      BY <1>1, <2>2
    <3>2. t[m] = p
      BY <1>1, <3>1
    <3>3. PICK k \in (m+1)..Len(t) : t[k] = q
      BY <1>2, <3>1, <3>2 DEF Followed
    <3>4. k \in 1..Len(t) /\ Len(s) + k \in (i+1)..Len(b)
      BY <1>1, <3>1
    <3> QED BY <1>1, <3>3, <3>4
  <2> QED BY <2>1, <2>2
<1>3. ASSUME Preceded(t, q, p) \/ p \in Items(s), Preceded(s, q, p)
      PROVE  Preceded(b, q, p)
  <2> SUFFICES ASSUME NEW j \in 1..Len(b), b[j] = q
               PROVE  \E i \in 1..(j-1) : b[i] = p
    BY DEF Preceded
  <2>1. CASE j \in 1..Len(s)
    <3>1. PICK i \in 1..(j-1) : s[i] = p
      BY <1>1, <1>3, <2>1 DEF Preceded
    <3>2. i \in 1..Len(s)
      BY <1>1, <2>1
    <3> QED BY <1>1, <3>1, <3>2
  <2>2. CASE j \notin 1..Len(s)
    <3> DEFINE m == j - Len(s)
    <3>1. m \in 1..Len(t) /\ Len(s) + m = j
      BY <1>1, <2>2
    <3>2. CASE Preceded(t, q, p)
      <4>1. t[m] = q
        BY <1>1, <3>1
      <4>2. PICK k \in 1..(m-1) : t[k] = p
        BY <3>1, <3>2, <4>1 DEF Preceded
      <4>3. k \in 1..Len(t) /\ Len(s) + k \in 1..(j-1)
        BY <1>1, <3>1
      <4> QED BY <1>1, <4>2, <4>3
    <3>3. CASE p \in Items(s)
      <4>1. PICK k \in 1..Len(s) : s[k] = p
        BY <3>3 DEF Items
      <4>2. k \in 1..(j-1)
        BY <1>1, <3>1
      <4> QED BY <1>1, <4>1, <4>2
    <3> QED BY <1>3, <3>2, <3>3
  <2> QED BY <2>1, <2>2
<1> QED BY <1>2, <1>3

LEMMA OrderVacuous ==
  ASSUME NEW b, NEW p, p \notin Items(b), NEW q
  PROVE  Followed(b, p, q) /\ Preceded(b, p, q)
  BY DEF Followed, Preceded, Items

-----------------------------------------------------------------------------
(* A batch that was built from c is fine if the reserves it lists are among *)
(* R, those it lists it goes on to configure, and if it moves an id then to  *)
(* where the collateral's token of a market of its own will be.             *)

Berths == {<<"BIL", "aBIL">>, <<"STHDX", "GIGAHDX">>}
Sited(call, c) == \E s \in Berths : call = Relocate(s[2], CollateralToken(c, s[1]))

Configures(b, c, r) ==
  /\ Followed(b, InitReserves(r), ConfigureReserves(r))
  /\ RiskAdmin \in c.facts \/ Preceded(b, ConfigureReserves(r), AddRiskAdmin)
  /\ r \in Isolated /\ Follows("ceiling", r) \notin c.facts =>
       Followed(b, InitReserves(r), Set("ceiling", r))
Fine(b, c, R) ==
  /\ Decent(b)
  /\ \A call \in Items(b) : call.lists \subseteq R
  /\ \A call \in Items(b) : call.moves = {} \/ Sited(call, c)
  /\ \A r : r # "HOLLAR" => Configures(b, c, r)

LEMMA FineConcat ==
  ASSUME NEW s, NEW t, NEW c, NEW R, Fine(s, c, R), Fine(t, c, R)
  PROVE  Fine(s \o t, c, R)
<1> DEFINE b == s \o t
<1>1. IsBatch(s) /\ IsBatch(t)
  BY DEF Fine, Decent
<1>2. b = s \o t
  OBVIOUS
<1> HIDE DEF b
<1>3. IsBatch(b) /\ Items(b) = Items(s) \cup Items(t)
  BY <1>1, <1>2, BatchConcat
<1>4. ASSUME NEW r, r # "HOLLAR"
      PROVE  Configures(b, c, r)
  <2>1. Configures(s, c, r) /\ Configures(t, c, r)
    BY <1>4 DEF Fine
  <2>2. /\ \A p, q : Followed(s, p, q) /\ Followed(t, p, q) => Followed(b, p, q)
        /\ \A p, q : Preceded(s, q, p) /\ Preceded(t, q, p) => Preceded(b, q, p)
    BY <1>1, <1>2, OrderConcat
  <2> QED BY <2>1, <2>2 DEF Configures
<1>5. Fine(b, c, R)
  BY <1>3, <1>4 DEF Fine, Decent
<1> QED BY <1>5 DEF b

IdleCall(call) ==
  /\ Tidy(call) /\ Honest(call) /\ call.lists = {} /\ call.moves = {}
  /\ \A f \in call.gets : f[1] # "collateral"
Idle(b) == IsBatch(b) /\ \A call \in Items(b) : IdleCall(call)

LEMMA ConfigureReservesFields ==
  ASSUME NEW r
  PROVE  LET call == ConfigureReserves(r) IN
         /\ call.soft = TRUE /\ call.needs = {Listed(r), RiskAdmin} /\ call.bans = {}
         /\ call.gets = {Collateral(r)}
                        \cup { Follows(s, r) : s \in {"ltv", "supplyCap", "borrowCap", "factor"} }
         /\ call.drops = {} /\ call.lists = {} /\ call.pairs = {} /\ call.hops = {}
         /\ call.site = {} /\ call.code = {} /\ call.moves = {} /\ call.farm = 0
  BY DEF ConfigureReserves, aaveManagerCall, Call

LEMMA IdleFine ==
  ASSUME NEW b, Idle(b), NEW c, NEW R
  PROVE  Fine(b, c, R)
<1>1. Decent(b)
  BY DEF Idle, Decent, IdleCall
<1>2. \A call \in Items(b) : call.lists \subseteq R /\ call.moves = {}
  BY DEF Idle, IdleCall
<1>3. ASSUME NEW r
      PROVE  Configures(b, c, r)
  <2>1. InitReserves(r).lists = {r}
    BY InitReservesFields
  <2>2. InitReserves(r) \notin Items(b)
    BY <2>1 DEF Idle, IdleCall
  <2>3. Collateral(r) \in ConfigureReserves(r).gets /\ Collateral(r)[1] = "collateral"
    BY ConfigureReservesFields DEF Collateral
  <2>4. ConfigureReserves(r) \notin Items(b)
    BY <2>3 DEF Idle, IdleCall
  <2> QED BY <2>2, <2>4, OrderVacuous DEF Configures
<1> QED BY <1>1, <1>2, <1>3 DEF Fine

LEMMA IdleConcat ==
  ASSUME NEW s, Idle(s), NEW t, Idle(t)
  PROVE  Idle(s \o t)
<1> DEFINE b == s \o t
<1>1. b = s \o t
  OBVIOUS
<1> HIDE DEF b
<1>2. IsBatch(b) /\ Items(b) = Items(s) \cup Items(t)
  BY <1>1, BatchConcat DEF Idle
<1>3. Idle(b)
  BY <1>2 DEF Idle
<1> QED BY <1>3 DEF b

LEMMA IdleEmpty == Idle(<< >>)
  BY BatchEmpty DEF Idle

LEMMA IdleRow1 ==
  ASSUME NEW x1, IdleCall(x1)
  PROVE  Idle(<< x1 >>)
<1> DEFINE b == << x1 >>
<1>1. IsBatch(b) /\ Items(b) = {x1}
  BY BatchRow1
<1> HIDE DEF b
<1>2. Idle(b)
  BY <1>1 DEF Idle
<1> QED BY <1>2 DEF b

LEMMA IdleRow2 ==
  ASSUME NEW x1, IdleCall(x1), NEW x2, IdleCall(x2)
  PROVE  Idle(<< x1, x2 >>)
<1> DEFINE b == << x1, x2 >>
<1>1. IsBatch(b) /\ Items(b) = {x1, x2}
  BY BatchRow2
<1> HIDE DEF b
<1>2. Idle(b)
  BY <1>1 DEF Idle
<1> QED BY <1>2 DEF b

LEMMA IdleRow3 ==
  ASSUME NEW x1, IdleCall(x1), NEW x2, IdleCall(x2), NEW x3, IdleCall(x3)
  PROVE  Idle(<< x1, x2, x3 >>)
<1> DEFINE b == << x1, x2, x3 >>
<1>1. IsBatch(b) /\ Items(b) = {x1, x2, x3}
  BY BatchRow3
<1> HIDE DEF b
<1>2. Idle(b)
  BY <1>1 DEF Idle
<1> QED BY <1>2 DEF b

LEMMA IdleRow4 ==
  ASSUME NEW x1, IdleCall(x1), NEW x2, IdleCall(x2), NEW x3, IdleCall(x3), NEW x4, IdleCall(x4)
  PROVE  Idle(<< x1, x2, x3, x4 >>)
<1> DEFINE b == << x1, x2, x3, x4 >>
<1>1. IsBatch(b) /\ Items(b) = {x1, x2, x3, x4}
  BY BatchRow4
<1> HIDE DEF b
<1>2. Idle(b)
  BY <1>1 DEF Idle
<1> QED BY <1>2 DEF b

LEMMA IdleRow5 ==
  ASSUME NEW x1, IdleCall(x1), NEW x2, IdleCall(x2), NEW x3, IdleCall(x3), NEW x4, IdleCall(x4), NEW x5, IdleCall(x5)
  PROVE  Idle(<< x1, x2, x3, x4, x5 >>)
<1> DEFINE b == << x1, x2, x3, x4, x5 >>
<1>1. IsBatch(b) /\ Items(b) = {x1, x2, x3, x4, x5}
  BY BatchRow5
<1> HIDE DEF b
<1>2. Idle(b)
  BY <1>1 DEF Idle
<1> QED BY <1>2 DEF b

LEMMA IdleRow6 ==
  ASSUME NEW x1, IdleCall(x1), NEW x2, IdleCall(x2), NEW x3, IdleCall(x3), NEW x4, IdleCall(x4), NEW x5, IdleCall(x5), NEW x6, IdleCall(x6)
  PROVE  Idle(<< x1, x2, x3, x4, x5, x6 >>)
<1> DEFINE b == << x1, x2, x3, x4, x5, x6 >>
<1>1. IsBatch(b) /\ Items(b) = {x1, x2, x3, x4, x5, x6}
  BY BatchRow6
<1> HIDE DEF b
<1>2. Idle(b)
  BY <1>1 DEF Idle
<1> QED BY <1>2 DEF b

-----------------------------------------------------------------------------
(* The calls that list nothing *)

Plain(call) ==
  /\ call.soft \in BOOLEAN /\ call.lists = {} /\ call.moves = {}
  /\ \A f \in call.drops : f[1] \in {"holds", "isolationBorrow", "frozen", "whitelisted"}
  /\ \A f \in call.gets : f[1] \notin {"aToken", "listed", "collateral", "holds", "omnipool"}

LEMMA PlainIdle ==
  ASSUME NEW call, Plain(call)
  PROVE  IdleCall(call)
<1>1. Tidy(call)
  BY DEF Plain, Tidy, Lasting
<1>2. \A q \in Giga : \A i \in {1, 2, 3} : ~Hands(call, q[i])
  BY DEF Plain, Hands
<1>3. \A id : InOmnipool(id) \notin call.gets
  BY DEF Plain, InOmnipool
<1>4. Honest(call)
  BY <1>2, <1>3 DEF Honest
<1> QED BY <1>1, <1>4 DEF Plain, IdleCall

LEMMA RegisterPlain ==
  ASSUME NEW id
  PROVE  Plain(Register(id))
  BY DEF Plain, Register, Registered, Call
LEMMA RegisterAtPlain ==
  ASSUME NEW id, NEW n
  PROVE  Plain(RegisterAt(id, n))
  BY DEF Plain, RegisterAt, Register, Registered, Located, Call
LEMMA AddCurrencyPlain ==
  ASSUME NEW id
  PROVE  Plain(AddCurrency(id))
  BY DEF Plain, AddCurrency, Currency, Call
LEMMA CreatePoolPlain ==
  ASSUME NEW id, NEW assets
  PROVE  Plain(CreatePool(id, assets))
  BY DEF Plain, CreatePool, Pool, Call
LEMMA CreateGlobalFarmPlain == Plain(CreateGlobalFarm)
  BY DEF Plain, CreateGlobalFarm, Call
LEMMA CreateYieldFarmPlain ==
  ASSUME NEW n, NEW id
  PROVE  Plain(CreateYieldFarm(n, id))
  BY DEF Plain, CreateYieldFarm, dispatchAs, Call
LEMMA RoutePlain ==
  ASSUME NEW needs, NEW u, NEW a
  PROVE  Plain(Route(needs, u, a))
  BY DEF Plain, Route, Call
LEMMA SchedulePlain ==
  ASSUME NEW id
  PROVE  Plain(Schedule("dca", id))
  BY DEF Plain, Schedule, dispatchAs, Call
LEMMA SetAssetSourcesPlain ==
  ASSUME NEW r
  PROVE  Plain(SetAssetSources(r))
  BY DEF Plain, SetAssetSources, aaveManagerCall, Call
LEMMA AddRiskAdminPlain == Plain(AddRiskAdmin)
  BY DEF Plain, AddRiskAdmin, RiskAdmin, aaveManagerCall, Call
LEMMA SetPlain ==
  ASSUME NEW setting \in Settings, NEW r
  PROVE  Plain(Set(setting, r))
  BY DEF Plain, Set, Settings, Follows, aaveManagerCall, Call
LEMMA IsolatePlain ==
  ASSUME NEW r, NEW yes \in BOOLEAN
  PROVE  Plain(Isolate(r, yes))
<1> DEFINE call == Isolate(r, yes)
<1>1. /\ call.soft = TRUE /\ call.lists = {} /\ call.moves = {}
      /\ \A f \in call.gets : f = <<"isolationBorrow", r>>
      /\ \A f \in call.drops : f = <<"isolationBorrow", r>>
  BY DEF Isolate, Set, Follows, aaveManagerCall, Call
<1> HIDE DEF call
<1>2. /\ \A f \in call.gets : f[1] = "isolationBorrow"
      /\ \A f \in call.drops : f[1] = "isolationBorrow"
  BY <1>1
<1>3. Plain(call)
  BY <1>1, <1>2 DEF Plain
<1> QED BY <1>3 DEF call
LEMMA SetEModeCategoryPlain ==
  ASSUME NEW name
  PROVE  Plain(SetEModeCategory(name))
  BY DEF Plain, SetEModeCategory, Category, aaveManagerCall, Call
LEMMA SetAssetEModeCategoryPlain ==
  ASSUME NEW r, NEW name
  PROVE  Plain(SetAssetEModeCategory(r, name))
  BY DEF Plain, SetAssetEModeCategory, aaveManagerCall, Call
LEMMA SetEmissionAdminPlain == Plain(SetEmissionAdmin)
  BY DEF Plain, SetEmissionAdmin, EmissionAdmin, aaveManagerCall, Call
LEMMA ConfigureAssetsPlain ==
  ASSUME NEW r, NEW n
  PROVE  Plain(ConfigureAssets(r, n))
  BY DEF Plain, ConfigureAssets, aaveManagerCall, Call
LEMMA ManagerPlain ==
  ASSUME NEW f, f[1] \notin {"aToken", "listed", "collateral", "holds", "omnipool"}
  PROVE  /\ Plain([aaveManagerCall(Call) EXCEPT !.gets = {f}])
         /\ \A g : Plain([aaveManagerCall(Call) EXCEPT !.needs = {g}, !.gets = {f}])
         /\ \A g : Plain([Call EXCEPT !.needs = {g}, !.gets = {f}])
         /\ Plain([Call EXCEPT !.gets = {f}])
  BY DEF Plain, aaveManagerCall, Call
LEMMA ExitPlain == Plain(Exit[1]) /\ Exit = << Exit[1] >>
<1> DEFINE call == [Call EXCEPT !.needs = {<<"exit", 1>>}]
<1>1. Plain(call)
  BY DEF Plain, Call
<1> HIDE DEF call
<1>2. Exit = << call >> /\ Exit[1] = call
  BY DEF Exit, call
<1> QED BY <1>1, <1>2

LEMMA GigaTokens ==
  \A q \in Giga :
    \/ q[1] = "gSOL" /\ q[2] = "2-POOL-GSOL" /\ q[3] = "aSOL" /\ q[4] = "SOL"
    \/ q[1] = "gETH" /\ q[2] = "2-POOL-GETH" /\ q[3] = "aETH" /\ q[4] = "ETH"
  BY DEF Giga

LEMMA AddTokenIdle ==
  ASSUME NEW id
  PROVE  IdleCall(AddToken(id))
<1> DEFINE call == AddToken(id)
<1>1. /\ call.soft = FALSE /\ call.lists = {} /\ call.moves = {} /\ call.drops = {}
      /\ call.gets = {InOmnipool(id)} /\ Holds("omnipool", id) \in call.needs
  BY DEF AddToken, Call
<1> HIDE DEF call
<1>2. InOmnipool(id)[1] = "omnipool" /\ \A a : InOmnipool(a) = InOmnipool(id) => a = id
  BY DEF InOmnipool
<1>3. Tidy(call) /\ \A f \in call.gets : f[1] # "collateral"
  BY <1>1, <1>2 DEF Tidy
<1>4. \A a : ~Hands(call, a)
  BY <1>1, <1>2 DEF Hands
<1>5. \A a : InOmnipool(a) \in call.gets => Asks(call, a)
  BY <1>1, <1>2 DEF Asks
<1>6. Honest(call)
  BY <1>4, <1>5 DEF Honest
<1> QED BY <1>1, <1>3, <1>6 DEF IdleCall, call

\* A call that hands over one token.
Handing(call, acct, id) ==
  /\ call.soft \in BOOLEAN /\ call.lists = {} /\ call.moves = {}
  /\ \A f \in call.drops : f[1] \in {"holds", "isolationBorrow", "frozen", "whitelisted"}
  /\ \A f \in call.gets :
       f = Holds(acct, id) \/ f[1] \notin {"aToken", "listed", "collateral", "holds", "omnipool"}
  /\ \A q \in Giga :
       /\ id = q[3] => <<q[4], q[3]>> \in call.pairs \/ Asks(call, q[3])
       /\ id = q[2] => Asks(call, q[2]) \/ (Seeded(q[2]) \in call.gets /\ Asks(call, q[3]))
       /\ id = q[1] => Asks(call, q[1]) \/ (<<q[2], q[1]>> \in call.pairs /\ Asks(call, q[2]))
LEMMA HandingIdle ==
  ASSUME NEW call, NEW acct, NEW id, Handing(call, acct, id)
  PROVE  IdleCall(call)
<1>1. Holds(acct, id)[1] = "holds" /\ Holds(acct, id)[3] = id
  BY DEF Holds
<1>2. Tidy(call) /\ \A f \in call.gets : f[1] # "collateral"
  BY <1>1 DEF Handing, Tidy, Lasting
<1>3. \A a : Hands(call, a) => a = id
  BY <1>1 DEF Handing, Hands
<1>4. \A a : InOmnipool(a) \notin call.gets
  BY <1>1 DEF Handing, InOmnipool
<1>5. Honest(call)
  BY <1>3, <1>4 DEF Handing, Honest
<1> QED BY <1>2, <1>5 DEF Handing, IdleCall

LEMMA TransferIdle ==
  ASSUME NEW acct, NEW dest, NEW id
  PROVE  IdleCall(Transfer(acct, dest, id))
<1> DEFINE call == Transfer(acct, dest, id)
<1>1. /\ call.soft = TRUE /\ call.lists = {} /\ call.moves = {} /\ call.drops = {}
      /\ call.gets = {Holds(dest, id)} /\ Holds(acct, id) \in call.needs
  BY DEF Transfer, dispatchAs, Call
<1> HIDE DEF call
<1>2. Asks(call, id)
  BY <1>1 DEF Asks
<1>3. Handing(call, dest, id)
  BY <1>1, <1>2 DEF Handing
<1>4. IdleCall(call)
  BY <1>3, HandingIdle
<1> QED BY <1>4 DEF call

LEMMA SweepIdle ==
  ASSUME NEW id
  PROVE  IdleCall([Transfer("collector", "treasury", id) EXCEPT !.drops = {Holds("collector", id)}])
<1> DEFINE call == [Transfer("collector", "treasury", id) EXCEPT !.drops = {Holds("collector", id)}]
<1>1. /\ call.soft = TRUE /\ call.lists = {} /\ call.moves = {} /\ call.drops = {Holds("collector", id)}
      /\ call.gets = {Holds("treasury", id)} /\ Holds("collector", id) \in call.needs
  BY DEF Transfer, dispatchAs, Call
<1> HIDE DEF call
<1>2. Asks(call, id)
  BY <1>1 DEF Asks
<1>5. \A f \in call.drops : f[1] = "holds"
  BY <1>1 DEF Holds
<1>3. Handing(call, "treasury", id)
  BY <1>1, <1>2, <1>5 DEF Handing
<1>4. IdleCall(call)
  BY <1>3, HandingIdle
<1> QED BY <1>4 DEF call

\* What is sold for a GIGA token, and for the token in its pool, is what has to be.
Sells(u, a) == \A q \in Giga : a # q[2] /\ (a = q[3] => u = q[4]) /\ (a = q[1] => u = q[2])
LEMMA SellIdle ==
  ASSUME NEW acct, NEW u, NEW a, Sells(u, a)
  PROVE  IdleCall(Sell(acct, u, a)) /\ IdleCall(SellAll(acct, u, a))
<1>1. ASSUME NEW call, call.soft = TRUE, call.lists = {}, call.moves = {},
             call.drops \subseteq {Holds(acct, u)}, call.gets = {Holds(acct, a)},
             call.needs = {Holds(acct, u)}, call.pairs = {<<u, a>>}
      PROVE  IdleCall(call)
  <2>1. Asks(call, u)
    BY <1>1 DEF Asks
  <2>2. \A f \in call.drops : f[1] = "holds"
    BY <1>1 DEF Holds
  <2>3. Handing(call, acct, a)
    BY <1>1, <2>1, <2>2 DEF Handing, Sells
  <2> QED BY <2>3, HandingIdle
<1> DEFINE s == Sell(acct, u, a)
           t == SellAll(acct, u, a)
<1>2. /\ s.soft = TRUE /\ s.lists = {} /\ s.moves = {} /\ s.drops = {}
      /\ s.gets = {Holds(acct, a)} /\ s.needs = {Holds(acct, u)} /\ s.pairs = {<<u, a>>}
  BY DEF Sell, dispatchAs, Call
<1>3. /\ t.soft = TRUE /\ t.lists = {} /\ t.moves = {} /\ t.drops = {Holds(acct, u)}
      /\ t.gets = {Holds(acct, a)} /\ t.needs = {Holds(acct, u)} /\ t.pairs = {<<u, a>>}
  BY DEF SellAll, Sell, dispatchAs, Call
<1> HIDE DEF s, t
<1>4. IdleCall(s) /\ IdleCall(t)
  BY <1>1, <1>2, <1>3
<1> QED BY <1>4 DEF s, t

LEMMA AddLiquidityIdle ==
  ASSUME NEW acct, NEW id, NEW assets,
         \A q \in Giga : id # q[1] /\ id # q[3] /\ (id = q[2] => q[3] \in assets)
  PROVE  IdleCall(AddLiquidity(acct, id, assets))
<1> DEFINE call == AddLiquidity(acct, id, assets)
<1>1. /\ call.soft = TRUE /\ call.lists = {} /\ call.moves = {} /\ call.drops = {}
      /\ call.gets = {Holds(acct, id)} \cup {Seeded(id)}
      /\ \A a \in assets : Holds(acct, a) \in call.needs
  BY DEF AddLiquidity, dispatchAs, Call
<1> HIDE DEF call
<1>2. \A a \in assets : Asks(call, a)
  BY <1>1 DEF Asks
<1>3. Seeded(id)[1] = "seeded" /\ Seeded(id) \in call.gets
  BY <1>1 DEF Seeded
<1>4. Handing(call, acct, id)
  BY <1>1, <1>2, <1>3 DEF Handing
<1>5. IdleCall(call)
  BY <1>4, HandingIdle
<1> QED BY <1>5 DEF call

-----------------------------------------------------------------------------
(* Initialising and configuring a reserve *)

LEMMA ListingCalls ==
  ASSUME NEW r
  PROVE  /\ Tidy(InitReserves(r)) /\ Honest(InitReserves(r))
         /\ Tidy(ConfigureReserves(r)) /\ Honest(ConfigureReserves(r))
<1>1. ASSUME NEW call, \A f \in call.gets : f[1] \notin {"holds", "omnipool"}
      PROVE  Honest(call)
  <2>1. \A a : ~Hands(call, a)
    BY <1>1 DEF Hands
  <2>2. \A a : InOmnipool(a) \notin call.gets
    BY <1>1 DEF InOmnipool
  <2> QED BY <2>1, <2>2 DEF Honest
<1>2. \A f \in InitReserves(r).gets : f = Listed(r) \/ f[1] \in {"rate", "ceiling"}
  <2>1. \A f \in InitReserves(r).gets : f = Listed(r) \/ f = Follows("rate", r) \/ f = Follows("ceiling", r)
    <3> DEFINE G == InitReserves(r).gets
    <3>1. G = {Listed(r), Follows("rate", r)} \cup (IF r \in Isolated THEN {} ELSE {Follows("ceiling", r)})
      BY InitReservesFields
    <3> HIDE DEF G
    <3>2. \A f \in G : f = Listed(r) \/ f = Follows("rate", r) \/ f = Follows("ceiling", r)
      BY <3>1
    <3> QED BY <3>2 DEF G
  <2>2. Follows("rate", r)[1] = "rate" /\ Follows("ceiling", r)[1] = "ceiling"
    BY DEF Follows
  <2> QED BY <2>1, <2>2
<1>3. \A f \in ConfigureReserves(r).gets :
        f = Collateral(r) \/ f[1] \in {"ltv", "supplyCap", "borrowCap", "factor"}
  <2>1. \A f \in ConfigureReserves(r).gets :
          f = Collateral(r) \/ \E s \in {"ltv", "supplyCap", "borrowCap", "factor"} : f = Follows(s, r)
    <3> DEFINE G == ConfigureReserves(r).gets
    <3>1. G = {Collateral(r)} \cup { Follows(s, r) : s \in {"ltv", "supplyCap", "borrowCap", "factor"} }
      BY ConfigureReservesFields
    <3> HIDE DEF G
    <3>2. \A f \in G : f = Collateral(r) \/ \E s \in {"ltv", "supplyCap", "borrowCap", "factor"} : f = Follows(s, r)
      BY <3>1
    <3> QED BY <3>2 DEF G
  <2>2. \A s : Follows(s, r)[1] = s
    BY DEF Follows
  <2> QED BY <2>1, <2>2
<1>4. Listed(r)[1] = "listed" /\ Listed(r)[2] = r /\ Collateral(r)[1] = "collateral" /\ Collateral(r)[2] = r
  BY DEF Listed, Collateral
<1>5. Honest(InitReserves(r)) /\ Honest(ConfigureReserves(r))
  BY <1>1, <1>2, <1>3, <1>4
<1>6. Tidy(InitReserves(r))
  <2> DEFINE call == InitReserves(r)
  <2>1. call.soft = TRUE /\ call.drops = {} /\ call.lists = {r} /\ call.moves = {}
    BY InitReservesFields
  <2>2. \A x \in call.lists : call = InitReserves(x)
    BY <2>1
  <2> HIDE DEF call
  <2>3. \A f \in call.gets : f[1] # "aToken" /\ (f[1] = "listed" => f[2] \in call.lists) /\ f[1] # "collateral"
    BY <1>2, <1>4, <2>1 DEF call
  <2>4. Tidy(call)
    BY <2>1, <2>2, <2>3 DEF Tidy
  <2> QED BY <2>4 DEF call
<1>7. Tidy(ConfigureReserves(r))
  <2> DEFINE call == ConfigureReserves(r)
  <2>1. call.soft = TRUE /\ call.drops = {} /\ call.lists = {} /\ call.moves = {} /\ Listed(r) \in call.needs
    BY ConfigureReservesFields
  <2> HIDE DEF call
  <2>2. \A f \in call.gets : /\ f[1] # "aToken" /\ f[1] # "listed"
                             /\ f[1] = "collateral" => Listed(f[2]) \in call.needs
    BY <1>3, <1>4, <2>1 DEF call
  <2>3. Tidy(call)
    BY <2>1, <2>2 DEF Tidy
  <2> QED BY <2>3 DEF call
<1> QED BY <1>5, <1>6, <1>7

LEMMA ListingOrder ==
  ASSUME NEW r, NEW x
  PROVE  /\ InitReserves(x) = InitReserves(r) => x = r
         /\ ConfigureReserves(x) = ConfigureReserves(r) => x = r
         /\ \A call : IdleCall(call) => call # InitReserves(x) /\ call # ConfigureReserves(x)
         /\ InitReserves(x) # ConfigureReserves(r)
<1>1. InitReserves(x).lists = {x} /\ InitReserves(r).lists = {r} /\ ConfigureReserves(r).lists = {}
  BY InitReservesFields, ConfigureReservesFields
<1>2. ConfigureReserves(x).needs = {Listed(x), RiskAdmin} /\ ConfigureReserves(r).needs = {Listed(r), RiskAdmin}
  BY ConfigureReservesFields
<1>3. Listed(x) # RiskAdmin /\ (Listed(x) = Listed(r) => x = r)
  BY DEF Listed, RiskAdmin
<1>4. Collateral(x) \in ConfigureReserves(x).gets /\ Collateral(x)[1] = "collateral"
  BY ConfigureReservesFields DEF Collateral
<1>5. ConfigureReserves(x) = ConfigureReserves(r) => x = r
  BY <1>2, <1>3
<1>6. \A call : IdleCall(call) => call # InitReserves(x) /\ call # ConfigureReserves(x)
  BY <1>1, <1>4 DEF IdleCall
<1>7. InitReserves(x) = InitReserves(r) => x = r
  BY <1>1
<1>8. InitReserves(x) # ConfigureReserves(r)
  BY <1>1
<1> QED BY <1>5, <1>6, <1>7, <1>8

\* What initReserve puts into a batch: the reserve before its configuration, and before
\* that the right to give it one.
LEMMA InitReserveOrder ==
  ASSUME NEW c, Sane(c), NEW r, Configured(r), r \notin Unborrowed
  PROVE  LET b == InitReserve(c, r) IN
         /\ Decent(b)
         /\ Items(b) \subseteq {SetAssetSources(r), InitReserves(r), AddRiskAdmin, ConfigureReserves(r), Set("fee", r)}
         /\ Listed(r) \notin c.facts <=> InitReserves(r) \in Items(b)
         /\ \A x : Followed(b, InitReserves(x), ConfigureReserves(x))
         /\ \A x : RiskAdmin \in c.facts \/ Preceded(b, ConfigureReserves(x), AddRiskAdmin)
<1> DEFINE A == << SetAssetSources(r) >>
           I == If(Listed(r) \notin c.facts, << InitReserves(r) >>)
           K == If(RiskAdmin \notin c.facts, << AddRiskAdmin >>)
           C == << ConfigureReserves(r) >>
           KC == K \o C
           L == If(Collateral(r) \notin c.facts /\ r \notin Unborrowed, KC)
           F == << Set("fee", r) >>
           AI == A \o I
           AIL == AI \o L
           b == AIL \o F
<1>1. b = InitReserve(c, r)
  BY DEF InitReserve
<1>2. IsBatch(A) /\ Items(A) = {SetAssetSources(r)}
  BY BatchRow1
<1>3. IsBatch(I) /\ Items(I) = IF Listed(r) \notin c.facts THEN {InitReserves(r)} ELSE {}
  BY BatchRow1, BatchEmpty DEF If
<1>4. IsBatch(K) /\ Items(K) = IF RiskAdmin \notin c.facts THEN {AddRiskAdmin} ELSE {}
  BY BatchRow1, BatchEmpty DEF If
<1>5. IsBatch(C) /\ Items(C) = {ConfigureReserves(r)}
  BY BatchRow1
<1>6. KC = K \o C /\ AI = A \o I /\ AIL = AI \o L /\ b = AIL \o F
  OBVIOUS
<1>7. L = IF Collateral(r) \notin c.facts THEN KC ELSE << >>
  BY DEF If
<1>8. IsBatch(F) /\ Items(F) = {Set("fee", r)}
  BY BatchRow1
<1> HIDE DEF A, I, K, C, KC, L, F, AI, AIL, b
<1>9. IsBatch(KC) /\ Items(KC) = Items(K) \cup Items(C)
  BY <1>4, <1>5, <1>6, ConcatItems
<1>10. IsBatch(L) /\ Items(L) = IF Collateral(r) \notin c.facts THEN Items(K) \cup Items(C) ELSE {}
  BY <1>7, <1>9, BatchEmpty
<1>20. IsBatch(A) /\ IsBatch(I) /\ IsBatch(L) /\ IsBatch(F)
  BY <1>2, <1>3, <1>8, <1>10
<1>11. IsBatch(AI) /\ Items(AI) = Items(A) \cup Items(I)
  <2> QED BY <1>6, <1>20, ConcatItems
<1>12. IsBatch(AIL) /\ Items(AIL) = Items(AI) \cup Items(L)
  <2>1. IsBatch(AI) /\ IsBatch(L) /\ AIL = AI \o L
    BY <1>6, <1>11, <1>20
  <2> QED BY <2>1, ConcatItems
<1>13. IsBatch(b) /\ Items(b) = Items(AIL) \cup Items(F)
  <2>1. IsBatch(AIL) /\ IsBatch(F) /\ b = AIL \o F
    BY <1>6, <1>12, <1>20
  <2> QED BY <2>1, ConcatItems
<1>14. Items(b) \subseteq {SetAssetSources(r), InitReserves(r), AddRiskAdmin, ConfigureReserves(r), Set("fee", r)}
  BY <1>2, <1>3, <1>4, <1>5, <1>8, <1>10, <1>11, <1>12, <1>13
<1>15. /\ IdleCall(SetAssetSources(r)) /\ IdleCall(AddRiskAdmin) /\ IdleCall(Set("fee", r))
  BY SetAssetSourcesPlain, AddRiskAdminPlain, SetPlain, PlainIdle DEF Settings
<1>16. Decent(b)
  BY <1>13, <1>14, <1>15, ListingCalls DEF Decent, IdleCall
<1>17. Listed(r) \notin c.facts <=> InitReserves(r) \in Items(b)
  <2>1. \A call \in Items(A) \cup Items(K) \cup Items(C) \cup Items(F) : call # InitReserves(r)
    BY <1>2, <1>4, <1>5, <1>8, <1>15, ListingOrder
  <2> QED BY <1>3, <1>10, <1>11, <1>12, <1>13, <2>1
<1>18. ASSUME NEW x
       PROVE  Followed(b, InitReserves(x), ConfigureReserves(x))
  <2> DEFINE p == InitReserves(x)
             q == ConfigureReserves(x)
  <2>1. Followed(AI, p, q) \/ q \in Items(L)
    <3>1. CASE x = r /\ Listed(r) \notin c.facts
      <4>1. Collateral(r) \notin c.facts
        BY <3>1 DEF Sane
      <4> QED BY <1>5, <1>10, <3>1, <4>1
    <3>2. CASE ~(x = r /\ Listed(r) \notin c.facts)
      <4>1. p \notin Items(A) /\ p \notin Items(I)
        BY <1>2, <1>3, <1>15, <3>2, ListingOrder
      <4> QED BY <1>11, <4>1, OrderVacuous
    <3> QED BY <3>1, <3>2
  <2>2. p \notin Items(L) /\ p \notin Items(F)
    BY <1>4, <1>5, <1>8, <1>10, <1>15, ListingOrder
  <2>3. Followed(L, p, q) /\ Followed(F, p, q)
    BY <2>2, OrderVacuous
  <2> HIDE DEF p, q
  <2>4. Followed(AIL, p, q)
    BY <1>6, <1>10, <1>11, <2>1, <2>3, OrderConcat
  <2>5. Followed(b, p, q)
    BY <1>6, <1>8, <1>12, <2>3, <2>4, OrderConcat
  <2> QED BY <2>5 DEF p, q
<1>19. ASSUME NEW x, RiskAdmin \notin c.facts
       PROVE  Preceded(b, ConfigureReserves(x), AddRiskAdmin)
  <2> DEFINE q == ConfigureReserves(x)
  <2>1. q \notin Items(A) /\ q \notin Items(I) /\ q \notin Items(K) /\ q \notin Items(F)
    BY <1>2, <1>3, <1>4, <1>8, <1>15, ListingOrder
  <2>2. q \notin Items(AI)
    BY <1>11, <2>1
  <2> HIDE DEF q
  <2>3. Preceded(AI, q, AddRiskAdmin) /\ Preceded(K, q, AddRiskAdmin) /\ Preceded(F, q, AddRiskAdmin)
    BY <2>1, <2>2, OrderVacuous
  <2>4. Preceded(KC, q, AddRiskAdmin)
    BY <1>4, <1>5, <1>6, <1>19, <2>3, OrderConcat
  <2>5. Preceded(L, q, AddRiskAdmin)
    BY <1>7, <2>4, BatchEmpty, OrderVacuous
  <2>6. Preceded(AIL, q, AddRiskAdmin)
    BY <1>6, <1>10, <1>11, <2>3, <2>5, OrderConcat
  <2>7. Preceded(b, q, AddRiskAdmin)
    BY <1>6, <1>8, <1>12, <2>3, <2>6, OrderConcat
  <2> QED BY <2>7 DEF q
<1> QED BY <1>1, <1>14, <1>16, <1>17, <1>18, <1>19

LEMMA InitReserveFine ==
  ASSUME NEW c, Sane(c), NEW r, Configured(r), r \notin Unborrowed, NEW R, r \in R,
         r \notin Isolated \/ Follows("ceiling", r) \in c.facts
  PROVE  Fine(InitReserve(c, r), c, R)
<1> DEFINE b == InitReserve(c, r)
<1>1. /\ Decent(b)
      /\ Items(b) \subseteq {SetAssetSources(r), InitReserves(r), AddRiskAdmin, ConfigureReserves(r), Set("fee", r)}
      /\ \A x : Followed(b, InitReserves(x), ConfigureReserves(x))
      /\ \A x : RiskAdmin \in c.facts \/ Preceded(b, ConfigureReserves(x), AddRiskAdmin)
  BY InitReserveOrder
<1> HIDE DEF b
<1>2. /\ IdleCall(SetAssetSources(r)) /\ IdleCall(AddRiskAdmin) /\ IdleCall(Set("fee", r))
  BY SetAssetSourcesPlain, AddRiskAdminPlain, SetPlain, PlainIdle DEF Settings
<1>3. /\ InitReserves(r).lists = {r} /\ ConfigureReserves(r).lists = {}
      /\ InitReserves(r).moves = {} /\ ConfigureReserves(r).moves = {}
  BY InitReservesFields, ConfigureReservesFields
<1>4. \A call \in Items(b) : call.lists \subseteq R /\ call.moves = {}
  BY <1>1, <1>2, <1>3 DEF IdleCall
<1>5. ASSUME NEW x, x \in Isolated, Follows("ceiling", x) \notin c.facts
      PROVE  Followed(b, InitReserves(x), Set("ceiling", x))
  <2>1. x # r
    BY <1>5
  <2>2. InitReserves(x) \notin Items(b)
    BY <1>1, <1>2, <2>1, ListingOrder
  <2> QED BY <2>2, OrderVacuous
<1>6. Fine(b, c, R)
  BY <1>1, <1>4, <1>5 DEF Fine, Configures
<1> QED BY <1>6 DEF b

-----------------------------------------------------------------------------
(* What a fine batch does *)

\* A call that only asks for facts works wherever they are, and what it brings lasts.
Simple(call) ==
  /\ call.bans = {} /\ call.pairs = {} /\ call.hops = {} /\ call.site = {} /\ call.code = {}
  /\ call.farm = 0

LEMMA SimpleWorks ==
  ASSUME NEW call, Simple(call), NEW c, IsChain(c), call.needs \subseteq c.facts
  PROVE  Works(call, c)
  BY DEF Simple, Works, IsChain

LEMMA PathCall ==
  ASSUME NEW b, Decent(b), NEW h, IsPath(b, h), World(h[0]),
         NEW j \in 1..Len(b), Works(b[j], h[j - 1]), NEW k \in j..Len(b),
         NEW f \in b[j].gets, Lasting(f)
  PROVE  f \in h[k].facts
<1>1. /\ Len(b) \in Nat
      /\ \A n \in 0..Len(b) : World(h[n]) /\ \A i \in 0..n : Grown(h[i], h[n])
  BY PathKeeps
<1>2. j - 1 \in 0..Len(b) /\ k \in 0..Len(b) /\ j \in 0..k
  BY <1>1
<1>3. h[j] = Done(b[j], h[j - 1])
  BY DEF IsPath, Step
<1>4. Tidy(b[j])
  BY DEF Decent, Items
<1>5. f \in h[j].facts
  BY <1>1, <1>2, <1>3, <1>4, DoneKinds
<1> QED BY <1>1, <1>2, <1>5 DEF Grown

\* A reserve that a batch lists is listed by a call of its own.
LEMMA PathLists ==
  ASSUME NEW b, Decent(b), NEW h, IsPath(b, h), World(h[0]), NEW r,
         Listed(r) \notin h[0].facts, Listed(r) \in h[Len(b)].facts
  PROVE  \E i \in 1..Len(b) : b[i] = InitReserves(r) /\ Works(b[i], h[i - 1])
<1>1. /\ Len(b) \in Nat
      /\ \A n \in 0..Len(b) : World(h[n])
  BY PathKeeps
<1> DEFINE Found == \E i \in 1..Len(b) : b[i] = InitReserves(r) /\ Works(b[i], h[i - 1])
           T == {n \in Nat : n <= Len(b) => (Listed(r) \in h[n].facts => Found)}
<1>2. 0 \in T
  <2> HIDE DEF Found
  <2> QED OBVIOUS
<1>3. \A n \in Nat : n \in T => n + 1 \in T
  <2> SUFFICES ASSUME NEW n \in Nat, n \in T, n + 1 <= Len(b), Listed(r) \in h[n + 1].facts
               PROVE  Found
    <3> HIDE DEF Found
    <3>1. \A n \in Nat : n + 1 \in Nat
      OBVIOUS
    <3> QED BY <3>1, Zenon
  <2>1. n + 1 \in 1..Len(b) /\ (n + 1) - 1 = n /\ n <= Len(b) /\ n \in 0..Len(b)
    BY <1>1
  <2>2. CASE Listed(r) \in h[n].facts
    BY <2>1, <2>2
  <2>3. CASE Listed(r) \notin h[n].facts
    <3>1. World(h[n]) /\ Tidy(b[n + 1])
      BY <1>1, <2>1 DEF Decent, Items
    <3>2. IF Works(b[n + 1], h[n]) THEN h[n + 1] = Done(b[n + 1], h[n])
          ELSE h[n + 1] = Missed(b[n + 1], h[n])
      BY <2>1 DEF IsPath, Step
    <3>3. Works(b[n + 1], h[n])
      BY <2>3, <3>1, <3>2, MissedWorld
    <3>4. r \in b[n + 1].lists
      BY <2>3, <3>1, <3>2, <3>3, DoneKinds
    <3>5. b[n + 1] = InitReserves(r)
      BY <3>1, <3>4 DEF Tidy
    <3> QED BY <2>1, <3>3, <3>5
  <2> QED BY <2>2, <2>3
<1>4. Len(b) \in T
  <2> HIDE DEF T
  <2>1. Nat \subseteq T
    BY <1>2, <1>3, NatSetInduction
  <2> QED BY <1>1, <2>1
<1> QED BY <1>1, <1>4

Configuration == {"ltv", "supplyCap", "borrowCap", "factor", "rate"}
LEMMA SettingLasts ==
  ASSUME NEW s \in Settings, NEW r
  PROVE  Lasting(Follows(s, r)) /\ Follows(s, r)[1] = s
  BY DEF Lasting, Follows, Settings

LEMMA FineRuns ==
  ASSUME NEW c, World(c), NEW x, World(x), Grown(c, x), NEW b, NEW R, Fine(b, c, R),
         NEW y, Runs(b, x, y), NEW r, Listed(r) \notin x.facts, Listed(r) \in y.facts
  PROVE  /\ r \in R
         /\ r # "HOLLAR" =>
              /\ Collateral(r) \in y.facts
              /\ r \in Isolated => Follows("ceiling", r) \in y.facts
              /\ \A s \in Configuration : Follows(s, r) \in y.facts
<1>1. PICK h : h[0] = x /\ h[Len(b)] = y /\ IsPath(b, h)
  BY DEF Runs
<1>2. Decent(b)
  BY DEF Fine
<1>3. /\ Len(b) \in Nat
      /\ \A n \in 0..Len(b) : World(h[n]) /\ \A i \in 0..n : Grown(h[i], h[n])
  BY <1>1, <1>2, PathKeeps
<1>4. PICK i \in 1..Len(b) : b[i] = InitReserves(r) /\ Works(b[i], h[i - 1])
  BY <1>1, <1>2, PathLists
<1>5. r \in R
  <2>1. InitReserves(r).lists = {r} /\ InitReserves(r) \in Items(b)
    BY <1>4, InitReservesFields DEF Items
  <2> QED BY <2>1 DEF Fine
<1>6. ASSUME NEW k \in i..Len(b), NEW f \in InitReserves(r).gets, Lasting(f)
      PROVE  f \in h[k].facts
  BY <1>1, <1>2, <1>4, <1>6, PathCall
<1>7. Listed(r) \in InitReserves(r).gets /\ Follows("rate", r) \in InitReserves(r).gets
  <2> DEFINE G == InitReserves(r).gets
  <2>1. G = {Listed(r), Follows("rate", r)} \cup (IF r \in Isolated THEN {} ELSE {Follows("ceiling", r)})
    BY InitReservesFields
  <2> HIDE DEF G
  <2>2. Listed(r) \in G /\ Follows("rate", r) \in G
    BY <2>1
  <2> QED BY <2>2 DEF G
<1>8. Lasting(Listed(r)) /\ Lasting(Collateral(r)) /\ Lasting(RiskAdmin)
  BY DEF Lasting, Listed, Collateral, RiskAdmin
<1>9. \A k \in i..Len(b) : Listed(r) \in h[k].facts
  BY <1>6, <1>7, <1>8
<1>10. Len(b) \in i..Len(b)
  BY <1>3
<1>11. Follows("rate", r) \in y.facts
  BY <1>1, <1>6, <1>7, <1>10, SettingLasts DEF Settings
<1>12. ASSUME r # "HOLLAR"
       PROVE  /\ Collateral(r) \in y.facts
              /\ \A s \in {"ltv", "supplyCap", "borrowCap", "factor"} : Follows(s, r) \in y.facts
  <2>1. Configures(b, c, r)
    BY <1>12 DEF Fine
  <2>2. PICK j \in (i+1)..Len(b) : b[j] = ConfigureReserves(r)
    BY <1>4, <2>1 DEF Configures, Followed
  <2>3. j \in 1..Len(b) /\ j - 1 \in i..Len(b) /\ j - 1 \in 0..Len(b) /\ Len(b) \in j..Len(b) /\ 0 \in 0..(j-1)
    BY <1>3, <2>2
  <2>4. RiskAdmin \in h[j - 1].facts
    <3>1. CASE RiskAdmin \in c.facts
      <4>1. RiskAdmin \in h[0].facts
        BY <1>1, <1>8, <3>1 DEF Grown
      <4> QED BY <1>3, <1>8, <2>3, <4>1 DEF Grown
    <3>2. CASE RiskAdmin \notin c.facts
      <4>1. PICK k \in 1..(j-1) : b[k] = AddRiskAdmin
        BY <2>1, <2>2, <2>3, <3>2 DEF Configures, Preceded
      <4>2. k \in 1..Len(b) /\ k - 1 \in 0..Len(b) /\ j - 1 \in k..Len(b)
        BY <1>3, <2>3
      <4>3. Simple(AddRiskAdmin) /\ AddRiskAdmin.needs = {} /\ RiskAdmin \in AddRiskAdmin.gets
        BY DEF Simple, AddRiskAdmin, aaveManagerCall, Call
      <4>4. Works(b[k], h[k - 1])
        BY <1>3, <4>1, <4>2, <4>3, SimpleWorks DEF World
      <4> QED BY <1>1, <1>2, <1>8, <4>1, <4>2, <4>3, <4>4, PathCall
    <3> QED BY <3>1, <3>2
  <2>5. Simple(b[j]) /\ b[j].needs = {Listed(r), RiskAdmin}
    BY <2>2, ConfigureReservesFields DEF Simple
  <2>6. Listed(r) \in h[j - 1].facts
    BY <1>9, <2>3
  <2>7. Works(b[j], h[j - 1])
    BY <1>3, <2>3, <2>4, <2>5, <2>6, SimpleWorks DEF World
  <2>8. ASSUME NEW f \in ConfigureReserves(r).gets, Lasting(f)
        PROVE  f \in y.facts
    BY <1>1, <1>2, <2>2, <2>3, <2>7, <2>8, PathCall
  <2>9. Collateral(r) \in y.facts
    BY <1>8, <2>8, ConfigureReservesFields
  <2>10. ASSUME NEW s \in {"ltv", "supplyCap", "borrowCap", "factor"}
         PROVE  Follows(s, r) \in y.facts
    <3>1. Follows(s, r) \in ConfigureReserves(r).gets
      <4> DEFINE G == ConfigureReserves(r).gets
      <4>1. G = {Collateral(r)} \cup { Follows(u, r) : u \in {"ltv", "supplyCap", "borrowCap", "factor"} }
        BY ConfigureReservesFields
      <4> HIDE DEF G
      <4>2. Follows(s, r) \in G
        BY <4>1
      <4> QED BY <4>2 DEF G
    <3>2. Lasting(Follows(s, r))
      BY SettingLasts DEF Settings
    <3> QED BY <2>8, <3>1, <3>2
  <2> QED BY <2>9, <2>10
<1>13. ASSUME r # "HOLLAR", r \in Isolated
       PROVE  Follows("ceiling", r) \in y.facts
  <2>1. Lasting(Follows("ceiling", r))
    BY SettingLasts DEF Settings
  <2>2. CASE Follows("ceiling", r) \in c.facts
    <3>1. Follows("ceiling", r) \in h[0].facts
      BY <1>1, <2>1, <2>2 DEF Grown
    <3>2. 0 \in 0..Len(b) /\ Len(b) \in 0..Len(b)
      BY <1>3
    <3> QED BY <1>1, <1>3, <2>1, <3>1, <3>2 DEF Grown
  <2>3. CASE Follows("ceiling", r) \notin c.facts
    <3>1. PICK j \in (i+1)..Len(b) : b[j] = Set("ceiling", r)
      BY <1>4, <1>13, <2>3 DEF Fine, Configures, Followed
    <3>2. j \in 1..Len(b) /\ j - 1 \in i..Len(b) /\ j - 1 \in 0..Len(b) /\ Len(b) \in j..Len(b)
      BY <1>3, <3>1
    <3>3. /\ Simple(Set("ceiling", r)) /\ Set("ceiling", r).needs = {Listed(r)}
          /\ Follows("ceiling", r) \in Set("ceiling", r).gets
      BY DEF Simple, Set, aaveManagerCall, Call
    <3>4. Listed(r) \in h[j - 1].facts
      BY <1>9, <3>2
    <3>5. Works(b[j], h[j - 1])
      BY <1>3, <3>1, <3>2, <3>3, <3>4, SimpleWorks DEF World
    <3> QED BY <1>1, <1>2, <2>1, <3>1, <3>2, <3>3, <3>5, PathCall
  <2> QED BY <2>2, <2>3
<1> QED BY <1>5, <1>11, <1>12, <1>13 DEF Configuration

-----------------------------------------------------------------------------
(* Reviews *)

LEMMA IfIdle ==
  ASSUME NEW b, Idle(b), NEW condition
  PROVE  Idle(If(condition, b))
  BY IdleEmpty DEF If

LEMMA SeqBatch ==
  ASSUME NEW rs, IsBatch(rs), NEW out
  PROVE  IsBatch(Without(rs, out)) /\ Items(Without(rs, out)) = Items(rs) \ out
<1>1. Without(rs, out) \in Seq(Items(rs)) /\ Items(Without(rs, out)) = Items(rs) \ out
  BY WithoutResult DEF IsBatch
<1> QED BY <1>1, BatchOf

LEMMA EverythingItems ==
  /\ IsBatch(ReserveAssets)
  /\ IsBatch(Everything)
  /\ Items(Everything) = Items(ReserveAssets) \ {"HOLLAR"}
<1>1. IsBatch(ReserveAssets)
  BY ConfigAssumption, BatchOf
<1> QED BY <1>1, SeqBatch DEF Everything

LEMMA OffItems ==
  ASSUME NEW c, NEW setting, NEW rs, IsBatch(rs)
  PROVE  /\ IsBatch(Off(c, setting, rs))
         /\ \A r : r \in Items(Off(c, setting, rs)) <=>
              r \in Items(rs) /\ Listed(r) \in c.facts /\ Follows(setting, r) \notin c.facts
<1> DEFINE out == { r \in Items(rs) : Listed(r) \notin c.facts \/ Follows(setting, r) \in c.facts }
<1>1. IsBatch(Without(rs, out)) /\ Items(Without(rs, out)) = Items(rs) \ out
  BY SeqBatch
<1>2. Off(c, setting, rs) = Without(rs, out)
  BY DEF Off
<1> QED BY <1>1, <1>2

LEMMA FixItems ==
  ASSUME NEW setting, NEW rs, IsBatch(rs)
  PROVE  /\ IsBatch(Fix(setting, rs))
         /\ \A r \in Items(rs) : Set(setting, r) \in Items(Fix(setting, rs))
         /\ \A call \in Items(Fix(setting, rs)) : \E r \in Items(rs) : call = Set(setting, r)
<1> DEFINE b == [i \in 1..Len(rs) |-> Set(setting, rs[i])]
           S == { Set(setting, r) : r \in Items(rs) }
<1>1. Fix(setting, rs) = b
  BY DEF Fix, Each
<1>2. Len(rs) \in Nat /\ \A i \in 1..Len(rs) : rs[i] \in Items(rs)
  BY DEF IsBatch, Items
<1>3. b \in Seq(S) /\ Len(b) = Len(rs)
  BY <1>2
<1>4. IsBatch(b) /\ Items(b) \subseteq S
  BY <1>3, BatchOf
<1>5. \A i \in 1..Len(rs) : b[i] = Set(setting, rs[i])
  OBVIOUS
<1> HIDE DEF b
<1>6. \A r \in Items(rs) : Set(setting, r) \in Items(b)
  BY <1>3, <1>5 DEF Items
<1> QED BY <1>1, <1>4, <1>6

LEMMA FixIdle ==
  ASSUME NEW setting \in Settings, NEW rs, IsBatch(rs)
  PROVE  Idle(Fix(setting, rs))
  BY FixItems, SetPlain, PlainIdle DEF Idle

LEMMA ExitIdle == Idle(Exit)
  BY ExitPlain, PlainIdle, IdleRow1

LEMMA ReviewsIdle ==
  ASSUME NEW c, NEW rs, IsBatch(rs)
  PROVE  /\ Idle(ReviewSupplyCaps(c, rs)) /\ Idle(ReviewBorrowCaps(c, rs))
         /\ Idle(ReviewReserveFactors(c, rs)) /\ Idle(ReviewRateStrategies(c, rs))
         /\ Idle(ReviewReserveConfigs(c)) /\ Idle(ReviewDebtCeiling(c, rs))
<1>1. \A s \in Settings : Idle(Review(c, s, rs))
  BY OffItems, FixIdle, ExitIdle, IfIdle, IdleConcat DEF Review
<1>2. \A s \in Settings : Idle(Fix(s, Off(c, s, ReserveAssets)))
  BY EverythingItems, OffItems, FixIdle
<1>3. \A out : Idle(Fix("ceiling", Without(rs, out)))
  BY SeqBatch, FixIdle DEF Settings
<1>4. Idle(ReviewDebtCeiling(c, rs))
  BY <1>3 DEF ReviewDebtCeiling
<1> QED BY <1>1, <1>2, <1>4
    DEF Settings, ReviewSupplyCaps, ReviewBorrowCaps, ReviewReserveFactors, ReviewRateStrategies, ReviewReserveConfigs

LEMMA EverythingIdle ==
  ASSUME NEW c
  PROVE  /\ Idle(ReviewSupplyCaps(c, Everything)) /\ Idle(ReviewBorrowCaps(c, Everything))
         /\ Idle(ReviewReserveFactors(c, Everything)) /\ Idle(ReviewRateStrategies(c, Everything))
         /\ Idle(ReviewReserveConfigs(c)) /\ Idle(ReviewDebtCeiling(c, ReserveAssets))
  BY EverythingItems, ReviewsIdle

LEMMA CeilingReviewed ==
  ASSUME NEW c, NEW r \in Items(ReserveAssets), r \in Isolated, Follows("ceiling", r) \notin c.facts
  PROVE  Set("ceiling", r) \in Items(ReviewDebtCeiling(c, ReserveAssets))
<1> DEFINE out == { x \in Items(ReserveAssets) : \/ Follows("ceiling", x) \in c.facts
                                                \/ (Listed(x) \notin c.facts /\ x \notin Isolated) }
<1>1. IsBatch(Without(ReserveAssets, out)) /\ Items(Without(ReserveAssets, out)) = Items(ReserveAssets) \ out
  BY EverythingItems, SeqBatch
<1>2. r \in Items(Without(ReserveAssets, out))
  BY <1>1
<1>3. ReviewDebtCeiling(c, ReserveAssets) = Fix("ceiling", Without(ReserveAssets, out))
  BY DEF ReviewDebtCeiling
<1> QED BY <1>1, <1>2, <1>3, FixItems

LEMMA EModeIdle ==
  ASSUME NEW c, NEW name
  PROVE  Idle(ReviewEMode(c, name))
  BY SetEModeCategoryPlain, PlainIdle, IdleRow1, IfIdle DEF ReviewEMode

LEMMA EmissionAdminIdle ==
  ASSUME NEW c, NEW r
  PROVE  Idle(ReviewEmissionAdmin(c, r))
<1>1. Idle(If(EmissionAdmin \notin c.facts, << SetEmissionAdmin >>))
  BY SetEmissionAdminPlain, PlainIdle, IdleRow1, IfIdle
<1> QED BY <1>1, ExitIdle DEF ReviewEmissionAdmin

LEMMA IncentiveIdle ==
  ASSUME NEW c, NEW r, NEW predicted
  PROVE  Idle(ReviewIncentive(c, r, predicted))
<1>1. \A n : Idle(<< ConfigureAssets(r, n) >>)
  BY ConfigureAssetsPlain, PlainIdle, IdleRow1
<1>2. \A n, condition : Idle(If(condition, << ConfigureAssets(r, n) >>))
  BY <1>1, IfIdle
<1> QED BY <1>2, ExitIdle DEF ReviewIncentive

LEMMA OraclePriceIdle ==
  ASSUME NEW oracle
  PROVE  Idle(SetOraclePrice(oracle))
<1>1. Plain([aaveManagerCall(Call) EXCEPT !.gets = {<<"price", oracle>>}])
  BY ManagerPlain
<1> QED BY <1>1, PlainIdle, IdleRow1 DEF SetOraclePrice

LEMMA ReserveOracleIdle ==
  ASSUME NEW r
  PROVE  Idle(SetReserveOracle(r))
  BY SetAssetSourcesPlain, PlainIdle, IdleRow1, ExitIdle DEF SetReserveOracle

LEMMA InitReserveItems ==
  ASSUME NEW c, Sane(c), NEW r, Configured(r), r \notin Unborrowed, Listed(r) \notin c.facts
  PROVE  InitReserves(r) \in Items(InitReserve(c, r))
  BY InitReserveOrder

\* An isolated reserve gets its ceiling in the batch that lists it.
LEMMA IsolatedReserveFine ==
  ASSUME NEW c, Sane(c), NEW r, Configured(r), r \notin Unborrowed, NEW R, r \in R
  PROVE  Fine(IsolatedReserve(c, r), c, R)
<1> DEFINE I == InitReserve(c, r)
           F == ReviewReserveFactors(c, Everything)
           D == ReviewDebtCeiling(c, ReserveAssets)
           IF_ == I \o F
           b == IF_ \o D
<1>1. CASE r \notin Isolated \/ Follows("ceiling", r) \in c.facts
  <2>1. Fine(I, c, R) /\ Fine(F, c, R) /\ Fine(D, c, R)
    BY <1>1, InitReserveFine, EverythingIdle, IdleFine
  <2>2. Fine(b, c, R)
    <3> HIDE DEF I, F, D
    <3> QED BY <2>1, FineConcat
  <2> QED BY <2>2 DEF IsolatedReserve
<1>2. CASE r \in Isolated /\ Follows("ceiling", r) \notin c.facts
  <2>1. r \in Items(ReserveAssets)
    BY DEF Configured, Items
  <2>2. Set("ceiling", r) \in Items(D)
    BY <1>2, <2>1, CeilingReviewed
  <2>3. /\ Decent(I)
        /\ Items(I) \subseteq {SetAssetSources(r), InitReserves(r), AddRiskAdmin, ConfigureReserves(r), Set("fee", r)}
        /\ \A x : Followed(I, InitReserves(x), ConfigureReserves(x))
        /\ \A x : RiskAdmin \in c.facts \/ Preceded(I, ConfigureReserves(x), AddRiskAdmin)
    BY InitReserveOrder
  <2>4. Idle(F) /\ Idle(D)
    BY EverythingIdle
  <2>5. IF_ = I \o F /\ b = IF_ \o D
    OBVIOUS
  <2> HIDE DEF I, F, D, IF_, b
  <2>6. IsBatch(I) /\ IsBatch(F) /\ IsBatch(D)
    BY <2>3, <2>4 DEF Idle, Decent
  <2>7. IsBatch(IF_) /\ Items(IF_) = Items(I) \cup Items(F)
    BY <2>5, <2>6, ConcatItems
  <2>8. IsBatch(b) /\ Items(b) = Items(IF_) \cup Items(D)
    BY <2>5, <2>6, <2>7, ConcatItems
  <2>9. /\ IdleCall(SetAssetSources(r)) /\ IdleCall(AddRiskAdmin) /\ IdleCall(Set("fee", r))
    BY SetAssetSourcesPlain, AddRiskAdminPlain, SetPlain, PlainIdle DEF Settings
  <2>10. Decent(b)
    BY <2>3, <2>4, <2>7, <2>8 DEF Decent, Idle, IdleCall
  <2>11. \A call \in Items(b) : call.lists \subseteq R /\ call.moves = {}
    <3>1. /\ InitReserves(r).lists = {r} /\ ConfigureReserves(r).lists = {}
          /\ InitReserves(r).moves = {} /\ ConfigureReserves(r).moves = {}
      BY InitReservesFields, ConfigureReservesFields
    <3> QED BY <2>3, <2>4, <2>7, <2>8, <2>9, <3>1 DEF Idle, IdleCall
  <2>12. \A x : /\ InitReserves(x) \notin Items(F) /\ InitReserves(x) \notin Items(D)
                /\ ConfigureReserves(x) \notin Items(F) /\ ConfigureReserves(x) \notin Items(D)
    BY <2>4, ListingOrder DEF Idle
  <2>13. ASSUME NEW x
         PROVE  Followed(b, InitReserves(x), ConfigureReserves(x))
    <3>1. Followed(F, InitReserves(x), ConfigureReserves(x)) /\ Followed(D, InitReserves(x), ConfigureReserves(x))
      BY <2>12, OrderVacuous
    <3>2. Followed(IF_, InitReserves(x), ConfigureReserves(x))
      BY <2>3, <2>5, <2>6, <3>1, OrderConcat
    <3> QED BY <2>5, <2>6, <2>7, <3>1, <3>2, OrderConcat
  <2>14. ASSUME NEW x, RiskAdmin \notin c.facts
         PROVE  Preceded(b, ConfigureReserves(x), AddRiskAdmin)
    <3>1. Preceded(F, ConfigureReserves(x), AddRiskAdmin) /\ Preceded(D, ConfigureReserves(x), AddRiskAdmin)
      BY <2>12, OrderVacuous
    <3>2. Preceded(I, ConfigureReserves(x), AddRiskAdmin)
      BY <2>3, <2>14
    <3>3. Preceded(IF_, ConfigureReserves(x), AddRiskAdmin)
      BY <2>5, <2>6, <3>1, <3>2, OrderConcat
    <3> QED BY <2>5, <2>6, <2>7, <3>1, <3>3, OrderConcat
  <2>15. ASSUME NEW x
         PROVE  Followed(b, InitReserves(x), Set("ceiling", x))
    <3>1. Followed(D, InitReserves(x), Set("ceiling", x))
      BY <2>12, OrderVacuous
    <3>2. Followed(IF_, InitReserves(x), Set("ceiling", x)) \/ Set("ceiling", x) \in Items(D)
      <4>1. CASE x = r
        BY <2>2, <4>1
      <4>2. CASE x # r
        <5>1. InitReserves(x) \notin Items(IF_)
          BY <2>3, <2>7, <2>9, <2>12, <4>2, ListingOrder
        <5> QED BY <5>1, OrderVacuous
      <4> QED BY <4>1, <4>2
    <3> QED BY <2>5, <2>6, <2>7, <3>1, <3>2, OrderConcat
  <2>16. Fine(b, c, R)
    BY <2>10, <2>11, <2>13, <2>14, <2>15 DEF Fine, Configures
  <2> QED BY <2>16 DEF b, IF_, I, F, D, IsolatedReserve
<1> QED BY <1>1, <1>2

-----------------------------------------------------------------------------
(* What has happened once a batch has run *)

LEMMA CallRuns ==
  ASSUME NEW b, Decent(b), NEW x, World(x), NEW y, Runs(b, x, y), NEW call \in Items(b)
  PROVE  \E u : /\ World(u) /\ Grown(x, u) /\ Grown(u, y)
                /\ Works(call, u) \/ call.soft
                /\ Works(call, u) => \A f \in call.gets : Lasting(f) => f \in y.facts
<1>1. PICK h : h[0] = x /\ h[Len(b)] = y /\ IsPath(b, h)
  BY DEF Runs
<1>2. /\ Len(b) \in Nat
      /\ \A j \in 0..Len(b) : World(h[j]) /\ \A i \in 0..j : Grown(h[i], h[j])
  BY <1>1, PathKeeps
<1>3. PICK j \in 1..Len(b) : b[j] = call
  BY DEF Items
<1>4. j - 1 \in 0..Len(b) /\ Len(b) \in 0..Len(b) /\ 0 \in 0..(j-1) /\ j - 1 \in 0..Len(b) /\ Len(b) \in j..Len(b)
  BY <1>2
<1>5. World(h[j - 1]) /\ Grown(x, h[j - 1]) /\ Grown(h[j - 1], y)
  BY <1>1, <1>2, <1>4
<1>6. Works(call, h[j - 1]) \/ call.soft
  BY <1>1, <1>3 DEF IsPath, Step
<1>7. Works(call, h[j - 1]) => \A f \in call.gets : Lasting(f) => f \in y.facts
  BY <1>1, <1>3, <1>4, PathCall
<1> QED BY <1>5, <1>6, <1>7

\* A root call of a batch that went through has worked.
LEMMA RootRuns ==
  ASSUME NEW b, Decent(b), NEW x, World(x), NEW y, Runs(b, x, y),
         NEW call \in Items(b), call.soft = FALSE
  PROVE  /\ \A f \in call.gets : Lasting(f) => f \in y.facts
         /\ \A f \in call.bans : Lasting(f) => f \notin x.facts
<1>1. PICK u : /\ World(u) /\ Grown(x, u) /\ Works(call, u)
               /\ \A f \in call.gets : Lasting(f) => f \in y.facts
  BY CallRuns
<1> QED BY <1>1 DEF Works, Grown

\* A dispatched call has worked if it only asks for what there was.
LEMMA SimpleRuns ==
  ASSUME NEW b, Decent(b), NEW x, World(x), NEW y, Runs(b, x, y),
         NEW call \in Items(b), Simple(call),
         \A f \in call.needs : f \in x.facts /\ Lasting(f)
  PROVE  \A f \in call.gets : Lasting(f) => f \in y.facts
<1>1. PICK u : /\ World(u) /\ Grown(x, u)
               /\ Works(call, u) => \A f \in call.gets : Lasting(f) => f \in y.facts
  BY CallRuns
<1>2. call.needs \subseteq u.facts
  BY <1>1 DEF Grown
<1> QED BY <1>1, <1>2, SimpleWorks DEF World

LEMMA SetRuns ==
  ASSUME NEW b, Decent(b), NEW x, World(x), NEW y, Runs(b, x, y),
         NEW s \in Settings, NEW r, Set(s, r) \in Items(b), Listed(r) \in x.facts
  PROVE  Follows(s, r) \in y.facts
<1> DEFINE call == Set(s, r)
<1>1. Simple(call) /\ call.needs = {Listed(r)} /\ Follows(s, r) \in call.gets
  BY DEF Simple, Set, aaveManagerCall, Call
<1>2. Lasting(Listed(r)) /\ Lasting(Follows(s, r))
  BY SettingLasts DEF Lasting, Listed
<1> HIDE DEF call
<1>3. call \in Items(b)
  BY DEF call
<1> QED BY <1>1, <1>2, <1>3, SimpleRuns

LEMMA IdleDecent ==
  ASSUME NEW b, Idle(b)
  PROVE  Decent(b)
  BY DEF Idle, IdleCall, Decent

\* A batch that lists nothing leaves the nonce alone.
Listless(b) == Decent(b) /\ \A call \in Items(b) : call.lists = {}
LEMMA ListlessRuns ==
  ASSUME NEW b, Listless(b), NEW x, World(x), NEW y, Runs(b, x, y)
  PROVE  /\ World(y) /\ Grown(x, y)
         /\ \A r : Listed(r) \in y.facts => Listed(r) \in x.facts
         /\ y.nonce = x.nonce
<1>1. Decent(b)
  BY DEF Listless
<1>2. PICK h : h[0] = x /\ h[Len(b)] = y /\ IsPath(b, h)
  BY DEF Runs
<1>3. /\ Len(b) \in Nat
      /\ \A n \in 0..Len(b) : World(h[n])
  BY <1>1, <1>2, PathKeeps
<1> DEFINE T == {n \in Nat : n <= Len(b) => h[n].nonce = x.nonce}
<1>4. 0 \in T
  BY <1>2
<1>5. \A n \in Nat : n \in T => n + 1 \in T
  <2> SUFFICES ASSUME NEW n \in Nat, n \in T, n + 1 <= Len(b)
               PROVE  h[n + 1].nonce = x.nonce
    <3>1. \A n \in Nat : n + 1 \in Nat
      OBVIOUS
    <3> QED BY <3>1, Zenon
  <2>1. n + 1 \in 1..Len(b) /\ (n + 1) - 1 = n /\ n <= Len(b) /\ n \in 0..Len(b)
    BY <1>3
  <2>2. World(h[n]) /\ Tidy(b[n + 1]) /\ b[n + 1].lists = {}
    BY <1>3, <2>1 DEF Listless, Decent, Items
  <2>3. IF Works(b[n + 1], h[n]) THEN h[n + 1] = Done(b[n + 1], h[n])
        ELSE h[n + 1] = Missed(b[n + 1], h[n])
    BY <1>2, <2>1 DEF IsPath, Step
  <2>4. h[n].nonce = x.nonce
    BY <2>1
  <2>5. CASE Works(b[n + 1], h[n])
    BY <2>2, <2>3, <2>4, <2>5, DoneKinds
  <2>6. CASE ~Works(b[n + 1], h[n])
    BY <2>2, <2>3, <2>4, <2>6, MissedWorld
  <2> QED BY <2>5, <2>6
<1>6. y.nonce = x.nonce
  <2> HIDE DEF T
  <2>1. Nat \subseteq T
    BY <1>4, <1>5, NatSetInduction
  <2> QED BY <1>2, <1>3, <2>1 DEF T
<1>7. World(y) /\ Grown(x, y)
  BY <1>1, RunsKeep
<1>8. \A r : Listed(r)[1] = "listed"
  BY DEF Listed
<1> QED BY <1>6, <1>7, <1>8 DEF Grown

LEMMA IdleRuns ==
  ASSUME NEW b, Idle(b), NEW x, World(x), NEW y, Runs(b, x, y)
  PROVE  /\ World(y) /\ Grown(x, y)
         /\ \A r : Listed(r) \in y.facts => Listed(r) \in x.facts
         /\ y.nonce = x.nonce
<1>1. Listless(b)
  BY IdleDecent DEF Idle, IdleCall, Listless
<1> QED BY <1>1, ListlessRuns

\* A listing that works.
LEMMA ListCallRuns ==
  ASSUME NEW x, World(x), NEW r, NEW y, Runs(<< InitReserves(r) >>, x, y),
         Listed(r) \notin x.facts, Registered(r) \in x.facts
  PROVE  /\ World(y) /\ Grown(x, y)
         /\ y.nonce = x.nonce + 3
         /\ AToken(r, x.nonce) \in y.facts
         /\ \A q : q # r /\ Listed(q) \in y.facts => Listed(q) \in x.facts
<1> DEFINE call == InitReserves(r)
           b == << call >>
<1>1. PICK h : h[0] = x /\ h[Len(b)] = y /\ IsPath(b, h)
  BY DEF Runs
<1>2. Len(b) = 1 /\ b[1] = call
  <2> HIDE DEF call
  <2> QED OBVIOUS
<1>3. Step(call, x, y)
  <2>1. 1 \in 1..Len(b) /\ 1 - 1 = 0
    BY <1>2
  <2> QED BY <1>1, <1>2, <2>1 DEF IsPath
<1>4. /\ call.needs = {Registered(r)} /\ call.bans = {Listed(r)} /\ call.lists = {r}
      /\ call.pairs = {} /\ call.hops = {} /\ call.site = {} /\ call.code = {} /\ call.farm = 0
  BY InitReservesFields
<1>5. Tidy(call) /\ Honest(call)
  BY ListingCalls
<1> HIDE DEF call, b
<1>6. Works(call, x)
  BY <1>4 DEF Works, World, IsChain
<1>7. y = Done(call, x)
  BY <1>3, <1>6 DEF Step
<1>8. World(y) /\ Grown(x, y)
  BY <1>5, <1>6, <1>7, DoneChain, DoneSane, DoneEarned, DoneGrown DEF World
<1> QED BY <1>4, <1>5, <1>6, <1>7, <1>8, DoneKinds

LEMMA ListRuns ==
  ASSUME NEW c, Sane(c), NEW x, World(x), Grown(c, x), NEW r, Configured(r), r \notin Unborrowed,
         NEW y, Runs(InitReserve(c, r), x, y), Listed(r) \notin x.facts, Registered(r) \in x.facts
  PROVE  /\ World(y) /\ Grown(x, y)
         /\ y.nonce = x.nonce + 3
         /\ AToken(r, x.nonce) \in y.facts
         /\ \A q : q # r /\ Listed(q) \in y.facts => Listed(q) \in x.facts
<1> DEFINE A == << SetAssetSources(r) >>
           I == << InitReserves(r) >>
           C == << ConfigureReserves(r) >>
           D == If(RiskAdmin \notin c.facts, << AddRiskAdmin >>)
           DC == D \o C
           K == If(Collateral(r) \notin c.facts /\ r \notin Unborrowed, DC)
           F == << Set("fee", r) >>
           AI == A \o I
           AIK == AI \o K
           b == AIK \o F
<1>1. Listed(r) \notin c.facts
  BY DEF Grown, Lasting, Listed
<1>2. Runs(b, x, y)
  <2>1. InitReserve(c, r) = b
    BY <1>1 DEF InitReserve, If
  <2> HIDE DEF b
  <2> QED BY <2>1
<1>3. Listless(A) /\ Listless(F) /\ Listless(D) /\ Listless(<< >>)
  <2>1. Idle(A) /\ Idle(F) /\ Idle(D) /\ Idle(<< >>)
    BY SetAssetSourcesPlain, SetPlain, AddRiskAdminPlain, PlainIdle, IdleRow1, IdleEmpty, IfIdle DEF Settings
  <2> HIDE DEF A, F, D
  <2> QED BY <2>1, IdleDecent DEF Idle, IdleCall, Listless
<1>4. Listless(C)
  <2>1. IsBatch(C) /\ Items(C) = {ConfigureReserves(r)}
    BY BatchRow1
  <2> HIDE DEF C
  <2> QED BY <2>1, ListingCalls, ConfigureReservesFields DEF Listless, Decent
<1>5. IsBatch(I)
  BY BatchRow1
<1> HIDE DEF C, D
<1>6. Listless(DC)
  <2>1. IsBatch(DC) /\ Items(DC) = Items(D) \cup Items(C)
    BY <1>3, <1>4, ConcatItems DEF Listless, Decent
  <2> HIDE DEF DC
  <2> QED BY <1>3, <1>4, <2>1 DEF Listless, Decent
<1> HIDE DEF DC
<1>7. Listless(K)
  BY <1>3, <1>6 DEF If
<1> HIDE DEF A, I, F, K
<1>8. IsBatch(A) /\ IsBatch(K) /\ IsBatch(F)
  BY <1>3, <1>7 DEF Listless, Decent
<1>9. IsBatch(AI)
  BY <1>5, <1>8, ConcatItems
<1> HIDE DEF AI
<1>10. IsBatch(AIK)
  BY <1>8, <1>9, ConcatItems
<1> HIDE DEF AIK
<1>11. PICK x3 : Runs(AIK, x, x3) /\ Runs(F, x3, y)
  BY <1>2, <1>8, <1>10, RunsConcat
<1>12. PICK x2 : Runs(AI, x, x2) /\ Runs(K, x2, x3)
  BY <1>8, <1>9, <1>11, RunsConcat DEF AIK
<1>13. PICK x1 : Runs(A, x, x1) /\ Runs(I, x1, x2)
  BY <1>5, <1>8, <1>12, RunsConcat DEF AI
<1>14. /\ World(x1) /\ Grown(x, x1) /\ x1.nonce = x.nonce
       /\ \A q : Listed(q) \in x1.facts => Listed(q) \in x.facts
  BY <1>3, <1>13, ListlessRuns
<1>15. Registered(r) \in x1.facts /\ Listed(r) \notin x1.facts
  <2>1. Lasting(Registered(r))
    BY DEF Lasting, Registered
  <2> QED BY <1>14, <2>1 DEF Grown
<1>16. /\ World(x2) /\ Grown(x1, x2) /\ x2.nonce = x.nonce + 3
       /\ AToken(r, x.nonce) \in x2.facts
       /\ \A q : q # r /\ Listed(q) \in x2.facts => Listed(q) \in x1.facts
  BY <1>13, <1>14, <1>15, ListCallRuns DEF I
<1>17. /\ World(x3) /\ Grown(x2, x3) /\ x3.nonce = x2.nonce
       /\ \A q : Listed(q) \in x3.facts => Listed(q) \in x2.facts
  BY <1>7, <1>12, <1>16, ListlessRuns
<1>18. /\ World(y) /\ Grown(x3, y) /\ y.nonce = x3.nonce
       /\ \A q : Listed(q) \in y.facts => Listed(q) \in x3.facts
  BY <1>3, <1>11, <1>17, ListlessRuns
<1>19. Grown(x2, y) /\ Grown(x, x2) /\ Grown(x, y)
  BY <1>14, <1>16, <1>17, <1>18, GrownTransitive DEF World
<1>20. AToken(r, x.nonce) \in y.facts
  <2>1. Lasting(AToken(r, x.nonce))
    BY DEF Lasting, AToken
  <2> QED BY <1>16, <1>19, <2>1 DEF Grown
<1> QED BY <1>14, <1>16, <1>17, <1>18, <1>19, <1>20

-----------------------------------------------------------------------------
(* Where the tokens go.  A batch that was built from c lays the tokens of M, *)
(* pairs of a reserve and a distance from the nonce, and moves on by d, if   *)
(* nobody has listed the reserves meanwhile and their assets are there; the *)
(* batch sees to those in G itself.                                          *)

Lays(b, c, M, d, G) ==
  /\ Decent(b)
  /\ \A x, y :
       /\ World(x) /\ Grown(c, x) /\ Runs(b, x, y)
       /\ \A m \in M : Listed(m[1]) \notin x.facts /\ (m[1] \in G \/ Registered(m[1]) \in x.facts)
       => /\ y.nonce = x.nonce + d
          /\ \A m \in M : AToken(m[1], x.nonce + m[2]) \in y.facts
          /\ \A q : Listed(q) \in y.facts => Listed(q) \in x.facts \/ \E m \in M : m[1] = q

LEMMA DecentConcat ==
  ASSUME NEW s, Decent(s), NEW t, Decent(t)
  PROVE  Decent(s \o t)
<1> DEFINE b == s \o t
<1>1. IsBatch(b) /\ Items(b) = Items(s) \cup Items(t)
  BY ConcatItems DEF Decent
<1> HIDE DEF b
<1>2. Decent(b)
  BY <1>1 DEF Decent
<1> QED BY <1>2 DEF b

LEMMA ListedLasts ==
  \A r, n : Lasting(Registered(r)) /\ Lasting(Listed(r)) /\ Lasting(AToken(r, n))
  BY DEF Lasting, Registered, Listed, AToken

LEMMA LaysOne ==
  ASSUME NEW c, Sane(c), NEW r, Configured(r), r \notin Unborrowed
  PROVE  Lays(InitReserve(c, r), c, {<<r, 0>>}, 3, {})
<1> DEFINE b == InitReserve(c, r)
           M == {<<r, 0>>}
<1>1. Decent(b)
  BY InitReserveOrder
<1> SUFFICES ASSUME NEW x, NEW y, World(x), Grown(c, x), Runs(b, x, y),
                    \A m \in M : Listed(m[1]) \notin x.facts /\ (m[1] \in {} \/ Registered(m[1]) \in x.facts)
             PROVE  /\ y.nonce = x.nonce + 3
                    /\ \A m \in M : AToken(m[1], x.nonce + m[2]) \in y.facts
                    /\ \A q : Listed(q) \in y.facts => Listed(q) \in x.facts \/ \E m \in M : m[1] = q
  BY <1>1 DEF Lays
<1>2. Listed(r) \notin x.facts /\ Registered(r) \in x.facts
  OBVIOUS
<1>3. /\ y.nonce = x.nonce + 3
      /\ AToken(r, x.nonce) \in y.facts
      /\ \A q : q # r /\ Listed(q) \in y.facts => Listed(q) \in x.facts
  BY <1>2, ListRuns
<1>4. x.nonce + 0 = x.nonce
  BY DEF World, IsChain
<1> QED BY <1>3, <1>4

LEMMA LaysRight ==
  ASSUME NEW b, NEW c, NEW M, NEW d, NEW G, Lays(b, c, M, d, G), NEW s, Idle(s)
  PROVE  Lays(b \o s, c, M, d, G)
<1> DEFINE bs == b \o s
<1>1. Decent(b) /\ Decent(s) /\ IsBatch(b) /\ IsBatch(s)
  BY IdleDecent DEF Lays, Decent
<1>2. Decent(bs)
  BY <1>1, DecentConcat
<1>3. ASSUME NEW x, NEW z, World(x), Grown(c, x), Runs(bs, x, z),
             \A m \in M : Listed(m[1]) \notin x.facts /\ (m[1] \in G \/ Registered(m[1]) \in x.facts)
      PROVE  /\ z.nonce = x.nonce + d
             /\ \A m \in M : AToken(m[1], x.nonce + m[2]) \in z.facts
             /\ \A q : Listed(q) \in z.facts => Listed(q) \in x.facts \/ \E m \in M : m[1] = q
  <2>1. PICK y : Runs(b, x, y) /\ Runs(s, y, z)
    BY <1>1, <1>3, RunsConcat
  <2>2. /\ y.nonce = x.nonce + d
        /\ \A m \in M : AToken(m[1], x.nonce + m[2]) \in y.facts
        /\ \A q : Listed(q) \in y.facts => Listed(q) \in x.facts \/ \E m \in M : m[1] = q
    BY <1>3, <2>1 DEF Lays
  <2>3. World(y)
    BY <1>1, <1>3, <2>1, RunsKeep
  <2>4. /\ Grown(y, z) /\ z.nonce = y.nonce
        /\ \A q : Listed(q) \in z.facts => Listed(q) \in y.facts
    BY <2>1, <2>3, IdleRuns
  <2>5. \A m \in M : AToken(m[1], x.nonce + m[2]) \in z.facts
    BY <2>2, <2>4, ListedLasts DEF Grown
  <2> QED BY <2>2, <2>4, <2>5
<1> HIDE DEF bs
<1>4. Lays(bs, c, M, d, G)
  BY <1>2, <1>3 DEF Lays
<1> QED BY <1>4 DEF bs

LEMMA LaysLeft ==
  ASSUME NEW b, NEW c, World(c), NEW M, NEW d, Lays(b, c, M, d, {}), NEW s, Idle(s), NEW G,
         \A g \in G : \/ Registered(g) \in c.facts
                      \/ \E call \in Items(s) : call.soft = FALSE /\ Registered(g) \in call.gets
  PROVE  Lays(s \o b, c, M, d, G)
<1> DEFINE sb == s \o b
<1>1. Decent(b) /\ Decent(s) /\ IsBatch(b) /\ IsBatch(s)
  BY IdleDecent DEF Lays, Decent
<1>2. Decent(sb)
  BY <1>1, DecentConcat
<1>3. ASSUME NEW x, NEW z, World(x), Grown(c, x), Runs(sb, x, z),
             \A m \in M : Listed(m[1]) \notin x.facts /\ (m[1] \in G \/ Registered(m[1]) \in x.facts)
      PROVE  /\ z.nonce = x.nonce + d
             /\ \A m \in M : AToken(m[1], x.nonce + m[2]) \in z.facts
             /\ \A q : Listed(q) \in z.facts => Listed(q) \in x.facts \/ \E m \in M : m[1] = q
  <2>1. PICK y : Runs(s, x, y) /\ Runs(b, y, z)
    BY <1>1, <1>3, RunsConcat
  <2>2. /\ World(y) /\ Grown(x, y) /\ y.nonce = x.nonce
        /\ \A q : Listed(q) \in y.facts => Listed(q) \in x.facts
    BY <1>3, <2>1, IdleRuns
  <2>3. Grown(c, y)
    BY <1>3, <2>2, GrownTransitive DEF World
  <2>4. ASSUME NEW m \in M
        PROVE  Registered(m[1]) \in y.facts
    <3>1. Lasting(Registered(m[1]))
      BY ListedLasts
    <3>2. CASE Registered(m[1]) \in x.facts
      BY <2>2, <3>1, <3>2 DEF Grown
    <3>3. CASE m[1] \in G
      <4>1. CASE Registered(m[1]) \in c.facts
        BY <2>3, <3>1, <4>1 DEF Grown
      <4>2. CASE \E call \in Items(s) : call.soft = FALSE /\ Registered(m[1]) \in call.gets
        <5>1. PICK call \in Items(s) : call.soft = FALSE /\ Registered(m[1]) \in call.gets
          BY <4>2
        <5> QED BY <1>1, <1>3, <2>1, <3>1, <5>1, RootRuns
      <4> QED BY <3>3, <4>1, <4>2
    <3> QED BY <1>3, <3>2, <3>3
  <2>5. \A m \in M : Listed(m[1]) \notin y.facts /\ (m[1] \in {} \/ Registered(m[1]) \in y.facts)
    BY <1>3, <2>2, <2>4
  <2>6. /\ z.nonce = y.nonce + d
        /\ \A m \in M : AToken(m[1], y.nonce + m[2]) \in z.facts
        /\ \A q : Listed(q) \in z.facts => Listed(q) \in y.facts \/ \E m \in M : m[1] = q
    BY <2>1, <2>2, <2>3, <2>5 DEF Lays
  <2> QED BY <2>2, <2>6
<1> HIDE DEF sb
<1>4. Lays(sb, c, M, d, G)
  BY <1>2, <1>3 DEF Lays
<1> QED BY <1>4 DEF sb

LEMMA LaysConcat ==
  ASSUME NEW c, World(c), NEW s, NEW M, NEW d \in Nat, Lays(s, c, M, d, {}),
         NEW t, NEW N, NEW e \in Nat, Lays(t, c, N, e, {}),
         \A m \in M, n \in N : m[1] # n[1],
         \A m \in M \cup N : m[2] \in Nat,
         NEW K, \A m \in M : \E k \in K : k[1] = m[1],
         \A n \in N : \E k \in K : k[1] = n[1],
         \A k \in K : \/ k \in M
                      \/ \E n \in N : k[1] = n[1] /\ k[2] = d + n[2]
  PROVE  Lays(s \o t, c, K, d + e, {})
<1> DEFINE b == s \o t
<1>1. Decent(s) /\ Decent(t) /\ IsBatch(s) /\ IsBatch(t)
  BY DEF Lays, Decent
<1>2. Decent(b)
  BY <1>1, DecentConcat
<1>3. ASSUME NEW x, NEW z, World(x), Grown(c, x), Runs(b, x, z),
             \A m \in K : Listed(m[1]) \notin x.facts /\ (m[1] \in {} \/ Registered(m[1]) \in x.facts)
      PROVE  /\ z.nonce = x.nonce + (d + e)
             /\ \A m \in K : AToken(m[1], x.nonce + m[2]) \in z.facts
             /\ \A q : Listed(q) \in z.facts => Listed(q) \in x.facts \/ \E m \in K : m[1] = q
  <2>1. PICK y : Runs(s, x, y) /\ Runs(t, y, z)
    BY <1>1, <1>3, RunsConcat
  <2>2. World(y) /\ Grown(x, y)
    BY <1>1, <1>3, <2>1, RunsKeep
  <2>3. World(z) /\ Grown(y, z) /\ Grown(c, y)
    BY <1>1, <1>3, <2>1, <2>2, RunsKeep, GrownTransitive DEF World
  <2>4. \A m \in M \cup N : Listed(m[1]) \notin x.facts /\ Registered(m[1]) \in x.facts
    BY <1>3
  <2>5. /\ y.nonce = x.nonce + d
        /\ \A m \in M : AToken(m[1], x.nonce + m[2]) \in y.facts
        /\ \A q : Listed(q) \in y.facts => Listed(q) \in x.facts \/ \E m \in M : m[1] = q
    BY <1>3, <2>1, <2>4 DEF Lays
  <2>6. \A n \in N : Listed(n[1]) \notin y.facts /\ Registered(n[1]) \in y.facts
    BY <2>2, <2>4, <2>5, ListedLasts DEF Grown
  <2>7. /\ z.nonce = y.nonce + e
        /\ \A n \in N : AToken(n[1], y.nonce + n[2]) \in z.facts
        /\ \A q : Listed(q) \in z.facts => Listed(q) \in y.facts \/ \E n \in N : n[1] = q
    BY <2>1, <2>2, <2>3, <2>6 DEF Lays
  <2>8. x.nonce \in Nat
    BY <1>3 DEF World, IsChain
  <2>9. ASSUME NEW k \in K
        PROVE  AToken(k[1], x.nonce + k[2]) \in z.facts
    <3>1. CASE k \in M
      BY <2>3, <2>5, <3>1, ListedLasts DEF Grown
    <3>2. CASE \E n \in N : k[1] = n[1] /\ k[2] = d + n[2]
      <4>1. PICK n \in N : k[1] = n[1] /\ k[2] = d + n[2]
        BY <3>2
      <4>2. y.nonce + n[2] = x.nonce + k[2]
        BY <2>5, <2>8, <4>1
      <4> QED BY <2>7, <4>1, <4>2
    <3> QED BY <3>1, <3>2
  <2>10. z.nonce = x.nonce + (d + e)
    BY <2>5, <2>7, <2>8
  <2>11. \A q : Listed(q) \in z.facts => Listed(q) \in x.facts \/ \E m \in K : m[1] = q
    BY <2>5, <2>7
  <2> QED BY <2>9, <2>10, <2>11
<1> HIDE DEF b
<1>4. Lays(b, c, K, d + e, {})
  BY <1>2, <1>3 DEF Lays
<1> QED BY <1>4 DEF b

LEMMA LaysTwo ==
  ASSUME NEW c, World(c), NEW s, NEW r, Lays(s, c, {<<r, 0>>}, 3, {}),
         NEW t, NEW q, q # r, Lays(t, c, {<<q, 0>>}, 3, {})
  PROVE  Lays(s \o t, c, {<<r, 0>>, <<q, 3>>}, 6, {})
<1> DEFINE M == {<<r, 0>>}
           N == {<<q, 0>>}
           K == {<<r, 0>>, <<q, 3>>}
<1>1. /\ \A m \in M, n \in N : m[1] # n[1]
      /\ \A m \in M \cup N : m[2] \in Nat
      /\ \A m \in M : \E k \in K : k[1] = m[1]
      /\ \A n \in N : \E k \in K : k[1] = n[1]
  OBVIOUS
<1>2. \A k \in K : k \in M \/ \E n \in N : k[1] = n[1] /\ k[2] = 3 + n[2]
  OBVIOUS
<1>3. Lays(s, c, M, 3, {}) /\ Lays(t, c, N, 3, {}) /\ 3 \in Nat /\ 3 + 3 = 6
  OBVIOUS
<1> HIDE DEF M, N, K
<1>4. Lays(s \o t, c, K, 6, {})
  BY <1>1, <1>2, <1>3, LaysConcat
<1> QED BY <1>4 DEF K

LEMMA ReserveLays ==
  ASSUME NEW c, World(c), NEW r \in NewReserves
  PROVE  Lays(InitReserve(c, r), c, {<<r, 0>>}, 3, {})
  BY ConfigAssumption, LaysOne DEF World

\* The calls of a batch made of several.
Has(b, call) == IsBatch(b) /\ call \in Items(b)
LEMMA HasConcat ==
  ASSUME NEW s, NEW t, NEW call
  PROVE  /\ Has(s, call) /\ Idle(t) => Has(s \o t, call)
         /\ Decent(s) /\ Has(t, call) => Has(s \o t, call)
<1> DEFINE b == s \o t
<1>1. IsBatch(s) /\ IsBatch(t) => IsBatch(b) /\ Items(b) = Items(s) \cup Items(t)
  BY ConcatItems
<1> HIDE DEF b
<1>2. (Has(s, call) /\ Idle(t) => Has(b, call)) /\ (Decent(s) /\ Has(t, call) => Has(b, call))
  BY <1>1 DEF Has, Idle, Decent
<1> QED BY <1>2 DEF b

LEMMA HasLeft ==
  ASSUME NEW s, NEW call, Has(s, call), NEW t, Decent(t)
  PROVE  Has(s \o t, call)
<1> DEFINE b == s \o t
<1>1. IsBatch(b) /\ Items(b) = Items(s) \cup Items(t)
  BY ConcatItems DEF Decent, Has
<1> HIDE DEF b
<1>2. Has(b, call)
  BY <1>1 DEF Has
<1> QED BY <1>2 DEF b

LEMMA LaysDecent ==
  ASSUME NEW b, NEW c, NEW M, NEW d, NEW G, Lays(b, c, M, d, G)
  PROVE  Decent(b)
  BY DEF Lays

LEMMA RootGets ==
  /\ \A id : Register(id).soft = FALSE /\ Registered(id) \in Register(id).gets
  /\ \A id, n : RegisterAt(id, n).soft = FALSE /\ Registered(id) \in RegisterAt(id, n).gets
                /\ Located(id, n) \in RegisterAt(id, n).gets /\ Registered(id) \in RegisterAt(id, n).bans
  BY DEF Register, RegisterAt, Call

-----------------------------------------------------------------------------
(* Plans *)

PlanFine(plan, c, R) ==
  /\ Fine(plan.now, c, R)
  /\ IsBatch(plan.later)
  /\ \A b \in Items(plan.later) : Idle(b)

LEMMA NowFine ==
  ASSUME NEW b, NEW c, NEW R, Fine(b, c, R)
  PROVE  PlanFine(Now(b), c, R)
  BY BatchEmpty DEF PlanFine, Now, Proposal

LEMMA NowCalls ==
  ASSUME NEW b
  PROVE  Now(b).now = b
  BY DEF Now, Proposal

LEMMA NowIdle ==
  ASSUME NEW b, Idle(b), NEW c, NEW R
  PROVE  PlanFine(Now(b), c, R)
  BY IdleFine, NowFine

LEMMA IdleCalls ==
  /\ \A id : /\ IdleCall(Register(id)) /\ IdleCall(AddCurrency(id)) /\ IdleCall(SetAssetSources(id))
             /\ IdleCall(Schedule("dca", id)) /\ IdleCall(AddToken(id))
  /\ \A id, n : IdleCall(RegisterAt(id, n)) /\ IdleCall(CreatePool(id, n))
                /\ IdleCall(CreateYieldFarm(n, id)) /\ IdleCall(SetAssetEModeCategory(id, n))
  /\ \A needs, u, a : IdleCall(Route(needs, u, a)) /\ IdleCall(Transfer(needs, u, a))
  /\ \A name : IdleCall(SetEModeCategory(name))
  /\ IdleCall(CreateGlobalFarm)
  BY PlainIdle, RegisterPlain, AddCurrencyPlain, SetAssetSourcesPlain, SchedulePlain, AddTokenIdle,
     RegisterAtPlain, CreatePoolPlain, CreateYieldFarmPlain, SetAssetEModeCategoryPlain, RoutePlain,
     TransferIdle, CreateGlobalFarmPlain, SetEModeCategoryPlain

LEMMA ReserveFine ==
  ASSUME NEW c, World(c), NEW r \in NewReserves, r \notin {"PRIME", "APYUSD"}, NEW R, r \in R
  PROVE  Fine(InitReserve(c, r), c, R)
  BY ConfigAssumption, InitReserveFine DEF World

LEMMA WrappedFine ==
  ASSUME NEW c, World(c), NEW r \in NewReserves, r \notin {"PRIME", "APYUSD"}, NEW a, NEW n,
         NEW routing, Idle(routing), Sells(r, a)
  PROVE  /\ PlanFine(Wrapped(c, r, a, n, routing), c, {r})
         /\ Lays(Wrapped(c, r, a, n, routing).now, c, {<<r, 0>>}, 3, {})
         /\ Has(Wrapped(c, r, a, n, routing).now, RegisterAt(a, n))
<1> DEFINE I == InitReserve(c, r)
           T == << RegisterAt(a, n), AddCurrency(a), Route({InOmnipool(r)}, r, a) >>
           S == << SellAll("treasury", r, a) >>
<1>1. Fine(I, c, {r})
  BY ReserveFine
<1>2. Idle(T)
  BY IdleCalls, IdleRow3
<1>3. Idle(S)
  BY SellIdle, IdleRow1
<1>5. Lays(I, c, {<<r, 0>>}, 3, {}) /\ Has(T, RegisterAt(a, n))
  BY ReserveLays, BatchRow3 DEF Has
<1>4. LET b == I \o T \o routing \o S IN
      Fine(b, c, {r}) /\ Lays(b, c, {<<r, 0>>}, 3, {}) /\ Has(b, RegisterAt(a, n))
  <2> DEFINE IT == I \o T
             b == IT \o routing \o S
  <2> HIDE DEF I, T, S
  <2>1. Fine(IT, c, {r}) /\ Lays(IT, c, {<<r, 0>>}, 3, {}) /\ Has(IT, RegisterAt(a, n))
    BY <1>1, <1>2, <1>5, IdleFine, FineConcat, LaysRight, LaysDecent, HasConcat
  <2> HIDE DEF IT
  <2>2. Fine(b, c, {r}) /\ Lays(b, c, {<<r, 0>>}, 3, {}) /\ Has(b, RegisterAt(a, n))
    BY <1>3, <2>1, IdleFine, FineConcat, LaysRight, HasConcat
  <2> QED BY <2>2 DEF IT
<1> QED BY <1>4, NowFine, NowCalls DEF Wrapped

LEMMA SingleFine ==
  ASSUME NEW c, World(c), NEW n
  PROVE  /\ PlanFine(HypeMM(c), c, {"HYPE"})
         /\ PlanFine(ZecMM(c, n), c, {"ZEC"})
         /\ PlanFine(SpyMM(c, n), c, {"SPY"})
         /\ Lays(HypeMM(c).now, c, {<<"HYPE", 0>>}, 3, {}) /\ Has(HypeMM(c).now, RegisterAt("aHYPE", c.nonce))
         /\ Lays(ZecMM(c, n).now, c, {<<"ZEC", 0>>}, 3, {}) /\ Has(ZecMM(c, n).now, RegisterAt("aZEC", n))
         /\ Lays(SpyMM(c, n).now, c, {<<"SPY", 0>>}, 3, {}) /\ Has(SpyMM(c, n).now, RegisterAt("aSPY", n))
<1>1. \A a : Idle(UpdateRouting(a))
  <2> TAKE a
  <2>1. Plain([Call EXCEPT !.needs = {Registered(a)}, !.gets = {<<"ice", a>>}])
    BY ManagerPlain
  <2> QED BY <2>1, PlainIdle, IdleRow1 DEF UpdateRouting
<1>2. Sells("HYPE", "aHYPE") /\ Sells("ZEC", "aZEC") /\ Sells("SPY", "aSPY")
  BY GigaTokens DEF Sells
<1>3. {"HYPE", "ZEC", "SPY"} \subseteq NewReserves
  BY DEF NewReserves
<1> QED BY <1>1, <1>2, <1>3, IdleEmpty, WrappedFine DEF HypeMM, ZecMM, SpyMM

LEMMA SigilFine ==
  ASSUME NEW c, World(c)
  PROVE  /\ PlanFine(SigilLaunch(c), c, {"SIGIL"})
         /\ Lays(SigilLaunch(c).now, c, {<<"SIGIL", 0>>}, 3, {"SIGIL"})
         /\ Has(SigilLaunch(c).now, RegisterAt("aSIGIL", c.nonce))
<1> DEFINE m == [Call EXCEPT !.needs = {Registered("SIGIL")}, !.gets = {Holds("treasury", "SIGIL")}]
           A == << Register("SIGIL"), m >>
           I == InitReserve(c, "SIGIL")
           T == << RegisterAt("aSIGIL", c.nonce), Sell("treasury", "SIGIL", "aSIGIL") >>
<1>1. IdleCall(m)
  <2>1. /\ m.soft = FALSE /\ m.lists = {} /\ m.moves = {} /\ m.drops = {}
        /\ m.gets = {Holds("treasury", "SIGIL")}
    BY DEF Call
  <2> HIDE DEF m
  <2>2. Handing(m, "treasury", "SIGIL")
    BY <2>1, GigaTokens DEF Handing
  <2> QED BY <2>2, HandingIdle
<1>2. Idle(A)
  <2> HIDE DEF m
  <2> QED BY <1>1, IdleCalls, IdleRow2
<1>3. Fine(I, c, {"SIGIL"})
  BY ReserveFine DEF NewReserves
<1>4. Idle(T)
  <2>1. Sells("SIGIL", "aSIGIL")
    BY GigaTokens DEF Sells
  <2> QED BY <2>1, SellIdle, IdleCalls, IdleRow2
<1>5. Lays(I, c, {<<"SIGIL", 0>>}, 3, {}) /\ Has(T, RegisterAt("aSIGIL", c.nonce))
  BY ReserveLays, BatchRow2 DEF Has, NewReserves
<1>6. Register("SIGIL") \in Items(A)
  <2> HIDE DEF m
  <2> QED BY BatchRow2
<1> DEFINE G == {"SIGIL"}
           AI == A \o I
           b == AI \o T
<1>7. \A g \in G : \E call \in Items(A) : call.soft = FALSE /\ Registered(g) \in call.gets
  BY <1>6, RootGets
<1>8. SigilLaunch(c) = Now(b)
  BY DEF SigilLaunch
<1> HIDE DEF A, I, T, G
<1>9. Fine(AI, c, {"SIGIL"}) /\ Lays(AI, c, {<<"SIGIL", 0>>}, 3, G)
  BY <1>2, <1>3, <1>5, <1>7, IdleFine, FineConcat, LaysLeft
<1> HIDE DEF AI
<1>10. Fine(b, c, {"SIGIL"}) /\ Lays(b, c, {<<"SIGIL", 0>>}, 3, G) /\ Has(b, RegisterAt("aSIGIL", c.nonce))
  BY <1>4, <1>5, <1>9, IdleFine, FineConcat, LaysRight, LaysDecent, HasConcat
<1> QED BY <1>8, <1>10, NowFine, NowCalls DEF G

LEMMA TbtcFine ==
  ASSUME NEW c, World(c)
  PROVE  /\ PlanFine(TbtcProp(c), c, {"TBTC"})
         /\ PlanFine(PaxgProp(c), c, {"PAXG"})
         /\ Lays(TbtcProp(c).now, c, {<<"TBTC", 0>>}, 3, {}) /\ Has(TbtcProp(c).now, RegisterAt("atBTC", c.nonce))
         /\ Lays(PaxgProp(c).now, c, {<<"PAXG", 0>>}, 3, {}) /\ Has(PaxgProp(c).now, RegisterAt("apaxg", c.nonce))
<1> DEFINE E == Everything
           S1 == ReviewRateStrategies(c, E)
           S2 == ReviewReserveFactors(c, E)
           S3 == ReviewReserveConfigs(c)
           S4 == ReviewSupplyCaps(c, E)
           S5 == ReviewBorrowCaps(c, E)
           T(a) == << RegisterAt(a, c.nonce), AddCurrency(a) >>
           I(r) == InitReserve(c, r)
<1>1. Idle(S1) /\ Idle(S2) /\ Idle(S3) /\ Idle(S4) /\ Idle(S5)
  BY EverythingIdle
<1>2. \A a : Idle(T(a))
  BY IdleCalls, IdleRow2
<1>3. Fine(I("TBTC"), c, {"TBTC"}) /\ Fine(I("PAXG"), c, {"PAXG"})
  BY ReserveFine DEF NewReserves
<1>4. Lays(I("TBTC"), c, {<<"TBTC", 0>>}, 3, {}) /\ Lays(I("PAXG"), c, {<<"PAXG", 0>>}, 3, {})
  BY ReserveLays DEF NewReserves
<1>5. \A a : Has(T(a), RegisterAt(a, c.nonce))
  BY BatchRow2 DEF Has
<1>6. ASSUME NEW r, NEW a, Fine(I(r), c, {r}), Lays(I(r), c, {<<r, 0>>}, 3, {})
      PROVE  LET b == I(r) \o S1 \o S2 \o S3 \o S4 \o S5 \o T(a) IN
             Fine(b, c, {r}) /\ Lays(b, c, {<<r, 0>>}, 3, {}) /\ Has(b, RegisterAt(a, c.nonce))
  <2> DEFINE B == I(r) \o S1 \o S2 \o S3 \o S4 \o S5
             b == B \o T(a)
  <2> HIDE DEF S1, S2, S3, S4, S5, T, I
  <2>1. Fine(B, c, {r})
    BY <1>1, <1>6, IdleFine, FineConcat
  <2>2. Lays(B, c, {<<r, 0>>}, 3, {})
    BY <1>1, <1>6, LaysRight
  <2> HIDE DEF B
  <2>3. Fine(b, c, {r}) /\ Lays(b, c, {<<r, 0>>}, 3, {}) /\ Has(b, RegisterAt(a, c.nonce))
    BY <1>2, <1>5, <2>1, <2>2, IdleFine, FineConcat, LaysRight, LaysDecent, HasConcat
  <2> QED BY <2>3 DEF B
<1>7. LET b == I("TBTC") \o S1 \o S2 \o S3 \o S4 \o S5 \o T("atBTC") IN
      /\ TbtcProp(c) = Now(b)
      /\ Fine(b, c, {"TBTC"}) /\ Lays(b, c, {<<"TBTC", 0>>}, 3, {}) /\ Has(b, RegisterAt("atBTC", c.nonce))
  BY <1>3, <1>4, <1>6 DEF TbtcProp
<1>8. LET b == I("PAXG") \o S1 \o S2 \o S3 \o S4 \o S5 \o T("apaxg") IN
      /\ PaxgProp(c) = Now(b)
      /\ Fine(b, c, {"PAXG"}) /\ Lays(b, c, {<<"PAXG", 0>>}, 3, {}) /\ Has(b, RegisterAt("apaxg", c.nonce))
  BY <1>3, <1>4, <1>6 DEF PaxgProp
<1> HIDE DEF S1, S2, S3, S4, S5, T, I
<1> QED BY <1>7, <1>8, NowFine, NowCalls

LEMMA VdotFine ==
  ASSUME NEW c, World(c)
  PROVE  PlanFine(VdotProp(c), c, {"VDOT"})
<1> DEFINE I == InitReserve(c, "VDOT")
           S1 == ReviewRateStrategies(c, Everything)
           S2 == ReviewEMode(c, "StableEMode")
           S3 == ReviewEMode(c, "DotEMode")
           M == << SetAssetEModeCategory("VDOT", "DotEMode") >>
           S4 == ReviewReserveConfigs(c)
           S5 == ReviewSupplyCaps(c, Everything)
           S6 == ReviewBorrowCaps(c, Everything)
           n == CHOOSE n \in ATokensOf(c, "VDOT") : TRUE
           L == If(ATokensOf(c, "VDOT") # {}, Each(LAMBDA k : RegisterAt("avDOT", k), << n >>))
<1>1. Fine(I, c, {"VDOT"})
  BY ReserveFine DEF NewReserves
<1>2. Idle(S1) /\ Idle(S4) /\ Idle(S5) /\ Idle(S6)
  BY EverythingIdle
<1>3. Idle(S2) /\ Idle(S3)
  BY EModeIdle
<1>4. Idle(M)
  BY IdleCalls, IdleRow1
<1>5. Idle(L)
  <2>1. Each(LAMBDA k : RegisterAt("avDOT", k), << n >>) = << RegisterAt("avDOT", n) >>
    <3> HIDE DEF n
    <3> QED BY DEF Each
  <2> HIDE DEF n
  <2>2. Idle(<< RegisterAt("avDOT", n) >>)
    BY IdleCalls, IdleRow1
  <2> QED BY <2>1, <2>2, IfIdle
<1>6. Fine(I \o S1 \o S2 \o S3 \o M \o S4 \o S5 \o S6 \o L, c, {"VDOT"})
  <2> HIDE DEF I, S1, S2, S3, M, S4, S5, S6, L
  <2> QED BY <1>1, <1>2, <1>3, <1>4, <1>5, IdleFine, FineConcat
<1> QED BY <1>6, NowFine DEF VdotProp

LEMMA GigaSolFine ==
  ASSUME NEW c, World(c)
  PROVE  /\ PlanFine(GigaSolLaunch(c), c, {"2-POOL-GSOL", "SOL"})
         /\ Lays(GigaSolLaunch(c).now, c, {<<"2-POOL-GSOL", 0>>, <<"SOL", 3>>}, 6, {"2-POOL-GSOL"})
         /\ Has(GigaSolLaunch(c).now, RegisterAt("gSOL", c.nonce))
         /\ Has(GigaSolLaunch(c).now, RegisterAt("aSOL", c.nonce + 3))
         /\ Has(GigaSolLaunch(c).now, AddToken("gSOL"))
<1> DEFINE R == {"2-POOL-GSOL", "SOL"}
           A == GigaSolAssets(c)
           S1 == ReviewRateStrategies(c, Everything)
           I1 == InitReserve(c, "2-POOL-GSOL")
           I2 == InitReserve(c, "SOL")
           S2 == ReviewEMode(c, "SolEMode")
           M == << SetAssetEModeCategory("SOL", "SolEMode"), SetAssetEModeCategory("2-POOL-GSOL", "SolEMode") >>
           O == SetOraclePrice("JITOSOL_SOL")
           P == << CreatePool("2-POOL-GSOL", {"jitoSOL", "aSOL"}),
                   Sell("treasury", "SOL", "aSOL"),
                   Transfer("treasury", "omnipool", "aSOL"),
                   Transfer("treasury", "omnipool", "jitoSOL"),
                   AddLiquidity("omnipool", "2-POOL-GSOL", {"jitoSOL", "aSOL"}),
                   SellAll("omnipool", "2-POOL-GSOL", "gSOL") >>
           T == << AddToken("gSOL"), AddCurrency("gSOL"), AddCurrency("2-POOL-GSOL"),
                   CreateGlobalFarm, CreateYieldFarm(127, "gSOL") >>
<1>1. Idle(A)
  BY IdleCalls, IdleRow3 DEF GigaSolAssets
<1>2. Idle(S1) /\ Idle(S2) /\ Idle(O)
  BY EverythingIdle, EModeIdle, OraclePriceIdle
<1>3. Fine(I1, c, R) /\ Fine(I2, c, R)
  BY ReserveFine DEF NewReserves
<1>4. Idle(M)
  BY IdleCalls, IdleRow2
<1>5. Idle(P)
  <2>1. Sells("SOL", "aSOL") /\ Sells("2-POOL-GSOL", "gSOL")
    BY GigaTokens DEF Sells
  <2>2. IdleCall(AddLiquidity("omnipool", "2-POOL-GSOL", {"jitoSOL", "aSOL"}))
    BY GigaTokens, AddLiquidityIdle
  <2> QED BY <2>1, <2>2, SellIdle, IdleCalls, IdleRow6
<1>6. Idle(T)
  BY IdleCalls, IdleRow5
<1>7. Lays(I1, c, {<<"2-POOL-GSOL", 0>>}, 3, {}) /\ Lays(I2, c, {<<"SOL", 0>>}, 3, {})
  BY ReserveLays DEF NewReserves
<1>8. /\ Has(A, RegisterAt("gSOL", c.nonce)) /\ Has(A, RegisterAt("aSOL", c.nonce + 3))
      /\ Register("2-POOL-GSOL") \in Items(A)
  BY BatchRow3 DEF GigaSolAssets, Has
<1>9. Has(T, AddToken("gSOL"))
  BY BatchRow5 DEF Has
<1> DEFINE L == {<<"2-POOL-GSOL", 0>>, <<"SOL", 3>>}
           G == {"2-POOL-GSOL"}
           Q == O \o P
           SI == S1 \o I1
           MK == SI \o I2 \o S2 \o M
           b == A \o MK \o Q \o T
<1>10. GigaSolLaunch(c) = Now(b)
  BY DEF GigaSolLaunch, GigaSolMarket, GigaSolPool, GigaSolToken
<1>11. \A g \in G : \E call \in Items(A) : call.soft = FALSE /\ Registered(g) \in call.gets
  BY <1>8, RootGets
<1>12. Idle(Q)
  <2> HIDE DEF O, P
  <2> QED BY <1>2, <1>5, IdleConcat
<1> HIDE DEF R, A, S1, I1, I2, S2, M, O, P, T, Q, G
<1>13. Fine(SI, c, R) /\ Lays(SI, c, {<<"2-POOL-GSOL", 0>>}, 3, {})
  BY <1>2, <1>3, <1>7, IdleFine, FineConcat, LaysLeft
<1> HIDE DEF SI
<1>14. Fine(MK, c, R)
  BY <1>2, <1>3, <1>4, <1>13, IdleFine, FineConcat
<1>15. Lays(SI \o I2, c, L, 6, {})
  BY <1>7, <1>13, LaysTwo
<1>16. Lays(MK, c, L, 6, {})
  <2> HIDE DEF L
  <2> QED BY <1>2, <1>4, <1>15, LaysRight
<1> HIDE DEF L, MK
<1>17. Fine(b, c, R)
  BY <1>1, <1>6, <1>12, <1>14, IdleFine, FineConcat
<1>18. Lays(A \o MK, c, L, 6, G)
  BY <1>1, <1>11, <1>16, LaysLeft
<1>19. Lays(b, c, L, 6, G)
  BY <1>6, <1>12, <1>18, LaysRight
<1>20. /\ Has(A \o MK, RegisterAt("gSOL", c.nonce)) /\ Has(A \o MK, RegisterAt("aSOL", c.nonce + 3))
  <2>1. Decent(MK)
    BY <1>16, LaysDecent
  <2> QED BY <1>8, <2>1, HasLeft
<1>21. /\ Has(b, RegisterAt("gSOL", c.nonce)) /\ Has(b, RegisterAt("aSOL", c.nonce + 3))
  BY <1>6, <1>12, <1>20, HasConcat
<1>22. Has(b, AddToken("gSOL"))
  <2>1. Decent(A \o MK \o Q)
    BY <1>12, <1>18, LaysRight, LaysDecent
  <2> QED BY <1>9, <2>1, HasConcat
<1> QED BY <1>10, <1>17, <1>19, <1>21, <1>22, NowFine, NowCalls DEF R, L, G

LEMMA GigaEthFine ==
  ASSUME NEW c, World(c)
  PROVE  /\ PlanFine(GigaEthLaunch(c), c, {"2-POOL-GETH", "ETH"})
         /\ Lays(GigaEthLaunch(c).now, c, {<<"2-POOL-GETH", 0>>, <<"ETH", 3>>}, 6, {"2-POOL-GETH"})
         /\ Has(GigaEthLaunch(c).now, RegisterAt("gETH", c.nonce))
         /\ Has(GigaEthLaunch(c).now, RegisterAt("aETH", c.nonce + 3))
         /\ Has(GigaEthLaunch(c).now, AddToken("gETH"))
<1> DEFINE R == {"2-POOL-GETH", "ETH"}
           A == GigaEthAssets(c)
           S1 == ReviewRateStrategies(c, Everything)
           I1 == InitReserve(c, "2-POOL-GETH")
           I2 == InitReserve(c, "ETH")
           S2 == ReviewEMode(c, "EthEMode")
           M == << SetAssetEModeCategory("ETH", "EthEMode"), SetAssetEModeCategory("2-POOL-GETH", "EthEMode") >>
           P == << CreatePool("2-POOL-GETH", {"wstETH", "aETH"}),
                   Sell("treasury", "ETH", "aETH"),
                   Transfer("treasury", "omnipool", "aETH"),
                   Transfer("treasury", "omnipool", "wstETH"),
                   AddLiquidity("omnipool", "2-POOL-GETH", {"wstETH", "aETH"}),
                   SellAll("omnipool", "2-POOL-GETH", "gETH") >>
           T == << AddToken("gETH"), AddCurrency("gETH"), AddCurrency("2-POOL-GETH"),
                   CreateGlobalFarm, CreateYieldFarm(99, "gETH"), Route({}, "2-POOL-GDOT", "gDOT") >>
<1>1. Idle(A)
  BY IdleCalls, IdleRow3 DEF GigaEthAssets
<1>2. Idle(S1) /\ Idle(S2)
  BY EverythingIdle, EModeIdle
<1>3. Fine(I1, c, R) /\ Fine(I2, c, R)
  BY ReserveFine DEF NewReserves
<1>4. Idle(M)
  BY IdleCalls, IdleRow2
<1>5. Idle(P)
  <2>1. Sells("ETH", "aETH") /\ Sells("2-POOL-GETH", "gETH")
    BY GigaTokens DEF Sells
  <2>2. IdleCall(AddLiquidity("omnipool", "2-POOL-GETH", {"wstETH", "aETH"}))
    BY GigaTokens, AddLiquidityIdle
  <2> QED BY <2>1, <2>2, SellIdle, IdleCalls, IdleRow6
<1>6. Idle(T)
  BY IdleCalls, IdleRow6
<1>7. Lays(I1, c, {<<"2-POOL-GETH", 0>>}, 3, {}) /\ Lays(I2, c, {<<"ETH", 0>>}, 3, {})
  BY ReserveLays DEF NewReserves
<1>8. /\ Has(A, RegisterAt("gETH", c.nonce)) /\ Has(A, RegisterAt("aETH", c.nonce + 3))
      /\ Register("2-POOL-GETH") \in Items(A)
  BY BatchRow3 DEF GigaEthAssets, Has
<1>9. Has(T, AddToken("gETH"))
  BY BatchRow6 DEF Has
<1> DEFINE L == {<<"2-POOL-GETH", 0>>, <<"ETH", 3>>}
           G == {"2-POOL-GETH"}
           Q == P
           SI == S1 \o I1
           MK == SI \o I2 \o S2 \o M
           b == A \o MK \o Q \o T
<1>10. GigaEthLaunch(c) = Now(b)
  BY DEF GigaEthLaunch, GigaEthMarket, GigaEthPool, GigaEthToken
<1>11. \A g \in G : \E call \in Items(A) : call.soft = FALSE /\ Registered(g) \in call.gets
  BY <1>8, RootGets
<1>12. Idle(Q)
  <2> HIDE DEF P
  <2> QED BY <1>5
<1> HIDE DEF R, A, S1, I1, I2, S2, M, P, T, Q, G
<1>13. Fine(SI, c, R) /\ Lays(SI, c, {<<"2-POOL-GETH", 0>>}, 3, {})
  BY <1>2, <1>3, <1>7, IdleFine, FineConcat, LaysLeft
<1> HIDE DEF SI
<1>14. Fine(MK, c, R)
  BY <1>2, <1>3, <1>4, <1>13, IdleFine, FineConcat
<1>15. Lays(SI \o I2, c, L, 6, {})
  BY <1>7, <1>13, LaysTwo
<1>16. Lays(MK, c, L, 6, {})
  <2> HIDE DEF L
  <2> QED BY <1>2, <1>4, <1>15, LaysRight
<1> HIDE DEF L, MK
<1>17. Fine(b, c, R)
  BY <1>1, <1>6, <1>12, <1>14, IdleFine, FineConcat
<1>18. Lays(A \o MK, c, L, 6, G)
  BY <1>1, <1>11, <1>16, LaysLeft
<1>19. Lays(b, c, L, 6, G)
  BY <1>6, <1>12, <1>18, LaysRight
<1>20. /\ Has(A \o MK, RegisterAt("gETH", c.nonce)) /\ Has(A \o MK, RegisterAt("aETH", c.nonce + 3))
  <2>1. Decent(MK)
    BY <1>16, LaysDecent
  <2> QED BY <1>8, <2>1, HasLeft
<1>21. /\ Has(b, RegisterAt("gETH", c.nonce)) /\ Has(b, RegisterAt("aETH", c.nonce + 3))
  BY <1>6, <1>12, <1>20, HasConcat
<1>22. Has(b, AddToken("gETH"))
  <2>1. Decent(A \o MK \o Q)
    BY <1>12, <1>18, LaysRight, LaysDecent
  <2> QED BY <1>9, <2>1, HasConcat
<1> QED BY <1>10, <1>17, <1>19, <1>21, <1>22, NowFine, NowCalls DEF R, L, G

LEMMA GigaDotFine ==
  ASSUME NEW c, World(c)
  PROVE  /\ PlanFine(GigaDotLaunch(c), c, {"GDOT"})
         /\ Lays(GigaDotLaunch(c).now, c, {<<"GDOT", 0>>}, 3, {"GDOT"})
         /\ Has(GigaDotLaunch(c).now, RegisterAt("gDOT", c.nonce))
<1> DEFINE R == {"GDOT"}
           A == GigaDotAssets(c)
           S1 == ReviewRateStrategies(c, Everything)
           I == InitReserve(c, "GDOT")
           S2 == ReviewEmissionAdmin(c, "GDOT")
           T == << SellAll("treasury", "GDOT", "gDOT"), Transfer("treasury", "pot", "gDOT"),
                   AddCurrency("gDOT"), AddCurrency("GDOT") >>
           V == ReviewIncentive(c, "GDOT", {c.nonce})
           later == GigaDotIncentives(c)
<1>1. Idle(A)
  <2>1. IdleCall(AddLiquidity("treasury", "GDOT", {"VDOT", "aDOT"}))
    BY GigaTokens, AddLiquidityIdle
  <2> QED BY <2>1, IdleCalls, IdleRow4 DEF GigaDotAssets
<1>2. Idle(S1) /\ Idle(S2)
  BY EverythingIdle, EmissionAdminIdle
<1>3. Fine(I, c, R)
  BY ReserveFine DEF NewReserves
<1>4. Idle(T)
  <2>1. Sells("GDOT", "gDOT")
    BY GigaTokens DEF Sells
  <2> QED BY <2>1, SellIdle, IdleCalls, IdleRow4
<1> DEFINE AS == A \o S1
           ASI == AS \o I
           b == ASI \o S2 \o T
<1>5. Fine(b, c, R) /\ Lays(b, c, {<<"GDOT", 0>>}, 3, {"GDOT"}) /\ Has(b, RegisterAt("gDOT", c.nonce))
  <2>1. Lays(I, c, {<<"GDOT", 0>>}, 3, {})
    BY ReserveLays DEF NewReserves
  <2>2. Has(A, RegisterAt("gDOT", c.nonce)) /\ Has(A, Register("GDOT"))
    BY BatchRow4 DEF GigaDotAssets, Has
  <2> DEFINE G == {"GDOT"}
  <2> HIDE DEF R, A, S1, I, S2, T
  <2>3. Idle(AS) /\ Has(AS, RegisterAt("gDOT", c.nonce)) /\ Has(AS, Register("GDOT"))
    BY <1>1, <1>2, <2>2, IdleConcat, HasConcat
  <2>4. \A g \in G : \E call \in Items(AS) : call.soft = FALSE /\ Registered(g) \in call.gets
    BY <2>3, RootGets DEF Has
  <2> HIDE DEF AS, G
  <2>5. Fine(ASI, c, R) /\ Lays(ASI, c, {<<"GDOT", 0>>}, 3, G)
    BY <1>3, <2>1, <2>3, <2>4, IdleFine, FineConcat, LaysLeft
  <2>6. Has(ASI, RegisterAt("gDOT", c.nonce))
    BY <2>1, <2>3, LaysDecent, HasLeft
  <2> HIDE DEF ASI
  <2>7. Fine(b, c, R) /\ Lays(b, c, {<<"GDOT", 0>>}, 3, G) /\ Has(b, RegisterAt("gDOT", c.nonce))
    BY <1>2, <1>4, <2>5, <2>6, IdleFine, FineConcat, LaysRight, HasConcat
  <2> QED BY <2>7 DEF G
<1>6. IsBatch(later) /\ \A x \in Items(later) : Idle(x)
  <2>1. Idle(V)
    BY IncentiveIdle
  <2>2. later = [i \in 1..Len(V) |-> << V[i] >>]
    BY DEF GigaDotIncentives, Each
  <2> HIDE DEF V, later
  <2>3. Len(V) \in Nat /\ \A i \in 1..Len(V) : IdleCall(V[i])
    BY <2>1 DEF Idle, IsBatch, Items
  <2> DEFINE Q == { << V[i] >> : i \in 1..Len(V) }
  <2>4. later \in Seq(Q)
    BY <2>2, <2>3
  <2>5. \A i \in 1..Len(V) : Idle(<< V[i] >>)
    BY <2>3, IdleRow1
  <2>6. \A x \in Q : Idle(x)
    BY <2>5
  <2> HIDE DEF Q
  <2> QED BY <2>4, <2>6, BatchOf
<1>7. GigaDotLaunch(c).now = b /\ GigaDotLaunch(c).later = later
  BY DEF GigaDotLaunch, Proposal
<1> HIDE DEF b, later
<1> QED BY <1>5, <1>6, <1>7 DEF PlanFine, R

LEMMA HeurcFine ==
  ASSUME NEW c, World(c)
  PROVE  /\ PlanFine(HeurcLaunch(c), c, {"EURC", "2-POOL-HEURC"})
         /\ Lays(HeurcLaunch(c).now, c, {<<"EURC", 0>>, <<"2-POOL-HEURC", 3>>}, 6, {"2-POOL-HEURC"})
         /\ Has(HeurcLaunch(c).now, RegisterAt("aEURC", c.nonce))
         /\ Has(HeurcLaunch(c).now, RegisterAt("HEURC", c.nonce + 3))
<1> DEFINE R == {"EURC", "2-POOL-HEURC"}
           A == HeurcAssets(c)
           S1 == ReviewRateStrategies(c, Everything)
           I1 == InitReserve(c, "EURC")
           I2 == InitReserve(c, "2-POOL-HEURC")
           T == << CreatePool("2-POOL-HEURC", {"HOLLAR", "aEURC"}),
                   AddCurrency("aEURC"), AddCurrency("HEURC"), AddCurrency("2-POOL-HEURC") >>
<1>1. Idle(A)
  BY IdleCalls, IdleRow3 DEF HeurcAssets
<1>2. Idle(S1)
  BY EverythingIdle
<1>3. Fine(I1, c, R) /\ Fine(I2, c, R)
  BY ReserveFine DEF NewReserves
<1>4. Idle(T)
  BY IdleCalls, IdleRow4
<1> DEFINE L == {<<"EURC", 0>>, <<"2-POOL-HEURC", 3>>}
           G == {"2-POOL-HEURC"}
           SI == S1 \o I1
           MK == SI \o I2 \o T
           b == A \o MK
<1>5. /\ Fine(b, c, R) /\ Lays(b, c, L, 6, G)
      /\ Has(b, RegisterAt("aEURC", c.nonce)) /\ Has(b, RegisterAt("HEURC", c.nonce + 3))
  <2>1. Lays(I1, c, {<<"EURC", 0>>}, 3, {}) /\ Lays(I2, c, {<<"2-POOL-HEURC", 0>>}, 3, {})
    BY ReserveLays DEF NewReserves
  <2>2. /\ Has(A, RegisterAt("aEURC", c.nonce)) /\ Has(A, RegisterAt("HEURC", c.nonce + 3))
        /\ Register("2-POOL-HEURC") \in Items(A)
    BY BatchRow3 DEF HeurcAssets, Has
  <2>3. \A g \in G : \E call \in Items(A) : call.soft = FALSE /\ Registered(g) \in call.gets
    BY <2>2, RootGets
  <2> HIDE DEF R, A, S1, I1, I2, T, G
  <2>4. Fine(SI, c, R) /\ Lays(SI, c, {<<"EURC", 0>>}, 3, {})
    BY <1>2, <1>3, <2>1, IdleFine, FineConcat, LaysLeft
  <2> HIDE DEF SI
  <2>5. Fine(MK, c, R)
    BY <1>3, <1>4, <2>4, IdleFine, FineConcat
  <2>6. Lays(SI \o I2, c, L, 6, {})
    BY <2>1, <2>4, LaysTwo
  <2> HIDE DEF L
  <2>7. Lays(MK, c, L, 6, {})
    BY <1>4, <2>6, LaysRight
  <2> HIDE DEF MK
  <2>8. Decent(MK)
    BY <2>7, LaysDecent
  <2>9. Fine(b, c, R) /\ Lays(b, c, L, 6, G)
    BY <1>1, <2>3, <2>5, <2>7, IdleFine, FineConcat, LaysLeft
  <2>10. Has(b, RegisterAt("aEURC", c.nonce)) /\ Has(b, RegisterAt("HEURC", c.nonce + 3))
    BY <2>2, <2>8, HasLeft
  <2> QED BY <2>9, <2>10
<1>6. Idle(HeurcLater(c))
  <2> DEFINE M == << SetEModeCategory("EUROZONE"), SetAssetEModeCategory("EURC", "EUROZONE"),
                     SetAssetEModeCategory("2-POOL-HEURC", "EUROZONE") >>
             E == ReviewEmissionAdmin(c, "2-POOL-HEURC")
             V == ReviewIncentive(c, "2-POOL-HEURC", {c.nonce + 3})
  <2>1. Idle(M)
    BY IdleCalls, IdleRow3
  <2>2. Idle(E) /\ Idle(V)
    BY EmissionAdminIdle, IncentiveIdle
  <2>3. Idle(M \o E \o V)
    <3> HIDE DEF M, E, V
    <3> QED BY <2>1, <2>2, IdleConcat
  <2> QED BY <2>3 DEF HeurcLater
<1>7. Idle(HeurcLast)
  <2>1. Sells("EURC", "aEURC") /\ Sells("2-POOL-HEURC", "HEURC")
    BY GigaTokens DEF Sells
  <2>2. IdleCall(AddLiquidity("treasury", "2-POOL-HEURC", {"HOLLAR", "aEURC"}))
    BY GigaTokens, AddLiquidityIdle
  <2> QED BY <2>1, <2>2, SellIdle, IdleCalls, IdleRow5 DEF HeurcLast
<1> DEFINE both == <<HeurcLater(c), HeurcLast>>
<1>8. IsBatch(NonEmpty(both)) /\ \A x \in Items(NonEmpty(both)) : Idle(x)
  <2>1. IsBatch(both) /\ Items(both) = {HeurcLater(c), HeurcLast}
    BY BatchRow2
  <2> HIDE DEF both
  <2>2. IsBatch(NonEmpty(both)) /\ Items(NonEmpty(both)) \subseteq Items(both)
    BY <2>1, SeqBatch DEF NonEmpty
  <2> QED BY <1>6, <1>7, <2>1, <2>2
<1>9. HeurcLaunch(c).now = b /\ HeurcLaunch(c).later = NonEmpty(both)
  BY DEF HeurcLaunch, HeurcMarket, Proposal
<1> HIDE DEF b, both
<1> QED BY <1>5, <1>8, <1>9 DEF PlanFine, R, L, G

LEMMA IdleFour ==
  ASSUME NEW s, Idle(s), NEW t, Idle(t), NEW u, Idle(u), NEW v, Idle(v)
  PROVE  Idle(s \o t \o u \o v)
  BY IdleConcat

LEMMA HollarShares ==
  /\ \A i \in 1..4 : HollarPools[i] \in NewReserves /\ HollarPools[i] \notin {"PRIME", "APYUSD", "HOLLAR"}
  /\ \A i \in 1..4 : Sells(HollarPools[i], HollarTokens[i])
<1>1. HollarPools[1] = "2-POOL-HUSDC" /\ HollarPools[2] = "2-POOL-HUSDT"
      /\ HollarPools[3] = "2-POOL-HUSDS" /\ HollarPools[4] = "2-POOL-HUSDE"
  BY DEF HollarPools
<1>2. HollarTokens[1] = "HUSDC" /\ HollarTokens[2] = "HUSDT"
      /\ HollarTokens[3] = "HUSDS" /\ HollarTokens[4] = "HUSDE"
  BY DEF HollarTokens
<1>3. \A i \in 1..4 : i = 1 \/ i = 2 \/ i = 3 \/ i = 4
  OBVIOUS
<1>4. \A i \in 1..4 : HollarPools[i] \in NewReserves
  BY DEF NewReserves
<1>5. \A i \in 1..4 : HollarPools[i] \notin {"PRIME", "APYUSD", "HOLLAR"}
  BY <1>1, <1>3
<1>6. \A i \in 1..4 : Sells(HollarPools[i], HollarTokens[i])
  <2>1. /\ Sells("2-POOL-HUSDC", "HUSDC") /\ Sells("2-POOL-HUSDT", "HUSDT")
        /\ Sells("2-POOL-HUSDS", "HUSDS") /\ Sells("2-POOL-HUSDE", "HUSDE")
    BY GigaTokens DEF Sells
  <2> QED BY <1>1, <1>2, <1>3, <2>1
<1> QED BY <1>4, <1>5, <1>6

LEMMA LaysFour ==
  ASSUME NEW c, World(c),
         NEW s1, NEW r1, Lays(s1, c, {<<r1, 0>>}, 3, {}),
         NEW s2, NEW r2, Lays(s2, c, {<<r2, 0>>}, 3, {}), r2 # r1,
         NEW s3, NEW r3, Lays(s3, c, {<<r3, 0>>}, 3, {}), r3 \notin {r1, r2},
         NEW s4, NEW r4, Lays(s4, c, {<<r4, 0>>}, 3, {}), r4 \notin {r1, r2, r3}
  PROVE  Lays(s1 \o s2 \o s3 \o s4, c, {<<r1, 0>>, <<r2, 3>>, <<r3, 6>>, <<r4, 9>>}, 12, {})
<1> DEFINE K2 == {<<r1, 0>>, <<r2, 3>>}
           K3 == {<<r1, 0>>, <<r2, 3>>, <<r3, 6>>}
           K4 == {<<r1, 0>>, <<r2, 3>>, <<r3, 6>>, <<r4, 9>>}
           N3 == {<<r3, 0>>}
           N4 == {<<r4, 0>>}
           s == s1 \o s2
<1>1. Lays(s, c, K2, 6, {})
  BY LaysTwo
<1>2. /\ \A m \in K2, n \in N3 : m[1] # n[1]
      /\ \A m \in K2 \cup N3 : m[2] \in Nat
      /\ \A m \in K2 : \E k \in K3 : k[1] = m[1]
      /\ \A n \in N3 : \E k \in K3 : k[1] = n[1]
  OBVIOUS
<1>3. \A k \in K3 : k \in K2 \/ \E n \in N3 : k[1] = n[1] /\ k[2] = 6 + n[2]
  OBVIOUS
<1>4. /\ \A m \in K3, n \in N4 : m[1] # n[1]
      /\ \A m \in K3 \cup N4 : m[2] \in Nat
      /\ \A m \in K3 : \E k \in K4 : k[1] = m[1]
      /\ \A n \in N4 : \E k \in K4 : k[1] = n[1]
  OBVIOUS
<1>5. \A k \in K4 : k \in K3 \/ \E n \in N4 : k[1] = n[1] /\ k[2] = 9 + n[2]
  OBVIOUS
<1>6. Lays(s3, c, N3, 3, {}) /\ Lays(s4, c, N4, 3, {}) /\ 3 \in Nat /\ 6 + 3 = 9 /\ 9 + 3 = 12
  OBVIOUS
<1> HIDE DEF K2, K3, K4, N3, N4, s
<1>7. Lays(s \o s3, c, K3, 9, {})
  BY <1>1, <1>2, <1>3, <1>6, LaysConcat
<1> DEFINE t == s \o s3
<1> HIDE DEF t
<1>8. Lays(t, c, K3, 9, {})
  BY <1>7 DEF t
<1>9. Lays(t \o s4, c, K4, 12, {})
  BY <1>4, <1>5, <1>6, <1>8, LaysConcat
<1> QED BY <1>9 DEF K4, t, s

HollarReserves == { HollarPools[i] : i \in 1..4 }
LEMMA HollarPoolsFine ==
  ASSUME NEW c, World(c)
  PROVE  /\ PlanFine(HollarPoolsLaunch(c), c, HollarReserves)
         /\ Lays(HollarPoolsLaunch(c).now, c,
                 {<<"2-POOL-HUSDC", 0>>, <<"2-POOL-HUSDT", 3>>, <<"2-POOL-HUSDS", 6>>, <<"2-POOL-HUSDE", 9>>},
                 12, {})
         /\ Has(HollarPoolsLaunch(c).now, RegisterAt("HUSDC", c.nonce))
         /\ Has(HollarPoolsLaunch(c).now, RegisterAt("HUSDT", c.nonce + 3))
         /\ Has(HollarPoolsLaunch(c).now, RegisterAt("HUSDS", c.nonce + 6))
         /\ Has(HollarPoolsLaunch(c).now, RegisterAt("HUSDE", c.nonce + 9))
<1> DEFINE R == HollarReserves
           I(i) == InitReserve(c, HollarPools[i])
           T(i) == << RegisterAt(HollarTokens[i], c.nonce + 3 * (i - 1)), AddCurrency(HollarTokens[i]),
                      Route({}, HollarPools[i], HollarTokens[i]) >>
           V(i) == ReviewEmissionAdmin(c, HollarPools[i])
                   \o ReviewIncentive(c, HollarPools[i], {c.nonce + 3 * (i - 1)})
           S(i) == << SellAll("treasury", HollarPools[i], HollarTokens[i]), Schedule("dca", HollarTokens[i]) >>
           G == << Transfer("treasury", "pot", "gDOT") >>
<1>1. \A i \in 1..4 : Fine(I(i), c, R)
  BY ReserveFine, HollarShares DEF HollarReserves
<1>2. \A i : Idle(T(i))
  BY IdleCalls, IdleRow3
<1>3. \A i : Idle(V(i))
  BY EmissionAdminIdle, IncentiveIdle, IdleConcat
<1>4. \A i \in 1..4 : Idle(S(i))
  BY HollarShares, SellIdle, IdleCalls, IdleRow2
<1>5. Idle(G)
  BY IdleCalls, IdleRow1
<1>6. HollarPoolsNow(c) = (I(1) \o I(2) \o I(3) \o I(4)) \o (T(1) \o T(2) \o T(3) \o T(4))
  BY DEF HollarPoolsNow, ForHollarPools
<1>7. HollarPoolsLater(c) = V(1) \o V(2) \o V(3) \o V(4)
  BY DEF HollarPoolsLater, ForHollarPools
<1>8. HollarPoolsLast = (S(1) \o S(2) \o S(3) \o S(4)) \o G
  BY DEF HollarPoolsLast, ForHollarPools
<1>13. /\ Lays(I(1), c, {<<"2-POOL-HUSDC", 0>>}, 3, {}) /\ Lays(I(2), c, {<<"2-POOL-HUSDT", 0>>}, 3, {})
       /\ Lays(I(3), c, {<<"2-POOL-HUSDS", 0>>}, 3, {}) /\ Lays(I(4), c, {<<"2-POOL-HUSDE", 0>>}, 3, {})
  <2>1. HollarPools[1] = "2-POOL-HUSDC" /\ HollarPools[2] = "2-POOL-HUSDT"
        /\ HollarPools[3] = "2-POOL-HUSDS" /\ HollarPools[4] = "2-POOL-HUSDE"
    BY DEF HollarPools
  <2>2. \A i \in 1..4 : Lays(I(i), c, {<<HollarPools[i], 0>>}, 3, {})
    BY ReserveLays, HollarShares
  <2> HIDE DEF I
  <2>3. 1 \in 1..4 /\ 2 \in 1..4 /\ 3 \in 1..4 /\ 4 \in 1..4
    OBVIOUS
  <2> QED BY <2>1, <2>2, <2>3, Zenon
<1>14. /\ Has(T(1), RegisterAt("HUSDC", c.nonce)) /\ Has(T(2), RegisterAt("HUSDT", c.nonce + 3))
       /\ Has(T(3), RegisterAt("HUSDS", c.nonce + 6)) /\ Has(T(4), RegisterAt("HUSDE", c.nonce + 9))
  <2>1. HollarTokens[1] = "HUSDC" /\ HollarTokens[2] = "HUSDT"
        /\ HollarTokens[3] = "HUSDS" /\ HollarTokens[4] = "HUSDE"
    BY DEF HollarTokens
  <2>2. /\ c.nonce + 3 * (1 - 1) = c.nonce /\ c.nonce + 3 * (2 - 1) = c.nonce + 3
        /\ c.nonce + 3 * (3 - 1) = c.nonce + 6 /\ c.nonce + 3 * (4 - 1) = c.nonce + 9
    BY DEF World, IsChain
  <2>3. \A i : Has(T(i), RegisterAt(HollarTokens[i], c.nonce + 3 * (i - 1)))
    BY BatchRow3 DEF Has
  <2> HIDE DEF T
  <2>4. /\ Has(T(1), RegisterAt(HollarTokens[1], c.nonce + 3 * (1 - 1)))
        /\ Has(T(2), RegisterAt(HollarTokens[2], c.nonce + 3 * (2 - 1)))
        /\ Has(T(3), RegisterAt(HollarTokens[3], c.nonce + 3 * (3 - 1)))
        /\ Has(T(4), RegisterAt(HollarTokens[4], c.nonce + 3 * (4 - 1)))
    BY <2>3, Zenon
  <2> QED BY <2>1, <2>2, <2>4, Zenon
<1> HIDE DEF I, T, V, S, G
<1> DEFINE W == I(1) \o I(2) \o I(3) \o I(4)
           X == T(1) \o T(2) \o T(3) \o T(4)
           M == {<<"2-POOL-HUSDC", 0>>, <<"2-POOL-HUSDT", 3>>, <<"2-POOL-HUSDS", 6>>, <<"2-POOL-HUSDE", 9>>}
<1>15. Lays(W, c, M, 12, {})
  BY <1>13, LaysFour
<1>16. Idle(X)
  BY <1>2, IdleFour
<1>17. /\ Has(X, RegisterAt("HUSDC", c.nonce)) /\ Has(X, RegisterAt("HUSDT", c.nonce + 3))
       /\ Has(X, RegisterAt("HUSDS", c.nonce + 6)) /\ Has(X, RegisterAt("HUSDE", c.nonce + 9))
  <2>1. /\ Idle(T(1)) /\ Idle(T(2)) /\ Idle(T(3)) /\ Idle(T(4))
        /\ Idle(T(1) \o T(2)) /\ Idle(T(1) \o T(2) \o T(3))
    BY <1>2, IdleConcat
  <2>2. /\ Decent(T(1)) /\ Decent(T(1) \o T(2)) /\ Decent(T(1) \o T(2) \o T(3))
    BY <2>1, IdleDecent
  <2>3. \A call : /\ Has(T(1), call) => Has(T(1) \o T(2), call)
                  /\ Has(T(2), call) => Has(T(1) \o T(2), call)
    BY <2>1, <2>2, HasConcat
  <2>4. \A call : /\ Has(T(1) \o T(2), call) => Has(T(1) \o T(2) \o T(3), call)
                  /\ Has(T(3), call) => Has(T(1) \o T(2) \o T(3), call)
    BY <2>1, <2>2, HasConcat
  <2>5. \A call : Has(T(1) \o T(2) \o T(3), call) => Has(X, call)
    BY <2>1, <2>2, HasConcat
  <2>6. \A call : Has(T(4), call) => Has(X, call)
    BY <2>1, <2>2, HasConcat
  <2> HIDE DEF X
  <2> QED BY <1>14, <2>3, <2>4, <2>5, <2>6
<1>18. /\ Lays(HollarPoolsNow(c), c, M, 12, {})
       /\ Has(HollarPoolsNow(c), RegisterAt("HUSDC", c.nonce)) /\ Has(HollarPoolsNow(c), RegisterAt("HUSDT", c.nonce + 3))
       /\ Has(HollarPoolsNow(c), RegisterAt("HUSDS", c.nonce + 6)) /\ Has(HollarPoolsNow(c), RegisterAt("HUSDE", c.nonce + 9))
  <2> HIDE DEF M, W, X
  <2>1. HollarPoolsNow(c) = W \o X
    BY <1>6 DEF W, X
  <2>2. Decent(W)
    BY <1>15, LaysDecent
  <2> QED BY <1>15, <1>16, <1>17, <2>1, <2>2, LaysRight, HasConcat
<1>9. Fine(HollarPoolsNow(c), c, R)
  <2>1. Fine(I(1) \o I(2) \o I(3) \o I(4), c, R)
    BY <1>1, FineConcat
  <2>2. Idle(T(1) \o T(2) \o T(3) \o T(4))
    BY <1>2, IdleFour
  <2> QED BY <1>6, <2>1, <2>2, IdleFine, FineConcat
<1>10. Idle(HollarPoolsLater(c))
  BY <1>3, <1>7, IdleFour
<1>11. Idle(HollarPoolsLast)
  <2>1. Idle(S(1) \o S(2) \o S(3) \o S(4))
    BY <1>4, IdleFour
  <2> QED BY <1>5, <1>8, <2>1, IdleConcat
<1> DEFINE both == <<HollarPoolsLater(c), HollarPoolsLast>>
<1>12. IsBatch(both) /\ Items(both) = {HollarPoolsLater(c), HollarPoolsLast}
  BY BatchRow2
<1>19. HollarPoolsLaunch(c).now = HollarPoolsNow(c) /\ HollarPoolsLaunch(c).later = both
  BY DEF HollarPoolsLaunch, Proposal
<1>20. PlanFine(HollarPoolsLaunch(c), c, HollarReserves)
  <2> HIDE DEF both
  <2> QED BY <1>9, <1>10, <1>11, <1>12, <1>19 DEF PlanFine
<1> HIDE DEF both
<1> QED BY <1>18, <1>19, <1>20

LEMMA ThreePoolFine ==
  ASSUME NEW c, World(c)
  PROVE  PlanFine(ThreePoolLaunch(c), c, {"3-POOL"})
<1> DEFINE I == InitReserve(c, "3-POOL")
           E == ReviewEmissionAdmin(c, "3-POOL")
           V == ReviewIncentive(c, "3-POOL", {c.nonce})
           T == << Transfer("treasury", "pot", "gDOT"), RegisterAt("a3-Pool", c.nonce),
                   AddCurrency("a3-Pool"), Route({}, "3-POOL", "a3-Pool") >>
<1>1. Fine(I, c, {"3-POOL"})
  BY ReserveFine DEF NewReserves
<1>2. Idle(E) /\ Idle(V)
  BY EmissionAdminIdle, IncentiveIdle
<1>3. Idle(T)
  BY IdleCalls, IdleRow4
<1>4. Fine(I \o E \o V \o T, c, {"3-POOL"})
  <2> HIDE DEF I, E, V, T
  <2> QED BY <1>1, <1>2, <1>3, IdleFine, FineConcat
<1> QED BY <1>4, NowFine DEF ThreePoolLaunch

LEMMA LiquidityOfShare ==
  ASSUME NEW acct, NEW id, NEW assets, id \notin {"gSOL", "2-POOL-GSOL", "aSOL", "gETH", "2-POOL-GETH", "aETH"}
  PROVE  IdleCall(AddLiquidity(acct, id, assets))
  BY GigaTokens, AddLiquidityIdle

LEMMA IsolatedAssetsIdle ==
  ASSUME NEW c, NEW r, NEW a, NEW share
  PROVE  Idle(IsolatedAssets(c, r, a, share))
  BY IdleCalls, IdleRow5 DEF IsolatedAssets

LEMMA IsolatedReserveLays ==
  ASSUME NEW c, World(c), NEW r \in NewReserves
  PROVE  Lays(IsolatedReserve(c, r), c, {<<r, 0>>}, 3, {})
<1> DEFINE I == InitReserve(c, r)
           F == ReviewReserveFactors(c, Everything)
           D == ReviewDebtCeiling(c, ReserveAssets)
<1>1. Lays(I, c, {<<r, 0>>}, 3, {})
  BY ReserveLays
<1>2. Idle(F) /\ Idle(D)
  BY EverythingIdle
<1>3. Lays(I \o F \o D, c, {<<r, 0>>}, 3, {})
  <2> HIDE DEF I, F, D
  <2> QED BY <1>1, <1>2, LaysRight
<1> QED BY <1>3 DEF IsolatedReserve

LEMMA IsolatedAssetsHas ==
  ASSUME NEW c, NEW r, NEW a, NEW share
  PROVE  Has(IsolatedAssets(c, r, a, share), RegisterAt(a, c.nonce))
  BY BatchRow5 DEF IsolatedAssets, Has

LEMMA PrimeFine ==
  ASSUME NEW c, World(c)
  PROVE  /\ PlanFine(Prime(c), c, {"PRIME"})
         /\ Lays(Prime(c).now, c, {<<"PRIME", 0>>}, 3, {})
         /\ Has(Prime(c).now, RegisterAt("aPRIME", c.nonce))
<1> DEFINE A == << Isolate("USDC", FALSE), Isolate("USDT", FALSE), Isolate("HOLLAR", TRUE) >>
           I == IsolatedReserve(c, "PRIME")
           O == SetOraclePrice("PRIME")
           S == IsolatedAssets(c, "PRIME", "aPRIME", "2-Pool-PRIME")
           L == << AddLiquidity("treasury", "2-Pool-PRIME", {"PRIME", "HOLLAR"}) >>
<1>1. Idle(A)
  BY IsolatePlain, PlainIdle, IdleRow3
<1>2. Fine(I, c, {"PRIME"})
  BY ConfigAssumption, IsolatedReserveFine DEF NewReserves, World
<1>3. Idle(O) /\ Idle(S)
  BY OraclePriceIdle, IsolatedAssetsIdle
<1>4. Idle(L)
  BY LiquidityOfShare, IdleRow1
<1>6. Lays(I, c, {<<"PRIME", 0>>}, 3, {}) /\ Has(S, RegisterAt("aPRIME", c.nonce))
  BY IsolatedReserveLays, IsolatedAssetsHas DEF NewReserves
<1> DEFINE AI == A \o I
           AIO == AI \o O
           b == AIO \o S \o L
<1>7. Prime(c) = Now(b)
  BY DEF Prime
<1> HIDE DEF A, I, O, S, L
<1>8. Fine(AI, c, {"PRIME"}) /\ Lays(AI, c, {<<"PRIME", 0>>}, 3, {})
  BY <1>1, <1>2, <1>6, IdleFine, FineConcat, LaysLeft
<1> HIDE DEF AI
<1>9. Fine(AIO, c, {"PRIME"}) /\ Lays(AIO, c, {<<"PRIME", 0>>}, 3, {})
  BY <1>3, <1>8, IdleFine, FineConcat, LaysRight
<1> HIDE DEF AIO
<1>5. Fine(b, c, {"PRIME"}) /\ Lays(b, c, {<<"PRIME", 0>>}, 3, {}) /\ Has(b, RegisterAt("aPRIME", c.nonce))
  BY <1>3, <1>4, <1>6, <1>9, IdleFine, FineConcat, LaysRight, LaysDecent, HasConcat
<1> QED BY <1>5, <1>7, NowFine, NowCalls

LEMMA ApyUsdFine ==
  ASSUME NEW c, World(c)
  PROVE  /\ PlanFine(ApyUsd(c), c, {"APYUSD"})
         /\ Lays(ApyUsd(c).now, c, {<<"APYUSD", 0>>}, 3, {})
         /\ Has(ApyUsd(c).now, RegisterAt("aAPYUSD", c.nonce))
<1> DEFINE I == IsolatedReserve(c, "APYUSD")
           O == SetOraclePrice("APYUSD")
           S == IsolatedAssets(c, "APYUSD", "aAPYUSD", "2-Pool-apyUSD")
           L == << BorrowHollar, AddLiquidity("treasury", "2-Pool-apyUSD", {"APYUSD", "HOLLAR"}),
                   Route({}, "APYUSD", "aAPYUSD") >>
<1>1. IdleCall(BorrowHollar)
  <2> DEFINE m == BorrowHollar
  <2>1. /\ m.soft = TRUE /\ m.lists = {} /\ m.moves = {} /\ m.drops = {}
        /\ m.gets = {Holds("treasury", "HOLLAR")}
    BY DEF BorrowHollar, dispatchAs, Call
  <2> HIDE DEF m
  <2>2. Handing(m, "treasury", "HOLLAR")
    BY <2>1, GigaTokens DEF Handing
  <2>3. IdleCall(m)
    BY <2>2, HandingIdle
  <2> QED BY <2>3 DEF m
<1>2. Fine(I, c, {"APYUSD"})
  BY ConfigAssumption, IsolatedReserveFine DEF NewReserves, World
<1>3. Idle(O) /\ Idle(S)
  BY OraclePriceIdle, IsolatedAssetsIdle
<1>4. Idle(L)
  BY <1>1, LiquidityOfShare, IdleCalls, IdleRow3
<1>6. Lays(I, c, {<<"APYUSD", 0>>}, 3, {}) /\ Has(S, RegisterAt("aAPYUSD", c.nonce))
  BY IsolatedReserveLays, IsolatedAssetsHas DEF NewReserves
<1> DEFINE IO == I \o O
           b == IO \o S \o L
<1>7. ApyUsd(c) = Now(b)
  BY DEF ApyUsd
<1> HIDE DEF I, O, S, L
<1>8. Fine(IO, c, {"APYUSD"}) /\ Lays(IO, c, {<<"APYUSD", 0>>}, 3, {})
  BY <1>2, <1>3, <1>6, IdleFine, FineConcat, LaysRight
<1> HIDE DEF IO
<1>5. Fine(b, c, {"APYUSD"}) /\ Lays(b, c, {<<"APYUSD", 0>>}, 3, {}) /\ Has(b, RegisterAt("aAPYUSD", c.nonce))
  BY <1>3, <1>4, <1>6, <1>8, IdleFine, FineConcat, LaysRight, LaysDecent, HasConcat
<1> QED BY <1>5, <1>7, NowFine, NowCalls

LEMMA ApyUsdLaterIdle ==
  Idle(<< ApyUsdMotion >>) /\ Idle(ApyUsdSeed)
<1>1. IdleCall(ApyUsdMotion)
  <2> DEFINE m == ApyUsdMotion
  <2>1. /\ m.soft = FALSE /\ m.lists = {} /\ m.moves = {} /\ m.drops = {}
        /\ m.gets = {Frozen("2-Pool-apyUSD"), <<"whitelisted", "apyusd-liquidity">>}
    BY DEF ApyUsdMotion, Call
  <2> HIDE DEF m
  <2>2. \A f \in m.gets : f[1] = "frozen" \/ f[1] = "whitelisted"
    BY <2>1 DEF Frozen
  <2>3. IdleCall(m)
    BY <2>1, <2>2, PlainIdle DEF Plain
  <2> QED BY <2>3 DEF m
<1> DEFINE m == [Call EXCEPT !.needs = {Pool("2-Pool-apyUSD"), <<"whitelisted", "apyusd-liquidity">>},
                             !.drops = {Frozen("2-Pool-apyUSD"), <<"whitelisted", "apyusd-liquidity">>}]
<1>2. IdleCall(m)
  <2>1. /\ m.soft = FALSE /\ m.lists = {} /\ m.moves = {} /\ m.gets = {}
        /\ m.drops = {Frozen("2-Pool-apyUSD"), <<"whitelisted", "apyusd-liquidity">>}
    BY DEF Call
  <2> HIDE DEF m
  <2>2. \A f \in m.drops : f[1] = "frozen" \/ f[1] = "whitelisted"
    BY <2>1 DEF Frozen
  <2> QED BY <2>1, <2>2, PlainIdle DEF Plain
<1>3. ApyUsdSeed = << m, AddLiquidity("treasury", "2-Pool-apyUSD", {"APYUSD", "HOLLAR"}) >>
  BY DEF ApyUsdSeed
<1> HIDE DEF m
<1> QED BY <1>1, <1>2, <1>3, LiquidityOfShare, IdleRow1, IdleRow2

-----------------------------------------------------------------------------
(* The proposals that only bring settings in line list nothing *)

LEMMA PricesIdle ==
  Idle(PricePrime) /\ Idle(PriceJitoSol) /\ Idle(PriceWstEth)
  BY OraclePriceIdle DEF PricePrime, PriceJitoSol, PriceWstEth

LEMMA OneIdle ==
  ASSUME NEW c, NEW r
  PROVE  /\ Idle(ReviewSupplyCaps(c, One(r))) /\ Idle(ReviewDebtCeiling(c, One(r)))
         /\ Idle(ReviewRateStrategies(c, One(r)))
<1>1. IsBatch(One(r))
  BY BatchRow1 DEF One
<1> QED BY <1>1, ReviewsIdle

LEMMA BucketIdle ==
  Idle(<< [aaveManagerCall(Call) EXCEPT !.gets = {<<"bucket", "HOLLAR">>}] >>)
<1>1. Plain([aaveManagerCall(Call) EXCEPT !.gets = {<<"bucket", "HOLLAR">>}])
  BY ManagerPlain
<1> QED BY <1>1, PlainIdle, IdleRow1

LEMMA InEModeIdle ==
  ASSUME NEW r, NEW name
  PROVE  Idle(InEMode(r, name))
  BY IdleCalls, IdleRow1 DEF InEMode

LEMMA UpkeepCapsIdle ==
  ASSUME NEW c
  PROVE  /\ Idle(UpdateCaps(c)) /\ Idle(GigaHydration(c)) /\ Idle(UpdateOraclesAndCaps(c))
         /\ Idle(UpdatePrimeParams(c)) /\ Idle(UpdateReserveOracle(c)) /\ Idle(VdotBiggening(c))
<1> DEFINE SC == ReviewSupplyCaps(c, Everything)
           BC == ReviewBorrowCaps(c, Everything)
           GI == ReviewIncentive(c, "2-POOL-GDOT", {})
           PS == ReviewSupplyCaps(c, One("PRIME"))
           PD == ReviewDebtCeiling(c, One("PRIME"))
           BU == << [aaveManagerCall(Call) EXCEPT !.gets = {<<"bucket", "HOLLAR">>}] >>
           RO == SetReserveOracle("VDOT")
           EM == ReviewEMode(c, "DotEMode")
<1>1. Idle(SC) /\ Idle(BC) /\ Idle(GI) /\ Idle(PS) /\ Idle(PD) /\ Idle(BU) /\ Idle(RO) /\ Idle(EM)
  BY EverythingIdle, IncentiveIdle, OneIdle, BucketIdle, ReserveOracleIdle, EModeIdle
<1>2. /\ UpdateCaps(c) = SC \o BC
      /\ GigaHydration(c) = UpdateCaps(c) \o GI
      /\ UpdateOraclesAndCaps(c) = (PricePrime \o PriceJitoSol \o PriceWstEth \o PS) \o PD \o BU
      /\ UpdatePrimeParams(c) = PricePrime \o PS \o PD
      /\ UpdateReserveOracle(c) = RO \o SC
      /\ VdotBiggening(c) = SC \o EM
  BY DEF UpdateCaps, GigaHydration, UpdateOraclesAndCaps, UpdatePrimeParams, UpdateReserveOracle, VdotBiggening
<1> HIDE DEF SC, BC, GI, PS, PD, BU, RO, EM
<1>3. Idle(UpdateCaps(c))
  BY <1>1, <1>2, IdleConcat
<1>4. Idle(GigaHydration(c))
  BY <1>1, <1>2, <1>3, IdleConcat
<1>5. Idle(UpdateOraclesAndCaps(c))
  <2>1. Idle(PricePrime \o PriceJitoSol \o PriceWstEth \o PS)
    BY <1>1, PricesIdle, IdleConcat
  <2> QED BY <1>1, <1>2, <2>1, IdleConcat
<1>6. Idle(UpdatePrimeParams(c)) /\ Idle(UpdateReserveOracle(c)) /\ Idle(VdotBiggening(c))
  BY <1>1, <1>2, PricesIdle, IdleConcat
<1> QED BY <1>3, <1>4, <1>5, <1>6

LEMMA UpkeepRatesIdle ==
  ASSUME NEW c
  PROVE  /\ Idle(ReserveFactorAndUtilization(c)) /\ Idle(ReserveFactorProp(c))
         /\ Idle(ReduceStablesBorrowRate(c)) /\ Idle(DotRateStrategy(c))
         /\ Idle(PrimeRateStrategy(c)) /\ Idle(Halvening(c))
<1> DEFINE SC == ReviewSupplyCaps(c, Everything)
           BC == ReviewBorrowCaps(c, Everything)
           RF == ReviewReserveFactors(c, Everything)
           RS == ReviewRateStrategies(c, Everything)
           RC == ReviewReserveConfigs(c)
           FE == << Set("fee", "VDOT") >>
           V(i) == ReviewIncentive(c, HollarPools[i], {})
           BU == << [aaveManagerCall(Call) EXCEPT !.gets = {<<"bucket", "HOLLAR">>}] >>
           DR == ReviewRateStrategies(c, One("DOT"))
           PR == ReviewRateStrategies(c, One("PRIME"))
<1>1. Idle(SC) /\ Idle(BC) /\ Idle(RF) /\ Idle(RS) /\ Idle(RC) /\ Idle(BU) /\ Idle(DR) /\ Idle(PR)
  BY EverythingIdle, OneIdle, BucketIdle
<1>2. Idle(FE)
  BY SetPlain, PlainIdle, IdleRow1 DEF Settings
<1>3. \A i : Idle(V(i))
  BY IncentiveIdle
<1>4. /\ ReserveFactorAndUtilization(c) = RF \o RS
      /\ ReserveFactorProp(c) = RF \o FE \o SC \o BC \o RC
      /\ DotRateStrategy(c) = DR
      /\ PrimeRateStrategy(c) = PR
      /\ Halvening(c) = DR \o PricePrime
  BY DEF ReserveFactorAndUtilization, ReserveFactorProp, DotRateStrategy, PrimeRateStrategy, Halvening
<1>5. ReduceStablesBorrowRate(c) = (RF \o RS \o SC) \o (V(1) \o V(2) \o V(3) \o V(4)) \o PriceWstEth \o BU
  BY DEF ReduceStablesBorrowRate, ForHollarPools
<1> HIDE DEF SC, BC, RF, RS, RC, FE, V, BU, DR, PR
<1>6. Idle(ReduceStablesBorrowRate(c))
  <2>1. Idle(V(1) \o V(2) \o V(3) \o V(4))
    BY <1>3, IdleFour
  <2>2. Idle(RF \o RS \o SC)
    BY <1>1, IdleConcat
  <2> QED BY <1>1, <1>5, <2>1, <2>2, PricesIdle, IdleConcat
<1>7. Idle(RF \o RS) /\ Idle(RF \o FE \o SC \o BC \o RC) /\ Idle(DR \o PricePrime)
  BY <1>1, <1>2, PricesIdle, IdleConcat
<1> QED BY <1>1, <1>4, <1>6, <1>7

LEMMA UpkeepCollateralIdle ==
  ASSUME NEW c
  PROVE  /\ Idle(GigaDotUpdate(c)) /\ Idle(HTokenCollateral(c)) /\ Idle(ThreePoolCollateral(c))
         /\ Idle(UpdateDotEMode(c)) /\ Idle(DisableStablesIsolationBorrow) /\ Idle(UpdateIsolationParams(c))
<1> DEFINE SC == ReviewSupplyCaps(c, Everything)
           RF == ReviewReserveFactors(c, Everything)
           RS == ReviewRateStrategies(c, Everything)
           RC == ReviewReserveConfigs(c)
           EM == ReviewEMode(c, "DotEMode")
           EA == ReviewEmissionAdmin(c, "2-POOL-GDOT")
           GI == ReviewIncentive(c, "2-POOL-GDOT", {})
           V(i) == InEMode(HollarPools[i], "StableEMode") \o ReviewIncentive(c, HollarPools[i], {})
           U(yes) == << Isolate("USDC", yes), Isolate("USDT", yes) >>
           DC == ReviewDebtCeiling(c, ReserveAssets)
<1>1. Idle(SC) /\ Idle(RF) /\ Idle(RS) /\ Idle(RC) /\ Idle(EM) /\ Idle(EA) /\ Idle(GI) /\ Idle(DC)
  BY EverythingIdle, EModeIdle, EmissionAdminIdle, IncentiveIdle
<1>2. \A yes \in BOOLEAN : Idle(U(yes))
  BY IsolatePlain, PlainIdle, IdleRow2
<1>3. \A i : Idle(V(i))
  BY InEModeIdle, IncentiveIdle, IdleConcat
<1>4. /\ GigaDotUpdate(c) = SC \o EM \o InEMode("2-POOL-GDOT", "DotEMode") \o EA \o GI
      /\ ThreePoolCollateral(c) = RC \o UpdateCaps(c) \o InEMode("3-POOL", "StableEMode") \o RS \o PriceWstEth
      /\ UpdateDotEMode(c) = EM
      /\ DisableStablesIsolationBorrow = U(FALSE)
      /\ UpdateIsolationParams(c) = U(TRUE) \o DC
  BY DEF GigaDotUpdate, ThreePoolCollateral, UpdateDotEMode, DisableStablesIsolationBorrow, UpdateIsolationParams
<1>5. HTokenCollateral(c) = (RC \o UpdateCaps(c)) \o (V(1) \o V(2) \o V(3) \o V(4)) \o RF \o PriceWstEth
  BY DEF HTokenCollateral, ForHollarPools
<1> HIDE DEF SC, RF, RS, RC, EM, EA, GI, V, U, DC
<1>6. Idle(HTokenCollateral(c))
  <2>1. Idle(V(1) \o V(2) \o V(3) \o V(4))
    BY <1>3, IdleFour
  <2>2. Idle(RC \o UpdateCaps(c))
    BY <1>1, UpkeepCapsIdle, IdleConcat
  <2> QED BY <1>1, <1>5, <2>1, <2>2, PricesIdle, IdleConcat
<1>7. Idle(GigaDotUpdate(c))
  BY <1>1, <1>4, InEModeIdle, IdleConcat
<1>8. Idle(ThreePoolCollateral(c))
  BY <1>1, <1>4, UpkeepCapsIdle, InEModeIdle, PricesIdle, IdleConcat
<1>9. Idle(UpdateDotEMode(c)) /\ Idle(DisableStablesIsolationBorrow) /\ Idle(UpdateIsolationParams(c))
  BY <1>1, <1>2, <1>4, IdleConcat
<1> QED BY <1>6, <1>7, <1>8, <1>9

LEMMA UpkeepIncentivesIdle ==
  ASSUME NEW c
  PROVE  /\ Idle(HollarPoolsUpdate(c)) /\ Idle(UpdateHollarIncentives(c)) /\ Idle(UpdateGdotIncentives(c))
         /\ Idle(Update3PoolIncentives(c)) /\ \A r, s : Idle(UpdateMultiIncentives(c, r, s))
<1> DEFINE S(i) == << SellAll("treasury", HollarPools[i], HollarTokens[i]) >>
           W(i) == ReviewEmissionAdmin(c, HollarPools[i]) \o ReviewIncentive(c, HollarPools[i], {})
           V(r) == ReviewIncentive(c, r, {})
<1>1. \A i \in 1..4 : Idle(S(i))
  BY HollarShares, SellIdle, IdleRow1
<1>2. \A i : Idle(W(i))
  BY EmissionAdminIdle, IncentiveIdle, IdleConcat
<1>3. \A r : Idle(V(r))
  BY IncentiveIdle
<1>4. /\ HollarPoolsUpdate(c) = (S(1) \o S(2) \o S(3) \o S(4)) \o UpdateCaps(c) \o (W(1) \o W(2) \o W(3) \o W(4))
      /\ UpdateHollarIncentives(c) = V(HollarPools[1]) \o V(HollarPools[2]) \o V(HollarPools[3]) \o V(HollarPools[4])
      /\ UpdateGdotIncentives(c) = V("2-POOL-GDOT")
      /\ Update3PoolIncentives(c) = V("3-POOL")
      /\ \A r, s : UpdateMultiIncentives(c, r, s) = V(r) \o V(s)
  BY DEF HollarPoolsUpdate, UpdateHollarIncentives, ForHollarPools, UpdateGdotIncentives,
         Update3PoolIncentives, UpdateMultiIncentives
<1> HIDE DEF S, W, V
<1>5. Idle(HollarPoolsUpdate(c))
  <2>1. Idle(S(1) \o S(2) \o S(3) \o S(4)) /\ Idle(W(1) \o W(2) \o W(3) \o W(4))
    BY <1>1, <1>2, IdleFour
  <2> QED BY <1>4, <2>1, UpkeepCapsIdle, IdleConcat
<1>6. Idle(UpdateHollarIncentives(c))
  BY <1>3, <1>4, IdleFour
<1>7. Idle(UpdateGdotIncentives(c)) /\ Idle(Update3PoolIncentives(c))
  BY <1>3, <1>4
<1>8. ASSUME NEW r, NEW s
      PROVE  Idle(UpdateMultiIncentives(c, r, s))
  <2>1. Idle(V(r) \o V(s))
    BY <1>3, IdleConcat
  <2> QED BY <1>4, <2>1
<1> QED BY <1>5, <1>6, <1>7, <1>8

LEMMA UpkeepPricesIdle ==
  Idle(UpdateManualOraclePrices) /\ Idle(UpdateWstEthOracle)
<1> DEFINE M == << [Call EXCEPT !.needs = {Pool("2-POOL-GETH")}, !.gets = {<<"pegSource", "2-POOL-GETH">>}] >>
<1>1. Idle(M)
  BY ManagerPlain, PlainIdle, IdleRow1
<1>2. UpdateWstEthOracle = PriceWstEth \o M
  BY DEF UpdateWstEthOracle
<1> HIDE DEF M
<1> QED BY <1>1, <1>2, PricesIdle, IdleConcat DEF UpdateManualOraclePrices

LEMMA RewardsRefreshIdle ==
  ASSUME NEW c
  PROVE  Idle(RewardsRefresh(c))
<1> DEFINE x1 == [aaveManagerCall(Call) EXCEPT !.needs = {EmissionAdmin}, !.gets = {<<"emission", "lower">>}]
           x2 == [aaveManagerCall(Call) EXCEPT !.gets = {<<"emissionAdmin", "PRIME">>}]
           P == { <<"primeReward", r>> : r \in {"2-POOL-HUSDT", "2-POOL-HUSDC", "2-POOL-HEURC"} }
           x3 == [aaveManagerCall(Call) EXCEPT !.needs = {<<"emissionAdmin", "PRIME">>}, !.gets = P]
           sweep(r) == [Transfer("collector", "treasury", r) EXCEPT !.drops = {Holds("collector", r)}]
           rs == Swept(c)
           b == [i \in 1..Len(rs) |-> sweep(rs[i])]
<1>1. IdleCall(x1) /\ IdleCall(x2)
  BY ManagerPlain, PlainIdle
<1>2. IdleCall(x3)
  <2>1. \A f \in P : f[1] = "primeReward"
    OBVIOUS
  <2> HIDE DEF P
  <2>2. x3.soft = TRUE /\ x3.lists = {} /\ x3.moves = {} /\ x3.drops = {} /\ x3.gets = P
    BY DEF aaveManagerCall, Call
  <2> QED BY <2>1, <2>2, PlainIdle DEF Plain
<1>3. Idle(<< x1, x2, x3 >>)
  <2> HIDE DEF x1, x2, x3
  <2> QED BY <1>1, <1>2, IdleRow3
<1>4. \A r : IdleCall(sweep(r))
  BY SweepIdle
<1>5. Idle(b)
  <2>1. IsBatch(rs)
    BY EverythingItems, SeqBatch DEF Swept
  <2> DEFINE S == { sweep(r) : r \in Items(rs) }
  <2>2. Len(rs) \in Nat /\ \A i \in 1..Len(rs) : rs[i] \in Items(rs)
    BY <2>1 DEF IsBatch, Items
  <2> HIDE DEF sweep, rs
  <2>3. b \in Seq(S)
    BY <2>2
  <2>4. \A x \in S : IdleCall(x)
    BY <1>4
  <2>5. IsBatch(b) /\ Items(b) \subseteq S
    BY <2>3, BatchOf
  <2> QED BY <2>4, <2>5 DEF Idle
<1>6. RewardsRefresh(c) = << x1, x2, x3 >> \o b
  BY DEF RewardsRefresh, Each
<1> HIDE DEF x1, x2, x3, b
<1> QED BY <1>3, <1>5, <1>6, IdleConcat

-----------------------------------------------------------------------------
(* The proposals of a market of its own *)

LEMMA PlainRow ==
  ASSUME NEW call, Plain(call)
  PROVE  Idle(<< call >>)
  BY PlainIdle, IdleRow1

LEMMA AsNamedPlain ==
  ASSUME NEW id, NEW n, NEW name
  PROVE  /\ Plain(AsNamed(RegisterAt(id, n), name))
         /\ Plain(AsNamed(Register(id), name))
         /\ Plain([AsNamed(Register(id), name) EXCEPT !.gets = @ \cup {AtVault}])
<1> DEFINE G == {Registered(id), Located(id, n), Named(name), AtVault}
<1>1. \A f \in G : f[1] \in {"registered", "located", "name", "at"}
  BY DEF Registered, Located, Named, AtVault
<1> HIDE DEF G
<1>2. ASSUME NEW call, call.soft = FALSE, call.lists = {}, call.moves = {}, call.drops = {}, call.gets \subseteq G
      PROVE  Plain(call)
  BY <1>1, <1>2 DEF Plain
<1> DEFINE x == AsNamed(RegisterAt(id, n), name)
           y == AsNamed(Register(id), name)
           z == [AsNamed(Register(id), name) EXCEPT !.gets = @ \cup {AtVault}]
<1>3. x.soft = FALSE /\ x.lists = {} /\ x.moves = {} /\ x.drops = {} /\ x.gets \subseteq G
  BY DEF AsNamed, RegisterAt, Register, Call, G
<1>4. y.soft = FALSE /\ y.lists = {} /\ y.moves = {} /\ y.drops = {} /\ y.gets \subseteq G
  BY DEF AsNamed, Register, Call, G
<1>5. z.soft = FALSE /\ z.lists = {} /\ z.moves = {} /\ z.drops = {} /\ z.gets \subseteq G
  BY DEF AsNamed, Register, Call, G
<1> HIDE DEF x, y, z
<1>6. Plain(x) /\ Plain(y) /\ Plain(z)
  BY <1>2, <1>3, <1>4, <1>5
<1> QED BY <1>6 DEF x, y, z

\* An id is moved to where the collateral's token will be.
LEMMA RelocateFine ==
  ASSUME NEW s \in Berths, NEW c, NEW n, n = CollateralToken(c, s[1]), NEW R
  PROVE  Fine(<< Relocate(s[2], n) >>, c, R)
<1> DEFINE call == Relocate(s[2], n)
           b == << call >>
<1>1. /\ call.soft = FALSE /\ call.lists = {} /\ call.moves = {s[2]} /\ call.drops = {}
      /\ call.gets = {Located(s[2], n)}
  BY DEF Relocate, Call
<1>2. Sited(call, c)
  BY DEF Sited
<1>3. s[2] \in Moved
  BY DEF Berths, Moved
<1> HIDE DEF call
<1>4. IsBatch(b) /\ Items(b) = {call}
  BY BatchRow1
<1> HIDE DEF b
<1>5. \A f \in call.gets : f[1] = "located"
  BY <1>1 DEF Located
<1>6. Tidy(call)
  BY <1>1, <1>3, <1>5 DEF Tidy
<1>7. \A a : ~Hands(call, a) /\ InOmnipool(a) \notin call.gets
  BY <1>5 DEF Hands, InOmnipool
<1>8. Honest(call)
  BY <1>7 DEF Honest
<1>9. ASSUME NEW r
      PROVE  Configures(b, c, r)
  <2>1. InitReserves(r).soft = TRUE /\ ConfigureReserves(r).soft = TRUE
    BY InitReservesFields, ConfigureReservesFields
  <2>2. InitReserves(r) \notin Items(b) /\ ConfigureReserves(r) \notin Items(b)
    BY <1>1, <1>4, <2>1
  <2> QED BY <2>2, OrderVacuous DEF Configures
<1>10. Fine(b, c, R)
  BY <1>1, <1>2, <1>4, <1>6, <1>8, <1>9 DEF Fine, Decent
<1> QED BY <1>10 DEF b, call

LEMMA UserAssetFine ==
  ASSUME NEW s \in Berths, NEW c, NEW n, n = CollateralToken(c, s[1]), NEW R, NEW call, Plain(call)
  PROVE  Fine(UserAsset(c, call, s[2], n), c, R)
<1>1. Fine(<< call >>, c, R) /\ Fine(<< >>, c, R)
  BY PlainRow, IdleEmpty, IdleFine
<1>2. Fine(<< Relocate(s[2], n) >>, c, R)
  BY RelocateFine
<1> QED BY <1>1, <1>2 DEF UserAsset, If

LEMMA TokenAssetFine ==
  ASSUME NEW c, NEW R
  PROVE  /\ Fine(BilAsset(c, CollateralToken(c, "BIL")), c, R)
         /\ Fine(GigaHdxAsset(c, CollateralToken(c, "STHDX")), c, R)
<1> DEFINE s == <<"BIL", "aBIL">>
           t == <<"STHDX", "GIGAHDX">>
<1>1. s \in Berths /\ t \in Berths /\ s[1] = "BIL" /\ s[2] = "aBIL" /\ t[1] = "STHDX" /\ t[2] = "GIGAHDX"
  BY DEF Berths
<1> HIDE DEF s, t
<1>2. ASSUME NEW n, n = CollateralToken(c, "BIL")
      PROVE  Fine(BilAsset(c, n), c, R)
  <2> DEFINE call == AsNamed(RegisterAt("aBIL", n), "BIL")
  <2>1. Plain(call)
    BY AsNamedPlain
  <2>2. BilAsset(c, n) = UserAsset(c, call, "aBIL", n)
    BY DEF BilAsset
  <2> HIDE DEF call
  <2>3. Fine(UserAsset(c, call, s[2], n), c, R)
    BY <1>1, <1>2, <2>1, UserAssetFine
  <2> QED BY <1>1, <2>2, <2>3
<1>3. ASSUME NEW n, n = CollateralToken(c, "STHDX")
      PROVE  Fine(GigaHdxAsset(c, n), c, R)
  <2> DEFINE call == RegisterAt("GIGAHDX", n)
  <2>1. Plain(call)
    BY RegisterAtPlain
  <2>2. GigaHdxAsset(c, n) = UserAsset(c, call, "GIGAHDX", n)
    BY DEF GigaHdxAsset
  <2> HIDE DEF call
  <2>3. Fine(UserAsset(c, call, t[2], n), c, R)
    BY <1>1, <1>3, <2>1, UserAssetFine
  <2> QED BY <1>1, <2>2, <2>3
<1> QED BY <1>2, <1>3

LEMMA AssetsIdle ==
  ASSUME NEW c
  PROVE  /\ \A name : Idle(VaultShare(c, name))
         /\ \A id : Idle(FeeCurrency(c, id))
         /\ Idle(ApprovePool(c)) /\ Idle(SetPoolContract(c)) /\ Idle(StakedHdx(c))
<1>3. \A name : Idle(VaultShare(c, name))
  <2> TAKE name
  <2>1. Idle(<< [AsNamed(Register("BIL"), name) EXCEPT !.gets = @ \cup {AtVault}] >>)
    BY AsNamedPlain, PlainRow
  <2>2. Plain([Call EXCEPT !.needs = {Registered("BIL")}, !.gets = {AtVault}])
    BY ManagerPlain DEF AtVault
  <2>3. Idle(<< [Call EXCEPT !.needs = {Registered("BIL")}, !.gets = {AtVault}] >>)
    BY <2>2, PlainRow
  <2> QED BY <2>1, <2>3, IfIdle DEF VaultShare
<1>4. \A id : Idle(FeeCurrency(c, id))
  BY AddCurrencyPlain, PlainRow, IfIdle DEF FeeCurrency
<1>5. Idle(ApprovePool(c)) /\ Idle(SetPoolContract(c))
  <2>1. Plain([Call EXCEPT !.gets = {Approved}]) /\ Plain([Call EXCEPT !.gets = {PoolContract}])
    BY ManagerPlain DEF Approved, PoolContract
  <2> QED BY <2>1, PlainRow, IfIdle DEF ApprovePool, SetPoolContract
<1>6. Idle(StakedHdx(c))
  BY RegisterPlain, PlainRow, IfIdle DEF StakedHdx
<1> QED BY <1>3, <1>4, <1>5, <1>6

ReferenceNames == {"debtToken", "ghoTreasury", "ghoAToken", "discountStrategy", "discountToken"}
LEMMA ReferencesIdle ==
  ASSUME NEW n
  PROVE  Idle(SetReferences(n))
<1>1. ASSUME NEW s \in ReferenceNames
      PROVE  Plain(SetReference(s, n)) /\ Plain(SetOnce(s, n))
  <2>1. \A f \in {<<s, n>>} : f[1] = s
    OBVIOUS
  <2> DEFINE x == SetReference(s, n)
             y == SetOnce(s, n)
  <2>2. x.soft = TRUE /\ x.lists = {} /\ x.moves = {} /\ x.drops = {} /\ x.gets = {<<s, n>>}
    BY DEF SetReference, aaveManagerCall, Call
  <2>3. y.soft = TRUE /\ y.lists = {} /\ y.moves = {} /\ y.drops = {} /\ y.gets = {<<s, n>>}
    BY DEF SetOnce, SetReference, aaveManagerCall, Call
  <2>4. s \notin {"aToken", "listed", "collateral", "holds", "omnipool"}
    BY DEF ReferenceNames
  <2> HIDE DEF x, y
  <2>5. Plain(x) /\ Plain(y)
    BY <2>1, <2>2, <2>3, <2>4 DEF Plain
  <2> QED BY <2>5 DEF x, y
<1> QED BY <1>1, PlainIdle, IdleRow5 DEF ReferenceNames, SetReferences

LEMMA FacilitatorIdle ==
  ASSUME NEW n
  PROVE  IdleCall(AddFacilitator(n)) /\ \A c : Idle(NewFacilitator(c, n))
<1>1. Plain(AddFacilitator(n))
  BY DEF Plain, AddFacilitator, Facilitator, aaveManagerCall, Call
<1> QED BY <1>1, PlainIdle, PlainRow, IfIdle DEF NewFacilitator

\* HOLLAR is listed and not configured.
LEMMA HollarReserveFine ==
  ASSUME NEW c, NEW R, "HOLLAR" \in R
  PROVE  /\ Fine(<< InitReserves("HOLLAR") >>, c, R)
         /\ Fine(HollarReserve, c, R) /\ Fine(HollarReserveBorrowed, c, R)
<1> DEFINE I == << InitReserves("HOLLAR") >>
<1>1. Fine(I, c, R)
  <2>1. IsBatch(I) /\ Items(I) = {InitReserves("HOLLAR")}
    BY BatchRow1
  <2> HIDE DEF I
  <2>2. /\ Tidy(InitReserves("HOLLAR")) /\ Honest(InitReserves("HOLLAR"))
        /\ InitReserves("HOLLAR").lists = {"HOLLAR"} /\ InitReserves("HOLLAR").moves = {}
    BY InitReservesFields, ListingCalls
  <2>3. \A r : r # "HOLLAR" => InitReserves(r) \notin Items(I) /\ ConfigureReserves(r) \notin Items(I)
    <3>1. \A r : InitReserves(r).lists = {r} /\ ConfigureReserves(r).lists = {}
      BY InitReservesFields, ConfigureReservesFields
    <3> QED BY <2>1, <3>1
  <2>4. \A r : r # "HOLLAR" => Configures(I, c, r)
    BY <2>3, OrderVacuous DEF Configures
  <2> QED BY <2>1, <2>2, <2>4 DEF Fine, Decent
<1>2. Idle(<< SetAssetSources("HOLLAR") >>)
  BY SetAssetSourcesPlain, PlainRow
<1>3. Idle(<< Borrowing, SetAssetSources("HOLLAR") >>)
  <2>1. Plain(Borrowing)
    BY ManagerPlain DEF Borrowing
  <2> QED BY <2>1, SetAssetSourcesPlain, PlainIdle, IdleRow2
<1>4. HollarReserve = I \o << SetAssetSources("HOLLAR") >>
  BY DEF HollarReserve
<1>5. HollarReserveBorrowed = I \o << Borrowing, SetAssetSources("HOLLAR") >>
  BY DEF HollarReserveBorrowed
<1>6. Fine(I \o << SetAssetSources("HOLLAR") >>, c, R) /\ Fine(I \o << Borrowing, SetAssetSources("HOLLAR") >>, c, R)
  <2> DEFINE T == << SetAssetSources("HOLLAR") >>
             U == << Borrowing, SetAssetSources("HOLLAR") >>
  <2> HIDE DEF I, T, U
  <2>1. Fine(I \o T, c, R) /\ Fine(I \o U, c, R)
    BY <1>1, <1>2, <1>3, IdleFine, FineConcat DEF T, U
  <2> QED BY <2>1 DEF T, U
<1> QED BY <1>1, <1>4, <1>5, <1>6

LEMMA CollateraliseFine ==
  ASSUME NEW c, World(c), NEW r \in NewReserves, r \notin {"PRIME", "APYUSD"}, NEW R, r \in R
  PROVE  Fine(Collateralise(c, r), c, R)
<1> DEFINE I == InitReserve(c, r)
           F == ReviewReserveFactors(c, Everything)
<1>1. Fine(I, c, R) /\ Idle(F)
  BY ReserveFine, EverythingIdle
<1>2. Fine(I \o F, c, R)
  <2> HIDE DEF I, F
  <2> QED BY <1>1, IdleFine, FineConcat
<1> QED BY <1>2 DEF Collateralise

LEMMA StablepoolIdle ==
  Idle(StablepoolNow) /\ Idle(StablepoolLater)
<1> DEFINE A == << SetAssetSources("BIL"), Register("2-Pool-BIL"), AddCurrency("2-Pool-BIL"),
                   CreatePool("2-Pool-BIL", {"aBIL", "HOLLAR"}) >>
           B == << PoolRoute("aBIL"), PoolRoute("aBIL"), PoolRoute("2-Pool-BIL"), PoolRoute("2-Pool-BIL") >>
           C == << DistributeFees, Transfer("collector", "treasury", "HOLLAR") >>
<1>1. Idle(A)
  BY IdleCalls, IdleRow4
<1>2. Idle(B)
  <2>1. ASSUME NEW asset
        PROVE  Plain(PoolRoute(asset))
    BY DEF Plain, PoolRoute, Call
  <2> QED BY <2>1, PlainIdle, IdleRow4
<1>3. Idle(C)
  <2> DEFINE m == DistributeFees
  <2>1. /\ m.soft = TRUE /\ m.lists = {} /\ m.moves = {} /\ m.drops = {}
        /\ m.gets = {Holds("collector", "HOLLAR")}
    BY DEF DistributeFees, aaveManagerCall, Call
  <2> HIDE DEF m
  <2>4. Handing(m, "collector", "HOLLAR")
    BY <2>1, GigaTokens DEF Handing
  <2>2. IdleCall(m)
    BY <2>4, HandingIdle
  <2>3. Idle(<< m, Transfer("collector", "treasury", "HOLLAR") >>)
    BY <2>2, IdleCalls, IdleRow2
  <2> QED BY <2>3 DEF m
<1>4. Idle(StablepoolNow)
  <2>1. StablepoolNow = A \o B \o C
    BY DEF StablepoolNow
  <2> HIDE DEF A, B, C
  <2> QED BY <1>1, <1>2, <1>3, <2>1, IdleConcat
<1>5. Idle(StablepoolLater)
  <2> DEFINE m == DepositAndSupply
  <2>1. /\ m.soft = TRUE /\ m.lists = {} /\ m.moves = {} /\ m.drops = {}
        /\ m.gets = {Holds("treasury", "aBIL")}
    BY DEF DepositAndSupply, dispatchAs, Call
  <2>2. Plain(ApproveZap)
    BY DEF Plain, ApproveZap, dispatchAs, Call
  <2> HIDE DEF m
  <2>5. Handing(m, "treasury", "aBIL")
    BY <2>1, GigaTokens DEF Handing
  <2>3. IdleCall(m)
    BY <2>5, HandingIdle
  <2>4. Idle(<< ApproveZap, m, AddLiquidity("treasury", "2-Pool-BIL", {"aBIL", "HOLLAR"}) >>)
    BY <2>2, <2>3, PlainIdle, LiquidityOfShare, IdleRow3
  <2> QED BY <2>4 DEF m, StablepoolLater
<1> QED BY <1>4, <1>5

\* A plan that lists nothing, now or later.
Quiet(plan) == Idle(plan.now) /\ IsBatch(plan.later) /\ \A b \in Items(plan.later) : Idle(b)
LEMMA QuietFine ==
  ASSUME NEW plan, Quiet(plan), NEW c, NEW R
  PROVE  PlanFine(plan, c, R)
  BY IdleFine DEF Quiet, PlanFine

LEMMA NowQuiet ==
  ASSUME NEW b, Idle(b)
  PROVE  Quiet(Now(b))
  BY BatchEmpty DEF Quiet, Now, Proposal

LEMMA StablepoolQuiet ==
  ASSUME NEW c
  PROVE  Quiet(StablepoolTxs(c)) /\ Quiet(StablepoolInline(c)) /\ Quiet(StablepoolPatch(c))
<1>1. Quiet(Now(Exit)) /\ Quiet(Now(<< >>))
  BY ExitIdle, IdleEmpty, NowQuiet
<1>2. Quiet(Proposal(StablepoolNow, << StablepoolLater >>))
  <2> DEFINE L == << StablepoolLater >>
  <2>1. IsBatch(L) /\ Items(L) = {StablepoolLater}
    BY BatchRow1
  <2> HIDE DEF L
  <2>2. Quiet(Proposal(StablepoolNow, L))
    BY <2>1, StablepoolIdle DEF Quiet, Proposal
  <2> QED BY <2>2 DEF L
<1>3. Quiet(StablepoolTxs(c))
  BY <1>1, <1>2 DEF StablepoolTxs
<1> QED BY <1>1, <1>3 DEF StablepoolInline, StablepoolPatch

LEMMA BilFine ==
  ASSUME NEW c, World(c)
  PROVE  PlanFine(BilLaunch(c), c, {"BIL", "HOLLAR"}) /\ PlanFine(BilSubmission(c), c, {"BIL", "HOLLAR"})
<1> DEFINE R == {"BIL", "HOLLAR"}
           n == CollateralToken(c, "BIL")
           h == HollarToken(c, "BIL")
           pool == StablepoolInline(c)
           V(name) == VaultShare(c, name)
           C == Collateralise(c, "BIL")
           P == If(Provider \notin c.facts, << RegisterProvider >>)
           K == BilCollateral(c)
           F == NewFacilitator(c, h)
           S == SetReferences(h)
           A == BilAsset(c, n)
           U(id) == FeeCurrency(c, id)
           O == ApprovePool(c)
<1>1. \A name : Idle(V(name))
  BY AssetsIdle
<1>2. Fine(C, c, R)
  BY CollateraliseFine DEF NewReserves
<1>3. Idle(P)
  <2>1. Plain(RegisterProvider)
    BY DEF Plain, RegisterProvider, Provider, aaveManagerCall, Call
  <2> QED BY <2>1, PlainRow, IfIdle
<1>4. Fine(HollarReserve, c, R) /\ Fine(HollarReserveBorrowed, c, R)
  BY HollarReserveFine
<1>5. Idle(F) /\ Idle(S) /\ Idle(O) /\ \A id : Idle(U(id))
  BY FacilitatorIdle, ReferencesIdle, AssetsIdle
<1>a. Fine(A, c, R)
  BY TokenAssetFine
<1>6. Quiet(pool)
  BY StablepoolQuiet
<1>7. K = C \o P
  BY DEF BilCollateral
<1> DEFINE B1 == V("uBIL") \o K \o HollarReserve \o F
           B2 == B1 \o S \o A \o U("aBIL") \o O
           N1 == V("BIL") \o K \o HollarReserveBorrowed \o F
           N2 == N1 \o S \o A \o U("BIL") \o U("aBIL") \o O
<1>8. BilLaunch(c) = [now |-> B2 \o pool.now, later |-> pool.later]
  BY DEF BilLaunch, Proposal
<1>9. BilSubmission(c) = Now(N2)
  BY DEF BilSubmission
<1> HIDE DEF R, n, h, pool, V, C, P, K, F, S, A, U, O
<1>10. Fine(K, c, R)
  BY <1>2, <1>3, <1>7, IdleFine, FineConcat
<1>11. Fine(B1, c, R) /\ Fine(N1, c, R)
  BY <1>1, <1>4, <1>5, <1>10, IdleFine, FineConcat
<1> HIDE DEF B1, N1
<1>12. Fine(B2, c, R) /\ Fine(N2, c, R)
  BY <1>5, <1>a, <1>11, IdleFine, FineConcat
<1> HIDE DEF B2, N2
<1>13. Fine(B2 \o pool.now, c, R)
  BY <1>6, <1>12, IdleFine, FineConcat DEF Quiet
<1>14. PlanFine(BilLaunch(c), c, R)
  BY <1>6, <1>8, <1>13 DEF PlanFine, Quiet
<1>15. PlanFine(BilSubmission(c), c, R)
  BY <1>9, <1>12, NowFine
<1> QED BY <1>14, <1>15 DEF R

LEMMA FundingIdle == Idle(Funding)
<1> DEFINE x1 == [Transfer("source", "treasury", "HDX") EXCEPT !.drops = {Holds("source", "HDX")}]
           x2 == [Call EXCEPT !.gets = {<<"funding", "gigahdx">>}]
           x3 == [Call EXCEPT !.gets = {<<"funding", "gigahdx-rewards">>}]
<1>1. /\ x1.soft = TRUE /\ x1.lists = {} /\ x1.moves = {} /\ x1.drops = {Holds("source", "HDX")}
      /\ x1.gets = {Holds("treasury", "HDX")}
  BY DEF Transfer, dispatchAs, Call
<1>2. IdleCall(x2) /\ IdleCall(x3)
  BY ManagerPlain, PlainIdle
<1>3. Funding = << x1, x2, x3 >>
  BY DEF Funding
<1> HIDE DEF x1, x2, x3
<1>4. \A f \in x1.drops : f[1] = "holds"
  BY <1>1 DEF Holds
<1>5. Handing(x1, "treasury", "HDX")
  BY <1>1, <1>4, GigaTokens DEF Handing
<1> QED BY <1>2, <1>3, <1>5, HandingIdle, IdleRow3

LEMMA GigaHdxFine ==
  ASSUME NEW c, World(c)
  PROVE  PlanFine(GigaHdxLaunch(c), c, {"STHDX", "HOLLAR"}) /\ PlanFine(GigaHdxSubmission(c), c, {"STHDX", "HOLLAR"})
<1> DEFINE R == {"STHDX", "HOLLAR"}
           n == CollateralToken(c, "STHDX")
           h == HollarToken(c, "STHDX")
           hollar == Listed("HOLLAR") \in c.facts
           X == StakedHdx(c)
           C == Collateralise(c, "STHDX")
           H == If(~hollar, HollarReserveBorrowed)
           F == NewFacilitator(c, h)
           N == << AddFacilitator(h) >>
           S == SetReferences(h)
           SS == If(~hollar, SetReferences(h))
           A == GigaHdxAsset(c, n)
           T == SetPoolContract(c)
           O == ApprovePool(c)
<1>1. Idle(X) /\ Idle(T) /\ Idle(O)
  BY AssetsIdle
<1>a. Fine(A, c, R)
  BY TokenAssetFine
<1>2. Fine(C, c, R)
  BY CollateraliseFine DEF NewReserves
<1>3. Fine(HollarReserveBorrowed, c, R)
  BY HollarReserveFine
<1>4. Fine(H, c, R)
  BY <1>3, IdleEmpty, IdleFine DEF If
<1>5. Idle(F) /\ Idle(N) /\ Idle(S) /\ Idle(SS)
  BY FacilitatorIdle, ReferencesIdle, IdleRow1, IfIdle
<1> DEFINE L1 == X \o C \o H \o F
           L2 == L1 \o SS \o A \o T \o O \o Funding
           N1 == X \o C \o HollarReserveBorrowed \o N
           N2 == N1 \o S \o A \o T \o O
<1>6. GigaHdxLaunch(c) = Now(L2) /\ GigaHdxSubmission(c) = Now(N2)
  BY DEF GigaHdxLaunch, GigaHdxSubmission
<1> HIDE DEF R, n, h, hollar, X, C, H, F, N, S, SS, A, T, O
<1>7. Fine(L1, c, R) /\ Fine(N1, c, R)
  BY <1>1, <1>2, <1>3, <1>4, <1>5, IdleFine, FineConcat
<1> HIDE DEF L1, N1
<1>8. Fine(L2, c, R) /\ Fine(N2, c, R)
  BY <1>1, <1>a, <1>5, <1>7, FundingIdle, IdleFine, FineConcat
<1> HIDE DEF L2, N2
<1>9. PlanFine(GigaHdxLaunch(c), c, R) /\ PlanFine(GigaHdxSubmission(c), c, R)
  BY <1>6, <1>8, NowFine
<1> QED BY <1>9 DEF R

LEMMA SmallQuiet ==
  ASSUME NEW c
  PROVE  Quiet(Recovery(c)) /\ Quiet(SetGigaHdxPool(c)) /\ Quiet(ApproveController(c)) /\ Quiet(SetStHdxOracle)
<1>1. \A h : Idle(<< AddFacilitator(h) >> \o SetReferences(h))
  BY FacilitatorIdle, ReferencesIdle, IdleRow1, IdleConcat
<1>2. Quiet(Recovery(c))
  BY <1>1, ExitIdle, NowQuiet DEF Recovery
<1>3. Quiet(SetGigaHdxPool(c)) /\ Quiet(ApproveController(c))
  BY AssetsIdle, ExitIdle, NowQuiet DEF SetGigaHdxPool, ApproveController, OrNothing
<1>4. Quiet(SetStHdxOracle)
  BY SetAssetSourcesPlain, PlainRow, NowQuiet DEF SetStHdxOracle
<1> QED BY <1>2, <1>3, <1>4

-----------------------------------------------------------------------------
(* Whatever a proposal is built from, what it lists it configures *)

ListedBy(p) ==
  CASE p = "gigadot-launch" -> {"GDOT"}
    [] p = "tbtc-prop" -> {"TBTC"}
    [] p = "vdot-prop" -> {"VDOT"}
    [] p = "paxg-prop" -> {"PAXG"}
    [] p = "gigaeth-launch" -> {"2-POOL-GETH", "ETH"}
    [] p = "3pool-launch" -> {"3-POOL"}
    [] p = "hollar-pools-launch" -> HollarReserves
    [] p = "gigasol-launch" -> {"2-POOL-GSOL", "SOL"}
    [] p = "heurc-launch" -> {"EURC", "2-POOL-HEURC"}
    [] p = "hype-mm" -> {"HYPE"}
    [] p = "zec-mm" -> {"ZEC"}
    [] p = "spy-mm" -> {"SPY"}
    [] p = "prime" -> {"PRIME"}
    [] p = "apyusd" -> {"APYUSD"}
    [] p = "sigil-launch" -> {"SIGIL"}
    [] p \in {"bil", "submit-bil-proposal"} -> {"BIL", "HOLLAR"}
    [] p \in {"gigahdx-launch", "submit-gigahdx-proposal"} -> {"STHDX", "HOLLAR"}
    [] OTHER -> {}

Opening == {
  "gigadot-launch", "tbtc-prop", "vdot-prop", "paxg-prop", "gigaeth-launch", "3pool-launch",
  "hollar-pools-launch", "gigasol-launch", "heurc-launch", "hype-mm", "zec-mm", "spy-mm",
  "prime", "apyusd", "sigil-launch", "bil", "submit-bil-proposal", "gigahdx-launch",
  "submit-gigahdx-proposal" }
Settling == {
  "apyusd-motion", "apyusd-liquidity", "update-caps", "gigahydration", "update-oracles-and-caps",
  "update-prime-params", "bifrosto-vdot-oracle", "vdot-biggening",
  "reserve-factor-and-utilization-prop", "reserve-factor-prop", "reduce-stables-borrow-rate",
  "dot-rate-strategy", "prime-rate-strategy", "halvening", "gigadot-update", "htoken-collateral",
  "3pool-collateral", "update-dot-emode", "disable-stables-isolation-borrow",
  "update-isolation-params", "hollar-pools-update", "update-hollar-incentives",
  "update-gdot-incentives", "update-3pool-incentives", "update-multi-incentives",
  "update-manual-oracle-prices", "update-wsteth-oracle", "rewards-refresh",
  "bil-stablepool-patch", "recovery-gho-cross-refs", "set-gigahdx-pool",
  "approve-gigahdx-as-controller", "set-sthdx-oracle" }

LEMMA ProposalNames ==
  ASSUME NEW p, NEW e \in 1..6, p \in Launches[e] \cup Upkeeps[e]
  PROVE  p \in Opening \cup Settling
  BY DEF Launches, Upkeeps, Opening, Settling

LEMMA OpeningFine ==
  ASSUME NEW p \in Opening, NEW c, World(c), NEW n
  PROVE  PlanFine(Built(p, c, n), c, ListedBy(p))
<1>1. CASE p = "gigadot-launch"
  <2>1. Built(p, c, n) = GigaDotLaunch(c) /\ ListedBy(p) = {"GDOT"}
    BY <1>1 DEF Built, ListedBy
  <2> QED BY <2>1, GigaDotFine
<1>2. CASE p = "tbtc-prop"
  <2>1. Built(p, c, n) = TbtcProp(c) /\ ListedBy(p) = {"TBTC"}
    BY <1>2 DEF Built, ListedBy
  <2> QED BY <2>1, TbtcFine
<1>3. CASE p = "vdot-prop"
  <2>1. Built(p, c, n) = VdotProp(c) /\ ListedBy(p) = {"VDOT"}
    BY <1>3 DEF Built, ListedBy
  <2> QED BY <2>1, VdotFine
<1>4. CASE p = "paxg-prop"
  <2>1. Built(p, c, n) = PaxgProp(c) /\ ListedBy(p) = {"PAXG"}
    BY <1>4 DEF Built, ListedBy
  <2> QED BY <2>1, TbtcFine
<1>5. CASE p = "gigaeth-launch"
  <2>1. Built(p, c, n) = GigaEthLaunch(c) /\ ListedBy(p) = {"2-POOL-GETH", "ETH"}
    BY <1>5 DEF Built, ListedBy
  <2> QED BY <2>1, GigaEthFine
<1>6. CASE p = "3pool-launch"
  <2>1. Built(p, c, n) = ThreePoolLaunch(c) /\ ListedBy(p) = {"3-POOL"}
    BY <1>6 DEF Built, ListedBy
  <2> QED BY <2>1, ThreePoolFine
<1>7. CASE p = "hollar-pools-launch"
  <2>1. Built(p, c, n) = HollarPoolsLaunch(c) /\ ListedBy(p) = HollarReserves
    BY <1>7 DEF Built, ListedBy
  <2> QED BY <2>1, HollarPoolsFine
<1>8. CASE p = "gigasol-launch"
  <2>1. Built(p, c, n) = GigaSolLaunch(c) /\ ListedBy(p) = {"2-POOL-GSOL", "SOL"}
    BY <1>8 DEF Built, ListedBy
  <2> QED BY <2>1, GigaSolFine
<1>9. CASE p = "heurc-launch"
  <2>1. Built(p, c, n) = HeurcLaunch(c) /\ ListedBy(p) = {"EURC", "2-POOL-HEURC"}
    BY <1>9 DEF Built, ListedBy
  <2> QED BY <2>1, HeurcFine
<1>10. CASE p = "hype-mm"
  <2>1. Built(p, c, n) = HypeMM(c) /\ ListedBy(p) = {"HYPE"}
    BY <1>10 DEF Built, ListedBy
  <2> QED BY <2>1, SingleFine
<1>11. CASE p = "zec-mm"
  <2>1. Built(p, c, n) = ZecMM(c, n) /\ ListedBy(p) = {"ZEC"}
    BY <1>11 DEF Built, ListedBy
  <2> QED BY <2>1, SingleFine
<1>12. CASE p = "spy-mm"
  <2>1. Built(p, c, n) = SpyMM(c, n) /\ ListedBy(p) = {"SPY"}
    BY <1>12 DEF Built, ListedBy
  <2> QED BY <2>1, SingleFine
<1>13. CASE p = "prime"
  <2>1. Built(p, c, n) = Prime(c) /\ ListedBy(p) = {"PRIME"}
    BY <1>13 DEF Built, ListedBy
  <2> QED BY <2>1, PrimeFine
<1>14. CASE p = "apyusd"
  <2>1. Built(p, c, n) = ApyUsd(c) /\ ListedBy(p) = {"APYUSD"}
    BY <1>14 DEF Built, ListedBy
  <2> QED BY <2>1, ApyUsdFine
<1>15. CASE p = "sigil-launch"
  <2>1. Built(p, c, n) = SigilLaunch(c) /\ ListedBy(p) = {"SIGIL"}
    BY <1>15 DEF Built, ListedBy
  <2> QED BY <2>1, SigilFine
<1>16. CASE p = "bil"
  <2>1. Built(p, c, n) = BilLaunch(c) /\ ListedBy(p) = {"BIL", "HOLLAR"}
    BY <1>16 DEF Built, ListedBy
  <2> QED BY <2>1, BilFine
<1>17. CASE p = "submit-bil-proposal"
  <2>1. Built(p, c, n) = BilSubmission(c) /\ ListedBy(p) = {"BIL", "HOLLAR"}
    BY <1>17 DEF Built, ListedBy
  <2> QED BY <2>1, BilFine
<1>18. CASE p = "gigahdx-launch"
  <2>1. Built(p, c, n) = GigaHdxLaunch(c) /\ ListedBy(p) = {"STHDX", "HOLLAR"}
    BY <1>18 DEF Built, ListedBy
  <2> QED BY <2>1, GigaHdxFine
<1>19. CASE p = "submit-gigahdx-proposal"
  <2>1. Built(p, c, n) = GigaHdxSubmission(c) /\ ListedBy(p) = {"STHDX", "HOLLAR"}
    BY <1>19 DEF Built, ListedBy
  <2> QED BY <2>1, GigaHdxFine
<1> QED BY <1>1, <1>2, <1>3, <1>4, <1>5, <1>6, <1>7, <1>8, <1>9, <1>10, <1>11, <1>12, <1>13, <1>14, <1>15, <1>16, <1>17, <1>18, <1>19 DEF Opening

LEMMA SettlingQuiet ==
  ASSUME NEW p \in Settling, NEW c, NEW n
  PROVE  Quiet(Built(p, c, n))
<1>1. CASE p = "apyusd-motion"
  <2>1. Built(p, c, n) = Now(<< ApyUsdMotion >>)
    BY <1>1 DEF Built
  <2> QED BY <2>1, ApyUsdLaterIdle, NowQuiet
<1>2. CASE p = "apyusd-liquidity"
  <2>1. Built(p, c, n) = Now(ApyUsdSeed)
    BY <1>2 DEF Built
  <2> QED BY <2>1, ApyUsdLaterIdle, NowQuiet
<1>3. CASE p = "update-caps"
  <2>1. Built(p, c, n) = Now(UpdateCaps(c))
    BY <1>3 DEF Built
  <2> QED BY <2>1, UpkeepCapsIdle, NowQuiet
<1>4. CASE p = "gigahydration"
  <2>1. Built(p, c, n) = Now(GigaHydration(c))
    BY <1>4 DEF Built
  <2> QED BY <2>1, UpkeepCapsIdle, NowQuiet
<1>5. CASE p = "update-oracles-and-caps"
  <2>1. Built(p, c, n) = Now(UpdateOraclesAndCaps(c))
    BY <1>5 DEF Built
  <2> QED BY <2>1, UpkeepCapsIdle, NowQuiet
<1>6. CASE p = "update-prime-params"
  <2>1. Built(p, c, n) = Now(UpdatePrimeParams(c))
    BY <1>6 DEF Built
  <2> QED BY <2>1, UpkeepCapsIdle, NowQuiet
<1>7. CASE p = "bifrosto-vdot-oracle"
  <2>1. Built(p, c, n) = Now(UpdateReserveOracle(c))
    BY <1>7 DEF Built
  <2> QED BY <2>1, UpkeepCapsIdle, NowQuiet
<1>8. CASE p = "vdot-biggening"
  <2>1. Built(p, c, n) = Now(VdotBiggening(c))
    BY <1>8 DEF Built
  <2> QED BY <2>1, UpkeepCapsIdle, NowQuiet
<1>9. CASE p = "reserve-factor-and-utilization-prop"
  <2>1. Built(p, c, n) = Now(ReserveFactorAndUtilization(c))
    BY <1>9 DEF Built
  <2> QED BY <2>1, UpkeepRatesIdle, NowQuiet
<1>10. CASE p = "reserve-factor-prop"
  <2>1. Built(p, c, n) = Now(ReserveFactorProp(c))
    BY <1>10 DEF Built
  <2> QED BY <2>1, UpkeepRatesIdle, NowQuiet
<1>11. CASE p = "reduce-stables-borrow-rate"
  <2>1. Built(p, c, n) = Now(ReduceStablesBorrowRate(c))
    BY <1>11 DEF Built
  <2> QED BY <2>1, UpkeepRatesIdle, NowQuiet
<1>12. CASE p = "dot-rate-strategy"
  <2>1. Built(p, c, n) = Now(DotRateStrategy(c))
    BY <1>12 DEF Built
  <2> QED BY <2>1, UpkeepRatesIdle, NowQuiet
<1>13. CASE p = "prime-rate-strategy"
  <2>1. Built(p, c, n) = Now(PrimeRateStrategy(c))
    BY <1>13 DEF Built
  <2> QED BY <2>1, UpkeepRatesIdle, NowQuiet
<1>14. CASE p = "halvening"
  <2>1. Built(p, c, n) = Now(Halvening(c))
    BY <1>14 DEF Built
  <2> QED BY <2>1, UpkeepRatesIdle, NowQuiet
<1>15. CASE p = "gigadot-update"
  <2>1. Built(p, c, n) = Now(GigaDotUpdate(c))
    BY <1>15 DEF Built
  <2> QED BY <2>1, UpkeepCollateralIdle, NowQuiet
<1>16. CASE p = "htoken-collateral"
  <2>1. Built(p, c, n) = Now(HTokenCollateral(c))
    BY <1>16 DEF Built
  <2> QED BY <2>1, UpkeepCollateralIdle, NowQuiet
<1>17. CASE p = "3pool-collateral"
  <2>1. Built(p, c, n) = Now(ThreePoolCollateral(c))
    BY <1>17 DEF Built
  <2> QED BY <2>1, UpkeepCollateralIdle, NowQuiet
<1>18. CASE p = "update-dot-emode"
  <2>1. Built(p, c, n) = Now(UpdateDotEMode(c))
    BY <1>18 DEF Built
  <2> QED BY <2>1, UpkeepCollateralIdle, NowQuiet
<1>19. CASE p = "disable-stables-isolation-borrow"
  <2>1. Built(p, c, n) = Now(DisableStablesIsolationBorrow)
    BY <1>19 DEF Built
  <2> QED BY <2>1, UpkeepCollateralIdle, NowQuiet
<1>20. CASE p = "update-isolation-params"
  <2>1. Built(p, c, n) = Now(UpdateIsolationParams(c))
    BY <1>20 DEF Built
  <2> QED BY <2>1, UpkeepCollateralIdle, NowQuiet
<1>21. CASE p = "hollar-pools-update"
  <2>1. Built(p, c, n) = Now(HollarPoolsUpdate(c))
    BY <1>21 DEF Built
  <2> QED BY <2>1, UpkeepIncentivesIdle, NowQuiet
<1>22. CASE p = "update-hollar-incentives"
  <2>1. Built(p, c, n) = Now(UpdateHollarIncentives(c))
    BY <1>22 DEF Built
  <2> QED BY <2>1, UpkeepIncentivesIdle, NowQuiet
<1>23. CASE p = "update-gdot-incentives"
  <2>1. Built(p, c, n) = Now(UpdateGdotIncentives(c))
    BY <1>23 DEF Built
  <2> QED BY <2>1, UpkeepIncentivesIdle, NowQuiet
<1>24. CASE p = "update-3pool-incentives"
  <2>1. Built(p, c, n) = Now(Update3PoolIncentives(c))
    BY <1>24 DEF Built
  <2> QED BY <2>1, UpkeepIncentivesIdle, NowQuiet
<1>25. CASE p = "update-multi-incentives"
  <2>1. Built(p, c, n) = Now(UpdateMultiIncentives(c, "3-POOL", "2-POOL-GDOT"))
    BY <1>25 DEF Built
  <2> QED BY <2>1, UpkeepIncentivesIdle, NowQuiet
<1>26. CASE p = "update-manual-oracle-prices"
  <2>1. Built(p, c, n) = Now(UpdateManualOraclePrices)
    BY <1>26 DEF Built
  <2> QED BY <2>1, UpkeepPricesIdle, NowQuiet
<1>27. CASE p = "update-wsteth-oracle"
  <2>1. Built(p, c, n) = Now(UpdateWstEthOracle)
    BY <1>27 DEF Built
  <2> QED BY <2>1, UpkeepPricesIdle, NowQuiet
<1>28. CASE p = "rewards-refresh"
  <2>1. Built(p, c, n) = Now(RewardsRefresh(c))
    BY <1>28 DEF Built
  <2> QED BY <2>1, RewardsRefreshIdle, NowQuiet
<1>29. CASE p = "bil-stablepool-patch"
  <2>1. Built(p, c, n) = StablepoolPatch(c)
    BY <1>29 DEF Built
  <2> QED BY <2>1, StablepoolQuiet
<1>30. CASE p = "recovery-gho-cross-refs"
  <2>1. Built(p, c, n) = Recovery(c)
    BY <1>30 DEF Built
  <2> QED BY <2>1, SmallQuiet
<1>31. CASE p = "set-gigahdx-pool"
  <2>1. Built(p, c, n) = SetGigaHdxPool(c)
    BY <1>31 DEF Built
  <2> QED BY <2>1, SmallQuiet
<1>32. CASE p = "approve-gigahdx-as-controller"
  <2>1. Built(p, c, n) = ApproveController(c)
    BY <1>32 DEF Built
  <2> QED BY <2>1, SmallQuiet
<1>33. CASE p = "set-sthdx-oracle"
  <2>1. Built(p, c, n) = SetStHdxOracle
    BY <1>33 DEF Built
  <2> QED BY <2>1, SmallQuiet
<1> QED BY <1>1, <1>2, <1>3, <1>4, <1>5, <1>6, <1>7, <1>8, <1>9, <1>10, <1>11, <1>12, <1>13, <1>14, <1>15, <1>16, <1>17, <1>18, <1>19, <1>20, <1>21, <1>22, <1>23, <1>24, <1>25, <1>26, <1>27, <1>28, <1>29, <1>30, <1>31, <1>32, <1>33 DEF Settling

LEMMA BuiltFine ==
  ASSUME NEW p, NEW e \in 1..6, p \in Launches[e] \cup Upkeeps[e], NEW c, World(c), NEW n
  PROVE  PlanFine(Built(p, c, n), c, ListedBy(p))
  BY ProposalNames, OpeningFine, SettlingQuiet, QuietFine

-----------------------------------------------------------------------------
(* The launches on the main market, and where their tokens go: the id a is   *)
(* registered Offset(a) from the nonce, and there its reserve is laid.       *)

Placing == {
  "gigadot-launch", "tbtc-prop", "paxg-prop", "gigaeth-launch", "hollar-pools-launch",
  "gigasol-launch", "heurc-launch", "hype-mm", "zec-mm", "spy-mm", "prime", "apyusd", "sigil-launch" }
Offset(a) ==
  CASE a \in {"aSOL", "aETH", "HEURC", "HUSDT"} -> 3
    [] a = "HUSDS" -> 6
    [] a = "HUSDE" -> 9
    [] OTHER -> 0
Laid(p) == { <<Means[a], Offset(a)>> : a \in NewTokens(p) }
\* The reserves whose underlying asset the launch registers, too.
Sown(p) ==
  CASE p = "gigadot-launch" -> {"GDOT"}
    [] p = "gigaeth-launch" -> {"2-POOL-GETH"}
    [] p = "gigasol-launch" -> {"2-POOL-GSOL"}
    [] p = "heurc-launch" -> {"2-POOL-HEURC"}
    [] p = "sigil-launch" -> {"SIGIL"}
    [] OTHER -> {}
For(p, c, n) == IF p \in {"zec-mm", "spy-mm"} THEN n ELSE c.nonce

LEMMA MeansIs ==
  /\ Means["gDOT"] = "GDOT"
  /\ Means["atBTC"] = "TBTC"
  /\ Means["apaxg"] = "PAXG"
  /\ Means["gETH"] = "2-POOL-GETH"
  /\ Means["aETH"] = "ETH"
  /\ Means["gSOL"] = "2-POOL-GSOL"
  /\ Means["aSOL"] = "SOL"
  /\ Means["aEURC"] = "EURC"
  /\ Means["HEURC"] = "2-POOL-HEURC"
  /\ Means["HUSDC"] = "2-POOL-HUSDC"
  /\ Means["HUSDT"] = "2-POOL-HUSDT"
  /\ Means["HUSDS"] = "2-POOL-HUSDS"
  /\ Means["HUSDE"] = "2-POOL-HUSDE"
  /\ Means["aHYPE"] = "HYPE"
  /\ Means["aZEC"] = "ZEC"
  /\ Means["aSPY"] = "SPY"
  /\ Means["aPRIME"] = "PRIME"
  /\ Means["aAPYUSD"] = "APYUSD"
  /\ Means["aSIGIL"] = "SIGIL"
  BY DEF Means

Places(p, plan, c, n) ==
  /\ \E d \in Nat : Lays(plan.now, c, Laid(p), d, Sown(p))
  /\ \A a \in NewTokens(p) : Has(plan.now, RegisterAt(a, For(p, c, n) + Offset(a)))

LEMMA PlacingPlaces ==
  ASSUME NEW p \in Placing, NEW c, World(c), NEW n \in Nat
  PROVE  Places(p, Built(p, c, n), c, n)
<1> DEFINE Goal(q) == Places(q, Built(q, c, n), c, n)
<1>0. c.nonce \in Nat /\ c.nonce + 0 = c.nonce /\ n + 0 = n
  BY DEF World, IsChain
<1>1. CASE p = "gigadot-launch"
  <2> DEFINE b == GigaDotLaunch(c).now
             T == {"gDOT"}
             G == {"GDOT"}
             L == {<<"GDOT", 0>>}
  <2>1. /\ Lays(b, c, L, 3, G)
        /\ Has(b, RegisterAt("gDOT", c.nonce))
    BY GigaDotFine
  <2>2. NewTokens("gigadot-launch") = T
    BY DEF NewTokens
  <2>3. Sown("gigadot-launch") = G
    BY DEF Sown
  <2>4. Offset("gDOT") = 0
    BY DEF Offset
  <2>5. Laid("gigadot-launch") = L
    BY <2>2, <2>4, MeansIs DEF Laid
  <2>6. Built("gigadot-launch", c, n).now = b
    BY DEF Built
  <2>7. For("gigadot-launch", c, n) = c.nonce
    BY DEF For
  <2> HIDE DEF b, G, L
  <2>8. \A a \in T : Has(b, RegisterAt(a, For("gigadot-launch", c, n) + Offset(a)))
    BY <1>0, <2>1, <2>4, <2>7
  <2> HIDE DEF T
  <2>9. Places("gigadot-launch", Built("gigadot-launch", c, n), c, n)
    BY <2>1, <2>2, <2>3, <2>5, <2>6, <2>8 DEF Places
  <2> QED BY <1>1, <2>9
<1>2. CASE p = "tbtc-prop"
  <2> DEFINE b == TbtcProp(c).now
             T == {"atBTC"}
             G == {}
             L == {<<"TBTC", 0>>}
  <2>1. /\ Lays(b, c, L, 3, G)
        /\ Has(b, RegisterAt("atBTC", c.nonce))
    BY TbtcFine
  <2>2. NewTokens("tbtc-prop") = T
    BY DEF NewTokens
  <2>3. Sown("tbtc-prop") = G
    BY DEF Sown
  <2>4. Offset("atBTC") = 0
    BY DEF Offset
  <2>5. Laid("tbtc-prop") = L
    BY <2>2, <2>4, MeansIs DEF Laid
  <2>6. Built("tbtc-prop", c, n).now = b
    BY DEF Built
  <2>7. For("tbtc-prop", c, n) = c.nonce
    BY DEF For
  <2> HIDE DEF b, G, L
  <2>8. \A a \in T : Has(b, RegisterAt(a, For("tbtc-prop", c, n) + Offset(a)))
    BY <1>0, <2>1, <2>4, <2>7
  <2> HIDE DEF T
  <2>9. Places("tbtc-prop", Built("tbtc-prop", c, n), c, n)
    BY <2>1, <2>2, <2>3, <2>5, <2>6, <2>8 DEF Places
  <2> QED BY <1>2, <2>9
<1>3. CASE p = "paxg-prop"
  <2> DEFINE b == PaxgProp(c).now
             T == {"apaxg"}
             G == {}
             L == {<<"PAXG", 0>>}
  <2>1. /\ Lays(b, c, L, 3, G)
        /\ Has(b, RegisterAt("apaxg", c.nonce))
    BY TbtcFine
  <2>2. NewTokens("paxg-prop") = T
    BY DEF NewTokens
  <2>3. Sown("paxg-prop") = G
    BY DEF Sown
  <2>4. Offset("apaxg") = 0
    BY DEF Offset
  <2>5. Laid("paxg-prop") = L
    BY <2>2, <2>4, MeansIs DEF Laid
  <2>6. Built("paxg-prop", c, n).now = b
    BY DEF Built
  <2>7. For("paxg-prop", c, n) = c.nonce
    BY DEF For
  <2> HIDE DEF b, G, L
  <2>8. \A a \in T : Has(b, RegisterAt(a, For("paxg-prop", c, n) + Offset(a)))
    BY <1>0, <2>1, <2>4, <2>7
  <2> HIDE DEF T
  <2>9. Places("paxg-prop", Built("paxg-prop", c, n), c, n)
    BY <2>1, <2>2, <2>3, <2>5, <2>6, <2>8 DEF Places
  <2> QED BY <1>3, <2>9
<1>4. CASE p = "gigaeth-launch"
  <2> DEFINE b == GigaEthLaunch(c).now
             T == {"gETH", "aETH"}
             G == {"2-POOL-GETH"}
             L == {<<"2-POOL-GETH", 0>>, <<"ETH", 3>>}
  <2>1. /\ Lays(b, c, L, 6, G)
        /\ Has(b, RegisterAt("gETH", c.nonce))
        /\ Has(b, RegisterAt("aETH", c.nonce + 3))
    BY GigaEthFine
  <2>2. NewTokens("gigaeth-launch") = T
    BY DEF NewTokens
  <2>3. Sown("gigaeth-launch") = G
    BY DEF Sown
  <2>4. Offset("gETH") = 0 /\ Offset("aETH") = 3
    BY DEF Offset
  <2>5. Laid("gigaeth-launch") = L
    BY <2>2, <2>4, MeansIs DEF Laid
  <2>6. Built("gigaeth-launch", c, n).now = b
    BY DEF Built
  <2>7. For("gigaeth-launch", c, n) = c.nonce
    BY DEF For
  <2> HIDE DEF b, G, L
  <2>8. \A a \in T : Has(b, RegisterAt(a, For("gigaeth-launch", c, n) + Offset(a)))
    BY <1>0, <2>1, <2>4, <2>7
  <2> HIDE DEF T
  <2>9. Places("gigaeth-launch", Built("gigaeth-launch", c, n), c, n)
    BY <2>1, <2>2, <2>3, <2>5, <2>6, <2>8 DEF Places
  <2> QED BY <1>4, <2>9
<1>5. CASE p = "hollar-pools-launch"
  <2> DEFINE b == HollarPoolsLaunch(c).now
             T == {"HUSDC", "HUSDT", "HUSDS", "HUSDE"}
             G == {}
             L == {<<"2-POOL-HUSDC", 0>>, <<"2-POOL-HUSDT", 3>>, <<"2-POOL-HUSDS", 6>>, <<"2-POOL-HUSDE", 9>>}
  <2>1. /\ Lays(b, c, L, 12, G)
        /\ Has(b, RegisterAt("HUSDC", c.nonce))
        /\ Has(b, RegisterAt("HUSDT", c.nonce + 3))
        /\ Has(b, RegisterAt("HUSDS", c.nonce + 6))
        /\ Has(b, RegisterAt("HUSDE", c.nonce + 9))
    BY HollarPoolsFine
  <2>2. NewTokens("hollar-pools-launch") = T
    BY DEF NewTokens
  <2>3. Sown("hollar-pools-launch") = G
    BY DEF Sown
  <2>4. Offset("HUSDC") = 0 /\ Offset("HUSDT") = 3 /\ Offset("HUSDS") = 6 /\ Offset("HUSDE") = 9
    BY DEF Offset
  <2>5. Laid("hollar-pools-launch") = L
    BY <2>2, <2>4, MeansIs DEF Laid
  <2>6. Built("hollar-pools-launch", c, n).now = b
    BY DEF Built
  <2>7. For("hollar-pools-launch", c, n) = c.nonce
    BY DEF For
  <2> HIDE DEF b, G, L
  <2>8. \A a \in T : Has(b, RegisterAt(a, For("hollar-pools-launch", c, n) + Offset(a)))
    BY <1>0, <2>1, <2>4, <2>7
  <2> HIDE DEF T
  <2>9. Places("hollar-pools-launch", Built("hollar-pools-launch", c, n), c, n)
    BY <2>1, <2>2, <2>3, <2>5, <2>6, <2>8 DEF Places
  <2> QED BY <1>5, <2>9
<1>6. CASE p = "gigasol-launch"
  <2> DEFINE b == GigaSolLaunch(c).now
             T == {"gSOL", "aSOL"}
             G == {"2-POOL-GSOL"}
             L == {<<"2-POOL-GSOL", 0>>, <<"SOL", 3>>}
  <2>1. /\ Lays(b, c, L, 6, G)
        /\ Has(b, RegisterAt("gSOL", c.nonce))
        /\ Has(b, RegisterAt("aSOL", c.nonce + 3))
    BY GigaSolFine
  <2>2. NewTokens("gigasol-launch") = T
    BY DEF NewTokens
  <2>3. Sown("gigasol-launch") = G
    BY DEF Sown
  <2>4. Offset("gSOL") = 0 /\ Offset("aSOL") = 3
    BY DEF Offset
  <2>5. Laid("gigasol-launch") = L
    BY <2>2, <2>4, MeansIs DEF Laid
  <2>6. Built("gigasol-launch", c, n).now = b
    BY DEF Built
  <2>7. For("gigasol-launch", c, n) = c.nonce
    BY DEF For
  <2> HIDE DEF b, G, L
  <2>8. \A a \in T : Has(b, RegisterAt(a, For("gigasol-launch", c, n) + Offset(a)))
    BY <1>0, <2>1, <2>4, <2>7
  <2> HIDE DEF T
  <2>9. Places("gigasol-launch", Built("gigasol-launch", c, n), c, n)
    BY <2>1, <2>2, <2>3, <2>5, <2>6, <2>8 DEF Places
  <2> QED BY <1>6, <2>9
<1>7. CASE p = "heurc-launch"
  <2> DEFINE b == HeurcLaunch(c).now
             T == {"aEURC", "HEURC"}
             G == {"2-POOL-HEURC"}
             L == {<<"EURC", 0>>, <<"2-POOL-HEURC", 3>>}
  <2>1. /\ Lays(b, c, L, 6, G)
        /\ Has(b, RegisterAt("aEURC", c.nonce))
        /\ Has(b, RegisterAt("HEURC", c.nonce + 3))
    BY HeurcFine
  <2>2. NewTokens("heurc-launch") = T
    BY DEF NewTokens
  <2>3. Sown("heurc-launch") = G
    BY DEF Sown
  <2>4. Offset("aEURC") = 0 /\ Offset("HEURC") = 3
    BY DEF Offset
  <2>5. Laid("heurc-launch") = L
    BY <2>2, <2>4, MeansIs DEF Laid
  <2>6. Built("heurc-launch", c, n).now = b
    BY DEF Built
  <2>7. For("heurc-launch", c, n) = c.nonce
    BY DEF For
  <2> HIDE DEF b, G, L
  <2>8. \A a \in T : Has(b, RegisterAt(a, For("heurc-launch", c, n) + Offset(a)))
    BY <1>0, <2>1, <2>4, <2>7
  <2> HIDE DEF T
  <2>9. Places("heurc-launch", Built("heurc-launch", c, n), c, n)
    BY <2>1, <2>2, <2>3, <2>5, <2>6, <2>8 DEF Places
  <2> QED BY <1>7, <2>9
<1>8. CASE p = "hype-mm"
  <2> DEFINE b == HypeMM(c).now
             T == {"aHYPE"}
             G == {}
             L == {<<"HYPE", 0>>}
  <2>1. /\ Lays(b, c, L, 3, G)
        /\ Has(b, RegisterAt("aHYPE", c.nonce))
    BY SingleFine
  <2>2. NewTokens("hype-mm") = T
    BY DEF NewTokens
  <2>3. Sown("hype-mm") = G
    BY DEF Sown
  <2>4. Offset("aHYPE") = 0
    BY DEF Offset
  <2>5. Laid("hype-mm") = L
    BY <2>2, <2>4, MeansIs DEF Laid
  <2>6. Built("hype-mm", c, n).now = b
    BY DEF Built
  <2>7. For("hype-mm", c, n) = c.nonce
    BY DEF For
  <2> HIDE DEF b, G, L
  <2>8. \A a \in T : Has(b, RegisterAt(a, For("hype-mm", c, n) + Offset(a)))
    BY <1>0, <2>1, <2>4, <2>7
  <2> HIDE DEF T
  <2>9. Places("hype-mm", Built("hype-mm", c, n), c, n)
    BY <2>1, <2>2, <2>3, <2>5, <2>6, <2>8 DEF Places
  <2> QED BY <1>8, <2>9
<1>9. CASE p = "zec-mm"
  <2> DEFINE b == ZecMM(c, n).now
             T == {"aZEC"}
             G == {}
             L == {<<"ZEC", 0>>}
  <2>1. /\ Lays(b, c, L, 3, G)
        /\ Has(b, RegisterAt("aZEC", n))
    BY SingleFine
  <2>2. NewTokens("zec-mm") = T
    BY DEF NewTokens
  <2>3. Sown("zec-mm") = G
    BY DEF Sown
  <2>4. Offset("aZEC") = 0
    BY DEF Offset
  <2>5. Laid("zec-mm") = L
    BY <2>2, <2>4, MeansIs DEF Laid
  <2>6. Built("zec-mm", c, n).now = b
    BY DEF Built
  <2>7. For("zec-mm", c, n) = n
    BY DEF For
  <2> HIDE DEF b, G, L
  <2>8. \A a \in T : Has(b, RegisterAt(a, For("zec-mm", c, n) + Offset(a)))
    BY <1>0, <2>1, <2>4, <2>7
  <2> HIDE DEF T
  <2>9. Places("zec-mm", Built("zec-mm", c, n), c, n)
    BY <2>1, <2>2, <2>3, <2>5, <2>6, <2>8 DEF Places
  <2> QED BY <1>9, <2>9
<1>10. CASE p = "spy-mm"
  <2> DEFINE b == SpyMM(c, n).now
             T == {"aSPY"}
             G == {}
             L == {<<"SPY", 0>>}
  <2>1. /\ Lays(b, c, L, 3, G)
        /\ Has(b, RegisterAt("aSPY", n))
    BY SingleFine
  <2>2. NewTokens("spy-mm") = T
    BY DEF NewTokens
  <2>3. Sown("spy-mm") = G
    BY DEF Sown
  <2>4. Offset("aSPY") = 0
    BY DEF Offset
  <2>5. Laid("spy-mm") = L
    BY <2>2, <2>4, MeansIs DEF Laid
  <2>6. Built("spy-mm", c, n).now = b
    BY DEF Built
  <2>7. For("spy-mm", c, n) = n
    BY DEF For
  <2> HIDE DEF b, G, L
  <2>8. \A a \in T : Has(b, RegisterAt(a, For("spy-mm", c, n) + Offset(a)))
    BY <1>0, <2>1, <2>4, <2>7
  <2> HIDE DEF T
  <2>9. Places("spy-mm", Built("spy-mm", c, n), c, n)
    BY <2>1, <2>2, <2>3, <2>5, <2>6, <2>8 DEF Places
  <2> QED BY <1>10, <2>9
<1>11. CASE p = "prime"
  <2> DEFINE b == Prime(c).now
             T == {"aPRIME"}
             G == {}
             L == {<<"PRIME", 0>>}
  <2>1. /\ Lays(b, c, L, 3, G)
        /\ Has(b, RegisterAt("aPRIME", c.nonce))
    BY PrimeFine
  <2>2. NewTokens("prime") = T
    BY DEF NewTokens
  <2>3. Sown("prime") = G
    BY DEF Sown
  <2>4. Offset("aPRIME") = 0
    BY DEF Offset
  <2>5. Laid("prime") = L
    BY <2>2, <2>4, MeansIs DEF Laid
  <2>6. Built("prime", c, n).now = b
    BY DEF Built
  <2>7. For("prime", c, n) = c.nonce
    BY DEF For
  <2> HIDE DEF b, G, L
  <2>8. \A a \in T : Has(b, RegisterAt(a, For("prime", c, n) + Offset(a)))
    BY <1>0, <2>1, <2>4, <2>7
  <2> HIDE DEF T
  <2>9. Places("prime", Built("prime", c, n), c, n)
    BY <2>1, <2>2, <2>3, <2>5, <2>6, <2>8 DEF Places
  <2> QED BY <1>11, <2>9
<1>12. CASE p = "apyusd"
  <2> DEFINE b == ApyUsd(c).now
             T == {"aAPYUSD"}
             G == {}
             L == {<<"APYUSD", 0>>}
  <2>1. /\ Lays(b, c, L, 3, G)
        /\ Has(b, RegisterAt("aAPYUSD", c.nonce))
    BY ApyUsdFine
  <2>2. NewTokens("apyusd") = T
    BY DEF NewTokens
  <2>3. Sown("apyusd") = G
    BY DEF Sown
  <2>4. Offset("aAPYUSD") = 0
    BY DEF Offset
  <2>5. Laid("apyusd") = L
    BY <2>2, <2>4, MeansIs DEF Laid
  <2>6. Built("apyusd", c, n).now = b
    BY DEF Built
  <2>7. For("apyusd", c, n) = c.nonce
    BY DEF For
  <2> HIDE DEF b, G, L
  <2>8. \A a \in T : Has(b, RegisterAt(a, For("apyusd", c, n) + Offset(a)))
    BY <1>0, <2>1, <2>4, <2>7
  <2> HIDE DEF T
  <2>9. Places("apyusd", Built("apyusd", c, n), c, n)
    BY <2>1, <2>2, <2>3, <2>5, <2>6, <2>8 DEF Places
  <2> QED BY <1>12, <2>9
<1>13. CASE p = "sigil-launch"
  <2> DEFINE b == SigilLaunch(c).now
             T == {"aSIGIL"}
             G == {"SIGIL"}
             L == {<<"SIGIL", 0>>}
  <2>1. /\ Lays(b, c, L, 3, G)
        /\ Has(b, RegisterAt("aSIGIL", c.nonce))
    BY SigilFine
  <2>2. NewTokens("sigil-launch") = T
    BY DEF NewTokens
  <2>3. Sown("sigil-launch") = G
    BY DEF Sown
  <2>4. Offset("aSIGIL") = 0
    BY DEF Offset
  <2>5. Laid("sigil-launch") = L
    BY <2>2, <2>4, MeansIs DEF Laid
  <2>6. Built("sigil-launch", c, n).now = b
    BY DEF Built
  <2>7. For("sigil-launch", c, n) = c.nonce
    BY DEF For
  <2> HIDE DEF b, G, L
  <2>8. \A a \in T : Has(b, RegisterAt(a, For("sigil-launch", c, n) + Offset(a)))
    BY <1>0, <2>1, <2>4, <2>7
  <2> HIDE DEF T
  <2>9. Places("sigil-launch", Built("sigil-launch", c, n), c, n)
    BY <2>1, <2>2, <2>3, <2>5, <2>6, <2>8 DEF Places
  <2> QED BY <1>13, <2>9
<1> HIDE DEF Goal
<1> QED BY <1>1, <1>2, <1>3, <1>4, <1>5, <1>6, <1>7, <1>8, <1>9, <1>10, <1>11, <1>12, <1>13 DEF Placing, Goal
-----------------------------------------------------------------------------
(* What holds between proposals.  Every reserve but HOLLAR is collateral,    *)
(* with its ceiling if it is isolated; on the main market all but those      *)
(* whose configuration was edited follow it, and a reserve is listed only    *)
(* with the id of its token registered.                                      *)

Loose(e) == {"DOT"} \cup (IF e > 3 THEN {"PRIME"} ELSE {})
Backed(c) ==
  \A r : Listed(r) \in c.facts /\ r # "HOLLAR" =>
    Collateral(r) \in c.facts /\ (r \in Isolated => Follows("ceiling", r) \in c.facts)
Main(e, c) ==
  /\ \A r : Listed(r) \in c.facts /\ r \notin Loose(e) => \A s \in Configuration : Follows(s, r) \in c.facts
  /\ \A r \in Loose(e) \cup {"HOLLAR"} : Listed(r) \in c.facts
  /\ \A u \in Underlyings : Registered(u) \in c.facts
  /\ \A a \in DOMAIN Means : Listed(Means[a]) \in c.facts => Registered(a) \in c.facts
Settled(e, c) ==
  /\ World(c)
  /\ Backed(c)
  /\ e < 5 => Main(e, c)
  /\ e > 4 => Registered("HOLLAR") \in c.facts

LEMMA SettledLasts ==
  /\ \A r : Lasting(Collateral(r)) /\ Lasting(Follows("ceiling", r))
  /\ \A r : \A s \in Configuration : Lasting(Follows(s, r))
<1>1. \A r : Lasting(Collateral(r))
  BY DEF Lasting, Collateral
<1>2. "ceiling" \in Settings /\ Configuration \subseteq Settings
  BY DEF Settings, Configuration
<1> QED BY <1>1, <1>2, SettingLasts

\* It holds as long as what is listed anew is as it has to be.
LEMMA SettledGrown ==
  ASSUME NEW e \in 1..6, NEW c, Settled(e, c), NEW d, World(d), Grown(c, d),
         \A r : Listed(r) \in d.facts /\ Listed(r) \notin c.facts /\ r # "HOLLAR" =>
           /\ Collateral(r) \in d.facts
           /\ r \in Isolated => Follows("ceiling", r) \in d.facts
           /\ \A s \in Configuration : Follows(s, r) \in d.facts,
         e < 5 => \A a \in DOMAIN Means :
           Listed(Means[a]) \in d.facts /\ Listed(Means[a]) \notin c.facts => Registered(a) \in d.facts
  PROVE  Settled(e, d)
<1>0. \A f \in c.facts : Lasting(f) => f \in d.facts
  BY DEF Grown
<1>1. Backed(d)
  BY <1>0, SettledLasts DEF Settled, Backed
<1>2. ASSUME e < 5
      PROVE  Main(e, d)
  <2>1. Main(e, c)
    BY <1>2 DEF Settled
  <2>2. \A r \in Loose(e) \cup {"HOLLAR"} : Listed(r) \in d.facts
    BY <1>0, <2>1, ListedLasts DEF Main
  <2>3. \A u \in Underlyings : Registered(u) \in d.facts
    BY <1>0, <2>1, ListedLasts DEF Main
  <2>4. ASSUME NEW r, Listed(r) \in d.facts, r \notin Loose(e), NEW s \in Configuration
        PROVE  Follows(s, r) \in d.facts
    <3>1. CASE Listed(r) \in c.facts
      BY <1>0, <2>1, <2>4, <3>1, SettledLasts DEF Main
    <3>2. CASE Listed(r) \notin c.facts
      <4>1. r # "HOLLAR"
        BY <2>1, <3>2 DEF Main
      <4> QED BY <2>4, <3>2, <4>1
    <3> QED BY <3>1, <3>2
  <2>5. ASSUME NEW a \in DOMAIN Means, Listed(Means[a]) \in d.facts
        PROVE  Registered(a) \in d.facts
    <3>1. CASE Listed(Means[a]) \in c.facts
      BY <1>0, <2>1, <3>1, ListedLasts DEF Main
    <3>2. CASE Listed(Means[a]) \notin c.facts
      BY <1>2, <2>5, <3>2
    <3> QED BY <3>1, <3>2
  <2> QED BY <2>2, <2>3, <2>4, <2>5 DEF Main
<1>3. e > 4 => Registered("HOLLAR") \in d.facts
  BY <1>0, ListedLasts DEF Settled
<1> QED BY <1>1, <1>2, <1>3 DEF Settled

LEMMA SettledIdle ==
  ASSUME NEW e \in 1..6, NEW c, Settled(e, c), NEW b, Idle(b), NEW y, Runs(b, c, y)
  PROVE  Settled(e, y) /\ Grown(c, y)
<1>1. /\ World(y) /\ Grown(c, y)
      /\ \A r : Listed(r) \in y.facts => Listed(r) \in c.facts
  BY IdleRuns DEF Settled
<1> QED BY <1>1, SettledGrown

\* A token is registered by the proposal that lists its reserve.
LEMMA ListedWithToken ==
  ASSUME NEW p, NEW e \in 1..4, p \in Launches[e] \cup Upkeeps[e],
         NEW a \in DOMAIN Means, Means[a] \in ListedBy(p)
  PROVE  p \in Placing /\ a \in NewTokens(p)
<1>1. a \in {"gDOT", "atBTC", "apaxg", "gETH", "aETH", "gSOL", "aSOL", "aEURC", "HEURC", "HUSDC", "HUSDT", "HUSDS", "HUSDE", "aHYPE", "aZEC", "aSPY", "aPRIME", "aAPYUSD", "aSIGIL", "aBIL", "GIGAHDX"}
  BY DEF Means
<1>2. Means["aBIL"] = "BIL" /\ Means["GIGAHDX"] = "STHDX"
  BY DEF Means
<1>3. e = 1 \/ e = 2 \/ e = 3 \/ e = 4
  OBVIOUS
<1>4. p \in Placing \cup {"vdot-prop", "3pool-launch"} \cup Settling
  BY <1>3 DEF Launches, Upkeeps, Placing, Settling
<1>5. p \notin Settling
  BY DEF Settling, ListedBy
<1>6. p \notin {"vdot-prop", "3pool-launch"}
  <2>1. ListedBy("vdot-prop") = {"VDOT"} /\ ListedBy("3pool-launch") = {"3-POOL"}
    BY DEF ListedBy
  <2> QED BY <1>1, <1>2, <2>1, MeansIs
<1>7. CASE p = "gigadot-launch"
  <2>1. ListedBy("gigadot-launch") = {"GDOT"}
    BY DEF ListedBy
  <2>2. NewTokens("gigadot-launch") = {"gDOT"}
    BY DEF NewTokens
  <2>3. a \in {"gDOT"}
    BY <1>1, <1>2, <1>7, <2>1, MeansIs
  <2> QED BY <1>7, <2>2, <2>3 DEF Placing
<1>8. CASE p = "tbtc-prop"
  <2>1. ListedBy("tbtc-prop") = {"TBTC"}
    BY DEF ListedBy
  <2>2. NewTokens("tbtc-prop") = {"atBTC"}
    BY DEF NewTokens
  <2>3. a \in {"atBTC"}
    BY <1>1, <1>2, <1>8, <2>1, MeansIs
  <2> QED BY <1>8, <2>2, <2>3 DEF Placing
<1>9. CASE p = "paxg-prop"
  <2>1. ListedBy("paxg-prop") = {"PAXG"}
    BY DEF ListedBy
  <2>2. NewTokens("paxg-prop") = {"apaxg"}
    BY DEF NewTokens
  <2>3. a \in {"apaxg"}
    BY <1>1, <1>2, <1>9, <2>1, MeansIs
  <2> QED BY <1>9, <2>2, <2>3 DEF Placing
<1>10. CASE p = "gigaeth-launch"
  <2>1. ListedBy("gigaeth-launch") = {"2-POOL-GETH", "ETH"}
    BY DEF ListedBy
  <2>2. NewTokens("gigaeth-launch") = {"gETH", "aETH"}
    BY DEF NewTokens
  <2>3. a \in {"gETH", "aETH"}
    BY <1>1, <1>2, <1>10, <2>1, MeansIs
  <2> QED BY <1>10, <2>2, <2>3 DEF Placing
<1>11. CASE p = "hollar-pools-launch"
  <2>1. ListedBy("hollar-pools-launch") = {"2-POOL-HUSDC", "2-POOL-HUSDT", "2-POOL-HUSDS", "2-POOL-HUSDE"}
    BY DEF ListedBy, HollarReserves, HollarPools
  <2>2. NewTokens("hollar-pools-launch") = {"HUSDC", "HUSDT", "HUSDS", "HUSDE"}
    BY DEF NewTokens
  <2>3. a \in {"HUSDC", "HUSDT", "HUSDS", "HUSDE"}
    BY <1>1, <1>2, <1>11, <2>1, MeansIs
  <2> QED BY <1>11, <2>2, <2>3 DEF Placing
<1>12. CASE p = "gigasol-launch"
  <2>1. ListedBy("gigasol-launch") = {"2-POOL-GSOL", "SOL"}
    BY DEF ListedBy
  <2>2. NewTokens("gigasol-launch") = {"gSOL", "aSOL"}
    BY DEF NewTokens
  <2>3. a \in {"gSOL", "aSOL"}
    BY <1>1, <1>2, <1>12, <2>1, MeansIs
  <2> QED BY <1>12, <2>2, <2>3 DEF Placing
<1>13. CASE p = "heurc-launch"
  <2>1. ListedBy("heurc-launch") = {"EURC", "2-POOL-HEURC"}
    BY DEF ListedBy
  <2>2. NewTokens("heurc-launch") = {"aEURC", "HEURC"}
    BY DEF NewTokens
  <2>3. a \in {"aEURC", "HEURC"}
    BY <1>1, <1>2, <1>13, <2>1, MeansIs
  <2> QED BY <1>13, <2>2, <2>3 DEF Placing
<1>14. CASE p = "hype-mm"
  <2>1. ListedBy("hype-mm") = {"HYPE"}
    BY DEF ListedBy
  <2>2. NewTokens("hype-mm") = {"aHYPE"}
    BY DEF NewTokens
  <2>3. a \in {"aHYPE"}
    BY <1>1, <1>2, <1>14, <2>1, MeansIs
  <2> QED BY <1>14, <2>2, <2>3 DEF Placing
<1>15. CASE p = "zec-mm"
  <2>1. ListedBy("zec-mm") = {"ZEC"}
    BY DEF ListedBy
  <2>2. NewTokens("zec-mm") = {"aZEC"}
    BY DEF NewTokens
  <2>3. a \in {"aZEC"}
    BY <1>1, <1>2, <1>15, <2>1, MeansIs
  <2> QED BY <1>15, <2>2, <2>3 DEF Placing
<1>16. CASE p = "spy-mm"
  <2>1. ListedBy("spy-mm") = {"SPY"}
    BY DEF ListedBy
  <2>2. NewTokens("spy-mm") = {"aSPY"}
    BY DEF NewTokens
  <2>3. a \in {"aSPY"}
    BY <1>1, <1>2, <1>16, <2>1, MeansIs
  <2> QED BY <1>16, <2>2, <2>3 DEF Placing
<1>17. CASE p = "prime"
  <2>1. ListedBy("prime") = {"PRIME"}
    BY DEF ListedBy
  <2>2. NewTokens("prime") = {"aPRIME"}
    BY DEF NewTokens
  <2>3. a \in {"aPRIME"}
    BY <1>1, <1>2, <1>17, <2>1, MeansIs
  <2> QED BY <1>17, <2>2, <2>3 DEF Placing
<1>18. CASE p = "apyusd"
  <2>1. ListedBy("apyusd") = {"APYUSD"}
    BY DEF ListedBy
  <2>2. NewTokens("apyusd") = {"aAPYUSD"}
    BY DEF NewTokens
  <2>3. a \in {"aAPYUSD"}
    BY <1>1, <1>2, <1>18, <2>1, MeansIs
  <2> QED BY <1>18, <2>2, <2>3 DEF Placing
<1>19. CASE p = "sigil-launch"
  <2>1. ListedBy("sigil-launch") = {"SIGIL"}
    BY DEF ListedBy
  <2>2. NewTokens("sigil-launch") = {"aSIGIL"}
    BY DEF NewTokens
  <2>3. a \in {"aSIGIL"}
    BY <1>1, <1>2, <1>19, <2>1, MeansIs
  <2> QED BY <1>19, <2>2, <2>3 DEF Placing
<1> QED BY <1>4, <1>5, <1>6, <1>7, <1>8, <1>9, <1>10, <1>11, <1>12, <1>13, <1>14, <1>15, <1>16, <1>17, <1>18, <1>19 DEF Placing

LEMMA BuiltDecent ==
  ASSUME NEW p, NEW e \in 1..6, p \in Launches[e] \cup Upkeeps[e], NEW c, World(c), NEW n
  PROVE  /\ Fine(Built(p, c, n).now, c, ListedBy(p)) /\ Decent(Built(p, c, n).now)
         /\ IsBatch(Built(p, c, n).later) /\ \A b \in Items(Built(p, c, n).later) : Idle(b)
<1>1. PlanFine(Built(p, c, n), c, ListedBy(p))
  BY BuiltFine
<1> QED BY <1>1 DEF PlanFine, Fine

LEMMA SettledRuns ==
  ASSUME NEW e \in 1..6, NEW p \in Launches[e] \cup Upkeeps[e], NEW c, World(c), NEW n \in Nat,
         NEW x, Settled(e, x), Grown(c, x), NEW y, Runs(Built(p, c, n).now, x, y)
  PROVE  Settled(e, y) /\ Grown(x, y)
<1> DEFINE b == Built(p, c, n).now
<1>1. Fine(b, c, ListedBy(p)) /\ Decent(b)
  BY BuiltDecent
<1>2. World(x)
  BY DEF Settled
<1>3. World(y) /\ Grown(x, y)
  BY <1>1, <1>2, RunsKeep
<1>4. ASSUME NEW r, Listed(r) \in y.facts, Listed(r) \notin x.facts
      PROVE  /\ r \in ListedBy(p)
             /\ r # "HOLLAR" =>
                  /\ Collateral(r) \in y.facts
                  /\ r \in Isolated => Follows("ceiling", r) \in y.facts
                  /\ \A s \in Configuration : Follows(s, r) \in y.facts
  <2> HIDE DEF b
  <2>1. Runs(b, x, y)
    BY DEF b
  <2> QED BY <1>1, <1>2, <1>4, <2>1, FineRuns
<1>5. ASSUME e < 5, NEW a \in DOMAIN Means, Listed(Means[a]) \in y.facts, Listed(Means[a]) \notin x.facts
      PROVE  Registered(a) \in y.facts
  <2>1. Means[a] \in ListedBy(p)
    BY <1>4, <1>5
  <2>2. e \in 1..4
    BY <1>5
  <2>3. p \in Placing /\ a \in NewTokens(p)
    BY <2>1, <2>2, ListedWithToken
  <2>4. PICK m : Has(b, RegisterAt(a, m))
    BY <2>3, PlacingPlaces DEF Places
  <2> DEFINE call == RegisterAt(a, m)
  <2>5. call.soft = FALSE /\ Registered(a) \in call.gets
    BY RootGets
  <2>6. Runs(b, x, y) /\ call \in Items(b)
    BY <2>4 DEF Has
  <2> HIDE DEF b, call
  <2> QED BY <1>1, <1>2, <2>5, <2>6, RootRuns, ListedLasts
<1> QED BY <1>3, <1>4, <1>5, SettledGrown

-----------------------------------------------------------------------------
(* What a proposal on the main market achieves.  First the tokens of a launch *)
(* that runs at the nonce it was built for.                                   *)

PlaceResult(e, p, n, m, c) ==
  e < 5 /\ n = m => \A a \in NewTokens(p) : IsPair(Means[a], a, c)

LEMMA NewTokensMain ==
  ASSUME NEW e \in 1..4, NEW p \in Launches[e] \cup Upkeeps[e], NEW a \in NewTokens(p)
  PROVE  p \in Placing /\ a \in DOMAIN Means /\ a \notin Moved /\ Offset(a) \in Nat
<1>1. p \in Placing
  BY DEF Launches, Upkeeps, Placing, NewTokens
<1>2. a \in {"gDOT", "atBTC", "apaxg", "gETH", "aETH", "gSOL", "aSOL", "aEURC", "HEURC", "HUSDC", "HUSDT",
             "HUSDS", "HUSDE", "aHYPE", "aZEC", "aSPY", "aPRIME", "aAPYUSD", "aSIGIL"}
  BY <1>1 DEF Placing, NewTokens
<1>3. a \in DOMAIN Means /\ a \notin Moved
  BY <1>2 DEF Means, Moved
<1> QED BY <1>1, <1>3 DEF Offset

\* Every new reserve has its asset in the registry, or brings it.
LEMMA LaidFounded ==
  ASSUME NEW p \in Placing, NEW m \in Laid(p)
  PROVE  m[1] \in Sown(p) \/ m[1] \in Underlyings
<1>1. CASE p = "gigadot-launch"
  <2>1. NewTokens("gigadot-launch") = {"gDOT"}
    BY DEF NewTokens
  <2>2. Means["gDOT"] = "GDOT"
    BY MeansIs
  <2>3. m[1] = "GDOT"
    BY <1>1, <2>1, <2>2 DEF Laid
  <2> QED BY <1>1, <2>3 DEF Sown, Underlyings
<1>2. CASE p = "tbtc-prop"
  <2>1. NewTokens("tbtc-prop") = {"atBTC"}
    BY DEF NewTokens
  <2>2. Means["atBTC"] = "TBTC"
    BY MeansIs
  <2>3. m[1] = "TBTC"
    BY <1>2, <2>1, <2>2 DEF Laid
  <2> QED BY <1>2, <2>3 DEF Sown, Underlyings
<1>3. CASE p = "paxg-prop"
  <2>1. NewTokens("paxg-prop") = {"apaxg"}
    BY DEF NewTokens
  <2>2. Means["apaxg"] = "PAXG"
    BY MeansIs
  <2>3. m[1] = "PAXG"
    BY <1>3, <2>1, <2>2 DEF Laid
  <2> QED BY <1>3, <2>3 DEF Sown, Underlyings
<1>4. CASE p = "gigaeth-launch"
  <2>1. NewTokens("gigaeth-launch") = {"gETH", "aETH"}
    BY DEF NewTokens
  <2>2. Means["gETH"] = "2-POOL-GETH" /\ Means["aETH"] = "ETH"
    BY MeansIs
  <2>3. m[1] = "2-POOL-GETH" \/ m[1] = "ETH"
    BY <1>4, <2>1, <2>2 DEF Laid
  <2> QED BY <1>4, <2>3 DEF Sown, Underlyings
<1>5. CASE p = "hollar-pools-launch"
  <2>1. NewTokens("hollar-pools-launch") = {"HUSDC", "HUSDT", "HUSDS", "HUSDE"}
    BY DEF NewTokens
  <2>2. Means["HUSDC"] = "2-POOL-HUSDC" /\ Means["HUSDT"] = "2-POOL-HUSDT" /\ Means["HUSDS"] = "2-POOL-HUSDS" /\ Means["HUSDE"] = "2-POOL-HUSDE"
    BY MeansIs
  <2>3. m[1] = "2-POOL-HUSDC" \/ m[1] = "2-POOL-HUSDT" \/ m[1] = "2-POOL-HUSDS" \/ m[1] = "2-POOL-HUSDE"
    BY <1>5, <2>1, <2>2 DEF Laid
  <2> QED BY <1>5, <2>3 DEF Sown, Underlyings, HollarPools
<1>6. CASE p = "gigasol-launch"
  <2>1. NewTokens("gigasol-launch") = {"gSOL", "aSOL"}
    BY DEF NewTokens
  <2>2. Means["gSOL"] = "2-POOL-GSOL" /\ Means["aSOL"] = "SOL"
    BY MeansIs
  <2>3. m[1] = "2-POOL-GSOL" \/ m[1] = "SOL"
    BY <1>6, <2>1, <2>2 DEF Laid
  <2> QED BY <1>6, <2>3 DEF Sown, Underlyings
<1>7. CASE p = "heurc-launch"
  <2>1. NewTokens("heurc-launch") = {"aEURC", "HEURC"}
    BY DEF NewTokens
  <2>2. Means["aEURC"] = "EURC" /\ Means["HEURC"] = "2-POOL-HEURC"
    BY MeansIs
  <2>3. m[1] = "EURC" \/ m[1] = "2-POOL-HEURC"
    BY <1>7, <2>1, <2>2 DEF Laid
  <2> QED BY <1>7, <2>3 DEF Sown, Underlyings
<1>8. CASE p = "hype-mm"
  <2>1. NewTokens("hype-mm") = {"aHYPE"}
    BY DEF NewTokens
  <2>2. Means["aHYPE"] = "HYPE"
    BY MeansIs
  <2>3. m[1] = "HYPE"
    BY <1>8, <2>1, <2>2 DEF Laid
  <2> QED BY <1>8, <2>3 DEF Sown, Underlyings
<1>9. CASE p = "zec-mm"
  <2>1. NewTokens("zec-mm") = {"aZEC"}
    BY DEF NewTokens
  <2>2. Means["aZEC"] = "ZEC"
    BY MeansIs
  <2>3. m[1] = "ZEC"
    BY <1>9, <2>1, <2>2 DEF Laid
  <2> QED BY <1>9, <2>3 DEF Sown, Underlyings
<1>10. CASE p = "spy-mm"
  <2>1. NewTokens("spy-mm") = {"aSPY"}
    BY DEF NewTokens
  <2>2. Means["aSPY"] = "SPY"
    BY MeansIs
  <2>3. m[1] = "SPY"
    BY <1>10, <2>1, <2>2 DEF Laid
  <2> QED BY <1>10, <2>3 DEF Sown, Underlyings
<1>11. CASE p = "prime"
  <2>1. NewTokens("prime") = {"aPRIME"}
    BY DEF NewTokens
  <2>2. Means["aPRIME"] = "PRIME"
    BY MeansIs
  <2>3. m[1] = "PRIME"
    BY <1>11, <2>1, <2>2 DEF Laid
  <2> QED BY <1>11, <2>3 DEF Sown, Underlyings
<1>12. CASE p = "apyusd"
  <2>1. NewTokens("apyusd") = {"aAPYUSD"}
    BY DEF NewTokens
  <2>2. Means["aAPYUSD"] = "APYUSD"
    BY MeansIs
  <2>3. m[1] = "APYUSD"
    BY <1>12, <2>1, <2>2 DEF Laid
  <2> QED BY <1>12, <2>3 DEF Sown, Underlyings
<1>13. CASE p = "sigil-launch"
  <2>1. NewTokens("sigil-launch") = {"aSIGIL"}
    BY DEF NewTokens
  <2>2. Means["aSIGIL"] = "SIGIL"
    BY MeansIs
  <2>3. m[1] = "SIGIL"
    BY <1>13, <2>1, <2>2 DEF Laid
  <2> QED BY <1>13, <2>3 DEF Sown, Underlyings
<1> QED BY <1>1, <1>2, <1>3, <1>4, <1>5, <1>6, <1>7, <1>8, <1>9, <1>10, <1>11, <1>12, <1>13 DEF Placing
LEMMA PlaceRuns ==
  ASSUME NEW e \in 1..6, NEW p \in Launches[e] \cup Upkeeps[e], NEW c, World(c), NEW n \in Nat,
         NEW x, Settled(e, x), Grown(c, x), NEW y, Runs(Built(p, c, n).now, x, y),
         n = c.nonce \/ p \in {"zec-mm", "spy-mm"}
  PROVE  PlaceResult(e, p, n, x.nonce, y)
<1> SUFFICES ASSUME e < 5, n = x.nonce, NEW a \in NewTokens(p)
             PROVE  IsPair(Means[a], a, y)
  BY DEF PlaceResult
<1> DEFINE b == Built(p, c, n).now
<1>1. e \in 1..4 /\ World(x) /\ Main(e, x) /\ Runs(b, x, y)
  BY DEF Settled
<1>2. p \in Placing /\ Decent(b)
  BY <1>1, NewTokensMain, BuiltDecent
<1>3. PICK d \in Nat : Lays(b, c, Laid(p), d, Sown(p))
  BY <1>2, PlacingPlaces DEF Places
<1>4. \A q \in NewTokens(p) : Has(b, RegisterAt(q, x.nonce + Offset(q)))
  <2>1. For(p, c, n) = x.nonce
    BY DEF For
  <2> QED BY <1>2, <2>1, PlacingPlaces DEF Places
<1> HIDE DEF b
<1>5. \A q \in NewTokens(p) : /\ Located(q, x.nonce + Offset(q)) \in y.facts
                              /\ Registered(q) \notin x.facts
  <2> TAKE q \in NewTokens(p)
  <2> DEFINE call == RegisterAt(q, x.nonce + Offset(q))
  <2>1. call \in Items(b) /\ call.soft = FALSE
    BY <1>4, RootGets DEF Has
  <2>2. Located(q, x.nonce + Offset(q)) \in call.gets /\ Registered(q) \in call.bans
    BY RootGets
  <2>3. q \notin Moved
    BY <1>1, NewTokensMain
  <2>4. Lasting(Located(q, x.nonce + Offset(q))) /\ Lasting(Registered(q))
    BY <2>3 DEF Lasting, Located, Registered
  <2> HIDE DEF call
  <2>5. /\ \A f \in call.gets : Lasting(f) => f \in y.facts
        /\ \A f \in call.bans : Lasting(f) => f \notin x.facts
    BY <1>1, <1>2, <2>1, RootRuns
  <2> QED BY <2>2, <2>4, <2>5
<1>6. ASSUME NEW m \in Laid(p)
      PROVE  Listed(m[1]) \notin x.facts /\ (m[1] \in Sown(p) \/ Registered(m[1]) \in x.facts)
  <2>1. PICK q \in NewTokens(p) : m = <<Means[q], Offset(q)>>
    BY DEF Laid
  <2>2. q \in DOMAIN Means
    BY <1>1, NewTokensMain
  <2>3. Listed(m[1]) \notin x.facts
    BY <1>1, <1>5, <2>1, <2>2 DEF Main
  <2>4. m[1] \in Sown(p) \/ m[1] \in Underlyings
    BY <1>2, LaidFounded
  <2> QED BY <1>1, <2>3, <2>4 DEF Main
<1>7. AToken(Means[a], x.nonce + Offset(a)) \in y.facts
  <2>1. \A m \in Laid(p) : AToken(m[1], x.nonce + m[2]) \in y.facts
    BY <1>1, <1>3, <1>6 DEF Lays
  <2>2. <<Means[a], Offset(a)>> \in Laid(p)
    BY DEF Laid
  <2> QED BY <2>1, <2>2
<1>8. World(y)
  BY <1>1, <1>2, RunsKeep
<1>9. x.nonce + Offset(a) \in 0..y.nonce
  BY <1>7, <1>8 DEF World, Sane, IsChain
<1> QED BY <1>5, <1>7, <1>9 DEF IsPair

LEMMA PlaceKept ==
  ASSUME NEW e \in 1..6, NEW p \in Launches[e] \cup Upkeeps[e], NEW n, NEW m, NEW c, World(c), NEW d, World(d),
         Grown(c, d), PlaceResult(e, p, n, m, c)
  PROVE  PlaceResult(e, p, n, m, d)
<1> SUFFICES ASSUME e < 5, n = m, NEW a \in NewTokens(p)
             PROVE  IsPair(Means[a], a, d)
  BY DEF PlaceResult
<1>1. IsPair(Means[a], a, c)
  BY DEF PlaceResult
<1>2. a \notin Moved
  <2>1. e \in 1..4
    OBVIOUS
  <2> QED BY <2>1, NewTokensMain
<1> QED BY <1>1, <1>2, PairKept DEF World

(* A GIGA launch that goes through goes through altogether. *)

GigaResult(p, c) ==
  \A a \in {"gSOL", "gETH"} \cap NewTokens(p) :
    /\ InOmnipool(a) \in c.facts
    /\ \A b \in NewTokens(p) : IsPair(Means[b], b, c)
    /\ Seeded(Means[a]) \in c.facts /\ Collateral(Means[a]) \in c.facts

LEMMA GigaNames ==
  ASSUME NEW p, NEW a \in {"gSOL", "gETH"} \cap NewTokens(p)
  PROVE  \/ p = "gigasol-launch" /\ a = "gSOL" /\ NewTokens(p) = {"gSOL", "aSOL"}
         \/ p = "gigaeth-launch" /\ a = "gETH" /\ NewTokens(p) = {"gETH", "aETH"}
  BY DEF NewTokens

LEMMA GigaRuns ==
  ASSUME NEW e \in 1..6, NEW p \in Launches[e] \cup Upkeeps[e], NEW c, World(c), NEW n \in Nat,
         NEW x, Settled(e, x), Grown(c, x), NEW y, Runs(Built(p, c, n).now, x, y)
  PROVE  GigaResult(p, y)
<1> SUFFICES ASSUME NEW a \in {"gSOL", "gETH"} \cap NewTokens(p)
             PROVE  /\ InOmnipool(a) \in y.facts
                    /\ \A b \in NewTokens(p) : IsPair(Means[b], b, y)
                    /\ Seeded(Means[a]) \in y.facts /\ Collateral(Means[a]) \in y.facts
  BY DEF GigaResult
<1> DEFINE b == Built(p, c, n).now
<1>1. World(x) /\ Settled(e, y) /\ World(y) /\ Decent(b)
  BY SettledRuns, BuiltDecent DEF Settled
<1>2. Has(b, AddToken(a))
  <2>1. Built("gigasol-launch", c, n) = GigaSolLaunch(c) /\ Built("gigaeth-launch", c, n) = GigaEthLaunch(c)
    BY DEF Built
  <2>2. Has(GigaSolLaunch(c).now, AddToken("gSOL")) /\ Has(GigaEthLaunch(c).now, AddToken("gETH"))
    BY GigaSolFine, GigaEthFine
  <2> QED BY <2>1, <2>2, GigaNames
<1>3. InOmnipool(a) \in y.facts
  <2> DEFINE call == AddToken(a)
  <2>1. call.soft = FALSE /\ InOmnipool(a) \in call.gets
    BY DEF AddToken, Call
  <2>2. Lasting(InOmnipool(a))
    BY DEF Lasting, InOmnipool
  <2>3. Runs(b, x, y) /\ call \in Items(b)
    BY <1>2 DEF Has
  <2> HIDE DEF b, call
  <2> QED BY <1>1, <2>1, <2>2, <2>3, RootRuns
<1>4. /\ a = "gSOL" => IsPair("2-POOL-GSOL", "gSOL", y) /\ Seeded("2-POOL-GSOL") \in y.facts
                       /\ IsPair("SOL", "aSOL", y)
      /\ a = "gETH" => IsPair("2-POOL-GETH", "gETH", y) /\ Seeded("2-POOL-GETH") \in y.facts
                       /\ IsPair("ETH", "aETH", y)
  <2>1. /\ <<"gSOL", "2-POOL-GSOL", "aSOL", "SOL">> \in Giga
        /\ <<"gETH", "2-POOL-GETH", "aETH", "ETH">> \in Giga
    BY DEF Giga
  <2>2. \A q \in Giga : InOmnipool(q[1]) \in y.facts =>
          IsPair(q[2], q[1], y) /\ Seeded(q[2]) \in y.facts /\ IsPair(q[4], q[3], y)
    BY <1>1 DEF World, Earned
  <2> QED BY <1>3, <2>1, <2>2
<1>5. \A u, v : IsPair(u, v, y) /\ u # "HOLLAR" => Collateral(u) \in y.facts
  BY <1>1 DEF IsPair, World, Sane, Settled, Backed
<1> QED BY <1>3, <1>4, <1>5, GigaNames, MeansIs

LEMMA GigaKept ==
  ASSUME NEW p, NEW c, World(c), NEW d, World(d), Grown(c, d), GigaResult(p, c)
  PROVE  GigaResult(p, d)
<1> SUFFICES ASSUME NEW a \in {"gSOL", "gETH"} \cap NewTokens(p)
             PROVE  /\ InOmnipool(a) \in d.facts
                    /\ \A b \in NewTokens(p) : IsPair(Means[b], b, d)
                    /\ Seeded(Means[a]) \in d.facts /\ Collateral(Means[a]) \in d.facts
  BY DEF GigaResult
<1>1. \A b \in NewTokens(p) : b \notin Moved
  BY GigaNames DEF Moved
<1>2. Lasting(InOmnipool(a)) /\ Lasting(Seeded(Means[a])) /\ Lasting(Collateral(Means[a]))
  BY DEF Lasting, InOmnipool, Seeded, Collateral
<1> QED BY <1>1, <1>2, PairKept DEF GigaResult, Grown, World

(* A review of a setting leaves every reserve with the configured one. *)

Covers(b, c, s) ==
  \A r \in Items(Everything) :
    Listed(r) \in c.facts /\ Follows(s, r) \notin c.facts => Has(b, Set(s, r))

LEMMA CoversConcat ==
  ASSUME NEW s, Idle(s), NEW t, Idle(t), NEW c
  PROVE  /\ Idle(s \o t)
         /\ \A w : Covers(s, c, w) \/ Covers(t, c, w) => Covers(s \o t, c, w)
<1> DEFINE b == s \o t
<1>1. Idle(b) /\ Decent(s)
  BY IdleConcat, IdleDecent
<1>2. \A call : Has(s, call) \/ Has(t, call) => Has(b, call)
  BY <1>1, HasConcat
<1> HIDE DEF b
<1>3. \A w : Covers(s, c, w) \/ Covers(t, c, w) => Covers(b, c, w)
  BY <1>2 DEF Covers
<1> QED BY <1>1, <1>3 DEF b

LEMMA ReviewsCover ==
  ASSUME NEW c
  PROVE  /\ Covers(ReviewSupplyCaps(c, Everything), c, "supplyCap")
         /\ Covers(ReviewBorrowCaps(c, Everything), c, "borrowCap")
         /\ Covers(ReviewReserveFactors(c, Everything), c, "factor")
         /\ Covers(ReviewRateStrategies(c, Everything), c, "rate")
         /\ Covers(ReviewReserveConfigs(c), c, "ltv")
<1>1. ASSUME NEW s, NEW rs, IsBatch(rs), Items(Everything) \subseteq Items(rs)
      PROVE  Covers(Fix(s, Off(c, s, rs)), c, s)
  <2> DEFINE f == Fix(s, Off(c, s, rs))
  <2>1. /\ IsBatch(Off(c, s, rs))
        /\ \A r \in Items(Everything) :
             Listed(r) \in c.facts /\ Follows(s, r) \notin c.facts => r \in Items(Off(c, s, rs))
    BY <1>1, OffItems
  <2>2. IsBatch(f) /\ \A r \in Items(Off(c, s, rs)) : Set(s, r) \in Items(f)
    BY <2>1, FixItems
  <2> HIDE DEF f
  <2>3. Covers(f, c, s)
    BY <2>1, <2>2 DEF Covers, Has
  <2> QED BY <2>3 DEF f
<1>2. /\ IsBatch(Everything) /\ IsBatch(ReserveAssets)
      /\ Items(Everything) \subseteq Items(ReserveAssets)
  BY EverythingItems
<1>3. ASSUME NEW s \in Settings
      PROVE  Covers(Review(c, s, Everything), c, s)
  <2>1. Idle(If(Unknown(c, Everything), Exit)) /\ Idle(Fix(s, Off(c, s, Everything)))
    BY <1>2, ExitIdle, IfIdle, OffItems, FixIdle
  <2>2. Covers(Fix(s, Off(c, s, Everything)), c, s)
    BY <1>1, <1>2
  <2> QED BY <2>1, <2>2, CoversConcat DEF Review
<1> QED BY <1>1, <1>2, <1>3 DEF Settings, ReviewSupplyCaps, ReviewBorrowCaps, ReviewReserveFactors, ReviewRateStrategies,
                          ReviewReserveConfigs

LEMMA CapsCover ==
  ASSUME NEW c
  PROVE  /\ Idle(UpdateCaps(c)) /\ Covers(UpdateCaps(c), c, "supplyCap") /\ Covers(UpdateCaps(c), c, "borrowCap")
         /\ Covers(GigaHydration(c), c, "supplyCap") /\ Covers(GigaHydration(c), c, "borrowCap")
         /\ Covers(VdotBiggening(c), c, "supplyCap") /\ Covers(UpdateReserveOracle(c), c, "supplyCap")
<1> DEFINE SC == ReviewSupplyCaps(c, Everything)
           BC == ReviewBorrowCaps(c, Everything)
           GI == ReviewIncentive(c, "2-POOL-GDOT", {})
           RO == SetReserveOracle("VDOT")
           EM == ReviewEMode(c, "DotEMode")
<1>1. /\ Idle(SC) /\ Idle(BC) /\ Idle(GI) /\ Idle(RO) /\ Idle(EM)
      /\ Covers(SC, c, "supplyCap") /\ Covers(BC, c, "borrowCap")
  BY EverythingIdle, IncentiveIdle, ReserveOracleIdle, EModeIdle, ReviewsCover
<1>2. /\ UpdateCaps(c) = SC \o BC
      /\ GigaHydration(c) = UpdateCaps(c) \o GI
      /\ UpdateReserveOracle(c) = RO \o SC
      /\ VdotBiggening(c) = SC \o EM
  BY DEF UpdateCaps, GigaHydration, UpdateReserveOracle, VdotBiggening
<1> HIDE DEF SC, BC, GI, RO, EM
<1>3. Idle(SC \o BC) /\ Covers(SC \o BC, c, "supplyCap") /\ Covers(SC \o BC, c, "borrowCap")
  BY <1>1, CoversConcat
<1>4. Covers(RO \o SC, c, "supplyCap") /\ Covers(SC \o EM, c, "supplyCap")
  BY <1>1, CoversConcat
<1>5. /\ Covers(UpdateCaps(c) \o GI, c, "supplyCap") /\ Covers(UpdateCaps(c) \o GI, c, "borrowCap")
  BY <1>1, <1>2, <1>3, CoversConcat
<1> QED BY <1>2, <1>3, <1>4, <1>5

LEMMA RatesCover ==
  ASSUME NEW c
  PROVE  /\ Covers(ReserveFactorAndUtilization(c), c, "factor") /\ Covers(ReserveFactorAndUtilization(c), c, "rate")
         /\ \A w \in {"supplyCap", "borrowCap", "ltv", "factor"} : Covers(ReserveFactorProp(c), c, w)
         /\ \A w \in {"factor", "rate", "supplyCap"} : Covers(ReduceStablesBorrowRate(c), c, w)
<1> DEFINE SC == ReviewSupplyCaps(c, Everything)
           BC == ReviewBorrowCaps(c, Everything)
           RF == ReviewReserveFactors(c, Everything)
           RS == ReviewRateStrategies(c, Everything)
           RC == ReviewReserveConfigs(c)
           FE == << Set("fee", "VDOT") >>
           V(i) == ReviewIncentive(c, HollarPools[i], {})
           BU == << [aaveManagerCall(Call) EXCEPT !.gets = {<<"bucket", "HOLLAR">>}] >>
<1>1. /\ Idle(SC) /\ Idle(BC) /\ Idle(RF) /\ Idle(RS) /\ Idle(RC) /\ Idle(BU)
      /\ Covers(SC, c, "supplyCap") /\ Covers(BC, c, "borrowCap") /\ Covers(RF, c, "factor")
      /\ Covers(RS, c, "rate") /\ Covers(RC, c, "ltv")
  BY EverythingIdle, BucketIdle, ReviewsCover
<1>2. Idle(FE)
  BY SetPlain, PlainIdle, IdleRow1 DEF Settings
<1>3. \A i : Idle(V(i))
  BY IncentiveIdle
<1>4. /\ ReserveFactorAndUtilization(c) = RF \o RS
      /\ ReserveFactorProp(c) = RF \o FE \o SC \o BC \o RC
  BY DEF ReserveFactorAndUtilization, ReserveFactorProp
<1>5. ReduceStablesBorrowRate(c) = (RF \o RS \o SC) \o (V(1) \o V(2) \o V(3) \o V(4)) \o PriceWstEth \o BU
  BY DEF ReduceStablesBorrowRate, ForHollarPools
<1> HIDE DEF SC, BC, RF, RS, RC, FE, V, BU
<1>6. Idle(RF \o RS) /\ Covers(RF \o RS, c, "factor") /\ Covers(RF \o RS, c, "rate")
  BY <1>1, CoversConcat
<1>7. \A w \in {"supplyCap", "borrowCap", "ltv", "factor"} : Covers(RF \o FE \o SC \o BC \o RC, c, w)
  <2> DEFINE a1 == RF \o FE
             a2 == a1 \o SC
             a3 == a2 \o BC
             a4 == a3 \o RC
  <2>1. Idle(a1) /\ Covers(a1, c, "factor")
    BY <1>1, <1>2, CoversConcat
  <2> HIDE DEF a1
  <2>2. Idle(a2) /\ Covers(a2, c, "factor") /\ Covers(a2, c, "supplyCap")
    BY <1>1, <2>1, CoversConcat
  <2> HIDE DEF a2
  <2>3. Idle(a3) /\ Covers(a3, c, "factor") /\ Covers(a3, c, "supplyCap") /\ Covers(a3, c, "borrowCap")
    BY <1>1, <2>2, CoversConcat
  <2> HIDE DEF a3
  <2>4. /\ Covers(a4, c, "factor") /\ Covers(a4, c, "supplyCap") /\ Covers(a4, c, "borrowCap")
        /\ Covers(a4, c, "ltv")
    BY <1>1, <2>3, CoversConcat
  <2> HIDE DEF a4
  <2>5. \A w \in {"supplyCap", "borrowCap", "ltv", "factor"} : Covers(a4, c, w)
    BY <2>4
  <2> QED BY <2>5 DEF a4, a3, a2, a1
<1>8. \A w \in {"factor", "rate", "supplyCap"} : Covers(ReduceStablesBorrowRate(c), c, w)
  <2> DEFINE a1 == RF \o RS \o SC
             v == V(1) \o V(2) \o V(3) \o V(4)
             a2 == a1 \o v
             a3 == a2 \o PriceWstEth
  <2>1. Idle(a1) /\ Covers(a1, c, "factor") /\ Covers(a1, c, "rate") /\ Covers(a1, c, "supplyCap")
    BY <1>1, <1>6, CoversConcat
  <2>2. Idle(v)
    BY <1>3, IdleFour
  <2> HIDE DEF a1, v
  <2>3. Idle(a2) /\ Covers(a2, c, "factor") /\ Covers(a2, c, "rate") /\ Covers(a2, c, "supplyCap")
    BY <2>1, <2>2, CoversConcat
  <2> HIDE DEF a2
  <2>4. Idle(a3) /\ Covers(a3, c, "factor") /\ Covers(a3, c, "rate") /\ Covers(a3, c, "supplyCap")
    BY <2>3, PricesIdle, CoversConcat
  <2> HIDE DEF a3
  <2>5. Covers(a3 \o BU, c, "factor") /\ Covers(a3 \o BU, c, "rate") /\ Covers(a3 \o BU, c, "supplyCap")
    BY <1>1, <2>4, CoversConcat
  <2>6. ReduceStablesBorrowRate(c) = a3 \o BU
    BY <1>5 DEF a3, a2, a1, v
  <2> QED BY <2>5, <2>6
<1> QED BY <1>4, <1>6, <1>7, <1>8

LEMMA CollateralCover ==
  ASSUME NEW c
  PROVE  /\ Covers(GigaDotUpdate(c), c, "supplyCap")
         /\ \A w \in {"supplyCap", "borrowCap", "ltv", "factor"} : Covers(HTokenCollateral(c), c, w)
         /\ \A w \in {"supplyCap", "borrowCap", "ltv", "rate"} : Covers(ThreePoolCollateral(c), c, w)
         /\ Covers(HollarPoolsUpdate(c), c, "supplyCap") /\ Covers(HollarPoolsUpdate(c), c, "borrowCap")
<1> DEFINE SC == ReviewSupplyCaps(c, Everything)
           UC == UpdateCaps(c)
           RF == ReviewReserveFactors(c, Everything)
           RS == ReviewRateStrategies(c, Everything)
           RC == ReviewReserveConfigs(c)
           EM == ReviewEMode(c, "DotEMode")
           EA == ReviewEmissionAdmin(c, "2-POOL-GDOT")
           GI == ReviewIncentive(c, "2-POOL-GDOT", {})
           V(i) == InEMode(HollarPools[i], "StableEMode") \o ReviewIncentive(c, HollarPools[i], {})
           S(i) == << SellAll("treasury", HollarPools[i], HollarTokens[i]) >>
           W(i) == ReviewEmissionAdmin(c, HollarPools[i]) \o ReviewIncentive(c, HollarPools[i], {})
<1>1. /\ Idle(SC) /\ Idle(UC) /\ Idle(RF) /\ Idle(RS) /\ Idle(RC) /\ Idle(EM) /\ Idle(EA) /\ Idle(GI)
      /\ Covers(SC, c, "supplyCap") /\ Covers(UC, c, "supplyCap") /\ Covers(UC, c, "borrowCap")
      /\ Covers(RF, c, "factor") /\ Covers(RS, c, "rate") /\ Covers(RC, c, "ltv")
  BY EverythingIdle, EModeIdle, EmissionAdminIdle, IncentiveIdle, ReviewsCover, CapsCover
<1>2. \A i : Idle(V(i)) /\ Idle(W(i))
  BY InEModeIdle, EmissionAdminIdle, IncentiveIdle, IdleConcat
<1>3. \A i \in 1..4 : Idle(S(i))
  BY HollarShares, SellIdle, IdleRow1
<1>4. /\ GigaDotUpdate(c) = SC \o EM \o InEMode("2-POOL-GDOT", "DotEMode") \o EA \o GI
      /\ ThreePoolCollateral(c) = RC \o UC \o InEMode("3-POOL", "StableEMode") \o RS \o PriceWstEth
  BY DEF GigaDotUpdate, ThreePoolCollateral
<1>5. /\ HTokenCollateral(c) = (RC \o UC) \o (V(1) \o V(2) \o V(3) \o V(4)) \o RF \o PriceWstEth
      /\ HollarPoolsUpdate(c) = (S(1) \o S(2) \o S(3) \o S(4)) \o UC \o (W(1) \o W(2) \o W(3) \o W(4))
  BY DEF HTokenCollateral, HollarPoolsUpdate, ForHollarPools
<1> HIDE DEF SC, UC, RF, RS, RC, EM, EA, GI, V, S, W
<1>6. Covers(GigaDotUpdate(c), c, "supplyCap")
  BY <1>1, <1>4, InEModeIdle, CoversConcat
<1>7. \A w \in {"supplyCap", "borrowCap", "ltv", "rate"} : Covers(ThreePoolCollateral(c), c, w)
  <2> DEFINE a1 == RC \o UC
             a2 == a1 \o InEMode("3-POOL", "StableEMode")
             a3 == a2 \o RS
             a4 == a3 \o PriceWstEth
  <2>1. Idle(a1) /\ Covers(a1, c, "ltv") /\ Covers(a1, c, "supplyCap") /\ Covers(a1, c, "borrowCap")
    BY <1>1, CoversConcat
  <2> HIDE DEF a1
  <2>2. Idle(a2) /\ Covers(a2, c, "ltv") /\ Covers(a2, c, "supplyCap") /\ Covers(a2, c, "borrowCap")
    BY <2>1, InEModeIdle, CoversConcat
  <2> HIDE DEF a2
  <2>3. /\ Idle(a3) /\ Covers(a3, c, "ltv") /\ Covers(a3, c, "supplyCap") /\ Covers(a3, c, "borrowCap")
        /\ Covers(a3, c, "rate")
    BY <1>1, <2>2, CoversConcat
  <2> HIDE DEF a3
  <2>4. /\ Covers(a4, c, "ltv") /\ Covers(a4, c, "supplyCap") /\ Covers(a4, c, "borrowCap")
        /\ Covers(a4, c, "rate")
    BY <2>3, PricesIdle, CoversConcat
  <2> HIDE DEF a4
  <2>5. \A w \in {"supplyCap", "borrowCap", "ltv", "rate"} : Covers(a4, c, w)
    BY <2>4
  <2>6. ThreePoolCollateral(c) = a4
    BY <1>4 DEF a4, a3, a2, a1
  <2> QED BY <2>5, <2>6
<1>8. \A w \in {"supplyCap", "borrowCap", "ltv", "factor"} : Covers(HTokenCollateral(c), c, w)
  <2> DEFINE a1 == RC \o UC
             v == V(1) \o V(2) \o V(3) \o V(4)
             a2 == a1 \o v
             a3 == a2 \o RF
             a4 == a3 \o PriceWstEth
  <2>1. Idle(a1) /\ Covers(a1, c, "ltv") /\ Covers(a1, c, "supplyCap") /\ Covers(a1, c, "borrowCap")
    BY <1>1, CoversConcat
  <2>2. Idle(v)
    BY <1>2, IdleFour
  <2> HIDE DEF a1, v
  <2>3. Idle(a2) /\ Covers(a2, c, "ltv") /\ Covers(a2, c, "supplyCap") /\ Covers(a2, c, "borrowCap")
    BY <2>1, <2>2, CoversConcat
  <2> HIDE DEF a2
  <2>4. /\ Idle(a3) /\ Covers(a3, c, "ltv") /\ Covers(a3, c, "supplyCap") /\ Covers(a3, c, "borrowCap")
        /\ Covers(a3, c, "factor")
    BY <1>1, <2>3, CoversConcat
  <2> HIDE DEF a3
  <2>5. /\ Covers(a4, c, "ltv") /\ Covers(a4, c, "supplyCap") /\ Covers(a4, c, "borrowCap")
        /\ Covers(a4, c, "factor")
    BY <2>4, PricesIdle, CoversConcat
  <2> HIDE DEF a4
  <2>6. \A w \in {"supplyCap", "borrowCap", "ltv", "factor"} : Covers(a4, c, w)
    BY <2>5
  <2>7. HTokenCollateral(c) = a4
    BY <1>5 DEF a4, a3, a2, a1, v
  <2> QED BY <2>6, <2>7
<1>9. Covers(HollarPoolsUpdate(c), c, "supplyCap") /\ Covers(HollarPoolsUpdate(c), c, "borrowCap")
  <2> DEFINE s == S(1) \o S(2) \o S(3) \o S(4)
             t == W(1) \o W(2) \o W(3) \o W(4)
             a == s \o UC
  <2>1. Idle(s) /\ Idle(t)
    BY <1>2, <1>3, IdleFour
  <2> HIDE DEF s, t
  <2>2. Idle(a) /\ Covers(a, c, "supplyCap") /\ Covers(a, c, "borrowCap")
    BY <1>1, <2>1, CoversConcat
  <2> HIDE DEF a
  <2>3. Covers(a \o t, c, "supplyCap") /\ Covers(a \o t, c, "borrowCap")
    BY <2>1, <2>2, CoversConcat
  <2>4. HollarPoolsUpdate(c) = a \o t
    BY <1>5 DEF a, s, t
  <2> QED BY <2>3, <2>4
<1> QED BY <1>6, <1>7, <1>8, <1>9

LEMMA ReviewsCovered ==
  ASSUME NEW p, NEW s \in Reviews(p), NEW c, NEW n
  PROVE  s \in Configuration /\ p \in Settling /\ Covers(Built(p, c, n).now, c, s)
<1>0. p \in {"update-caps", "gigahydration", "hollar-pools-update", "htoken-collateral", "reserve-factor-prop", "3pool-collateral", "reserve-factor-and-utilization-prop", "reduce-stables-borrow-rate", "vdot-biggening", "bifrosto-vdot-oracle", "gigadot-update"}
  BY DEF Reviews
<1>1. CASE p = "update-caps"
  <2>1. s \in {"supplyCap", "borrowCap"}
    BY <1>1 DEF Reviews
  <2>2. Covers(UpdateCaps(c), c, s)
    BY <2>1, CapsCover
  <2>3. Built("update-caps", c, n) = Now(UpdateCaps(c))
    BY DEF Built
  <2> QED BY <1>1, <2>1, <2>2, <2>3, NowCalls DEF Configuration, Settling
<1>2. CASE p = "gigahydration"
  <2>1. s \in {"supplyCap", "borrowCap"}
    BY <1>2 DEF Reviews
  <2>2. Covers(GigaHydration(c), c, s)
    BY <2>1, CapsCover
  <2>3. Built("gigahydration", c, n) = Now(GigaHydration(c))
    BY DEF Built
  <2> QED BY <1>2, <2>1, <2>2, <2>3, NowCalls DEF Configuration, Settling
<1>3. CASE p = "hollar-pools-update"
  <2>1. s \in {"supplyCap", "borrowCap"}
    BY <1>3 DEF Reviews
  <2>2. Covers(HollarPoolsUpdate(c), c, s)
    BY <2>1, CollateralCover
  <2>3. Built("hollar-pools-update", c, n) = Now(HollarPoolsUpdate(c))
    BY DEF Built
  <2> QED BY <1>3, <2>1, <2>2, <2>3, NowCalls DEF Configuration, Settling
<1>4. CASE p = "htoken-collateral"
  <2>1. s \in {"supplyCap", "borrowCap", "ltv", "factor"}
    BY <1>4 DEF Reviews
  <2>2. Covers(HTokenCollateral(c), c, s)
    BY <2>1, CollateralCover
  <2>3. Built("htoken-collateral", c, n) = Now(HTokenCollateral(c))
    BY DEF Built
  <2> QED BY <1>4, <2>1, <2>2, <2>3, NowCalls DEF Configuration, Settling
<1>5. CASE p = "reserve-factor-prop"
  <2>1. s \in {"supplyCap", "borrowCap", "ltv", "factor"}
    BY <1>5 DEF Reviews
  <2>2. Covers(ReserveFactorProp(c), c, s)
    BY <2>1, RatesCover
  <2>3. Built("reserve-factor-prop", c, n) = Now(ReserveFactorProp(c))
    BY DEF Built
  <2> QED BY <1>5, <2>1, <2>2, <2>3, NowCalls DEF Configuration, Settling
<1>6. CASE p = "3pool-collateral"
  <2>1. s \in {"supplyCap", "borrowCap", "ltv", "rate"}
    BY <1>6 DEF Reviews
  <2>2. Covers(ThreePoolCollateral(c), c, s)
    BY <2>1, CollateralCover
  <2>3. Built("3pool-collateral", c, n) = Now(ThreePoolCollateral(c))
    BY DEF Built
  <2> QED BY <1>6, <2>1, <2>2, <2>3, NowCalls DEF Configuration, Settling
<1>7. CASE p = "reserve-factor-and-utilization-prop"
  <2>1. s \in {"factor", "rate"}
    BY <1>7 DEF Reviews
  <2>2. Covers(ReserveFactorAndUtilization(c), c, s)
    BY <2>1, RatesCover
  <2>3. Built("reserve-factor-and-utilization-prop", c, n) = Now(ReserveFactorAndUtilization(c))
    BY DEF Built
  <2> QED BY <1>7, <2>1, <2>2, <2>3, NowCalls DEF Configuration, Settling
<1>8. CASE p = "reduce-stables-borrow-rate"
  <2>1. s \in {"factor", "rate", "supplyCap"}
    BY <1>8 DEF Reviews
  <2>2. Covers(ReduceStablesBorrowRate(c), c, s)
    BY <2>1, RatesCover
  <2>3. Built("reduce-stables-borrow-rate", c, n) = Now(ReduceStablesBorrowRate(c))
    BY DEF Built
  <2> QED BY <1>8, <2>1, <2>2, <2>3, NowCalls DEF Configuration, Settling
<1>9. CASE p = "vdot-biggening"
  <2>1. s \in {"supplyCap"}
    BY <1>9 DEF Reviews
  <2>2. Covers(VdotBiggening(c), c, s)
    BY <2>1, CapsCover
  <2>3. Built("vdot-biggening", c, n) = Now(VdotBiggening(c))
    BY DEF Built
  <2> QED BY <1>9, <2>1, <2>2, <2>3, NowCalls DEF Configuration, Settling
<1>10. CASE p = "bifrosto-vdot-oracle"
  <2>1. s \in {"supplyCap"}
    BY <1>10 DEF Reviews
  <2>2. Covers(UpdateReserveOracle(c), c, s)
    BY <2>1, CapsCover
  <2>3. Built("bifrosto-vdot-oracle", c, n) = Now(UpdateReserveOracle(c))
    BY DEF Built
  <2> QED BY <1>10, <2>1, <2>2, <2>3, NowCalls DEF Configuration, Settling
<1>11. CASE p = "gigadot-update"
  <2>1. s \in {"supplyCap"}
    BY <1>11 DEF Reviews
  <2>2. Covers(GigaDotUpdate(c), c, s)
    BY <2>1, CollateralCover
  <2>3. Built("gigadot-update", c, n) = Now(GigaDotUpdate(c))
    BY DEF Built
  <2> QED BY <1>11, <2>1, <2>2, <2>3, NowCalls DEF Configuration, Settling
<1> QED BY <1>0, <1>1, <1>2, <1>3, <1>4, <1>5, <1>6, <1>7, <1>8, <1>9, <1>10, <1>11

ReviewResult(e, p, c) ==
  e < 5 => \A s \in Reviews(p), r \in Loose(e) \cap Items(ReserveAssets) : Follows(s, r) \in c.facts

LEMMA ReviewRuns ==
  ASSUME NEW e \in 1..6, NEW p \in Launches[e] \cup Upkeeps[e], NEW c, Settled(e, c), NEW n \in Nat,
         NEW x, Settled(e, x), Grown(c, x), NEW y, Runs(Built(p, c, n).now, x, y)
  PROVE  ReviewResult(e, p, y)
<1> SUFFICES ASSUME e < 5, NEW s \in Reviews(p), NEW r \in Loose(e) \cap Items(ReserveAssets)
             PROVE  Follows(s, r) \in y.facts
  BY DEF ReviewResult
<1> DEFINE b == Built(p, c, n).now
<1>1. World(c) /\ World(x) /\ Main(e, c) /\ Runs(b, x, y)
  BY DEF Settled
<1>2. Decent(b) /\ Covers(b, c, s) /\ s \in Configuration
  BY <1>1, BuiltDecent, ReviewsCovered
<1>3. r # "HOLLAR" /\ r \in Items(Everything)
  BY EverythingItems DEF Loose
<1>4. Listed(r) \in c.facts
  BY <1>1 DEF Main
<1> HIDE DEF b
<1>5. Grown(x, y)
  BY <1>1, <1>2, RunsKeep
<1>6. CASE Follows(s, r) \in c.facts
  BY <1>2, <1>5, <1>6, SettledLasts DEF Grown
<1>7. CASE Follows(s, r) \notin c.facts
  <2>1. Set(s, r) \in Items(b)
    BY <1>2, <1>3, <1>4, <1>7 DEF Covers, Has
  <2>2. Listed(r) \in x.facts
    BY <1>4, ListedLasts DEF Grown
  <2>3. s \in Settings
    BY <1>2 DEF Settings, Configuration
  <2> QED BY <1>1, <1>2, <2>1, <2>2, <2>3, SetRuns
<1> QED BY <1>6, <1>7

LEMMA ReviewKept ==
  ASSUME NEW e \in 1..6, NEW p, NEW c, NEW d, Grown(c, d), ReviewResult(e, p, c)
  PROVE  ReviewResult(e, p, d)
<1>1. \A s \in Reviews(p) : s \in Configuration
  BY ReviewsCovered
<1> QED BY <1>1, SettledLasts DEF ReviewResult, Grown

-----------------------------------------------------------------------------
(* The chains an era may start from *)

\* The reserves an era starts with are the first of these, the ids of their tokens beside them.
Roll == << "DOT", "HOLLAR", "USDC", "USDT", "2-POOL-GDOT", "VDOT", "2-POOL-HUSDC", "2-POOL-HUSDT",
           "2-POOL-HUSDS", "2-POOL-HUSDE", "3-POOL", "PRIME", "APYUSD" >>
Beside == << "aDOT", "aHOLLAR", "aUSDC", "aUSDT", "gDOT", "avDOT", "HUSDC", "HUSDT", "HUSDS", "HUSDE",
             "a3-Pool", "aPRIME", "aAPYUSD" >>
Length(e) == CASE e = 1 -> 4 [] e = 2 -> 6 [] e = 3 -> 11 [] e = 4 -> 13

LEMMA RollIs ==
  /\ Roll[1] = "DOT" /\ Roll[2] = "HOLLAR" /\ Roll[3] = "USDC" /\ Roll[4] = "USDT" /\ Roll[5] = "2-POOL-GDOT"
  /\ Roll[6] = "VDOT" /\ Roll[7] = "2-POOL-HUSDC" /\ Roll[8] = "2-POOL-HUSDT" /\ Roll[9] = "2-POOL-HUSDS"
  /\ Roll[10] = "2-POOL-HUSDE" /\ Roll[11] = "3-POOL" /\ Roll[12] = "PRIME" /\ Roll[13] = "APYUSD"
  BY DEF Roll

LEMMA BesideIs ==
  /\ Beside[1] = "aDOT" /\ Beside[2] = "aHOLLAR" /\ Beside[3] = "aUSDC" /\ Beside[4] = "aUSDT" /\ Beside[5] = "gDOT"
  /\ Beside[6] = "avDOT" /\ Beside[7] = "HUSDC" /\ Beside[8] = "HUSDT" /\ Beside[9] = "HUSDS"
  /\ Beside[10] = "HUSDE" /\ Beside[11] = "a3-Pool" /\ Beside[12] = "aPRIME" /\ Beside[13] = "aAPYUSD"
  BY DEF Beside

\* b is s and then t.
Parts(b, s, t) ==
  /\ IsBatch(b) /\ Len(s) \in Nat /\ Len(t) \in Nat /\ Len(b) = Len(s) + Len(t)
  /\ \A i \in 1..Len(s) : b[i] = s[i]
  /\ \A i \in 1..Len(t) : b[Len(s) + i] = t[i]

LEMMA PartsOf ==
  ASSUME NEW s, IsBatch(s), NEW t, IsBatch(t), NEW b, b = s \o t
  PROVE  Parts(b, s, t)
<1>1. IsBatch(b) /\ Len(s) \in Nat /\ Len(t) \in Nat /\ Len(b) = Len(s) + Len(t)
  BY BatchConcat
<1>2. \A i \in 1..Len(s) : b[i] = s[i]
  BY BatchConcat
<1>3. \A i \in 1..Len(t) : b[Len(s) + i] = t[i]
  BY BatchConcat
<1> QED BY <1>1, <1>2, <1>3 DEF Parts

LEMMA OldReservesRoll ==
  ASSUME NEW e \in 1..4
  PROVE  Len(OldReserves(e)) = Length(e) /\ \A i \in 1..Length(e) : OldReserves(e)[i] = Roll[i]
<1> DEFINE a == << "DOT", "HOLLAR", "USDC", "USDT" >>
           b == IF e > 1 THEN << "2-POOL-GDOT", "VDOT" >> ELSE << >>
           t == << "3-POOL" >>
           h == HollarPools \o t
           d == IF e > 2 THEN h ELSE << >>
           f == IF e > 3 THEN << "PRIME", "APYUSD" >> ELSE << >>
           ab == a \o b
           abd == ab \o d
           o == abd \o f
<1>1. /\ IsBatch(a) /\ Len(a) = 4
      /\ a[1] = "DOT"
      /\ a[2] = "HOLLAR"
      /\ a[3] = "USDC"
      /\ a[4] = "USDT"
  <2>1. IsBatch(<< "DOT", "HOLLAR", "USDC", "USDT" >>)
    BY BatchRow4
  <2>2. Len(<< "DOT", "HOLLAR", "USDC", "USDT" >>) = 4
    OBVIOUS
  <2>3. << "DOT", "HOLLAR", "USDC", "USDT" >>[1] = "DOT"
    OBVIOUS
  <2>4. << "DOT", "HOLLAR", "USDC", "USDT" >>[2] = "HOLLAR"
    OBVIOUS
  <2>5. << "DOT", "HOLLAR", "USDC", "USDT" >>[3] = "USDC"
    OBVIOUS
  <2>6. << "DOT", "HOLLAR", "USDC", "USDT" >>[4] = "USDT"
    OBVIOUS
  <2> QED BY <2>1, <2>2, <2>3, <2>4, <2>5, <2>6
<1>2. IsBatch(b) /\ IF e > 1 THEN Len(b) = 2 /\ b[1] = "2-POOL-GDOT" /\ b[2] = "VDOT" ELSE Len(b) = 0
  <2>1. IsBatch(<< "2-POOL-GDOT", "VDOT" >>)
    BY BatchRow2
  <2>2. Len(<< "2-POOL-GDOT", "VDOT" >>) = 2
    OBVIOUS
  <2>3. << "2-POOL-GDOT", "VDOT" >>[1] = "2-POOL-GDOT"
    OBVIOUS
  <2>4. << "2-POOL-GDOT", "VDOT" >>[2] = "VDOT"
    OBVIOUS
  <2>5. IsBatch(<< >>) /\ Len(<< >>) = 0
    BY BatchEmpty
  <2>6. CASE e > 1
    BY <2>1, <2>2, <2>3, <2>4, <2>6
  <2>7. CASE ~(e > 1)
    BY <2>5, <2>7
  <2> QED BY <2>6, <2>7
<1>3. /\ IsBatch(t) /\ Len(t) = 1
      /\ t[1] = "3-POOL"
  <2>1. IsBatch(<< "3-POOL" >>)
    BY BatchRow1
  <2>2. Len(<< "3-POOL" >>) = 1
    OBVIOUS
  <2>3. << "3-POOL" >>[1] = "3-POOL"
    OBVIOUS
  <2> QED BY <2>1, <2>2, <2>3
<1>4. /\ IsBatch(HollarPools) /\ Len(HollarPools) = 4
      /\ HollarPools[1] = "2-POOL-HUSDC"
      /\ HollarPools[2] = "2-POOL-HUSDT"
      /\ HollarPools[3] = "2-POOL-HUSDS"
      /\ HollarPools[4] = "2-POOL-HUSDE"
  <2>1. IsBatch(<< "2-POOL-HUSDC", "2-POOL-HUSDT", "2-POOL-HUSDS", "2-POOL-HUSDE" >>)
    BY BatchRow4
  <2>2. Len(<< "2-POOL-HUSDC", "2-POOL-HUSDT", "2-POOL-HUSDS", "2-POOL-HUSDE" >>) = 4
    OBVIOUS
  <2>3. << "2-POOL-HUSDC", "2-POOL-HUSDT", "2-POOL-HUSDS", "2-POOL-HUSDE" >>[1] = "2-POOL-HUSDC"
    OBVIOUS
  <2>4. << "2-POOL-HUSDC", "2-POOL-HUSDT", "2-POOL-HUSDS", "2-POOL-HUSDE" >>[2] = "2-POOL-HUSDT"
    OBVIOUS
  <2>5. << "2-POOL-HUSDC", "2-POOL-HUSDT", "2-POOL-HUSDS", "2-POOL-HUSDE" >>[3] = "2-POOL-HUSDS"
    OBVIOUS
  <2>6. << "2-POOL-HUSDC", "2-POOL-HUSDT", "2-POOL-HUSDS", "2-POOL-HUSDE" >>[4] = "2-POOL-HUSDE"
    OBVIOUS
  <2> QED BY <2>1, <2>2, <2>3, <2>4, <2>5, <2>6 DEF HollarPools
<1>5. IsBatch(f) /\ IF e > 3 THEN Len(f) = 2 /\ f[1] = "PRIME" /\ f[2] = "APYUSD" ELSE Len(f) = 0
  <2>1. IsBatch(<< "PRIME", "APYUSD" >>)
    BY BatchRow2
  <2>2. Len(<< "PRIME", "APYUSD" >>) = 2
    OBVIOUS
  <2>3. << "PRIME", "APYUSD" >>[1] = "PRIME"
    OBVIOUS
  <2>4. << "PRIME", "APYUSD" >>[2] = "APYUSD"
    OBVIOUS
  <2>5. IsBatch(<< >>) /\ Len(<< >>) = 0
    BY BatchEmpty
  <2>6. CASE e > 3
    BY <2>1, <2>2, <2>3, <2>4, <2>6
  <2>7. CASE ~(e > 3)
    BY <2>5, <2>7
  <2> QED BY <2>6, <2>7
<1>6. OldReserves(e) = o
  BY DEF OldReserves
<1> HIDE DEF a, b, t, f
<1>7. /\ IsBatch(h) /\ Len(h) = 5 /\ h[1] = "2-POOL-HUSDC" /\ h[2] = "2-POOL-HUSDT"
      /\ h[3] = "2-POOL-HUSDS" /\ h[4] = "2-POOL-HUSDE" /\ h[5] = "3-POOL"
  <2>1. Parts(h, HollarPools, t)
    <3>1. h = HollarPools \o t
      OBVIOUS
    <3>2. IsBatch(HollarPools) /\ IsBatch(t)
      BY <1>3, <1>4
    <3> HIDE DEF h
    <3> QED BY <3>1, <3>2, PartsOf
  <2> HIDE DEF h
  <2>2. h[4 + 1] = t[1] /\ Len(h) = 5
    BY <1>3, <1>4, <2>1 DEF Parts
  <2> QED BY <1>3, <1>4, <2>1, <2>2 DEF Parts
<1> HIDE DEF h
<1>8. /\ IsBatch(d)
      /\ IF e > 2 THEN /\ Len(d) = 5 /\ d[1] = "2-POOL-HUSDC" /\ d[2] = "2-POOL-HUSDT"
                       /\ d[3] = "2-POOL-HUSDS" /\ d[4] = "2-POOL-HUSDE" /\ d[5] = "3-POOL"
                  ELSE Len(d) = 0
  <2>1. IsBatch(<< >>) /\ Len(<< >>) = 0
    BY BatchEmpty
  <2>2. CASE e > 2
    BY <1>7, <2>2
  <2>3. CASE ~(e > 2)
    BY <2>1, <2>3
  <2> QED BY <2>2, <2>3
<1> HIDE DEF d
<1>9. Parts(ab, a, b)
  <2>1. ab = a \o b
    OBVIOUS
  <2>2. IsBatch(a) /\ IsBatch(b)
    BY <1>1, <1>2
  <2> HIDE DEF ab
  <2> QED BY <2>1, <2>2, PartsOf
<1> HIDE DEF ab
<1>10. Parts(abd, ab, d)
  <2>1. abd = ab \o d
    OBVIOUS
  <2>2. IsBatch(ab) /\ IsBatch(d)
    BY <1>8, <1>9 DEF Parts
  <2> HIDE DEF abd
  <2> QED BY <2>1, <2>2, PartsOf
<1> HIDE DEF abd
<1>11. Parts(o, abd, f)
  <2>1. o = abd \o f
    OBVIOUS
  <2>2. IsBatch(abd) /\ IsBatch(f)
    BY <1>5, <1>10 DEF Parts
  <2> HIDE DEF o
  <2> QED BY <2>1, <2>2, PartsOf
<1> HIDE DEF o
<1>20. /\ Len(a) = 4 /\ Len(b) = (IF e > 1 THEN 2 ELSE 0)
       /\ Len(d) = (IF e > 2 THEN 5 ELSE 0) /\ Len(f) = (IF e > 3 THEN 2 ELSE 0)
  BY <1>1, <1>2, <1>5, <1>8
<1>21. Len(ab) = (IF e > 1 THEN 6 ELSE 4)
  BY <1>9, <1>20 DEF Parts
<1>22. Len(abd) = (IF e > 2 THEN 11 ELSE Len(ab))
  BY <1>10, <1>20, <1>21 DEF Parts
<1>23. Len(o) = Len(abd) + Len(f) /\ Len(abd) \in Nat
  BY <1>11 DEF Parts
<1>12. o[1] = Roll[1] /\ o[2] = Roll[2] /\ o[3] = Roll[3] /\ o[4] = Roll[4]
  <2>1. a[1] = Roll[1] /\ a[2] = Roll[2] /\ a[3] = Roll[3] /\ a[4] = Roll[4]
    BY <1>1, RollIs
  <2>2. ab[1] = a[1] /\ ab[2] = a[2] /\ ab[3] = a[3] /\ ab[4] = a[4]
    BY <1>9, <1>20 DEF Parts
  <2>3. abd[1] = ab[1] /\ abd[2] = ab[2] /\ abd[3] = ab[3] /\ abd[4] = ab[4]
    BY <1>10, <1>21 DEF Parts
  <2>4. o[1] = abd[1] /\ o[2] = abd[2] /\ o[3] = abd[3] /\ o[4] = abd[4]
    BY <1>11, <1>21, <1>22 DEF Parts
  <2> QED BY <2>1, <2>2, <2>3, <2>4
<1>13. e > 1 => o[5] = Roll[5] /\ o[6] = Roll[6]
  <2> SUFFICES ASSUME e > 1 PROVE o[5] = Roll[5] /\ o[6] = Roll[6]
    OBVIOUS
  <2>1. ab[4+1] = b[1] /\ ab[4+2] = b[2] /\ Len(ab) = 6
    <3>1. ab[4+1] = b[1] /\ ab[4+2] = b[2]
      BY <1>9, <1>20 DEF Parts
    <3> QED BY <1>21, <3>1
  <2>2. abd[5] = ab[5] /\ abd[6] = ab[6] /\ Len(abd) >= 6
    BY <1>10, <2>1 DEF Parts
  <2>3. o[5] = abd[5] /\ o[6] = abd[6]
    BY <1>11, <2>2 DEF Parts
  <2> QED BY <1>2, <2>1, <2>2, <2>3, RollIs
<1>14. e > 2 => o[7] = Roll[7] /\ o[8] = Roll[8] /\ o[9] = Roll[9] /\ o[10] = Roll[10] /\ o[11] = Roll[11]
  <2> SUFFICES ASSUME e > 2 PROVE o[7] = Roll[7] /\ o[8] = Roll[8] /\ o[9] = Roll[9] /\ o[10] = Roll[10] /\ o[11] = Roll[11]
    OBVIOUS
  <2>1. Len(ab) = 6 /\ Len(abd) = 11
    BY <1>21, <1>22
  <2>2. abd[6+1] = d[1] /\ abd[6+2] = d[2] /\ abd[6+3] = d[3] /\ abd[6+4] = d[4] /\ abd[6+5] = d[5]
    BY <1>10, <1>20, <2>1 DEF Parts
  <2>3. o[7] = abd[7] /\ o[8] = abd[8] /\ o[9] = abd[9] /\ o[10] = abd[10] /\ o[11] = abd[11]
    BY <1>11, <2>1 DEF Parts
  <2> QED BY <1>8, <2>2, <2>3, RollIs
<1>15. e > 3 => o[12] = Roll[12] /\ o[13] = Roll[13]
  <2> SUFFICES ASSUME e > 3 PROVE o[12] = Roll[12] /\ o[13] = Roll[13]
    OBVIOUS
  <2>1. Len(abd) = 11
    BY <1>21, <1>22
  <2>2. o[11+1] = f[1] /\ o[11+2] = f[2]
    BY <1>11, <1>20, <2>1 DEF Parts
  <2> QED BY <1>5, <2>2, RollIs
<1>16. Len(o) = Length(e)
  BY <1>20, <1>21, <1>22, <1>23 DEF Length
<1>17. \A i \in 1..Length(e) : o[i] = Roll[i]
  <2> SUFFICES ASSUME NEW i \in 1..Length(e) PROVE o[i] = Roll[i]
    OBVIOUS
  <2>1. Length(e) <= 13 /\ (i > 4 => e > 1) /\ (i > 6 => e > 2) /\ (i > 11 => e > 3)
    BY DEF Length
  <2>2. \/ i = 1 \/ i = 2 \/ i = 3 \/ i = 4 \/ i = 5 \/ i = 6 \/ i = 7 \/ i = 8 \/ i = 9 \/ i = 10
        \/ i = 11 \/ i = 12 \/ i = 13
    BY <2>1 DEF Length
  <2> QED BY <1>12, <1>13, <1>14, <1>15, <2>1, <2>2
<1> QED BY <1>6, <1>16, <1>17

LEMMA OldTokensBeside ==
  ASSUME NEW e, NEW i \in 1..13
  PROVE  OldTokens(e)[i] = Beside[i]
<1> DEFINE a == << "aDOT", "aHOLLAR", "aUSDC", "aUSDT", "gDOT", "avDOT" >>
           t == << "a3-Pool", "aPRIME", "aAPYUSD" >>
           ah == a \o HollarTokens
           o == ah \o t
<1>1. /\ IsBatch(a) /\ Len(a) = 6
      /\ a[1] = "aDOT"
      /\ a[2] = "aHOLLAR"
      /\ a[3] = "aUSDC"
      /\ a[4] = "aUSDT"
      /\ a[5] = "gDOT"
      /\ a[6] = "avDOT"
  <2>1. IsBatch(<< "aDOT", "aHOLLAR", "aUSDC", "aUSDT", "gDOT", "avDOT" >>)
    BY BatchRow6
  <2>2. Len(<< "aDOT", "aHOLLAR", "aUSDC", "aUSDT", "gDOT", "avDOT" >>) = 6
    OBVIOUS
  <2>3. << "aDOT", "aHOLLAR", "aUSDC", "aUSDT", "gDOT", "avDOT" >>[1] = "aDOT"
    OBVIOUS
  <2>4. << "aDOT", "aHOLLAR", "aUSDC", "aUSDT", "gDOT", "avDOT" >>[2] = "aHOLLAR"
    OBVIOUS
  <2>5. << "aDOT", "aHOLLAR", "aUSDC", "aUSDT", "gDOT", "avDOT" >>[3] = "aUSDC"
    OBVIOUS
  <2>6. << "aDOT", "aHOLLAR", "aUSDC", "aUSDT", "gDOT", "avDOT" >>[4] = "aUSDT"
    OBVIOUS
  <2>7. << "aDOT", "aHOLLAR", "aUSDC", "aUSDT", "gDOT", "avDOT" >>[5] = "gDOT"
    OBVIOUS
  <2>8. << "aDOT", "aHOLLAR", "aUSDC", "aUSDT", "gDOT", "avDOT" >>[6] = "avDOT"
    OBVIOUS
  <2> QED BY <2>1, <2>2, <2>3, <2>4, <2>5, <2>6, <2>7, <2>8
<1>2. /\ IsBatch(t) /\ Len(t) = 3
      /\ t[1] = "a3-Pool"
      /\ t[2] = "aPRIME"
      /\ t[3] = "aAPYUSD"
  <2>1. IsBatch(<< "a3-Pool", "aPRIME", "aAPYUSD" >>)
    BY BatchRow3
  <2>2. Len(<< "a3-Pool", "aPRIME", "aAPYUSD" >>) = 3
    OBVIOUS
  <2>3. << "a3-Pool", "aPRIME", "aAPYUSD" >>[1] = "a3-Pool"
    OBVIOUS
  <2>4. << "a3-Pool", "aPRIME", "aAPYUSD" >>[2] = "aPRIME"
    OBVIOUS
  <2>5. << "a3-Pool", "aPRIME", "aAPYUSD" >>[3] = "aAPYUSD"
    OBVIOUS
  <2> QED BY <2>1, <2>2, <2>3, <2>4, <2>5
<1>3. /\ IsBatch(HollarTokens) /\ Len(HollarTokens) = 4
      /\ HollarTokens[1] = "HUSDC"
      /\ HollarTokens[2] = "HUSDT"
      /\ HollarTokens[3] = "HUSDS"
      /\ HollarTokens[4] = "HUSDE"
  <2>1. IsBatch(<< "HUSDC", "HUSDT", "HUSDS", "HUSDE" >>)
    BY BatchRow4
  <2>2. Len(<< "HUSDC", "HUSDT", "HUSDS", "HUSDE" >>) = 4
    OBVIOUS
  <2>3. << "HUSDC", "HUSDT", "HUSDS", "HUSDE" >>[1] = "HUSDC"
    OBVIOUS
  <2>4. << "HUSDC", "HUSDT", "HUSDS", "HUSDE" >>[2] = "HUSDT"
    OBVIOUS
  <2>5. << "HUSDC", "HUSDT", "HUSDS", "HUSDE" >>[3] = "HUSDS"
    OBVIOUS
  <2>6. << "HUSDC", "HUSDT", "HUSDS", "HUSDE" >>[4] = "HUSDE"
    OBVIOUS
  <2> QED BY <2>1, <2>2, <2>3, <2>4, <2>5, <2>6 DEF HollarTokens
<1>4. OldTokens(e) = o
  BY DEF OldTokens
<1> HIDE DEF a, t
<1>5. Parts(ah, a, HollarTokens)
  <2>1. ah = a \o HollarTokens
    OBVIOUS
  <2>2. IsBatch(a) /\ IsBatch(HollarTokens)
    BY <1>1, <1>3
  <2> HIDE DEF ah
  <2> QED BY <2>1, <2>2, PartsOf
<1> HIDE DEF ah
<1>6. Parts(o, ah, t)
  <2>1. o = ah \o t
    OBVIOUS
  <2>2. IsBatch(ah) /\ IsBatch(t)
    BY <1>2, <1>5 DEF Parts
  <2> HIDE DEF o
  <2> QED BY <2>1, <2>2, PartsOf
<1> HIDE DEF o
<1>7. /\ o[1] = a[1] /\ o[2] = a[2] /\ o[3] = a[3] /\ o[4] = a[4] /\ o[5] = a[5] /\ o[6] = a[6]
  BY <1>1, <1>3, <1>5, <1>6 DEF Parts
<1>8. /\ ah[6+1] = HollarTokens[1] /\ ah[6+2] = HollarTokens[2] /\ ah[6+3] = HollarTokens[3] /\ ah[6+4] = HollarTokens[4]
      /\ o[10+1] = t[1] /\ o[10+2] = t[2] /\ o[10+3] = t[3]
  BY <1>1, <1>2, <1>3, <1>5, <1>6 DEF Parts
<1>9. o[7] = ah[7] /\ o[8] = ah[8] /\ o[9] = ah[9] /\ o[10] = ah[10]
  BY <1>1, <1>3, <1>5, <1>6 DEF Parts
<1>10. /\ o[1] = Beside[1] /\ o[2] = Beside[2] /\ o[3] = Beside[3] /\ o[4] = Beside[4] /\ o[5] = Beside[5]
       /\ o[6] = Beside[6] /\ o[7] = Beside[7] /\ o[8] = Beside[8] /\ o[9] = Beside[9] /\ o[10] = Beside[10]
       /\ o[11] = Beside[11] /\ o[12] = Beside[12] /\ o[13] = Beside[13]
  BY <1>1, <1>2, <1>3, <1>7, <1>8, <1>9, BesideIs
<1>11. \/ i = 1 \/ i = 2 \/ i = 3 \/ i = 4 \/ i = 5 \/ i = 6 \/ i = 7 \/ i = 8 \/ i = 9 \/ i = 10
       \/ i = 11 \/ i = 12 \/ i = 13
  OBVIOUS
<1>12. o[i] = Beside[i]
  BY <1>10, <1>11
<1> QED BY <1>4, <1>12

\* What else there is at the start of an era.
Others(e) ==
  { Registered(u) : u \in Underlyings }
  \cup { Holds("treasury", u) : u \in IF e = 1 THEN Funds ELSE Funds \cup {"gDOT"} }
  \cup { InOmnipool(u) : u \in {"HYPE", "ZEC", "SPY"} }
  \cup {Holds("collector", "DOT"), Category("StableEMode")}
  \cup (IF e > 1 THEN {RiskAdmin, EmissionAdmin} ELSE {})
  \cup (IF e > 2 THEN {Pool("2-POOL-GETH")} ELSE {})
  \cup (IF e > 3 THEN {Pool("2-Pool-apyUSD")} ELSE {})

LEMMA OthersAre ==
  ASSUME NEW e, NEW f \in Others(e)
  PROVE  \/ f[1] \in {"registered", "category", "riskAdmin", "emissionAdmin", "pool"}
         \/ f[1] = "holds" /\ f[3] \in Funds \cup {"gDOT"}
         \/ f[1] = "omnipool" /\ f[2] \in {"HYPE", "ZEC", "SPY"}
<1>1. \/ \E u \in Underlyings : f = Registered(u)
      \/ \E u \in Funds \cup {"gDOT"} : f = Holds("treasury", u)
      \/ \E u \in {"HYPE", "ZEC", "SPY"} : f = InOmnipool(u)
      \/ f = Holds("collector", "DOT") \/ f = Category("StableEMode")
      \/ f = RiskAdmin \/ f = EmissionAdmin \/ f = Pool("2-POOL-GETH") \/ f = Pool("2-Pool-apyUSD")
  BY DEF Others
<1>2. "DOT" \in Funds
  BY DEF Funds, Underlyings
<1>3. CASE \E u \in Underlyings : f = Registered(u)
  BY <1>3 DEF Registered
<1>4. CASE \E u \in Funds \cup {"gDOT"} : f = Holds("treasury", u)
  BY <1>4 DEF Holds
<1>5. CASE \E u \in {"HYPE", "ZEC", "SPY"} : f = InOmnipool(u)
  BY <1>5 DEF InOmnipool
<1>6. CASE f = Holds("collector", "DOT")
  BY <1>2, <1>6 DEF Holds
<1>7. CASE f = Category("StableEMode") \/ f = RiskAdmin \/ f = EmissionAdmin \/ f = Pool("2-POOL-GETH")
           \/ f = Pool("2-Pool-apyUSD")
  BY <1>7 DEF Category, RiskAdmin, EmissionAdmin, Pool
<1> QED BY <1>1, <1>3, <1>4, <1>5, <1>6, <1>7

LEMMA FactsAre ==
  ASSUME NEW e \in 1..4, NEW f
  PROVE  f \in Facts(e) <=>
           \/ \E i \in 1..Length(e) : f \in Reserve(Roll[i], Beside[i], 3 * (i - 1))
           \/ f \in Others(e)
<1>1. 1..Len(OldReserves(e)) = 1..Length(e)
  BY OldReservesRoll
<1>2. \A i \in 1..Length(e) : i \in 1..13
  BY DEF Length
<1>3. \A i \in 1..Length(e) : OldReserves(e)[i] = Roll[i] /\ OldTokens(e)[i] = Beside[i]
  BY <1>2, OldReservesRoll, OldTokensBeside
<1> DEFINE R(i) == Reserve(OldReserves(e)[i], OldTokens(e)[i], 3 * (i - 1))
           D == 1..Len(OldReserves(e))
           U == UNION { R(i) : i \in D }
           A1 == { Registered(u) : u \in Underlyings }
           A2 == { Holds("treasury", u) : u \in IF e = 1 THEN Funds ELSE Funds \cup {"gDOT"} }
           A3 == { InOmnipool(u) : u \in {"HYPE", "ZEC", "SPY"} }
           A4 == {Holds("collector", "DOT"), Category("StableEMode")}
           A5 == IF e > 1 THEN {RiskAdmin, EmissionAdmin} ELSE {}
           A6 == IF e > 2 THEN {Pool("2-POOL-GETH")} ELSE {}
           A7 == IF e > 3 THEN {Pool("2-Pool-apyUSD")} ELSE {}
<1>4. \A i \in 1..Length(e) : R(i) = Reserve(Roll[i], Beside[i], 3 * (i - 1))
  BY <1>3
<1>5. Facts(e) = U \cup A1 \cup A2 \cup A3 \cup A4 \cup A5 \cup A6 \cup A7
  BY DEF Facts
<1>6. Others(e) = A1 \cup A2 \cup A3 \cup A4 \cup A5 \cup A6 \cup A7
  BY DEF Others
<1>7. D = 1..Length(e)
  BY <1>1
<1> HIDE DEF R, D, A1, A2, A3, A4, A5, A6, A7
<1>8. f \in U <=> \E i \in D : f \in R(i)
  OBVIOUS
<1> HIDE DEF U
<1>9. f \in Facts(e) <=> f \in U \/ f \in Others(e)
  BY <1>5, <1>6
<1> QED BY <1>4, <1>7, <1>8, <1>9

LEMMA EditedAre ==
  ASSUME NEW f \in Edited
  PROVE  f[1] \in Settings /\ (f[2] = "DOT" \/ (f[2] = "PRIME" /\ f[1] # "ceiling"))
<1>1. (\E s \in Settings : f = Follows(s, "DOT")) \/ (\E s \in Settings \ {"ceiling"} : f = Follows(s, "PRIME"))
  BY DEF Edited
<1> QED BY <1>1 DEF Follows

\* The facts at the start of an era, by kind.
StartsAs(e, g) ==
  /\ \A r, n : AToken(r, n) \in g <=> \E i \in 1..Length(e) : r = Roll[i] /\ n = 3 * (i - 1)
  /\ \A r : Listed(r) \in g <=> \E i \in 1..Length(e) : r = Roll[i]
  /\ \A r : Collateral(r) \in g <=> \E i \in 1..Length(e) : r = Roll[i]
  /\ \A u \in Underlyings : Registered(u) \in g
  /\ \A i \in 1..Length(e) : Registered(Beside[i]) \in g
  /\ \A i \in 1..Length(e) : \A s \in Settings :
       Roll[i] # "DOT" /\ (Roll[i] = "PRIME" => s = "ceiling") => Follows(s, Roll[i]) \in g
  /\ \A x, u : Holds(x, u) \in g => u \in Funds \cup {"gDOT"}
  /\ \A u : InOmnipool(u) \in g => u \in {"HYPE", "ZEC", "SPY"}

LEMMA StartKinds ==
  ASSUME NEW e \in 1..4, NEW g, g = Facts(e) \/ g = Facts(e) \ Edited
  PROVE  StartsAs(e, g)
<1>1. \A f : f \in g => f \in Facts(e)
  OBVIOUS
<1>2. \A f : f \in Facts(e) /\ f[1] \notin Settings => f \in g
  BY EditedAre
<1>3. /\ \A r, n : AToken(r, n)[1] = "aToken"
      /\ \A r : Listed(r)[1] = "listed" /\ Collateral(r)[1] = "collateral" /\ Registered(r)[1] = "registered"
      /\ \A r : InOmnipool(r)[1] = "omnipool" /\ InOmnipool(r)[2] = r
      /\ \A x, u : Holds(x, u)[1] = "holds" /\ Holds(x, u)[3] = u
      /\ \A s, r : Follows(s, r)[1] = s /\ Follows(s, r)[2] = r
  BY DEF AToken, Listed, Collateral, Registered, InOmnipool, Holds, Follows
<1>4. \A x : x \in {"aToken", "listed", "collateral", "registered", "omnipool", "holds"} => x \notin Settings
  BY DEF Settings
<1>5. ASSUME NEW r, NEW a, NEW n, NEW f
      PROVE  f \in Reserve(r, a, n) <=>
               \/ f \in {Registered(r), Registered(a), Located(a, n), Listed(r), AToken(r, n), Collateral(r)}
               \/ \E s \in Settings : f = Follows(s, r)
  BY DEF Reserve
<1>6. \A i \in 1..Length(e) : \A f : f \in Reserve(Roll[i], Beside[i], 3 * (i - 1)) => f \in Facts(e)
  BY FactsAre
<1>7. \A f : f \in Others(e) => f \in Facts(e)
  BY FactsAre
<1>8. ASSUME NEW r, NEW n
      PROVE  AToken(r, n) \in g <=> \E i \in 1..Length(e) : r = Roll[i] /\ n = 3 * (i - 1)
  <2>1. ASSUME AToken(r, n) \in g
        PROVE  \E i \in 1..Length(e) : r = Roll[i] /\ n = 3 * (i - 1)
    <3>1. AToken(r, n) \notin Others(e)
      BY <1>3, OthersAre
    <3>2. PICK i \in 1..Length(e) : AToken(r, n) \in Reserve(Roll[i], Beside[i], 3 * (i - 1))
      BY <1>1, <2>1, <3>1, FactsAre
    <3>3. \A s \in Settings : AToken(r, n) # Follows(s, Roll[i])
      BY <1>3, <1>4
    <3>4. AToken(r, n) = AToken(Roll[i], 3 * (i - 1))
      <4>1. AToken(r, n) \in {Registered(Roll[i]), Registered(Beside[i]), Located(Beside[i], 3 * (i - 1)), Listed(Roll[i]),
                              AToken(Roll[i], 3 * (i - 1)), Collateral(Roll[i])}
        BY <1>5, <3>2, <3>3
      <4>2. Located(Beside[i], 3 * (i - 1))[1] = "located"
        BY DEF Located
      <4> QED BY <1>3, <4>1, <4>2
    <3> QED BY <3>4 DEF AToken
  <2>2. ASSUME NEW i \in 1..Length(e), r = Roll[i], n = 3 * (i - 1)
        PROVE  AToken(r, n) \in g
    BY <1>2, <1>3, <1>4, <1>5, <1>6, <2>2
  <2> QED BY <2>1, <2>2
<1>9. ASSUME NEW r
      PROVE  Listed(r) \in g <=> \E i \in 1..Length(e) : r = Roll[i]
  <2>1. ASSUME Listed(r) \in g
        PROVE  \E i \in 1..Length(e) : r = Roll[i]
    <3>1. Listed(r) \notin Others(e)
      BY <1>3, OthersAre
    <3>2. PICK i \in 1..Length(e) : Listed(r) \in Reserve(Roll[i], Beside[i], 3 * (i - 1))
      BY <1>1, <2>1, <3>1, FactsAre
    <3>3. \A s \in Settings : Listed(r) # Follows(s, Roll[i])
      BY <1>3, <1>4
    <3>4. Listed(r) = Listed(Roll[i])
      <4>1. Listed(r) \in {Registered(Roll[i]), Registered(Beside[i]), Located(Beside[i], 3 * (i - 1)), Listed(Roll[i]),
                              AToken(Roll[i], 3 * (i - 1)), Collateral(Roll[i])}
        BY <1>5, <3>2, <3>3
      <4>2. Located(Beside[i], 3 * (i - 1))[1] = "located"
        BY DEF Located
      <4> QED BY <1>3, <4>1, <4>2
    <3> QED BY <3>4 DEF Listed
  <2>2. ASSUME NEW i \in 1..Length(e), r = Roll[i]
        PROVE  Listed(r) \in g
    BY <1>2, <1>3, <1>4, <1>5, <1>6, <2>2
  <2> QED BY <2>1, <2>2
<1>10. ASSUME NEW r
       PROVE  Collateral(r) \in g <=> \E i \in 1..Length(e) : r = Roll[i]
  <2>1. ASSUME Collateral(r) \in g
        PROVE  \E i \in 1..Length(e) : r = Roll[i]
    <3>1. Collateral(r) \notin Others(e)
      BY <1>3, OthersAre
    <3>2. PICK i \in 1..Length(e) : Collateral(r) \in Reserve(Roll[i], Beside[i], 3 * (i - 1))
      BY <1>1, <2>1, <3>1, FactsAre
    <3>3. \A s \in Settings : Collateral(r) # Follows(s, Roll[i])
      BY <1>3, <1>4
    <3>4. Collateral(r) = Collateral(Roll[i])
      <4>1. Collateral(r) \in {Registered(Roll[i]), Registered(Beside[i]), Located(Beside[i], 3 * (i - 1)), Listed(Roll[i]),
                              AToken(Roll[i], 3 * (i - 1)), Collateral(Roll[i])}
        BY <1>5, <3>2, <3>3
      <4>2. Located(Beside[i], 3 * (i - 1))[1] = "located"
        BY DEF Located
      <4> QED BY <1>3, <4>1, <4>2
    <3> QED BY <3>4 DEF Collateral
  <2>2. ASSUME NEW i \in 1..Length(e), r = Roll[i]
        PROVE  Collateral(r) \in g
    BY <1>2, <1>3, <1>4, <1>5, <1>6, <2>2
  <2> QED BY <2>1, <2>2
<1>11. ASSUME NEW u \in Underlyings
       PROVE  Registered(u) \in g
  <2>1. Registered(u) \in Others(e)
    BY DEF Others
  <2> QED BY <1>2, <1>3, <1>4, <1>7, <2>1
<1>12. ASSUME NEW i \in 1..Length(e)
       PROVE  Registered(Beside[i]) \in g
  BY <1>2, <1>3, <1>4, <1>5, <1>6
<1>13. ASSUME NEW i \in 1..Length(e), NEW s \in Settings, Roll[i] # "DOT", Roll[i] = "PRIME" => s = "ceiling"
       PROVE  Follows(s, Roll[i]) \in g
  <2>1. Follows(s, Roll[i]) \in Facts(e)
    BY <1>5, <1>6
  <2>2. Follows(s, Roll[i]) \notin Edited
    BY <1>3, <1>13, EditedAre
  <2> QED BY <2>1, <2>2
<1>14. ASSUME NEW i \in 1..Length(e), NEW f \in Reserve(Roll[i], Beside[i], 3 * (i - 1))
       PROVE  f[1] \notin {"holds", "omnipool"}
  <2>1. CASE f \in {Registered(Roll[i]), Registered(Beside[i]), Located(Beside[i], 3 * (i - 1)), Listed(Roll[i]),
                    AToken(Roll[i], 3 * (i - 1)), Collateral(Roll[i])}
    BY <2>1 DEF Registered, Located, Listed, AToken, Collateral
  <2>2. CASE \E s \in Settings : f = Follows(s, Roll[i])
    BY <1>3, <1>4, <2>2
  <2> QED BY <1>5, <2>1, <2>2
<1>15. ASSUME NEW x, NEW u, Holds(x, u) \in g
       PROVE  u \in Funds \cup {"gDOT"}
  BY <1>1, <1>3, <1>14, <1>15, FactsAre, OthersAre
<1>16. ASSUME NEW u, InOmnipool(u) \in g
       PROVE  u \in {"HYPE", "ZEC", "SPY"}
  BY <1>1, <1>3, <1>14, <1>16, FactsAre, OthersAre
<1>17. \A i \in 1..Length(e) : \A s \in Settings :
         Roll[i] # "DOT" /\ (Roll[i] = "PRIME" => s = "ceiling") => Follows(s, Roll[i]) \in g
  BY <1>13
<1> QED BY <1>8, <1>9, <1>10, <1>11, <1>12, <1>15, <1>16, <1>17 DEF StartsAs

LEMMA RollDistinct ==
  ASSUME NEW i \in 1..13, NEW j \in 1..13, Roll[i] = Roll[j]
  PROVE  i = j
<1>1. \/ i = 1 \/ i = 2 \/ i = 3 \/ i = 4 \/ i = 5 \/ i = 6 \/ i = 7 \/ i = 8 \/ i = 9 \/ i = 10
      \/ i = 11 \/ i = 12 \/ i = 13
  OBVIOUS
<1>2. \/ j = 1 \/ j = 2 \/ j = 3 \/ j = 4 \/ j = 5 \/ j = 6 \/ j = 7 \/ j = 8 \/ j = 9 \/ j = 10
      \/ j = 11 \/ j = 12 \/ j = 13
  OBVIOUS
<1> QED BY <1>1, <1>2, RollIs

\* The token of a reserve that is there already, if a proposal means one, stands beside it.
LEMMA RollMeans ==
  ASSUME NEW a \in DOMAIN Means, NEW i \in 1..13, Means[a] = Roll[i], i # 5
  PROVE  a = Beside[i]
<1>1. a \in {"gDOT", "atBTC", "apaxg", "gETH", "aETH", "gSOL", "aSOL", "aEURC", "HEURC", "HUSDC", "HUSDT", "HUSDS", "HUSDE", "aHYPE", "aZEC", "aSPY", "aPRIME", "aAPYUSD", "aSIGIL", "aBIL", "GIGAHDX"}
  BY DEF Means
<1>2. Means["aBIL"] = "BIL" /\ Means["GIGAHDX"] = "STHDX"
  BY DEF Means
<1>3. \/ i = 1 \/ i = 2 \/ i = 3 \/ i = 4 \/ i = 6 \/ i = 7 \/ i = 8 \/ i = 9 \/ i = 10
      \/ i = 11 \/ i = 12 \/ i = 13
  OBVIOUS
<1>4. CASE i = 1 \/ i = 2 \/ i = 3 \/ i = 4 \/ i = 6 \/ i = 11
  BY <1>1, <1>2, <1>4, MeansIs, RollIs
<1>5. CASE i = 7 \/ i = 8 \/ i = 9 \/ i = 10
  BY <1>1, <1>2, <1>5, MeansIs, RollIs, BesideIs
<1>6. CASE i = 12 \/ i = 13
  BY <1>1, <1>2, <1>6, MeansIs, RollIs, BesideIs
<1> QED BY <1>3, <1>4, <1>5, <1>6

\* No GIGA token is held by anybody yet.
LEMMA StartFunds ==
  ASSUME NEW q \in Giga
  PROVE  q[1] \notin Funds \cup {"gDOT"} /\ q[2] \notin Funds \cup {"gDOT"} /\ q[3] \notin Funds \cup {"gDOT"}
         /\ q[1] \notin {"HYPE", "ZEC", "SPY"}
<1>1. \A u \in Underlyings :
        u \in {"DOT", "VDOT", "jitoSOL", "SOL", "wstETH", "ETH", "HOLLAR", "EURC", "HYPE", "ZEC",
               "SPY", "PRIME", "APYUSD", "TBTC", "PAXG", "3-POOL", "USDC", "USDT"}
        \/ u \in {"2-POOL-HUSDC", "2-POOL-HUSDT", "2-POOL-HUSDS", "2-POOL-HUSDE"}
  <2>1. \A i \in 1..4 : HollarPools[i] \in {"2-POOL-HUSDC", "2-POOL-HUSDT", "2-POOL-HUSDS", "2-POOL-HUSDE"}
    BY DEF HollarPools
  <2> QED BY <2>1 DEF Underlyings
<1>2. \/ q[1] = "gSOL" /\ q[2] = "2-POOL-GSOL" /\ q[3] = "aSOL"
      \/ q[1] = "gETH" /\ q[2] = "2-POOL-GETH" /\ q[3] = "aETH"
  BY DEF Giga
<1> QED BY <1>1, <1>2 DEF Funds

LEMMA StartWorld ==
  ASSUME NEW e \in 1..4, NEW g, g = Facts(e) \/ g = Facts(e) \ Edited, NEW c, IsChain(c),
         c.facts = g, c.nonce = 3 * Length(e)
  PROVE  World(c)
<1>0. \A i \in 1..Length(e) : i \in 1..13 /\ 3 * (i - 1) \in Nat /\ 3 * (i - 1) + 3 <= 3 * Length(e)
  BY DEF Length
<1>9. StartsAs(e, g)
  BY StartKinds
<1>1. /\ \A r, n : AToken(r, n) \in g <=> \E i \in 1..Length(e) : r = Roll[i] /\ n = 3 * (i - 1)
      /\ \A r : Listed(r) \in g <=> \E i \in 1..Length(e) : r = Roll[i]
      /\ \A r : Collateral(r) \in g <=> \E i \in 1..Length(e) : r = Roll[i]
  BY <1>9 DEF StartsAs
<1>2. Sane(c)
  <2>1. ASSUME NEW r, NEW n, AToken(r, n) \in c.facts
        PROVE  n \in Nat /\ n + 3 <= c.nonce /\ Listed(r) \in c.facts
    BY <1>0, <1>1, <2>1
  <2>2. ASSUME NEW r, NEW n, NEW m, AToken(r, n) \in c.facts, AToken(r, m) \in c.facts
        PROVE  n = m
    <3>1. PICK i \in 1..Length(e) : r = Roll[i] /\ n = 3 * (i - 1)
      BY <1>1, <2>2
    <3>2. PICK j \in 1..Length(e) : r = Roll[j] /\ m = 3 * (j - 1)
      BY <1>1, <2>2
    <3>3. i = j
      BY <1>0, <3>1, <3>2, RollDistinct
    <3> QED BY <3>1, <3>2, <3>3
  <2>3. ASSUME NEW r, Listed(r) \in c.facts
        PROVE  \E n : AToken(r, n) \in c.facts
    BY <1>1, <2>3
  <2>4. ASSUME NEW r, Collateral(r) \in c.facts
        PROVE  Listed(r) \in c.facts
    BY <1>1, <2>4
  <2> QED BY <2>1, <2>2, <2>3, <2>4 DEF Sane
<1>3. Earned(c)
  <2>1. /\ \A x, u : Holds(x, u) \in g => u \in Funds \cup {"gDOT"}
        /\ \A u : InOmnipool(u) \in g => u \in {"HYPE", "ZEC", "SPY"}
    BY <1>9 DEF StartsAs
  <2> QED BY <2>1, StartFunds DEF Earned
<1> QED BY <1>2, <1>3 DEF World

LEMMA StartMain ==
  ASSUME NEW e \in 1..4, NEW g, g = Facts(e) \/ g = Facts(e) \ Edited, NEW c, IsChain(c),
         c.facts = g, c.nonce = 3 * Length(e)
  PROVE  Settled(e, c)
<1>0. \A i \in 1..Length(e) : i \in 1..13
  BY DEF Length
<1>9. StartsAs(e, g)
  BY StartKinds
<1>1. /\ \A r : Listed(r) \in g <=> \E i \in 1..Length(e) : r = Roll[i]
      /\ \A r : Collateral(r) \in g <=> \E i \in 1..Length(e) : r = Roll[i]
      /\ \A u \in Underlyings : Registered(u) \in g
      /\ \A i \in 1..Length(e) : Registered(Beside[i]) \in g
      /\ \A i \in 1..Length(e) : \A s \in Settings :
           Roll[i] # "DOT" /\ (Roll[i] = "PRIME" => s = "ceiling") => Follows(s, Roll[i]) \in g
  BY <1>9 DEF StartsAs
<1>2. Backed(c)
  <2> SUFFICES ASSUME NEW r, Listed(r) \in c.facts
      PROVE  Collateral(r) \in c.facts /\ (r \in Isolated => Follows("ceiling", r) \in c.facts)
    BY DEF Backed
  <2>1. PICK i \in 1..Length(e) : r = Roll[i]
    BY <1>1
  <2>2. r \in Isolated => r # "DOT"
    BY ConfigAssumption
  <2>3. "ceiling" \in Settings
    BY DEF Settings
  <2> QED BY <1>1, <2>1, <2>2, <2>3
<1>3. Main(e, c)
  <2>1. ASSUME NEW r, Listed(r) \in c.facts, r \notin Loose(e), NEW s \in Configuration
        PROVE  Follows(s, r) \in c.facts
    <3>1. PICK i \in 1..Length(e) : r = Roll[i]
      BY <1>1, <2>1
    <3>2. r # "DOT" /\ r # "PRIME"
      <4>1. e > 3 => r # "PRIME"
        BY <2>1 DEF Loose
      <4>2. e <= 3 => i # 12
        BY DEF Length
      <4>3. i # 12 => r # "PRIME"
        BY <1>0, <3>1, RollIs, RollDistinct
      <4> QED BY <2>1, <4>1, <4>2, <4>3 DEF Loose
    <3>3. s \in Settings
      BY DEF Settings, Configuration
    <3> QED BY <1>1, <3>1, <3>2, <3>3
  <2>2. \A r \in Loose(e) \cup {"HOLLAR"} : Listed(r) \in c.facts
    <3>1. 1 \in 1..Length(e) /\ 2 \in 1..Length(e) /\ (e > 3 => 12 \in 1..Length(e))
      BY DEF Length
    <3>2. Listed(Roll[1]) \in c.facts /\ Listed(Roll[2]) \in c.facts /\ (e > 3 => Listed(Roll[12]) \in c.facts)
      BY <1>1, <3>1
    <3> QED BY <3>2, RollIs DEF Loose
  <2>3. ASSUME NEW a \in DOMAIN Means, Listed(Means[a]) \in c.facts
        PROVE  Registered(a) \in c.facts
    <3>1. PICK i \in 1..Length(e) : Means[a] = Roll[i]
      BY <1>1, <2>3
    <3>2. i # 5
      <4>1. Means[a] # "2-POOL-GDOT"
        <5>1. a \in {"gDOT", "atBTC", "apaxg", "gETH", "aETH", "gSOL", "aSOL", "aEURC", "HEURC", "HUSDC", "HUSDT", "HUSDS", "HUSDE", "aHYPE", "aZEC", "aSPY", "aPRIME", "aAPYUSD", "aSIGIL", "aBIL", "GIGAHDX"}
          BY DEF Means
        <5>2. Means["aBIL"] = "BIL" /\ Means["GIGAHDX"] = "STHDX"
          BY DEF Means
        <5> QED BY <5>1, <5>2, MeansIs
      <4> QED BY <3>1, <4>1, RollIs
    <3> QED BY <1>0, <1>1, <3>1, <3>2, RollMeans
  <2> QED BY <1>1, <2>1, <2>2, <2>3 DEF Main
<1>4. World(c)
  BY StartWorld
<1> QED BY <1>2, <1>3, <1>4 DEF Settled

\* In a satellite market there is one reserve at most.
Sole(c, x) ==
  /\ \A f \in c.facts : f[1] # "omnipool" /\ (f[1] = "holds" => f[3] \in {"HOLLAR", "HDX"})
  /\ \A r, n : AToken(r, n) \in c.facts => r = x /\ n = 0 /\ c.nonce = 3
  /\ \A r : Listed(r) \in c.facts => r = x
  /\ Listed(x) \in c.facts <=> AToken(x, 0) \in c.facts
  /\ \A r : Collateral(r) \in c.facts => r = x /\ Listed(x) \in c.facts
  /\ Listed(x) \in c.facts /\ x # "HOLLAR" => Collateral(x) \in c.facts
  /\ Registered("HOLLAR") \in c.facts

LEMMA SoleSettled ==
  ASSUME NEW e \in {5, 6}, NEW c, IsChain(c), NEW x, x \notin Isolated, Sole(c, x)
  PROVE  Settled(e, c)
<1>1. Sane(c)
  BY DEF Sole, Sane, IsChain
<1>2. Earned(c)
  <2>1. \A y, u : Holds(y, u)[1] = "holds" /\ Holds(y, u)[3] = u
    BY DEF Holds
  <2>2. \A u : InOmnipool(u)[1] = "omnipool"
    BY DEF InOmnipool
  <2>3. ASSUME NEW q \in Giga
        PROVE  q[1] \notin {"HOLLAR", "HDX"} /\ q[2] \notin {"HOLLAR", "HDX"} /\ q[3] \notin {"HOLLAR", "HDX"}
    BY DEF Giga
  <2>4. /\ \A y, u : Holds(y, u) \in c.facts => u \in {"HOLLAR", "HDX"}
        /\ \A u : InOmnipool(u) \notin c.facts
    BY <2>1, <2>2 DEF Sole
  <2> QED BY <2>3, <2>4 DEF Earned
<1>3. Backed(c)
  BY DEF Sole, Backed
<1> QED BY <1>1, <1>2, <1>3 DEF Settled, World, Sole

LEMMA SatelliteNames ==
  ASSUME NEW e \in {5, 6}
  PROVE  LET r == Satellites[e].r IN r \in {"BIL", "STHDX"} /\ r \notin Isolated /\ r # "HOLLAR"
<1>1. Satellites[e].r \in {"BIL", "STHDX"}
  BY DEF Satellites
<1> QED BY <1>1, ConfigAssumption

LEMMA SatelliteSole ==
  ASSUME NEW e \in {5, 6}, NEW start \in SatelliteStarts(e), NEW c, IsChain(c), c.facts = start.facts, c.nonce = start.nonce
  PROVE  \E x : x \notin Isolated /\ Sole(c, x)
<1> DEFINE r == Satellites[e].r
           a == Satellites[e].a
           settings == { Follows(s, r) : s \in Settings }
           collateral == {Registered(r), AtVault, Listed(r), AToken(r, 0), Collateral(r)} \cup settings
           hollar == {Registered(r), AtVault, Registered(a), Located(a, 0), Listed("HOLLAR"), AToken("HOLLAR", 0), Facilitator(3)}
<1>1. r \notin Isolated /\ r # "HOLLAR" /\ "HOLLAR" \notin Isolated
  BY SatelliteNames, ConfigAssumption
<1>2. \/ c.facts = SatelliteFacts /\ c.nonce = 0
      \/ c.facts = SatelliteFacts \cup {Registered(r)} /\ c.nonce = 0
      \/ c.facts = SatelliteFacts \cup collateral /\ c.nonce = 3
      \/ c.facts = SatelliteFacts \cup collateral \cup {Registered(a)} /\ c.nonce = 3
      \/ c.facts = SatelliteFacts \cup hollar /\ c.nonce = 3
  <2>1. start \in { [facts |-> SatelliteFacts, nonce |-> 0],
                    [facts |-> SatelliteFacts \cup {Registered(r)}, nonce |-> 0],
                    [facts |-> SatelliteFacts \cup collateral, nonce |-> 3],
                    [facts |-> SatelliteFacts \cup collateral \cup {Registered(a)}, nonce |-> 3],
                    [facts |-> SatelliteFacts \cup hollar, nonce |-> 3] }
    BY DEF SatelliteStarts
  <2> HIDE DEF r, a, collateral, hollar
  <2> QED BY <2>1
<1> HIDE DEF r, a
<1>3. \A f \in settings : f[1] \in Settings
  BY DEF Follows
<1>4. \A x : x \in {"aToken", "listed", "collateral", "registered", "omnipool", "holds"} => x \notin Settings
  BY DEF Settings
<1>5. \A f \in SatelliteFacts : f[1] \notin {"aToken", "listed", "collateral", "omnipool"}
                                /\ (f[1] = "holds" => f[3] \in {"HOLLAR", "HDX"})
  BY DEF SatelliteFacts, Registered, Currency, Holds, RiskAdmin
<1>6. Registered("HOLLAR") \in SatelliteFacts
  BY DEF SatelliteFacts
<1>7. /\ \A x, n : AToken(x, n)[1] = "aToken" /\ AToken(x, n)[2] = x /\ AToken(x, n)[3] = n
      /\ \A x : Listed(x)[1] = "listed" /\ Listed(x)[2] = x
      /\ \A x : Collateral(x)[1] = "collateral" /\ Collateral(x)[2] = x
  BY DEF AToken, Listed, Collateral
<1>8. Registered(r)[1] = "registered" /\ Registered(a)[1] = "registered"
  BY DEF Registered
<1> HIDE DEF settings
<1>9. /\ \A f \in collateral : \/ f[1] \notin {"aToken", "listed", "collateral", "omnipool", "holds"}
                               \/ f = Listed(r) \/ f = AToken(r, 0) \/ f = Collateral(r)
      /\ {Listed(r), AToken(r, 0), Collateral(r)} \subseteq collateral
  <2>1. AtVault[1] \notin {"aToken", "listed", "collateral", "omnipool", "holds"}
    BY DEF AtVault
  <2> QED BY <1>3, <1>4, <1>8, <2>1
<1>10. /\ \A f \in hollar : \/ f[1] \notin {"aToken", "listed", "collateral", "omnipool", "holds"}
                            \/ f = Listed("HOLLAR") \/ f = AToken("HOLLAR", 0)
       /\ {Listed("HOLLAR"), AToken("HOLLAR", 0)} \subseteq hollar
  <2>1. AtVault[1] \notin {"aToken", "listed", "collateral", "omnipool", "holds"}
    BY DEF AtVault
  <2>2. Located(a, 0)[1] = "located" /\ Facilitator(3)[1] = "facilitator"
    BY DEF Located, Facilitator
  <2> QED BY <1>8, <2>1, <2>2
<1> HIDE DEF collateral, hollar
<1>11. CASE c.facts = SatelliteFacts \/ c.facts = SatelliteFacts \cup {Registered(r)}
  <2>1. Sole(c, r)
    BY <1>5, <1>6, <1>7, <1>8, <1>11 DEF Sole
  <2> QED BY <1>1, <2>1
<1>12. CASE c.nonce = 3 /\ (c.facts = SatelliteFacts \cup collateral \/ c.facts = SatelliteFacts \cup collateral \cup {Registered(a)})
  <2>1. \A f \in c.facts : \/ f[1] \notin {"aToken", "listed", "collateral", "omnipool"} /\ (f[1] = "holds" => f[3] \in {"HOLLAR", "HDX"})
                           \/ f = Listed(r) \/ f = AToken(r, 0) \/ f = Collateral(r)
    BY <1>5, <1>8, <1>9, <1>12
  <2>2. {Listed(r), AToken(r, 0), Collateral(r), Registered("HOLLAR")} \subseteq c.facts
    BY <1>6, <1>9, <1>12
  <2>3. Sole(c, r)
    BY <1>7, <1>12, <2>1, <2>2 DEF Sole
  <2> QED BY <1>1, <2>3
<1>13. CASE c.nonce = 3 /\ c.facts = SatelliteFacts \cup hollar
  <2>1. \A f \in c.facts : \/ f[1] \notin {"aToken", "listed", "collateral", "omnipool"} /\ (f[1] = "holds" => f[3] \in {"HOLLAR", "HDX"})
                           \/ f = Listed("HOLLAR") \/ f = AToken("HOLLAR", 0)
    BY <1>5, <1>10, <1>13
  <2>2. {Listed("HOLLAR"), AToken("HOLLAR", 0), Registered("HOLLAR")} \subseteq c.facts
    BY <1>6, <1>10, <1>13
  <2>3. Sole(c, "HOLLAR")
    BY <1>7, <1>13, <2>1, <2>2 DEF Sole
  <2> QED BY <1>1, <2>3
<1> QED BY <1>2, <1>11, <1>12, <1>13

LEMMA StartSettled ==
  ASSUME NEW e \in 1..6, NEW start \in Starts(e), NEW farm \in Nat \ {0}, NEW strict,
         NEW c, c = [facts |-> start.facts, nonce |-> start.nonce, farm |-> farm, lost |-> {}, strict |-> strict]
  PROVE  Settled(e, c)
<1>1. CASE e > 4
  <2>1. e \in {5, 6} /\ start \in SatelliteStarts(e)
    BY <1>1 DEF Starts
  <2>2. start.nonce \in Nat
    <3>1. start.nonce = 0 \/ start.nonce = 3
      BY <2>1 DEF SatelliteStarts
    <3> QED BY <3>1
  <2>3. IsChain(c) /\ c.facts = start.facts /\ c.nonce = start.nonce
    BY <2>2 DEF IsChain
  <2> QED BY <2>1, <2>3, SatelliteSole, SoleSettled
<1>2. CASE e < 5
  <2>1. PICK g \in {Facts(e), Facts(e) \ Edited} : start = [facts |-> g, nonce |-> 3 * Len(OldReserves(e))]
    BY <1>2 DEF Starts
  <2>2. start.facts = g /\ start.nonce = 3 * Length(e)
    <3>1. e \in 1..4
      BY <1>2
    <3>2. Len(OldReserves(e)) = Length(e)
      BY <3>1, OldReservesRoll
    <3>3. start.facts = g /\ start.nonce = 3 * Len(OldReserves(e))
      BY <2>1
    <3> QED BY <3>2, <3>3
  <2>3. Length(e) \in Nat
    BY <1>2 DEF Length
  <2>4. IsChain(c) /\ c.facts = g /\ c.nonce = 3 * Length(e)
    BY <2>2, <2>3 DEF IsChain
  <2>5. g = Facts(e) \/ g = Facts(e) \ Edited
    BY <2>1
  <2>6. e \in 1..4
    BY <1>2
  <2> QED BY <2>4, <2>5, <2>6, StartMain
<1> QED BY <1>1, <1>2
-----------------------------------------------------------------------------
(* A market of its own, of the collateral s[1] whose token has the id s[2].  *)
(* Where the token is, or will be, never changes, and the id stays there     *)
(* once it has got there.                                                    *)

Berth(e) == <<Satellites[e].r, Satellites[e].a>>
Moored(s, c, d) ==
  /\ CollateralToken(d, s[1]) = CollateralToken(c, s[1])
  /\ Located(s[2], CollateralToken(c, s[1])) \in c.facts =>
       Located(s[2], CollateralToken(c, s[1])) \in d.facts

LEMMA BerthIs ==
  ASSUME NEW e \in {5, 6}
  PROVE  /\ Berth(e) \in Berths
         /\ Berth(5) = <<"BIL", "aBIL">> /\ Berth(6) = <<"STHDX", "GIGAHDX">>
         /\ Berth(e)[1] = Satellites[e].r /\ Berth(e)[2] = Satellites[e].a
<1>1. Berth(5) = <<"BIL", "aBIL">> /\ Berth(6) = <<"STHDX", "GIGAHDX">>
  BY DEF Berth, Satellites
<1>2. Berth(e)[1] = Satellites[e].r /\ Berth(e)[2] = Satellites[e].a
  BY DEF Berth
<1> QED BY <1>1, <1>2 DEF Berths

LEMMA BerthNames ==
  ASSUME NEW s \in Berths
  PROVE  /\ s[1] \in NewReserves /\ s[1] \notin {"PRIME", "APYUSD"} /\ s[1] # "HOLLAR" /\ s[2] \in Moved
         /\ \A t \in Berths : t[2] = s[2] => t = s
<1>1. s[1] \in {"BIL", "STHDX"} /\ s[2] \in {"aBIL", "GIGAHDX"} /\ \A t \in Berths : t[2] = s[2] => t = s
  BY DEF Berths
<1>2. {"BIL", "STHDX"} \subseteq NewReserves
  BY DEF NewReserves
<1> QED BY <1>1, <1>2 DEF Moved

LEMMA MooredReflexive ==
  ASSUME NEW s, NEW c
  PROVE  Moored(s, c, c)
  BY DEF Moored

LEMMA MooredTransitive ==
  ASSUME NEW s, NEW c, NEW d, NEW x, Moored(s, c, d), Moored(s, d, x)
  PROVE  Moored(s, c, x)
  BY DEF Moored

LEMMA TokenIs ==
  ASSUME NEW c, World(c), NEW r
  PROVE  /\ Listed(r) \notin c.facts => CollateralToken(c, r) = c.nonce
         /\ \A n : AToken(r, n) \in c.facts => CollateralToken(c, r) = n
         /\ Listed(r) \in c.facts => AToken(r, CollateralToken(c, r)) \in c.facts
<1>1. ASSUME NEW n, AToken(r, n) \in c.facts
      PROVE  CollateralToken(c, r) = n
  <2>1. n \in 0..c.nonce /\ Listed(r) \in c.facts
    BY <1>1 DEF World, Sane, IsChain
  <2>2. ATokensOf(c, r) = {n}
    BY <1>1, <2>1 DEF World, Sane, ATokensOf
  <2> QED BY <2>1, <2>2 DEF CollateralToken
<1>2. Listed(r) \in c.facts => \E n : AToken(r, n) \in c.facts
  BY DEF World, Sane
<1> QED BY <1>1, <1>2 DEF CollateralToken

LEMMA TokenStays ==
  ASSUME NEW c, World(c), NEW d, World(d), Grown(c, d), NEW r,
         Listed(r) \in c.facts \/ c.nonce = d.nonce \/ AToken(r, c.nonce) \in d.facts
  PROVE  CollateralToken(d, r) = CollateralToken(c, r)
<1>1. CASE Listed(r) \in c.facts
  <2>1. PICK n : AToken(r, n) \in c.facts
    BY <1>1 DEF World, Sane
  <2>2. AToken(r, n) \in d.facts
    BY <2>1, ListedLasts DEF Grown
  <2> QED BY <2>1, <2>2, TokenIs
<1>2. CASE Listed(r) \notin c.facts /\ c.nonce = d.nonce
  <2>1. Listed(r)[1] = "listed"
    BY DEF Listed
  <2>2. Listed(r) \notin d.facts
    BY <1>2, <2>1 DEF Grown
  <2> QED BY <1>2, <2>2, TokenIs
<1>3. CASE Listed(r) \notin c.facts /\ AToken(r, c.nonce) \in d.facts
  BY <1>3, TokenIs
<1> QED BY <1>1, <1>2, <1>3

\* A batch that moves an id where it should be or not at all.
Still(b, c) == Decent(b) /\ \A call \in Items(b) : call.moves = {} \/ Sited(call, c)

LEMMA StepStill ==
  ASSUME NEW s \in Berths, NEW c, NEW f, f = Located(s[2], CollateralToken(c, s[1])),
         NEW call, Tidy(call), call.moves = {} \/ Sited(call, c),
         NEW x, World(x), NEW y, Step(call, x, y), f \in x.facts
  PROVE  f \in y.facts
<1>1. f[1] = "located" /\ f[2] = s[2]
  BY DEF Located
<1>2. CASE Works(call, x)
  <2>1. y = Done(call, x)
    BY <1>2 DEF Step
  <2>2. y.facts = (x.facts \ (call.drops \cup LocatedAnywhere(call.moves, x)))
                  \cup call.gets \cup { AToken(r, x.nonce) : r \in call.lists }
    BY <2>1, DoneFields DEF World
  <2>3. f \notin call.drops
    BY <1>1 DEF Tidy
  <2>4. f \notin LocatedAnywhere(call.moves, x) \/ f \in call.gets
    <3>1. CASE call.moves = {}
      BY <3>1 DEF LocatedAnywhere
    <3>2. CASE Sited(call, c)
      <4>1. PICK t \in Berths : call = Relocate(t[2], CollateralToken(c, t[1]))
        BY <3>2 DEF Sited
      <4>2. call.moves = {t[2]} /\ call.gets = {Located(t[2], CollateralToken(c, t[1]))}
        BY <4>1 DEF Relocate, Call
      <4>3. t[2] = s[2] => t = s
        BY BerthNames
      <4>4. CASE t[2] = s[2]
        BY <4>2, <4>3, <4>4
      <4>5. CASE t[2] # s[2]
        BY <1>1, <4>2, <4>5 DEF LocatedAnywhere
      <4> QED BY <4>4, <4>5
    <3> QED BY <3>1, <3>2
  <2> QED BY <2>2, <2>3, <2>4
<1>3. CASE ~Works(call, x)
  <2>1. y = Missed(call, x)
    BY <1>3 DEF Step
  <2> QED BY <2>1, MissedWorld
<1> QED BY <1>2, <1>3

LEMMA PathStill ==
  ASSUME NEW s \in Berths, NEW c, NEW f, f = Located(s[2], CollateralToken(c, s[1])),
         NEW b, Still(b, c), NEW h, IsPath(b, h), World(h[0]),
         NEW i \in 0..Len(b), f \in h[i].facts
  PROVE  f \in h[Len(b)].facts
<1>1. /\ Len(b) \in Nat
      /\ \A n \in 0..Len(b) : World(h[n])
  BY PathKeeps DEF Still
<1> DEFINE T == {n \in Nat : i <= n /\ n <= Len(b) => f \in h[n].facts}
<1>2. 0 \in T
  <2>1. i <= 0 => i = 0
    BY <1>1
  <2> QED BY <2>1
<1>3. \A n \in Nat : n \in T => n + 1 \in T
  <2> SUFFICES ASSUME NEW n \in Nat, n \in T, i <= n + 1, n + 1 <= Len(b)
               PROVE  f \in h[n + 1].facts
    <3>1. \A m \in Nat : m + 1 \in Nat
      OBVIOUS
    <3> QED BY <3>1, Zenon
  <2>1. CASE i = n + 1
    BY <2>1
  <2>2. CASE i # n + 1
    <3>1. n + 1 \in 1..Len(b) /\ (n + 1) - 1 = n /\ n <= Len(b) /\ n \in 0..Len(b) /\ i <= n
      BY <1>1, <2>2
    <3>2. World(h[n]) /\ f \in h[n].facts
      BY <1>1, <3>1
    <3>3. b[n + 1] \in Items(b) /\ Step(b[n + 1], h[n], h[n + 1])
      BY <3>1 DEF Items, IsPath
    <3>4. Tidy(b[n + 1]) /\ (b[n + 1].moves = {} \/ Sited(b[n + 1], c))
      BY <3>3 DEF Still, Decent
    <3> HIDE DEF T
    <3> QED BY <3>2, <3>3, <3>4, StepStill
  <2> QED BY <2>1, <2>2
<1>4. Nat \subseteq T
  <2> HIDE DEF T
  <2> QED BY <1>2, <1>3, NatSetInduction
<1>5. i <= Len(b)
  BY <1>1
<1> QED BY <1>1, <1>4, <1>5

\* The id is where it should be if it was there, or if a root call puts it there.
LEMMA StillRuns ==
  ASSUME NEW s \in Berths, NEW c, NEW f, f = Located(s[2], CollateralToken(c, s[1])),
         NEW b, Still(b, c), NEW x, World(x), NEW y, Runs(b, x, y),
         \/ f \in x.facts
         \/ \E call \in Items(b) : call.soft = FALSE /\ f \in call.gets
  PROVE  f \in y.facts
<1>1. PICK h : h[0] = x /\ h[Len(b)] = y /\ IsPath(b, h)
  BY DEF Runs
<1>2. /\ Len(b) \in Nat
      /\ \A n \in 0..Len(b) : World(h[n])
  BY <1>1, PathKeeps DEF Still
<1>3. CASE f \in x.facts
  <2>1. 0 \in 0..Len(b)
    BY <1>2
  <2> QED BY <1>1, <1>3, <2>1, PathStill
<1>4. CASE \E call \in Items(b) : call.soft = FALSE /\ f \in call.gets
  <2>1. PICK call \in Items(b) : call.soft = FALSE /\ f \in call.gets
    BY <1>4
  <2>2. PICK j \in 1..Len(b) : b[j] = call
    BY DEF Items
  <2>3. j \in 0..Len(b) /\ j - 1 \in 0..Len(b)
    BY <1>2
  <2>4. World(h[j - 1]) /\ Step(call, h[j - 1], h[j])
    BY <1>1, <1>2, <2>2, <2>3 DEF IsPath
  <2>5. h[j] = Done(call, h[j - 1])
    BY <2>1, <2>4 DEF Step
  <2>6. f \in h[j].facts
    <3> DEFINE u == h[j - 1]
               v == h[j]
    <3>1. World(u) /\ v = Done(call, u)
      BY <2>4, <2>5
    <3> HIDE DEF u, v
    <3>2. v.facts = (u.facts \ (call.drops \cup LocatedAnywhere(call.moves, u)))
                    \cup call.gets \cup { AToken(r, u.nonce) : r \in call.lists }
      BY <3>1, DoneFields DEF World
    <3>3. f \in v.facts
      BY <2>1, <3>2
    <3> QED BY <3>3 DEF v
  <2> QED BY <1>1, <2>3, <2>6, PathStill
<1> QED BY <1>3, <1>4

LEMMA FineStill ==
  ASSUME NEW b, NEW c, NEW R, Fine(b, c, R)
  PROVE  Still(b, c)
  BY DEF Fine, Still

\* A batch that lists nothing.
LEMMA ListlessMoored ==
  ASSUME NEW s \in Berths, NEW c, NEW b, Still(b, c), Listless(b),
         NEW x, World(x), CollateralToken(x, s[1]) = CollateralToken(c, s[1]), NEW y, Runs(b, x, y)
  PROVE  Moored(s, x, y)
<1>1. World(y) /\ Grown(x, y) /\ y.nonce = x.nonce
  BY ListlessRuns
<1>2. CollateralToken(y, s[1]) = CollateralToken(x, s[1])
  BY <1>1, TokenStays
<1> DEFINE f == Located(s[2], CollateralToken(c, s[1]))
<1>3. f \in x.facts => f \in y.facts
  <2> HIDE DEF f
  <2>1. f = Located(s[2], CollateralToken(c, s[1]))
    BY DEF f
  <2> QED BY <2>1, StillRuns
<1> QED BY <1>2, <1>3 DEF Moored

LEMMA IdleMoored ==
  ASSUME NEW s \in Berths, NEW b, Idle(b), NEW x, World(x), NEW y, Runs(b, x, y)
  PROVE  Moored(s, x, y)
<1>1. Still(b, x) /\ Listless(b)
  BY IdleDecent DEF Idle, IdleCall, Still, Listless
<1> QED BY <1>1, ListlessMoored

-----------------------------------------------------------------------------
(* The launch of a market of its own: a batch K lists the collateral, H      *)
(* lists HOLLAR, and W makes HOLLAR's token a facilitator that knows its     *)
(* debt token and puts the id of the collateral's token in its place.        *)

Wires(W, c, h) ==
  /\ Facilitator(h) \in c.facts \/ AddFacilitator(h) \in Items(W)
  /\ \A setting \in {"debtToken", "ghoAToken"} : SetOnce(setting, h) \in Items(W)
  /\ \A setting \in {"ghoTreasury", "discountStrategy", "discountToken"} : SetReference(setting, h) \in Items(W)
Locates(W, c, f) == f \in c.facts \/ \E call \in Items(W) : call.soft = FALSE /\ f \in call.gets
OpensWith(s, K, H, W, c) ==
  /\ Lays(K, c, {<<s[1], 0>>}, 3, {s[1]}) /\ Decent(H) /\ Decent(W)
  /\ Listed(s[1]) \in c.facts => Listless(K)
  /\ Listed("HOLLAR") \notin c.facts =>
       Lays(H, c, {<<"HOLLAR", 0>>}, 3, {}) /\ Wires(W, c, HollarToken(c, s[1]))
  /\ Locates(W, c, Located(s[2], CollateralToken(c, s[1])))
Opens(s, b, c) == \E K, H, W : b = (K \o H) \o W /\ OpensWith(s, K, H, W, c)

\* A dispatched call that is refused only if what it is for is there already.
LEMMA OnceRuns ==
  ASSUME NEW b, Decent(b), NEW x, World(x), NEW y, Runs(b, x, y), NEW f, Lasting(f),
         NEW call \in Items(b), call.gets = {f}, call.bans \subseteq {f},
         call.pairs = {}, call.hops = {}, call.site = {}, call.code = {}, call.farm = 0,
         \A g \in call.needs : g \in x.facts /\ Lasting(g)
  PROVE  f \in y.facts
<1>1. PICK u : /\ World(u) /\ Grown(x, u) /\ Grown(u, y)
               /\ Works(call, u) => \A g \in call.gets : Lasting(g) => g \in y.facts
  BY CallRuns
<1>2. CASE f \in u.facts
  BY <1>1, <1>2 DEF Grown
<1>3. CASE f \notin u.facts
  <2>1. call.needs \subseteq u.facts
    BY <1>1 DEF Grown
  <2>2. Works(call, u)
    BY <1>1, <1>3, <2>1 DEF Works, World, IsChain
  <2> QED BY <1>1, <2>2
<1> QED BY <1>2, <1>3

LEMMA WiredLasts ==
  ASSUME NEW h
  PROVE  /\ Lasting(Facilitator(h))
         /\ \A setting \in ReferenceNames : Lasting(<<setting, h>>)
         /\ Wired(h) = {Facilitator(h)} \cup { <<setting, h>> : setting \in ReferenceNames }
         /\ \A f \in Wired(h) : Lasting(f)
<1>1. Lasting(Facilitator(h))
  BY DEF Lasting, Facilitator
<1>2. \A setting \in ReferenceNames : Lasting(<<setting, h>>)
  BY DEF Lasting, ReferenceNames
<1>3. Wired(h) = {Facilitator(h)} \cup { <<setting, h>> : setting \in ReferenceNames }
  BY DEF Wired, References, ReferenceNames
<1>4. \A f \in Wired(h) : Lasting(f)
  BY <1>1, <1>2, <1>3
<1> QED BY <1>1, <1>2, <1>3, <1>4

LEMMA WiresRuns ==
  ASSUME NEW c, World(c), NEW x, World(x), Grown(c, x), NEW W, Decent(W), NEW h, Wires(W, c, h),
         NEW y, Runs(W, x, y), AToken("HOLLAR", h) \in x.facts
  PROVE  Wired(h) \subseteq y.facts
<1>1. Grown(x, y)
  BY RunsKeep
<1>2. Facilitator(h) \in y.facts
  <2>1. CASE Facilitator(h) \in c.facts
    BY <1>1, <2>1, WiredLasts DEF Grown
  <2>2. CASE AddFacilitator(h) \in Items(W)
    <3> DEFINE call == AddFacilitator(h)
    <3>1. /\ call.gets = {Facilitator(h)} /\ call.bans = {Facilitator(h)} /\ call.needs = {}
          /\ call.pairs = {} /\ call.hops = {} /\ call.site = {} /\ call.code = {} /\ call.farm = 0
      BY DEF AddFacilitator, aaveManagerCall, Call
    <3> HIDE DEF call
    <3>2. call \in Items(W)
      BY <2>2 DEF call
    <3> QED BY <3>1, <3>2, WiredLasts, OnceRuns
  <2> QED BY <2>1, <2>2 DEF Wires
<1>3. ASSUME NEW setting \in ReferenceNames
      PROVE  <<setting, h>> \in y.facts
  <2> DEFINE o == SetOnce(setting, h)
             r == SetReference(setting, h)
             f == <<setting, h>>
             a == AToken("HOLLAR", h)
  <2>1. /\ o.gets = {f} /\ o.bans = {f} /\ o.needs = {a}
        /\ o.pairs = {} /\ o.hops = {} /\ o.site = {} /\ o.code = {} /\ o.farm = 0
    BY DEF SetOnce, SetReference, aaveManagerCall, Call
  <2>2. /\ r.gets = {f} /\ r.bans = {} /\ r.needs = {a}
        /\ r.pairs = {} /\ r.hops = {} /\ r.site = {} /\ r.code = {} /\ r.farm = 0
    BY DEF SetReference, aaveManagerCall, Call
  <2>3. o \in Items(W) \/ r \in Items(W)
    BY DEF Wires, ReferenceNames
  <2>4. Lasting(f) /\ Lasting(a) /\ a \in x.facts
    BY WiredLasts, ListedLasts
  <2> HIDE DEF o, r, f, a
  <2>5. CASE o \in Items(W)
    <3>1. f \in y.facts
      BY <2>1, <2>4, <2>5, OnceRuns
    <3> QED BY <3>1 DEF f
  <2>6. CASE r \in Items(W)
    <3>1. f \in y.facts
      BY <2>2, <2>4, <2>6, OnceRuns
    <3> QED BY <3>1 DEF f
  <2> QED BY <2>3, <2>5, <2>6
<1> QED BY <1>2, <1>3, WiredLasts

\* HOLLAR's tokens from n on do what they are for.
HollarWired(c, n) == \A h : AToken("HOLLAR", h) \in c.facts /\ h >= n => Wired(h) \subseteq c.facts

LEMMA OpensRuns ==
  ASSUME NEW s \in Berths, NEW c, World(c), NEW b, Opens(s, b, c), Still(b, c),
         NEW x, World(x), Grown(c, x), Moored(s, c, x), Registered("HOLLAR") \in x.facts,
         NEW y, Runs(b, x, y)
  PROVE  /\ Moored(s, x, y)
         /\ Listed(s[1]) \in y.facts /\ Located(s[2], CollateralToken(y, s[1])) \in y.facts
         /\ c.nonce = x.nonce => Listed("HOLLAR") \in y.facts /\ HollarWired(y, c.nonce)
<1>1. PICK K, H, W : b = (K \o H) \o W /\ OpensWith(s, K, H, W, c)
  BY DEF Opens
<1>2. Decent(K) /\ Decent(H) /\ Decent(W) /\ Lays(K, c, {<<s[1], 0>>}, 3, {s[1]})
  BY <1>1, LaysDecent DEF OpensWith
<1> DEFINE KH == K \o H
<1>3. KH = K \o H /\ b = KH \o W
  BY <1>1
<1> HIDE DEF KH
<1>4. IsBatch(K) /\ IsBatch(H) /\ IsBatch(W) /\ IsBatch(KH)
  BY <1>2, <1>3, ConcatItems DEF Decent
<1>5. Items(b) = Items(KH) \cup Items(W)
  BY <1>3, <1>4, ConcatItems
<1>6. PICK x2 : Runs(KH, x, x2) /\ Runs(W, x2, y)
  BY <1>3, <1>4, RunsConcat
<1>7. PICK x1 : Runs(K, x, x1) /\ Runs(H, x1, x2)
  BY <1>3, <1>4, <1>6, RunsConcat
<1>8. World(x1) /\ Grown(x, x1) /\ World(x2) /\ Grown(x1, x2) /\ World(y) /\ Grown(x2, y)
  BY <1>2, <1>6, <1>7, RunsKeep
<1>9. Grown(c, x1) /\ Grown(c, x2) /\ Grown(x, x2) /\ Grown(x, y) /\ Grown(x1, y)
  BY <1>8, GrownTransitive DEF World
<1>10. c.nonce \in Nat /\ x.nonce \in Nat /\ x1.nonce \in Nat
  BY <1>8 DEF World, IsChain
<1>11. Listed(s[1]) \notin x.facts =>
         /\ x1.nonce = x.nonce + 3 /\ AToken(s[1], x.nonce) \in x1.facts
         /\ \A q : Listed(q) \in x1.facts => Listed(q) \in x.facts \/ q = s[1]
  <2> SUFFICES ASSUME Listed(s[1]) \notin x.facts
               PROVE  /\ x1.nonce = x.nonce + 3 /\ AToken(s[1], x.nonce) \in x1.facts
                      /\ \A q : Listed(q) \in x1.facts => Listed(q) \in x.facts \/ q = s[1]
    OBVIOUS
  <2> DEFINE M == {<<s[1], 0>>}
             G == {s[1]}
  <2>1. Lays(K, c, M, 3, G)
    BY <1>2
  <2>2. \A m \in M : m[1] = s[1] /\ m[2] = 0 /\ m[1] \in G
    OBVIOUS
  <2>3. <<s[1], 0>> \in M
    OBVIOUS
  <2> HIDE DEF M, G
  <2>4. /\ x1.nonce = x.nonce + 3
        /\ \A m \in M : AToken(m[1], x.nonce + m[2]) \in x1.facts
        /\ \A q : Listed(q) \in x1.facts => Listed(q) \in x.facts \/ \E m \in M : m[1] = q
    BY <1>7, <2>1, <2>2 DEF Lays
  <2>5. x.nonce + 0 = x.nonce
    BY <1>10
  <2> QED BY <2>2, <2>3, <2>4, <2>5
<1>12. CollateralToken(y, s[1]) = CollateralToken(x, s[1]) /\ Listed(s[1]) \in y.facts
  <2>1. CASE Listed(s[1]) \in x.facts
    BY <1>8, <1>9, <2>1, TokenStays, ListedLasts DEF Grown
  <2>2. CASE Listed(s[1]) \notin x.facts
    <3>1. AToken(s[1], x.nonce) \in y.facts
      BY <1>9, <1>11, <2>2, ListedLasts DEF Grown
    <3>2. Listed(s[1]) \in y.facts
      BY <1>8, <3>1 DEF World, Sane
    <3> QED BY <1>8, <1>9, <3>1, <3>2, TokenStays
  <2> QED BY <2>1, <2>2
<1> DEFINE f == Located(s[2], CollateralToken(c, s[1]))
<1>13. /\ f = Located(s[2], CollateralToken(x, s[1])) /\ f = Located(s[2], CollateralToken(y, s[1]))
       /\ f \in c.facts => f \in x.facts
  BY <1>12 DEF Moored
<1>14. Locates(W, c, f)
  BY <1>1 DEF OpensWith
<1>15. f \in y.facts
  <2>0. f = Located(s[2], CollateralToken(c, s[1]))
    OBVIOUS
  <2> HIDE DEF f
  <2>1. f \in x.facts \/ \E call \in Items(b) : call.soft = FALSE /\ f \in call.gets
    BY <1>5, <1>13, <1>14 DEF Locates
  <2> QED BY <2>0, <2>1, StillRuns
<1> HIDE DEF f
<1>16. Moored(s, x, y) /\ Located(s[2], CollateralToken(y, s[1])) \in y.facts
  BY <1>12, <1>13, <1>15 DEF Moored
<1>17. ASSUME c.nonce = x.nonce
       PROVE  Listed("HOLLAR") \in y.facts /\ HollarWired(y, c.nonce)
  <2>1. CASE Listed("HOLLAR") \in c.facts
    <3>1. PICK n : AToken("HOLLAR", n) \in c.facts
      BY <2>1 DEF World, Sane
    <3>2. AToken("HOLLAR", n) \in y.facts /\ Listed("HOLLAR") \in y.facts /\ n \in Nat /\ n + 3 <= c.nonce
      <4>1. Grown(c, y)
        BY <1>8, <1>9, GrownTransitive DEF World
      <4>2. AToken("HOLLAR", n) \in y.facts /\ Listed("HOLLAR") \in y.facts
        BY <2>1, <3>1, <4>1, ListedLasts DEF Grown
      <4> QED BY <3>1, <4>2 DEF World, Sane
    <3>3. ASSUME NEW h, AToken("HOLLAR", h) \in y.facts, h >= c.nonce
          PROVE  FALSE
      <4>1. h = n
        BY <1>8, <3>2, <3>3 DEF World, Sane
      <4> QED BY <1>10, <3>2, <3>3, <4>1
    <3> QED BY <3>2, <3>3 DEF HollarWired
  <2>2. CASE Listed("HOLLAR") \notin c.facts
    <3> DEFINE h == HollarToken(c, s[1])
    <3>1. Lays(H, c, {<<"HOLLAR", 0>>}, 3, {}) /\ Wires(W, c, h)
      BY <1>1, <2>2 DEF OpensWith
    <3>2. \A q : Listed(q) \in x.facts <=> Listed(q) \in c.facts
      <4>1. \A q : Listed(q)[1] = "listed" /\ Lasting(Listed(q))
        BY ListedLasts DEF Listed
      <4> QED BY <1>17, <4>1 DEF Grown
    <3>3. x1.nonce = h /\ Listed("HOLLAR") \notin x1.facts
      <4>1. CASE Listed(s[1]) \in c.facts
        <5>1. Listless(K)
          BY <1>1, <4>1 DEF OpensWith
        <5>2. x1.nonce = x.nonce /\ (Listed("HOLLAR") \in x1.facts => Listed("HOLLAR") \in x.facts)
          BY <1>7, <5>1, ListlessRuns
        <5> QED BY <1>17, <2>2, <3>2, <4>1, <5>2 DEF HollarToken
      <4>2. CASE Listed(s[1]) \notin c.facts
        <5>1. s[1] # "HOLLAR"
          BY BerthNames
        <5> QED BY <1>11, <1>17, <2>2, <3>2, <4>2, <5>1 DEF HollarToken
      <4> QED BY <4>1, <4>2
    <3>4. Registered("HOLLAR") \in x1.facts
      BY <1>8, ListedLasts DEF Grown
    <3> HIDE DEF h
    <3>5. AToken("HOLLAR", h) \in x2.facts
      <4> DEFINE M == {<<"HOLLAR", 0>>}
      <4>1. /\ \A m \in M : m[1] = "HOLLAR" /\ m[2] = 0
            /\ <<"HOLLAR", 0>> \in M
        OBVIOUS
      <4>2. Lays(H, c, M, 3, {})
        BY <3>1
      <4> HIDE DEF M
      <4>3. \A m \in M : Listed(m[1]) \notin x1.facts /\ (m[1] \in {} \/ Registered(m[1]) \in x1.facts)
        BY <3>3, <3>4, <4>1
      <4>4. \A m \in M : AToken(m[1], x1.nonce + m[2]) \in x2.facts
        BY <1>7, <1>8, <1>9, <4>2, <4>3 DEF Lays
      <4>5. x1.nonce + 0 = h
        BY <1>10, <3>3
      <4> QED BY <4>1, <4>4, <4>5
    <3>6. Wired(h) \subseteq y.facts
      BY <1>2, <1>6, <1>8, <1>9, <3>1, <3>5, WiresRuns
    <3>7. AToken("HOLLAR", h) \in y.facts
      BY <1>8, <3>5, ListedLasts DEF Grown
    <3>8. Listed("HOLLAR") \in y.facts /\ \A g : AToken("HOLLAR", g) \in y.facts => g = h
      BY <1>8, <3>7 DEF World, Sane
    <3> QED BY <3>6, <3>8 DEF HollarWired
  <2> QED BY <2>1, <2>2
<1> QED BY <1>12, <1>16, <1>17

-----------------------------------------------------------------------------
(* What the proposals that open a market are made of                        *)

LEMMA BatchAssociative ==
  ASSUME NEW s, IsBatch(s), NEW t, IsBatch(t), NEW u, IsBatch(u)
  PROVE  (s \o t) \o u = s \o (t \o u)
<1> DEFINE S == Items(s) \cup Items(t) \cup Items(u)
<1>1. s \in Seq(S) /\ t \in Seq(S) /\ u \in Seq(S)
  BY DEF IsBatch
<1> HIDE DEF S
<1> QED BY <1>1, ConcatAssociative

\* What is said of the batch W stays true if it is made longer.
LEMMA OpensLonger ==
  ASSUME NEW c, NEW W, Decent(W), NEW t, Decent(t)
  PROVE  /\ Decent(W \o t)
         /\ \A h : Wires(W, c, h) \/ Wires(t, c, h) => Wires(W \o t, c, h)
         /\ \A f : Locates(W, c, f) \/ Locates(t, c, f) => Locates(W \o t, c, f)
<1> DEFINE b == W \o t
<1>1. Decent(b)
  BY DecentConcat
<1>2. Items(b) = Items(W) \cup Items(t)
  BY ConcatItems DEF Decent
<1> HIDE DEF b
<1>3. \A h : Wires(W, c, h) \/ Wires(t, c, h) => Wires(b, c, h)
  BY <1>2 DEF Wires
<1>4. \A f : Locates(W, c, f) \/ Locates(t, c, f) => Locates(b, c, f)
  BY <1>2 DEF Locates
<1> QED BY <1>1, <1>3, <1>4 DEF b

\* A chain of calls of which the first part is B.
LEMMA LongerChain ==
  ASSUME NEW B, Decent(B), NEW W, Decent(W), NEW t, Decent(t), NEW b, b = B \o W
  PROVE  b \o t = B \o (W \o t)
  BY BatchAssociative DEF Decent

LEMMA CollateraliseLays ==
  ASSUME NEW c, World(c), NEW r \in NewReserves
  PROVE  /\ Lays(Collateralise(c, r), c, {<<r, 0>>}, 3, {})
         /\ Listed(r) \in c.facts => Listless(Collateralise(c, r))
<1> DEFINE I == InitReserve(c, r)
           F == ReviewReserveFactors(c, Everything)
           M == {<<r, 0>>}
           b == I \o F
<1>1. Lays(I, c, M, 3, {}) /\ Idle(F)
  BY ReserveLays, EverythingIdle
<1>2. Collateralise(c, r) = b
  BY DEF Collateralise
<1>3. ASSUME Listed(r) \in c.facts
      PROVE  \A call \in Items(I) : call.lists = {}
  <2>1. /\ Items(I) \subseteq {SetAssetSources(r), InitReserves(r), AddRiskAdmin, ConfigureReserves(r), Set("fee", r)}
        /\ InitReserves(r) \notin Items(I)
    BY <1>3, ConfigAssumption, InitReserveOrder DEF World
  <2>2. IdleCall(SetAssetSources(r)) /\ IdleCall(AddRiskAdmin) /\ IdleCall(Set("fee", r))
    BY SetAssetSourcesPlain, AddRiskAdminPlain, SetPlain, PlainIdle DEF Settings
  <2>3. ConfigureReserves(r).lists = {}
    BY ConfigureReservesFields
  <2> HIDE DEF I
  <2> QED BY <2>1, <2>2, <2>3 DEF IdleCall
<1>4. Decent(I) /\ Decent(F)
  BY <1>1, LaysDecent, IdleDecent
<1>5. Items(b) = Items(I) \cup Items(F) /\ Decent(b)
  <2> HIDE DEF I, F
  <2>1. Decent(b)
    BY <1>4, DecentConcat
  <2> QED BY <1>4, <2>1, ConcatItems DEF Decent
<1>6. Listed(r) \in c.facts => Listless(b)
  <2> HIDE DEF I, F, b
  <2> QED BY <1>1, <1>3, <1>5 DEF Listless, Idle, IdleCall
<1>7. Lays(b, c, M, 3, {})
  <2> HIDE DEF I, F, M
  <2> QED BY <1>1, LaysRight
<1> QED BY <1>2, <1>6, <1>7

LEMMA HollarLays ==
  ASSUME NEW c, World(c)
  PROVE  /\ Lays(HollarReserve, c, {<<"HOLLAR", 0>>}, 3, {})
         /\ Lays(HollarReserveBorrowed, c, {<<"HOLLAR", 0>>}, 3, {})
<1> DEFINE I == << InitReserves("HOLLAR") >>
           M == {<<"HOLLAR", 0>>}
           T == << SetAssetSources("HOLLAR") >>
           U == << Borrowing, SetAssetSources("HOLLAR") >>
<1>1. Decent(I)
  BY HollarReserveFine DEF Fine
<1>2. Lays(I, c, M, 3, {})
  <2> SUFFICES ASSUME NEW x, NEW y, World(x), Grown(c, x), Runs(I, x, y),
                      \A m \in M : Listed(m[1]) \notin x.facts /\ (m[1] \in {} \/ Registered(m[1]) \in x.facts)
               PROVE  /\ y.nonce = x.nonce + 3
                      /\ \A m \in M : AToken(m[1], x.nonce + m[2]) \in y.facts
                      /\ \A q : Listed(q) \in y.facts => Listed(q) \in x.facts \/ \E m \in M : m[1] = q
    BY <1>1 DEF Lays
  <2>1. Listed("HOLLAR") \notin x.facts /\ Registered("HOLLAR") \in x.facts
    OBVIOUS
  <2>2. /\ y.nonce = x.nonce + 3
        /\ AToken("HOLLAR", x.nonce) \in y.facts
        /\ \A q : q # "HOLLAR" /\ Listed(q) \in y.facts => Listed(q) \in x.facts
    BY <2>1, ListCallRuns
  <2>3. x.nonce + 0 = x.nonce
    BY DEF World, IsChain
  <2> QED BY <2>2, <2>3
<1>3. Idle(T) /\ Idle(U)
  <2>1. Plain(Borrowing)
    BY ManagerPlain DEF Borrowing
  <2> QED BY <2>1, SetAssetSourcesPlain, PlainIdle, IdleRow1, IdleRow2
<1>4. HollarReserve = I \o T /\ HollarReserveBorrowed = I \o U
  BY DEF HollarReserve, HollarReserveBorrowed
<1>5. Lays(I \o T, c, M, 3, {}) /\ Lays(I \o U, c, M, 3, {})
  <2> HIDE DEF I, T, U, M
  <2> QED BY <1>2, <1>3, LaysRight
<1> QED BY <1>4, <1>5

LEMMA UserAssetLocates ==
  ASSUME NEW s, NEW c, NEW n, NEW call, call.soft = FALSE, Located(s[2], n) \in call.gets
  PROVE  Locates(UserAsset(c, call, s[2], n), c, Located(s[2], n))
<1> DEFINE f == Located(s[2], n)
           m == Relocate(s[2], n)
<1>1. m.soft = FALSE /\ m.gets = {f}
  BY DEF Relocate, Call
<1>2. Items(<< call >>) = {call} /\ Items(<< m >>) = {m}
  BY BatchRow1
<1>3. CASE Registered(s[2]) \notin c.facts
  BY <1>2, <1>3 DEF UserAsset, Locates
<1>4. CASE Registered(s[2]) \in c.facts
  <2>1. CASE f \in c.facts
    BY <2>1 DEF Locates
  <2>2. CASE f \notin c.facts
    <3>1. UserAsset(c, call, s[2], n) = << m >>
      BY <1>4, <2>2 DEF UserAsset, If
    <3> HIDE DEF m, f
    <3>2. Locates(<< m >>, c, f)
      BY <1>1, <1>2 DEF Locates
    <3> QED BY <3>1, <3>2 DEF f
  <2> QED BY <2>1, <2>2
<1> QED BY <1>3, <1>4

LEMMA TokenAssetLocates ==
  ASSUME NEW c
  PROVE  /\ \A n : Locates(BilAsset(c, n), c, Located("aBIL", n))
         /\ \A n : Locates(GigaHdxAsset(c, n), c, Located("GIGAHDX", n))
<1> DEFINE s == <<"BIL", "aBIL">>
           t == <<"STHDX", "GIGAHDX">>
<1>1. s[2] = "aBIL" /\ t[2] = "GIGAHDX"
  OBVIOUS
<1> HIDE DEF s, t
<1>2. ASSUME NEW n
      PROVE  Locates(BilAsset(c, n), c, Located("aBIL", n))
  <2> DEFINE o == RegisterAt("aBIL", n)
             call == AsNamed(o, "BIL")
  <2>1. o.soft = FALSE /\ Located("aBIL", n) \in o.gets
    BY RootGets
  <2>2. call.soft = FALSE /\ call.gets = o.gets \cup {Named("BIL")}
    BY DEF AsNamed, RegisterAt, Register, Call
  <2>3. BilAsset(c, n) = UserAsset(c, call, "aBIL", n)
    BY DEF BilAsset
  <2> HIDE DEF o, call
  <2>4. Located(s[2], n) \in call.gets
    BY <1>1, <2>1, <2>2
  <2>5. Locates(UserAsset(c, call, s[2], n), c, Located(s[2], n))
    BY <2>2, <2>4, UserAssetLocates
  <2> QED BY <1>1, <2>3, <2>5
<1>3. ASSUME NEW n
      PROVE  Locates(GigaHdxAsset(c, n), c, Located("GIGAHDX", n))
  <2> DEFINE call == RegisterAt("GIGAHDX", n)
  <2>1. call.soft = FALSE /\ Located("GIGAHDX", n) \in call.gets
    BY RootGets
  <2>3. GigaHdxAsset(c, n) = UserAsset(c, call, "GIGAHDX", n)
    BY DEF GigaHdxAsset
  <2> HIDE DEF call
  <2>4. Located(t[2], n) \in call.gets
    BY <1>1, <2>1
  <2>5. Locates(UserAsset(c, call, t[2], n), c, Located(t[2], n))
    BY <2>1, <2>4, UserAssetLocates
  <2> QED BY <1>1, <2>3, <2>5
<1> QED BY <1>2, <1>3

LEMMA ReferencesWire ==
  ASSUME NEW c, NEW h, NEW F, Idle(F), Facilitator(h) \in c.facts \/ AddFacilitator(h) \in Items(F)
  PROVE  Wires(F \o SetReferences(h), c, h)
<1> DEFINE S == SetReferences(h)
           b == F \o S
<1>1. IsBatch(S) /\ IsBatch(F)
  BY ReferencesIdle DEF Idle
<1>2. Items(S) = {SetOnce("debtToken", h), SetReference("ghoTreasury", h), SetOnce("ghoAToken", h),
                  SetReference("discountStrategy", h), SetReference("discountToken", h)}
  BY BatchRow5 DEF SetReferences
<1>3. Items(b) = Items(F) \cup Items(S)
  <2> HIDE DEF S
  <2> QED BY <1>1, ConcatItems
<1> HIDE DEF b, S
<1>4. \A setting \in {"debtToken", "ghoAToken"} : SetOnce(setting, h) \in Items(b)
  BY <1>2, <1>3
<1>5. \A setting \in {"ghoTreasury", "discountStrategy", "discountToken"} : SetReference(setting, h) \in Items(b)
  BY <1>2, <1>3
<1>6. Wires(b, c, h)
  BY <1>3, <1>4, <1>5 DEF Wires
<1> QED BY <1>6 DEF b, S

LEMMA FacilitatorAdded ==
  ASSUME NEW c, NEW h
  PROVE  /\ Facilitator(h) \in c.facts \/ AddFacilitator(h) \in Items(NewFacilitator(c, h))
         /\ AddFacilitator(h) \in Items(<< AddFacilitator(h) >>)
<1> DEFINE call == AddFacilitator(h)
<1>1. Items(<< call >>) = {call}
  BY BatchRow1
<1> QED BY <1>1 DEF NewFacilitator, If

\* The underlying asset is registered, or the batch that begins a proposal sees to it.
LEMMA UnderlyingRegistered ==
  ASSUME NEW c
  PROVE  /\ \A name : \/ Registered("BIL") \in c.facts
                      \/ \E call \in Items(VaultShare(c, name)) : call.soft = FALSE /\ Registered("BIL") \in call.gets
         /\ \/ Registered("STHDX") \in c.facts
            \/ \E call \in Items(StakedHdx(c)) : call.soft = FALSE /\ Registered("STHDX") \in call.gets
<1>1. ASSUME NEW name, Registered("BIL") \notin c.facts
      PROVE  \E call \in Items(VaultShare(c, name)) : call.soft = FALSE /\ Registered("BIL") \in call.gets
  <2> DEFINE o == Register("BIL")
             call == [AsNamed(o, name) EXCEPT !.gets = @ \cup {AtVault}]
  <2>1. o.soft = FALSE /\ Registered("BIL") \in o.gets
    BY RootGets
  <2>2. call.soft = FALSE /\ call.gets = o.gets \cup {Named(name)} \cup {AtVault}
    BY DEF AsNamed, Register, Call
  <2>3. VaultShare(c, name) = << call >>
    BY <1>1 DEF VaultShare
  <2> HIDE DEF o, call
  <2>4. Items(<< call >>) = {call}
    BY BatchRow1
  <2> QED BY <2>1, <2>2, <2>3, <2>4
<1>2. ASSUME Registered("STHDX") \notin c.facts
      PROVE  \E call \in Items(StakedHdx(c)) : call.soft = FALSE /\ Registered("STHDX") \in call.gets
  <2> DEFINE o == Register("STHDX")
  <2>1. o.soft = FALSE /\ Registered("STHDX") \in o.gets
    BY RootGets
  <2>2. StakedHdx(c) = << o >>
    BY <1>2 DEF StakedHdx, If
  <2> HIDE DEF o
  <2>3. Items(<< o >>) = {o}
    BY BatchRow1
  <2> QED BY <2>1, <2>2, <2>3
<1> QED BY <1>1, <1>2

\* What begins with the assets X and the collateral C, goes on with HOLLAR and then wires it.
LEMMA OpensOf ==
  ASSUME NEW s \in Berths, NEW c, World(c), NEW X, Idle(X),
         \/ Registered(s[1]) \in c.facts
         \/ \E call \in Items(X) : call.soft = FALSE /\ Registered(s[1]) \in call.gets,
         NEW C, Lays(C, c, {<<s[1], 0>>}, 3, {}), Listed(s[1]) \in c.facts => Listless(C),
         NEW H, Decent(H), Listed("HOLLAR") \notin c.facts => Lays(H, c, {<<"HOLLAR", 0>>}, 3, {}),
         NEW W, Decent(W), Listed("HOLLAR") \notin c.facts => Wires(W, c, HollarToken(c, s[1])),
         Locates(W, c, Located(s[2], CollateralToken(c, s[1]))),
         NEW K, K = X \o C, NEW b, b = (K \o H) \o W
  PROVE  Opens(s, b, c)
<1>1. Lays(K, c, {<<s[1], 0>>}, 3, {s[1]})
  <2> DEFINE M == {<<s[1], 0>>}
             G == {s[1]}
  <2>1. \A g \in G : \/ Registered(g) \in c.facts
                     \/ \E call \in Items(X) : call.soft = FALSE /\ Registered(g) \in call.gets
    OBVIOUS
  <2> HIDE DEF M, G
  <2>2. Lays(C, c, M, 3, {})
    BY DEF M
  <2>3. Lays(K, c, M, 3, G)
    BY <2>1, <2>2, LaysLeft
  <2> QED BY <2>3 DEF M, G
<1>2. Listed(s[1]) \in c.facts => Listless(K)
  <2>1. Decent(X) /\ Decent(C) /\ Decent(K)
    BY <1>1, LaysDecent, IdleDecent
  <2>2. Items(K) = Items(X) \cup Items(C)
    BY <2>1, ConcatItems DEF Decent
  <2> QED BY <2>1, <2>2 DEF Listless, Idle, IdleCall
<1>3. OpensWith(s, K, H, W, c)
  BY <1>1, <1>2 DEF OpensWith
<1> QED BY <1>3 DEF Opens

LEMMA BilOpens ==
  ASSUME NEW c, World(c)
  PROVE  /\ Opens(<<"BIL", "aBIL">>, BilLaunch(c).now, c)
         /\ Opens(<<"BIL", "aBIL">>, BilSubmission(c).now, c)
<1> DEFINE s == <<"BIL", "aBIL">>
           n == CollateralToken(c, "BIL")
           h == HollarToken(c, "BIL")
           pool == StablepoolInline(c)
           f == Located("aBIL", n)
           V(name) == VaultShare(c, name)
           C == Collateralise(c, "BIL")
           P == If(Provider \notin c.facts, << RegisterProvider >>)
           K == BilCollateral(c)
           F == NewFacilitator(c, h)
           S == SetReferences(h)
           A == BilAsset(c, n)
           U(id) == FeeCurrency(c, id)
           O == ApprovePool(c)
           M == {<<"BIL", 0>>}
<1>1. s \in Berths /\ s[1] = "BIL" /\ s[2] = "aBIL" /\ "BIL" \in NewReserves
  BY DEF Berths, NewReserves
<1>2. \A name : Idle(V(name))
  BY AssetsIdle
<1>3. Idle(P)
  <2>1. Plain(RegisterProvider)
    BY DEF Plain, RegisterProvider, Provider, aaveManagerCall, Call
  <2> QED BY <2>1, PlainRow, IfIdle
<1>4. /\ Lays(C, c, M, 3, {})
      /\ Listed("BIL") \in c.facts => Listless(C)
  BY <1>1, CollateraliseLays
<1>5. K = C \o P
  BY DEF BilCollateral
<1>6. Decent(HollarReserve) /\ Decent(HollarReserveBorrowed)
  BY HollarLays, LaysDecent
<1>7. Idle(F) /\ Idle(S) /\ Idle(O) /\ \A id : Idle(U(id))
  BY FacilitatorIdle, ReferencesIdle, AssetsIdle
<1>8. Decent(A)
  BY TokenAssetFine DEF Fine
<1>9. Decent(pool.now)
  BY StablepoolQuiet, IdleDecent DEF Quiet
<1>10. Wires(F \o S, c, h)
  BY <1>7, FacilitatorAdded, ReferencesWire
<1>11. Locates(A, c, f)
  BY TokenAssetLocates
<1>12. \A name : \/ Registered("BIL") \in c.facts
                 \/ \E call \in Items(V(name)) : call.soft = FALSE /\ Registered("BIL") \in call.gets
  BY UnderlyingRegistered
<1> DEFINE W1 == F \o S
           W2 == W1 \o A
           L3 == W2 \o U("aBIL")
           L4 == L3 \o O
           L5 == L4 \o pool.now
           N3 == W2 \o U("BIL")
           N4 == N3 \o U("aBIL")
           N5 == N4 \o O
           KL == V("uBIL") \o K
           KN == V("BIL") \o K
           BL == KL \o HollarReserve
           BN == KN \o HollarReserveBorrowed
<1>13. BilLaunch(c).now = BL \o F \o S \o A \o U("aBIL") \o O \o pool.now
  BY DEF BilLaunch, Proposal
<1>14. BilSubmission(c).now = BN \o F \o S \o A \o U("BIL") \o U("aBIL") \o O
  BY DEF BilSubmission, Now, Proposal
<1> HIDE DEF n, h, pool, f, V, C, P, K, F, S, A, U, O
<1>15. Lays(K, c, M, 3, {}) /\ (Listed("BIL") \in c.facts => Listless(K))
  <2> HIDE DEF M
  <2>1. Lays(K, c, M, 3, {})
    BY <1>3, <1>4, <1>5, LaysRight
  <2>2. Items(K) = Items(C) \cup Items(P) /\ Decent(K)
    BY <1>3, <1>4, <1>5, <2>1, LaysDecent, ConcatItems DEF Decent, Idle
  <2>3. Listed("BIL") \in c.facts => Listless(K)
    BY <1>3, <1>4, <2>2 DEF Listless, Idle, IdleCall
  <2> QED BY <2>1, <2>3
<1>16. Decent(KL) /\ Decent(KN)
  BY <1>2, <1>15, LaysDecent, IdleDecent, DecentConcat
<1>17. Decent(BL) /\ Decent(BN)
  <2> HIDE DEF KL, KN
  <2> QED BY <1>6, <1>16, DecentConcat
<1>18. Decent(F) /\ Decent(S) /\ Decent(O) /\ \A id : Decent(U(id))
  BY <1>7, IdleDecent
<1>19. Decent(W1) /\ Wires(W1, c, h)
  BY <1>10, <1>18, DecentConcat
<1>20. Decent(W2) /\ Wires(W2, c, h) /\ Locates(W2, c, f)
  <2> HIDE DEF W1
  <2> QED BY <1>8, <1>11, <1>19, OpensLonger
<1>21. Decent(L3) /\ Wires(L3, c, h) /\ Locates(L3, c, f) /\ Decent(N3) /\ Wires(N3, c, h) /\ Locates(N3, c, f)
  <2> HIDE DEF W2
  <2> QED BY <1>18, <1>20, OpensLonger
<1>22. Decent(L4) /\ Wires(L4, c, h) /\ Locates(L4, c, f) /\ Decent(N4) /\ Wires(N4, c, h) /\ Locates(N4, c, f)
  <2> HIDE DEF L3, N3
  <2> QED BY <1>18, <1>21, OpensLonger
<1>23. Decent(L5) /\ Wires(L5, c, h) /\ Locates(L5, c, f) /\ Decent(N5) /\ Wires(N5, c, h) /\ Locates(N5, c, f)
  <2> HIDE DEF L4, N4
  <2> QED BY <1>9, <1>18, <1>22, OpensLonger
<1>24. BilLaunch(c).now = BL \o L5
  <2>0. IsBatch(BL) /\ IsBatch(F) /\ IsBatch(S)
    BY <1>17, <1>18 DEF Decent
  <2>1. (BL \o F) \o S = BL \o W1
    <3> HIDE DEF BL
    <3> QED BY <2>0, BatchAssociative
  <2> HIDE DEF BL, W1
  <2>2. (BL \o W1) \o A = BL \o W2
    BY <1>8, <1>17, <1>19, LongerChain
  <2> HIDE DEF W2
  <2>3. (BL \o W2) \o U("aBIL") = BL \o L3
    BY <1>17, <1>18, <1>20, LongerChain
  <2> HIDE DEF L3
  <2>4. (BL \o L3) \o O = BL \o L4
    BY <1>17, <1>18, <1>21, LongerChain
  <2> HIDE DEF L4
  <2>5. (BL \o L4) \o pool.now = BL \o L5
    <3> DEFINE T == pool.now
    <3>1. Decent(T) /\ L5 = L4 \o T
      BY <1>9
    <3> HIDE DEF T, L5
    <3>2. (BL \o L4) \o T = BL \o L5
      BY <1>17, <1>22, <3>1, LongerChain
    <3> QED BY <3>2 DEF T
  <2> QED BY <1>13, <2>1, <2>2, <2>3, <2>4, <2>5
<1>25. BilSubmission(c).now = BN \o N5
  <2>0. IsBatch(BN) /\ IsBatch(F) /\ IsBatch(S)
    BY <1>17, <1>18 DEF Decent
  <2>1. (BN \o F) \o S = BN \o W1
    <3> HIDE DEF BN
    <3> QED BY <2>0, BatchAssociative
  <2> HIDE DEF BN, W1
  <2>2. (BN \o W1) \o A = BN \o W2
    BY <1>8, <1>17, <1>19, LongerChain
  <2> HIDE DEF W2
  <2>3. (BN \o W2) \o U("BIL") = BN \o N3
    BY <1>17, <1>18, <1>20, LongerChain
  <2> HIDE DEF N3
  <2>4. (BN \o N3) \o U("aBIL") = BN \o N4
    <3>1. Decent(BN) /\ Decent(N3) /\ Decent(U("aBIL"))
      BY <1>17, <1>18, <1>21
    <3> QED BY <3>1, LongerChain
  <2> HIDE DEF N4
  <2>5. (BN \o N4) \o O = BN \o N5
    <3>1. Decent(BN) /\ Decent(N4) /\ Decent(O)
      BY <1>17, <1>18, <1>22
    <3> QED BY <3>1, LongerChain
  <2> QED BY <1>14, <2>1, <2>2, <2>3, <2>4, <2>5
<1>26. /\ h = HollarToken(c, s[1]) /\ f = Located(s[2], CollateralToken(c, s[1]))
       /\ M = {<<s[1], 0>>}
  BY <1>1 DEF h, f, n
<1> HIDE DEF s, M, L5, N5
<1>27. /\ Lays(K, c, {<<s[1], 0>>}, 3, {}) /\ (Listed(s[1]) \in c.facts => Listless(K))
       /\ Wires(L5, c, HollarToken(c, s[1])) /\ Locates(L5, c, Located(s[2], CollateralToken(c, s[1])))
       /\ Wires(N5, c, HollarToken(c, s[1])) /\ Locates(N5, c, Located(s[2], CollateralToken(c, s[1])))
  BY <1>1, <1>15, <1>23, <1>26
<1>28. \A name : \/ Registered(s[1]) \in c.facts
                 \/ \E call \in Items(V(name)) : call.soft = FALSE /\ Registered(s[1]) \in call.gets
  BY <1>1, <1>12
<1>29. Opens(s, BilLaunch(c).now, c)
  <2> DEFINE X == V("uBIL")
             b == BilLaunch(c).now
  <2>1. Idle(X) /\ KL = X \o K /\ b = (KL \o HollarReserve) \o L5
    BY <1>2, <1>24
  <2>2. \/ Registered(s[1]) \in c.facts
        \/ \E call \in Items(X) : call.soft = FALSE /\ Registered(s[1]) \in call.gets
    BY <1>28
  <2> HIDE DEF X, b, KL
  <2>3. Opens(s, b, c)
    BY <1>1, <1>6, <1>23, <1>27, <2>1, <2>2, HollarLays, OpensOf
  <2> QED BY <2>3 DEF b
<1>30. Opens(s, BilSubmission(c).now, c)
  <2> DEFINE X == V("BIL")
             b == BilSubmission(c).now
  <2>1. Idle(X) /\ KN = X \o K /\ b = (KN \o HollarReserveBorrowed) \o N5
    BY <1>2, <1>25
  <2>2. \/ Registered(s[1]) \in c.facts
        \/ \E call \in Items(X) : call.soft = FALSE /\ Registered(s[1]) \in call.gets
    BY <1>28
  <2> HIDE DEF X, b, KN
  <2>3. Opens(s, b, c)
    BY <1>1, <1>6, <1>23, <1>27, <2>1, <2>2, HollarLays, OpensOf
  <2> QED BY <2>3 DEF b
<1> QED BY <1>29, <1>30 DEF s

LEMMA GigaHdxOpens ==
  ASSUME NEW c, World(c)
  PROVE  /\ Opens(<<"STHDX", "GIGAHDX">>, GigaHdxLaunch(c).now, c)
         /\ Opens(<<"STHDX", "GIGAHDX">>, GigaHdxSubmission(c).now, c)
<1> DEFINE s == <<"STHDX", "GIGAHDX">>
           n == CollateralToken(c, "STHDX")
           h == HollarToken(c, "STHDX")
           hollar == Listed("HOLLAR") \in c.facts
           f == Located("GIGAHDX", n)
           X == StakedHdx(c)
           C == Collateralise(c, "STHDX")
           H == If(~hollar, HollarReserveBorrowed)
           F == NewFacilitator(c, h)
           N == << AddFacilitator(h) >>
           S == SetReferences(h)
           SS == If(~hollar, SetReferences(h))
           A == GigaHdxAsset(c, n)
           T == SetPoolContract(c)
           O == ApprovePool(c)
           M == {<<"STHDX", 0>>}
<1>1. s \in Berths /\ s[1] = "STHDX" /\ s[2] = "GIGAHDX" /\ "STHDX" \in NewReserves
  BY DEF Berths, NewReserves
<1>2. Idle(X) /\ Idle(T) /\ Idle(O)
  BY AssetsIdle
<1>3. Idle(F) /\ Idle(N) /\ Idle(S) /\ Idle(SS)
  BY FacilitatorIdle, ReferencesIdle, IdleRow1, IfIdle
<1>4. /\ Lays(C, c, M, 3, {})
      /\ Listed("STHDX") \in c.facts => Listless(C)
  BY <1>1, CollateraliseLays
<1>5. /\ Decent(HollarReserveBorrowed) /\ Decent(H)
      /\ ~hollar => H = HollarReserveBorrowed /\ SS = S
  BY HollarLays, LaysDecent, IdleEmpty, IdleDecent DEF If
<1>6. Decent(A)
  BY TokenAssetFine DEF Fine
<1>7. Wires(F \o S, c, h) /\ Wires(N \o S, c, h)
  BY <1>3, FacilitatorAdded, ReferencesWire
<1>8. Locates(A, c, f)
  BY TokenAssetLocates
<1>9. \/ Registered("STHDX") \in c.facts
      \/ \E call \in Items(X) : call.soft = FALSE /\ Registered("STHDX") \in call.gets
  BY UnderlyingRegistered
<1> DEFINE L1 == F \o SS
           L2 == L1 \o A
           L3 == L2 \o T
           L4 == L3 \o O
           L5 == L4 \o Funding
           N1 == N \o S
           N2 == N1 \o A
           N3 == N2 \o T
           N4 == N3 \o O
           K  == X \o C
           BL == K \o H
           BN == K \o HollarReserveBorrowed
<1>10. GigaHdxLaunch(c).now = BL \o F \o SS \o A \o T \o O \o Funding
  BY DEF GigaHdxLaunch, Now, Proposal
<1>11. GigaHdxSubmission(c).now = BN \o N \o S \o A \o T \o O
  BY DEF GigaHdxSubmission, Now, Proposal
<1> HIDE DEF n, h, f, X, C, H, F, N, S, SS, A, T, O
<1>12. Decent(X) /\ Decent(C) /\ Decent(K)
  BY <1>2, <1>4, LaysDecent, IdleDecent, DecentConcat
<1>13. Decent(BL) /\ Decent(BN)
  <2> HIDE DEF K
  <2> QED BY <1>5, <1>12, DecentConcat
<1>14. Decent(F) /\ Decent(N) /\ Decent(S) /\ Decent(SS) /\ Decent(T) /\ Decent(O) /\ Decent(Funding)
  BY <1>2, <1>3, FundingIdle, IdleDecent
<1>15. Decent(L1) /\ Decent(N1) /\ (~hollar => Wires(L1, c, h)) /\ Wires(N1, c, h)
  BY <1>5, <1>7, <1>14, DecentConcat
<1> HIDE DEF hollar
<1>16. Decent(L2) /\ (~hollar => Wires(L2, c, h)) /\ Locates(L2, c, f)
       /\ Decent(N2) /\ Wires(N2, c, h) /\ Locates(N2, c, f)
  <2> HIDE DEF L1, N1
  <2> QED BY <1>6, <1>8, <1>15, OpensLonger
<1>17. Decent(L3) /\ (~hollar => Wires(L3, c, h)) /\ Locates(L3, c, f)
       /\ Decent(N3) /\ Wires(N3, c, h) /\ Locates(N3, c, f)
  <2> HIDE DEF L2, N2
  <2> QED BY <1>14, <1>16, OpensLonger
<1>18. Decent(L4) /\ (~hollar => Wires(L4, c, h)) /\ Locates(L4, c, f)
       /\ Decent(N4) /\ Wires(N4, c, h) /\ Locates(N4, c, f)
  <2> HIDE DEF L3, N3
  <2> QED BY <1>14, <1>17, OpensLonger
<1>19. Decent(L5) /\ (~hollar => Wires(L5, c, h)) /\ Locates(L5, c, f)
  <2> HIDE DEF L4
  <2> QED BY <1>14, <1>18, OpensLonger
<1>20. GigaHdxLaunch(c).now = BL \o L5
  <2>0. IsBatch(BL) /\ IsBatch(F) /\ IsBatch(SS)
    BY <1>13, <1>14 DEF Decent
  <2>1. (BL \o F) \o SS = BL \o L1
    <3> HIDE DEF BL
    <3> QED BY <2>0, BatchAssociative
  <2> HIDE DEF BL, L1
  <2>2. (BL \o L1) \o A = BL \o L2
    BY <1>6, <1>13, <1>15, LongerChain
  <2> HIDE DEF L2
  <2>3. (BL \o L2) \o T = BL \o L3
    <3>1. Decent(BL) /\ Decent(L2) /\ Decent(T)
      BY <1>13, <1>14, <1>16
    <3> QED BY <3>1, LongerChain
  <2> HIDE DEF L3
  <2>4. (BL \o L3) \o O = BL \o L4
    <3>1. Decent(BL) /\ Decent(L3) /\ Decent(O)
      BY <1>13, <1>14, <1>17
    <3> QED BY <3>1, LongerChain
  <2> HIDE DEF L4
  <2>5. (BL \o L4) \o Funding = BL \o L5
    <3>1. Decent(BL) /\ Decent(L4) /\ Decent(Funding)
      BY <1>13, <1>14, <1>18
    <3> QED BY <3>1, LongerChain
  <2> QED BY <1>10, <2>1, <2>2, <2>3, <2>4, <2>5
<1>21. GigaHdxSubmission(c).now = BN \o N4
  <2>0. IsBatch(BN) /\ IsBatch(N) /\ IsBatch(S)
    BY <1>13, <1>14 DEF Decent
  <2>1. (BN \o N) \o S = BN \o N1
    BY <2>0, BatchAssociative
  <2> HIDE DEF BN, N1
  <2>2. (BN \o N1) \o A = BN \o N2
    BY <1>6, <1>13, <1>15, LongerChain
  <2> HIDE DEF N2
  <2>3. (BN \o N2) \o T = BN \o N3
    <3>1. Decent(BN) /\ Decent(N2) /\ Decent(T)
      BY <1>13, <1>14, <1>16
    <3> QED BY <3>1, LongerChain
  <2> HIDE DEF N3
  <2>4. (BN \o N3) \o O = BN \o N4
    <3>1. Decent(BN) /\ Decent(N3) /\ Decent(O)
      BY <1>13, <1>14, <1>17
    <3> QED BY <3>1, LongerChain
  <2> QED BY <1>11, <2>1, <2>2, <2>3, <2>4
<1>22. /\ h = HollarToken(c, s[1]) /\ f = Located(s[2], CollateralToken(c, s[1]))
       /\ M = {<<s[1], 0>>}
  BY <1>1 DEF h, f, n
<1> HIDE DEF s, M, L5, N4
<1>23. /\ Lays(C, c, {<<s[1], 0>>}, 3, {}) /\ (Listed(s[1]) \in c.facts => Listless(C))
       /\ ~hollar => Wires(L5, c, HollarToken(c, s[1]))
       /\ Locates(L5, c, Located(s[2], CollateralToken(c, s[1])))
       /\ Wires(N4, c, HollarToken(c, s[1])) /\ Locates(N4, c, Located(s[2], CollateralToken(c, s[1])))
  BY <1>1, <1>4, <1>18, <1>19, <1>22
<1>24. \/ Registered(s[1]) \in c.facts
       \/ \E call \in Items(X) : call.soft = FALSE /\ Registered(s[1]) \in call.gets
  BY <1>1, <1>9
<1>25. Listed("HOLLAR") \notin c.facts => Lays(H, c, {<<"HOLLAR", 0>>}, 3, {})
  BY <1>5, HollarLays DEF hollar
<1>26. Opens(s, GigaHdxLaunch(c).now, c)
  <2> DEFINE b == GigaHdxLaunch(c).now
  <2>1. K = X \o C /\ b = (K \o H) \o L5
    BY <1>20
  <2> HIDE DEF b, K
  <2>2. Listed("HOLLAR") \notin c.facts => Wires(L5, c, HollarToken(c, s[1]))
    BY <1>23 DEF hollar
  <2>3. Opens(s, b, c)
    BY <1>1, <1>2, <1>5, <1>19, <1>23, <1>24, <1>25, <2>1, <2>2, OpensOf
  <2> QED BY <2>3 DEF b
<1>27. Opens(s, GigaHdxSubmission(c).now, c)
  <2> DEFINE b == GigaHdxSubmission(c).now
  <2>1. K = X \o C /\ b = (K \o HollarReserveBorrowed) \o N4
    BY <1>21
  <2> HIDE DEF b, K
  <2>3. Opens(s, b, c)
    BY <1>1, <1>2, <1>5, <1>18, <1>23, <1>24, <2>1, HollarLays, OpensOf
  <2> QED BY <2>3 DEF b
<1> QED BY <1>26, <1>27 DEF s
-----------------------------------------------------------------------------
(* What has become of a market of its own                                   *)

BerthResult(e, p, n, m, c) ==
  /\ NewTokens(p) # {} =>
       /\ Listed(Berth(e)[1]) \in c.facts
       /\ Located(Berth(e)[2], CollateralToken(c, Berth(e)[1])) \in c.facts
       /\ n = m => Listed("HOLLAR") \in c.facts /\ HollarWired(c, n)
  /\ p = "recovery-gho-cross-refs" => Listed("HOLLAR") \in c.facts /\ HollarWired(c, 0)

LEMMA BerthProposals ==
  ASSUME NEW e \in {5, 6}, NEW p \in Launches[e] \cup Upkeeps[e]
  PROVE  /\ p \notin {"zec-mm", "spy-mm"}
         /\ \/ e = 5 /\ p \in {"bil", "submit-bil-proposal"} /\ NewTokens(p) = {"aBIL"}
            \/ e = 6 /\ p \in {"gigahdx-launch", "submit-gigahdx-proposal"} /\ NewTokens(p) = {"GIGAHDX"}
            \/ p \in Settling /\ NewTokens(p) = {}
         /\ p = "recovery-gho-cross-refs" => NewTokens(p) = {}
<1>1. CASE e = 5
  <2>1. p \in {"bil", "submit-bil-proposal", "bil-stablepool-patch", "recovery-gho-cross-refs"}
    BY <1>1 DEF Launches, Upkeeps
  <2> QED BY <1>1, <2>1 DEF Settling, NewTokens
<1>2. CASE e = 6
  <2>1. p \in {"gigahdx-launch", "submit-gigahdx-proposal", "recovery-gho-cross-refs",
               "set-gigahdx-pool", "approve-gigahdx-as-controller", "set-sthdx-oracle"}
    BY <1>2 DEF Launches, Upkeeps
  <2> QED BY <1>2, <2>1 DEF Settling, NewTokens
<1> QED BY <1>1, <1>2

LEMMA BerthOpens ==
  ASSUME NEW e \in {5, 6}, NEW p \in Launches[e] \cup Upkeeps[e], NEW c, World(c), NEW n, NewTokens(p) # {}
  PROVE  Opens(Berth(e), Built(p, c, n).now, c)
<1>1. CASE e = 5 /\ p = "bil"
  BY <1>1, BilOpens, BerthIs DEF Built
<1>2. CASE e = 5 /\ p = "submit-bil-proposal"
  BY <1>2, BilOpens, BerthIs DEF Built
<1>3. CASE e = 6 /\ p = "gigahdx-launch"
  BY <1>3, GigaHdxOpens, BerthIs DEF Built
<1>4. CASE e = 6 /\ p = "submit-gigahdx-proposal"
  BY <1>4, GigaHdxOpens, BerthIs DEF Built
<1> QED BY <1>1, <1>2, <1>3, <1>4, BerthProposals

\* A recovery finds HOLLAR's token on the chain.
LEMMA RecoveryRuns ==
  ASSUME NEW c, World(c), ATokensOf(c, "HOLLAR") # {}, NEW x, World(x), Grown(c, x),
         NEW y, Runs(Recovery(c).now, x, y)
  PROVE  Listed("HOLLAR") \in y.facts /\ HollarWired(y, 0)
<1> DEFINE h == CHOOSE n \in ATokensOf(c, "HOLLAR") : TRUE
           F == << AddFacilitator(h) >>
           W == F \o SetReferences(h)
<1>1. Recovery(c).now = W
  BY DEF Recovery, Now, Proposal
<1>2. h \in ATokensOf(c, "HOLLAR")
  OBVIOUS
<1> HIDE DEF h
<1>3. AToken("HOLLAR", h) \in c.facts
  BY <1>2 DEF ATokensOf
<1>4. Idle(F) /\ Wires(W, c, h)
  BY FacilitatorIdle, IdleRow1, FacilitatorAdded, ReferencesWire
<1> HIDE DEF F
<1>5. Decent(W)
  BY <1>4, ReferencesIdle, IdleDecent, DecentConcat
<1> HIDE DEF W
<1>6. AToken("HOLLAR", h) \in x.facts
  BY <1>3, ListedLasts DEF Grown
<1>7. World(y) /\ Grown(x, y)
  BY <1>1, <1>5, RunsKeep
<1>8. Wired(h) \subseteq y.facts
  BY <1>1, <1>4, <1>5, <1>6, WiresRuns
<1>9. AToken("HOLLAR", h) \in y.facts
  BY <1>6, <1>7, ListedLasts DEF Grown
<1>10. Listed("HOLLAR") \in y.facts /\ \A g : AToken("HOLLAR", g) \in y.facts => g = h
  BY <1>7, <1>9 DEF World, Sane
<1> QED BY <1>8, <1>10 DEF HollarWired

LEMMA BerthRuns ==
  ASSUME NEW e \in {5, 6}, NEW p \in Launches[e] \cup Upkeeps[e], NEW c, World(c),
         p = "recovery-gho-cross-refs" => ATokensOf(c, "HOLLAR") # {},
         NEW x, World(x), Grown(c, x), Moored(Berth(e), c, x), Registered("HOLLAR") \in x.facts,
         NEW n, n = c.nonce, NEW y, Runs(Built(p, c, n).now, x, y)
  PROVE  Moored(Berth(e), x, y) /\ BerthResult(e, p, n, x.nonce, y)
<1> DEFINE s == Berth(e)
           b == Built(p, c, n).now
<1>1. s \in Berths
  BY BerthIs
<1>2. CASE NewTokens(p) # {}
  <2>1. Opens(s, b, c)
    BY <1>2, BerthOpens
  <2>2. Still(b, c)
    <3>1. e \in 1..6
      OBVIOUS
    <3>2. Fine(b, c, ListedBy(p))
      BY <3>1, BuiltDecent
    <3> QED BY <3>2, FineStill
  <2>3. p # "recovery-gho-cross-refs"
    BY <1>2, BerthProposals
  <2>4. Runs(b, x, y) /\ Moored(s, c, x)
    OBVIOUS
  <2>5. s = Berth(e)
    OBVIOUS
  <2> HIDE DEF s, b
  <2>6. /\ Moored(s, x, y) /\ Listed(s[1]) \in y.facts /\ Located(s[2], CollateralToken(y, s[1])) \in y.facts
        /\ c.nonce = x.nonce => Listed("HOLLAR") \in y.facts /\ HollarWired(y, c.nonce)
    BY <1>1, <2>1, <2>2, <2>4, OpensRuns
  <2> QED BY <2>3, <2>5, <2>6 DEF BerthResult
<1>3. CASE NewTokens(p) = {}
  <2>1. p \in Settling
    BY <1>3, BerthProposals
  <2>2. Idle(b)
    BY <2>1, SettlingQuiet DEF Quiet
  <2>3. Moored(s, x, y)
    <3>1. Runs(b, x, y)
      OBVIOUS
    <3> HIDE DEF s, b
    <3> QED BY <1>1, <2>2, <3>1, IdleMoored
  <2>4. ASSUME p = "recovery-gho-cross-refs"
        PROVE  Listed("HOLLAR") \in y.facts /\ HollarWired(y, 0)
    <3>1. Built(p, c, n) = Recovery(c)
      BY <2>4 DEF Built
    <3> QED BY <2>4, <3>1, RecoveryRuns
  <2> QED BY <1>3, <2>3, <2>4 DEF BerthResult
<1> QED BY <1>2, <1>3

LEMMA HollarWiredKept ==
  ASSUME NEW c, World(c), NEW d, World(d), Grown(c, d), NEW n, Listed("HOLLAR") \in c.facts, HollarWired(c, n)
  PROVE  Listed("HOLLAR") \in d.facts /\ HollarWired(d, n)
<1>1. PICK g : AToken("HOLLAR", g) \in c.facts
  BY DEF World, Sane
<1>2. AToken("HOLLAR", g) \in d.facts /\ Listed("HOLLAR") \in d.facts
  BY <1>1, ListedLasts DEF Grown
<1>3. ASSUME NEW h, AToken("HOLLAR", h) \in d.facts, h >= n
      PROVE  Wired(h) \subseteq d.facts
  <2>1. h = g
    BY <1>2, <1>3 DEF World, Sane
  <2>2. Wired(h) \subseteq c.facts
    BY <1>1, <1>3, <2>1 DEF HollarWired
  <2> QED BY <2>2, WiredLasts DEF Grown
<1> QED BY <1>2, <1>3 DEF HollarWired

LEMMA BerthKept ==
  ASSUME NEW e \in {5, 6}, NEW p, NEW n, NEW m, NEW c, World(c), NEW d, World(d),
         Grown(c, d), Moored(Berth(e), c, d), BerthResult(e, p, n, m, c)
  PROVE  BerthResult(e, p, n, m, d)
<1> DEFINE s == Berth(e)
<1>1. ASSUME NewTokens(p) # {}
      PROVE  /\ Listed(s[1]) \in d.facts
             /\ Located(s[2], CollateralToken(d, s[1])) \in d.facts
  <2>1. Listed(s[1]) \in c.facts /\ Located(s[2], CollateralToken(c, s[1])) \in c.facts
    BY <1>1 DEF BerthResult
  <2>2. Moored(s, c, d)
    OBVIOUS
  <2> HIDE DEF s
  <2>3. Listed(s[1]) \in d.facts
    BY <2>1, ListedLasts DEF Grown
  <2> QED BY <2>1, <2>2, <2>3 DEF Moored
<1>2. ASSUME NewTokens(p) # {}, n = m
      PROVE  Listed("HOLLAR") \in d.facts /\ HollarWired(d, n)
  <2>1. Listed("HOLLAR") \in c.facts /\ HollarWired(c, n)
    BY <1>2 DEF BerthResult
  <2> QED BY <2>1, HollarWiredKept
<1>3. ASSUME p = "recovery-gho-cross-refs"
      PROVE  Listed("HOLLAR") \in d.facts /\ HollarWired(d, 0)
  <2>1. Listed("HOLLAR") \in c.facts /\ HollarWired(c, 0)
    BY <1>3 DEF BerthResult
  <2> QED BY <2>1, HollarWiredKept
<1> QED BY <1>1, <1>2, <1>3 DEF BerthResult
-----------------------------------------------------------------------------
(* The inductive invariant.  What a proposal was built from is an earlier,   *)
(* settled state of the chain; what it schedules for later disturbs nothing; *)
(* and what it was for is still true of the chain once it has passed.        *)

Entry(e, c, r) ==
  /\ r = [prop |-> r.prop, status |-> r.status, seen |-> r.seen, base |-> r.base, at |-> r.at,
          fresh |-> r.fresh, left |-> r.left, lost |-> r.lost]
  /\ r.prop \in Launches[e] \cup Upkeeps[e] /\ r.base \in Nat
  /\ IsBatch(r.left) /\ \A b \in Items(r.left) : Idle(b)
  /\ r.status = "pending" =>
       Settled(e, r.seen) /\ Grown(r.seen, c) /\ (r.base = r.seen.nonce \/ r.prop \in {"zec-mm", "spy-mm"})
  /\ r.status = "passed" =>
       ReviewResult(e, r.prop, c) /\ GigaResult(r.prop, c) /\ PlaceResult(e, r.prop, r.base, r.at, c)

Orderly ==
  /\ era \in 1..6
  /\ Settled(era, chain)
  /\ IsBatch(referenda) /\ Len(referenda) \in Nat
  /\ \A k \in 1..Len(referenda) : Entry(era, chain, referenda[k])

LEMMA EntryKept ==
  ASSUME NEW e \in 1..6, NEW c, World(c), NEW d, World(d), Grown(c, d), NEW r, Entry(e, c, r)
  PROVE  Entry(e, d, r)
<1>1. ASSUME r.status = "pending"
      PROVE  Settled(e, r.seen) /\ Grown(r.seen, d) /\ (r.base = r.seen.nonce \/ r.prop \in {"zec-mm", "spy-mm"})
  <2>1. Settled(e, r.seen) /\ Grown(r.seen, c) /\ (r.base = r.seen.nonce \/ r.prop \in {"zec-mm", "spy-mm"})
    BY <1>1 DEF Entry
  <2>2. IsChain(r.seen) /\ IsChain(c) /\ IsChain(d)
    BY <2>1 DEF Settled, World
  <2>3. Grown(r.seen, d)
    BY <2>1, <2>2, GrownTransitive
  <2> QED BY <2>1, <2>3
<1>2. ASSUME r.status = "passed"
      PROVE  ReviewResult(e, r.prop, d) /\ GigaResult(r.prop, d) /\ PlaceResult(e, r.prop, r.base, r.at, d)
  <2>1. /\ r.prop \in Launches[e] \cup Upkeeps[e]
        /\ ReviewResult(e, r.prop, c) /\ GigaResult(r.prop, c) /\ PlaceResult(e, r.prop, r.base, r.at, c)
    BY <1>2 DEF Entry
  <2>2. ReviewResult(e, r.prop, d)
    BY <2>1, ReviewKept
  <2>3. GigaResult(r.prop, d)
    BY <2>1, GigaKept
  <2>4. PlaceResult(e, r.prop, r.base, r.at, d)
    BY <2>1, PlaceKept
  <2> QED BY <2>2, <2>3, <2>4
<1> QED BY <1>1, <1>2 DEF Entry

\* A run starts with nothing lost.
Cleared(c) == [c EXCEPT !.lost = {}]
LEMMA ClearedSettled ==
  ASSUME NEW e, NEW c, Settled(e, c), NEW d, d = Cleared(c)
  PROVE  Settled(e, d) /\ Grown(c, d) /\ d.facts = c.facts /\ d.nonce = c.nonce
<1>1. /\ d = [facts |-> d.facts, nonce |-> d.nonce, farm |-> d.farm, lost |-> d.lost, strict |-> d.strict]
      /\ d.facts = c.facts /\ d.nonce = c.nonce /\ d.farm = c.farm
  BY DEF Cleared, Settled, World, IsChain
<1>2. IsChain(d)
  BY <1>1 DEF Settled, World, IsChain
<1>3. Sane(d)
  BY <1>1 DEF Settled, World, Sane
<1>4. Earned(d)
  BY <1>1 DEF Settled, World, Earned, IsPair
<1>5. Grown(c, d)
  BY <1>1 DEF Settled, World, IsChain, Grown
<1>6. Backed(d)
  BY <1>1 DEF Settled, Backed
<1>7. e < 5 => Main(e, d)
  BY <1>1 DEF Settled, Main
<1>8. World(d)
  BY <1>2, <1>3, <1>4 DEF World
<1>9. e > 4 => Registered("HOLLAR") \in d.facts
  BY <1>1 DEF Settled
<1> QED BY <1>1, <1>5, <1>6, <1>7, <1>8, <1>9 DEF Settled

LEMMA ClearedGrown ==
  ASSUME NEW e, NEW c, World(c), NEW y, Settled(e, y), Grown(c, y), NEW d, d = Cleared(y)
  PROVE  Settled(e, d) /\ World(d) /\ Grown(c, d)
<1>1. Settled(e, d) /\ Grown(y, d)
  BY ClearedSettled
<1>2. IsChain(c) /\ IsChain(y) /\ IsChain(d)
  BY <1>1 DEF Settled, World
<1> QED BY <1>1, <1>2, GrownTransitive DEF Settled

\* A proposal is enacted.
Outcome(r, c) == Dispatch(Built(r.prop, r.seen, r.base).now, c)
Enacted(r, c, fresh) ==
  [r EXCEPT !.status = IF Outcome(r, c).ok THEN "passed" ELSE "refused",
            !.at = c.nonce, !.fresh = fresh, !.seen = << >>,
            !.left = IF Outcome(r, c).ok THEN Built(r.prop, r.seen, r.base).later ELSE << >>,
            !.lost = Outcome(r, c).c.lost]
LEMMA EnactedEntry ==
  ASSUME NEW e \in 1..6, NEW c, Settled(e, c), NEW r, Entry(e, c, r), r.status = "pending", NEW fresh
  PROVE  /\ Settled(e, Cleared(Outcome(r, c).c)) /\ Grown(c, Cleared(Outcome(r, c).c))
         /\ Entry(e, Cleared(Outcome(r, c).c), Enacted(r, c, fresh))
<1> DEFINE now == Built(r.prop, r.seen, r.base).now
           later == Built(r.prop, r.seen, r.base).later
           res == Outcome(r, c)
           d == Cleared(res.c)
           q == Enacted(r, c, fresh)
<1>a. res = Dispatch(now, c)
  BY DEF Outcome
<1>b. q = [r EXCEPT !.status = IF res.ok THEN "passed" ELSE "refused",
                    !.at = c.nonce, !.fresh = fresh, !.seen = << >>,
                    !.left = IF res.ok THEN later ELSE << >>,
                    !.lost = res.c.lost]
  BY DEF Enacted
<1>c. now = Built(r.prop, r.seen, r.base).now /\ later = Built(r.prop, r.seen, r.base).later
      /\ d = Cleared(res.c)
  OBVIOUS
<1> SUFFICES Settled(e, d) /\ Grown(c, d) /\ Entry(e, d, q)
  OBVIOUS
<1> HIDE DEF now, later, res, d, q
<1> DEFINE p == r.prop  s == r.seen  n == r.base
<1>1. /\ p \in Launches[e] \cup Upkeeps[e] /\ n \in Nat /\ Settled(e, s) /\ World(s) /\ Grown(s, c)
      /\ n = s.nonce \/ p \in {"zec-mm", "spy-mm"}
      /\ World(c) /\ IsChain(c)
  BY DEF Entry, Settled, World
<1>2. Decent(now) /\ IsBatch(later) /\ \A b \in Items(later) : Idle(b)
  <2>1. /\ Decent(Built(p, s, n).now)
        /\ IsBatch(Built(p, s, n).later) /\ \A b \in Items(Built(p, s, n).later) : Idle(b)
    BY <1>1, BuiltDecent
  <2> QED BY <1>c, <2>1
<1>3. Len(now) \in Nat
  BY <1>2 DEF Decent, IsBatch
<1>4. /\ q = [prop |-> q.prop, status |-> q.status, seen |-> q.seen, base |-> q.base, at |-> q.at,
              fresh |-> q.fresh, left |-> q.left, lost |-> q.lost]
      /\ q.prop = p /\ q.base = n /\ q.at = c.nonce
      /\ q.status = (IF res.ok THEN "passed" ELSE "refused")
      /\ q.left = (IF res.ok THEN later ELSE << >>)
  BY <1>b DEF Entry
<1>5. CASE res = [c |-> c, ok |-> FALSE]
  <2>1. res.c = c /\ res.ok = FALSE
    BY <1>5
  <2>2. Settled(e, d) /\ World(d) /\ Grown(c, d)
    BY <1>1, <1>c, <2>1, GrownReflexive, ClearedGrown
  <2>3. q.status = "refused" /\ q.left = << >>
    BY <1>4, <2>1
  <2>4. Entry(e, d, q)
    BY <1>1, <1>4, <2>3, BatchEmpty DEF Entry
  <2> QED BY <2>2, <2>4
<1>6. CASE res.ok = TRUE /\ Runs(now, c, res.c)
  <2> DEFINE y == res.c
  <2>1. Runs(Built(p, s, n).now, c, y)
    BY <1>6, <1>c
  <2> HIDE DEF p, s, n, y
  <2>2. Settled(e, y) /\ Grown(c, y)
    BY <1>1, <2>1, SettledRuns
  <2>3. ReviewResult(e, p, y)
    BY <1>1, <2>1, ReviewRuns
  <2>4. GigaResult(p, y)
    BY <1>1, <2>1, GigaRuns
  <2>5. PlaceResult(e, p, n, c.nonce, y)
    BY <1>1, <2>1, PlaceRuns
  <2>6. Settled(e, d) /\ World(d) /\ Grown(c, d) /\ Grown(y, d) /\ World(y)
    BY <1>1, <1>c, <2>2, ClearedGrown, ClearedSettled DEF Settled, y
  <2>7. ReviewResult(e, p, d) /\ GigaResult(p, d) /\ PlaceResult(e, p, n, c.nonce, d)
    BY <1>1, <2>3, <2>4, <2>5, <2>6, ReviewKept, GigaKept, PlaceKept
  <2>8. q.status = "passed" /\ q.left = later
    BY <1>4, <1>6
  <2>9. Entry(e, d, q)
    BY <1>1, <1>2, <1>4, <2>7, <2>8 DEF Entry
  <2> QED BY <2>6, <2>9
<1> QED BY <1>a, <1>3, <1>5, <1>6, DispatchCases

\* A later batch runs.
LEMMA FollowEntry ==
  ASSUME NEW e \in 1..6, NEW c, Settled(e, c), NEW r, Entry(e, c, r), r.left # << >>,
         NEW res, res = Dispatch(Head(r.left), c),
         NEW d, d = Cleared(res.c),
         NEW lost,
         NEW q, q = [r EXCEPT !.left = Tail(@), !.lost = lost]
  PROVE  Settled(e, d) /\ World(d) /\ Grown(c, d) /\ Entry(e, d, q)
<1> DEFINE b == Head(r.left)
<1>1. World(c) /\ IsChain(c) /\ r.left \in Seq(Items(r.left))
  BY DEF Settled, World, Entry, IsBatch
<1>2. b \in Items(r.left) /\ Tail(r.left) \in Seq(Items(r.left))
  <2> DEFINE s == r.left
             S == Items(s)
  <2>1. s \in Seq(S) /\ s # << >>
    BY <1>1
  <2> HIDE DEF s, S
  <2>2. Head(s) \in S /\ Tail(s) \in Seq(S)
    BY <2>1
  <2> QED BY <2>2 DEF s, S
<1>3. Idle(b) /\ IsBatch(Tail(r.left)) /\ \A x \in Items(Tail(r.left)) : Idle(x)
  <2>1. IsBatch(Tail(r.left)) /\ Items(Tail(r.left)) \subseteq Items(r.left)
    BY <1>2, BatchOf
  <2> QED BY <1>2, <2>1 DEF Entry
<1>4. /\ q = [prop |-> q.prop, status |-> q.status, seen |-> q.seen, base |-> q.base, at |-> q.at,
              fresh |-> q.fresh, left |-> q.left, lost |-> q.lost]
      /\ q.prop = r.prop /\ q.base = r.base /\ q.at = r.at /\ q.status = r.status /\ q.seen = r.seen
      /\ q.left = Tail(r.left)
  <2> DEFINE t == Tail(r.left)
  <2>1. r = [prop |-> r.prop, status |-> r.status, seen |-> r.seen, base |-> r.base, at |-> r.at,
             fresh |-> r.fresh, left |-> r.left, lost |-> r.lost]
    BY DEF Entry
  <2>2. q = [r EXCEPT !.left = t, !.lost = lost]
    OBVIOUS
  <2> HIDE DEF t
  <2>3. /\ q = [prop |-> q.prop, status |-> q.status, seen |-> q.seen, base |-> q.base, at |-> q.at,
                fresh |-> q.fresh, left |-> q.left, lost |-> q.lost]
        /\ q.prop = r.prop /\ q.base = r.base /\ q.at = r.at /\ q.status = r.status /\ q.seen = r.seen
        /\ q.left = t
    BY <2>1, <2>2
  <2> QED BY <2>3 DEF t
<1>5. Settled(e, d) /\ World(d) /\ Grown(c, d)
  <2>1. CASE res = [c |-> c, ok |-> FALSE]
    <3>1. res.c = c
      BY <2>1
    <3> QED BY <1>1, <3>1, GrownReflexive, ClearedGrown
  <2>2. CASE Runs(b, c, res.c)
    <3>1. Settled(e, res.c) /\ Grown(c, res.c)
      BY <1>3, <2>2, SettledIdle
    <3> QED BY <1>1, <3>1, ClearedGrown
  <2>3. Len(b) \in Nat
    BY <1>3 DEF Idle, IsBatch
  <2> HIDE DEF b
  <2>4. res = Dispatch(b, c)
    BY DEF b
  <2> QED BY <2>1, <2>2, <2>3, <2>4, DispatchCases
<1>6. Entry(e, d, r)
  BY <1>1, <1>5, EntryKept
<1>7. Entry(e, d, q)
  BY <1>3, <1>4, <1>6 DEF Entry
<1> QED BY <1>5, <1>7

LEMMA AppendRoll ==
  ASSUME NEW s, IsBatch(s), NEW x, NEW t, t = Append(s, x)
  PROVE  /\ IsBatch(t) /\ Len(s) \in Nat /\ Len(t) = Len(s) + 1
         /\ t[Len(s) + 1] = x /\ \A i \in 1..Len(s) : t[i] = s[i]
<1> DEFINE S == Items(s) \cup {x}
<1>1. s \in Seq(S) /\ x \in S
  BY DEF IsBatch
<1> HIDE DEF S
<1>2. /\ t \in Seq(S) /\ Len(s) \in Nat /\ Len(t) = Len(s) + 1
      /\ t[Len(s) + 1] = x /\ \A i \in 1..Len(s) : t[i] = s[i]
  BY <1>1
<1> QED BY <1>2, BatchOf

LEMMA ExceptRoll ==
  ASSUME NEW s, IsBatch(s), NEW k \in DOMAIN s, NEW x, NEW t, t = [s EXCEPT ![k] = x]
  PROVE  /\ IsBatch(t) /\ Len(s) \in Nat /\ Len(t) = Len(s) /\ k \in 1..Len(s)
         /\ t[k] = x /\ \A i \in 1..Len(s) : i # k => t[i] = s[i]
<1> DEFINE S == Items(s) \cup {x}
<1>1. s \in Seq(S) /\ x \in S
  BY DEF IsBatch
<1> HIDE DEF S
<1>2. Len(s) \in Nat /\ DOMAIN s = 1..Len(s)
  BY <1>1
<1>3. t \in Seq(S) /\ Len(t) = Len(s) /\ t[k] = x /\ \A i \in 1..Len(s) : i # k => t[i] = s[i]
  BY <1>1, <1>2
<1> QED BY <1>2, <1>3, BatchOf

LEMMA DomainRoll ==
  ASSUME NEW s, IsBatch(s)
  PROVE  DOMAIN s = 1..Len(s) /\ Len(s) \in Nat
<1> DEFINE S == Items(s)
<1>1. s \in Seq(S)
  BY DEF IsBatch
<1> HIDE DEF S
<1> QED BY <1>1

LEMMA BasesNat ==
  ASSUME NEW p, Orderly, NEW n \in Bases(p)
  PROVE  n \in Nat /\ (n = chain.nonce \/ p \in {"zec-mm", "spy-mm"})
<1>1. chain.nonce \in Nat
  BY DEF Orderly, Settled, World, IsChain
<1>2. ASSUME NEW x
      PROVE  chain.nonce + 3 * Lists(x) \in Nat
  <2>1. Lists(x) \in {0, 1, 2, 4}
    BY DEF Lists
  <2> QED BY <1>1, <2>1
<1> QED BY <1>1, <1>2 DEF Bases

LEMMA OrderlyInit == Init => Orderly
<1> SUFFICES ASSUME Init PROVE Orderly
  OBVIOUS
<1>1. PICK start \in Starts(era), strict \in Strict :
        chain = [facts  |-> start.facts,
                 nonce  |-> start.nonce,
                 farm   |-> IF era = 3 THEN 127 ELSE 99,
                 lost   |-> {},
                 strict |-> strict]
  BY DEF Init
<1>2. era \in 1..6 /\ referenda = << >>
  BY DEF Init
<1>3. Settled(era, chain)
  <2> DEFINE farm == IF era = 3 THEN 127 ELSE 99
  <2>1. farm \in Nat \ {0}
    OBVIOUS
  <2> HIDE DEF farm
  <2>2. chain = [facts |-> start.facts, nonce |-> start.nonce, farm |-> farm, lost |-> {}, strict |-> strict]
    BY <1>1 DEF farm
  <2> QED BY <1>2, <2>1, <2>2, StartSettled
<1>4. IsBatch(referenda) /\ Len(referenda) = 0
  BY <1>2, BatchEmpty
<1> QED BY <1>2, <1>3, <1>4 DEF Orderly

LEMMA OrderlyBuild ==
  ASSUME Orderly, NEW p \in Proposals, Build(p)
  PROVE  Orderly'
<1>1. PICK n \in Bases(p) :
        referenda' = Append(referenda,
            [prop |-> p, status |-> "pending", seen |-> chain, base |-> n, at |-> 0,
             fresh |-> FALSE, left |-> << >>, lost |-> {}])
  BY DEF Build
<1>2. chain' = chain /\ era' = era
  BY DEF Build
<1> DEFINE q == [prop |-> p, status |-> "pending", seen |-> chain, base |-> n, at |-> 0,
                 fresh |-> FALSE, left |-> << >>, lost |-> {}]
<1>3. n \in Nat /\ (n = chain.nonce \/ p \in {"zec-mm", "spy-mm"})
  BY BasesNat
<1>4. /\ era \in 1..6 /\ Settled(era, chain) /\ IsBatch(referenda) /\ Len(referenda) \in Nat
      /\ \A k \in 1..Len(referenda) : Entry(era, chain, referenda[k])
  BY DEF Orderly
<1>5. Entry(era, chain, q)
  <2>1. p \in Launches[era] \cup Upkeeps[era]
    BY DEF Proposals
  <2>2. Grown(chain, chain)
    BY <1>4, GrownReflexive DEF Settled, World
  <2>3. q = [prop |-> q.prop, status |-> q.status, seen |-> q.seen, base |-> q.base, at |-> q.at,
             fresh |-> q.fresh, left |-> q.left, lost |-> q.lost]
    OBVIOUS
  <2>4. q.prop = p /\ q.status = "pending" /\ q.seen = chain /\ q.base = n /\ q.left = << >>
    OBVIOUS
  <2> HIDE DEF q
  <2> QED BY <1>3, <1>4, <2>1, <2>2, <2>3, <2>4, BatchEmpty DEF Entry
<1> HIDE DEF q
<1>6. /\ IsBatch(referenda') /\ Len(referenda') = Len(referenda) + 1
      /\ referenda'[Len(referenda) + 1] = q /\ \A i \in 1..Len(referenda) : referenda'[i] = referenda[i]
  <2> DEFINE t == referenda'
  <2>1. t = Append(referenda, q)
    BY <1>1 DEF q
  <2> HIDE DEF t
  <2>2. /\ IsBatch(t) /\ Len(t) = Len(referenda) + 1
        /\ t[Len(referenda) + 1] = q /\ \A i \in 1..Len(referenda) : t[i] = referenda[i]
    <3>1. IsBatch(t) /\ Len(t) = Len(referenda) + 1 /\ t[Len(referenda) + 1] = q
      BY <1>4, <2>1, AppendRoll
    <3>2. \A i \in 1..Len(referenda) : t[i] = referenda[i]
      BY <1>4, <2>1, AppendRoll
    <3> QED BY <3>1, <3>2
  <2> QED BY <2>2 DEF t
<1>7. \A k \in 1..Len(referenda') : Entry(era, chain, referenda'[k])
  <2> SUFFICES ASSUME NEW k \in 1..Len(referenda') PROVE Entry(era, chain, referenda'[k])
    OBVIOUS
  <2>1. k = Len(referenda) + 1 \/ k \in 1..Len(referenda)
    BY <1>4, <1>6
  <2> QED BY <1>4, <1>5, <1>6, <2>1
<1>8. Len(referenda') \in Nat
  BY <1>4, <1>6
<1> QED BY <1>2, <1>4, <1>6, <1>7, <1>8 DEF Orderly

\* A step of one proposal, during which the chain grows.
LEMMA OrderlyStep ==
  ASSUME Orderly, NEW k \in DOMAIN referenda, NEW q, referenda' = [referenda EXCEPT ![k] = q], era' = era,
         Settled(era, chain'), Grown(chain, chain'), Entry(era, chain', q)
  PROVE  Orderly'
<1>1. /\ era \in 1..6 /\ Settled(era, chain) /\ IsBatch(referenda) /\ Len(referenda) \in Nat
      /\ \A j \in 1..Len(referenda) : Entry(era, chain, referenda[j])
  BY DEF Orderly
<1>2. /\ IsBatch(referenda') /\ Len(referenda') = Len(referenda)
      /\ referenda'[k] = q /\ \A i \in 1..Len(referenda) : i # k => referenda'[i] = referenda[i]
  <2> DEFINE t == referenda'
  <2>1. t = [referenda EXCEPT ![k] = q]
    OBVIOUS
  <2> HIDE DEF t
  <2>2. /\ IsBatch(t) /\ Len(t) = Len(referenda)
        /\ t[k] = q /\ \A i \in 1..Len(referenda) : i # k => t[i] = referenda[i]
    <3>4. IsBatch(t)
      BY <1>1, <2>1, ExceptRoll
    <3>5. Len(t) = Len(referenda)
      BY <1>1, <2>1, ExceptRoll
    <3>1. IsBatch(t) /\ Len(t) = Len(referenda)
      BY <3>4, <3>5
    <3>2. \A i \in 1..Len(referenda) : i # k => t[i] = referenda[i]
      BY <1>1, <2>1, ExceptRoll
    <3>3. t[k] = q
      BY <2>1
    <3> QED BY <3>1, <3>2, <3>3
  <2> QED BY <2>2 DEF t
<1>3. World(chain) /\ World(chain')
  BY <1>1 DEF Settled
<1>4. \A j \in 1..Len(referenda') : Entry(era, chain', referenda'[j])
  <2> SUFFICES ASSUME NEW j \in 1..Len(referenda), j # k PROVE Entry(era, chain', referenda[j])
    BY <1>2
  <2>1. Entry(era, chain, referenda[j])
    BY <1>1
  <2> QED BY <1>1, <1>3, <2>1, EntryKept
<1> QED BY <1>1, <1>2, <1>4 DEF Orderly

LEMMA OrderlyEnact ==
  ASSUME Orderly, NEW k \in DOMAIN referenda, Enact(k)
  PROVE  Orderly'
<1> DEFINE r == referenda[k]
           fresh == (chain = r.seen)
           q == Enacted(r, chain, fresh)
           d == Cleared(Outcome(r, chain).c)
<1>1. r.status = "pending" /\ chain' = d /\ referenda' = [referenda EXCEPT ![k] = q] /\ era' = era
  BY DEF Enact, Pending, Cleared, Outcome, Enacted
<1>2. era \in 1..6 /\ Settled(era, chain) /\ Entry(era, chain, r)
  BY DomainRoll DEF Orderly
<1> HIDE DEF r, fresh
<1>3. Settled(era, d) /\ Grown(chain, d) /\ Entry(era, d, q)
  BY <1>1, <1>2, EnactedEntry
<1> HIDE DEF q, d
<1> QED BY <1>1, <1>3, OrderlyStep

LEMMA OrderlyFollow ==
  ASSUME Orderly, NEW k \in DOMAIN referenda, Follow(k)
  PROVE  Orderly'
<1> DEFINE r    == referenda[k]
           res  == Dispatch(Head(r.left), chain)
           lost == r.lost \cup res.c.lost
           q    == [r EXCEPT !.left = Tail(@), !.lost = lost]
<1>1. /\ r.left # << >> /\ chain' = Cleared(res.c) /\ referenda' = [referenda EXCEPT ![k] = q] /\ era' = era
  BY DEF Follow, Cleared
<1>2. era \in 1..6 /\ Settled(era, chain) /\ Entry(era, chain, r)
  BY DomainRoll DEF Orderly
<1>3. Settled(era, chain') /\ Grown(chain, chain') /\ Entry(era, chain', q)
  <2> DEFINE d == chain'
  <2>1. res = Dispatch(Head(r.left), chain)
    OBVIOUS
  <2>2. q = [r EXCEPT !.left = Tail(@), !.lost = lost]
    OBVIOUS
  <2>3. d = Cleared(res.c)
    BY <1>1
  <2> HIDE DEF r, res, lost, q, d
  <2>4. Settled(era, d) /\ Grown(chain, d) /\ Entry(era, d, q)
    BY <1>1, <1>2, <2>1, <2>2, <2>3, FollowEntry
  <2> QED BY <2>4 DEF d
<1> HIDE DEF r, q
<1> QED BY <1>1, <1>3, OrderlyStep

LEMMA OrderlyReject ==
  ASSUME Orderly, NEW k \in DOMAIN referenda, Reject(k)
  PROVE  Orderly'
<1> DEFINE r == referenda[k]
           q == [r EXCEPT !.status = "rejected", !.seen = << >>]
<1>1. chain' = chain /\ referenda' = [referenda EXCEPT ![k] = q] /\ era' = era
  BY DEF Reject
<1>2. era \in 1..6 /\ Settled(era, chain) /\ Entry(era, chain, r)
  BY DomainRoll DEF Orderly
<1>3. Entry(era, chain, q)
  <2> HIDE DEF r
  <2>1. /\ q = [prop |-> q.prop, status |-> q.status, seen |-> q.seen, base |-> q.base, at |-> q.at,
                fresh |-> q.fresh, left |-> q.left, lost |-> q.lost]
        /\ q.prop = r.prop /\ q.base = r.base /\ q.left = r.left /\ q.status = "rejected"
    <3>1. r = [prop |-> r.prop, status |-> r.status, seen |-> r.seen, base |-> r.base, at |-> r.at,
               fresh |-> r.fresh, left |-> r.left, lost |-> r.lost]
      BY <1>2 DEF Entry
    <3>2. q = [r EXCEPT !.status = "rejected", !.seen = << >>]
      OBVIOUS
    <3> HIDE DEF q
    <3>3. q = [prop |-> r.prop, status |-> "rejected", seen |-> << >>, base |-> r.base, at |-> r.at,
               fresh |-> r.fresh, left |-> r.left, lost |-> r.lost]
      BY <3>1, <3>2
    <3> QED BY <3>3
  <2> HIDE DEF q
  <2> QED BY <1>2, <2>1 DEF Entry
<1>4. Grown(chain, chain)
  BY <1>2, GrownReflexive DEF Settled, World
<1> HIDE DEF r, q
<1> QED BY <1>1, <1>2, <1>3, <1>4, OrderlyStep

LEMMA OrderlyNext == Orderly /\ [Next]_vars => Orderly'
<1> SUFFICES ASSUME Orderly, [Next]_vars PROVE Orderly'
  OBVIOUS
<1>1. ASSUME NEW p \in Proposals, Build(p)
      PROVE  Orderly'
  BY <1>1, OrderlyBuild
<1>2. ASSUME NEW k \in DOMAIN referenda, Enact(k)
      PROVE  Orderly'
  BY <1>2, OrderlyEnact
<1>3. ASSUME NEW k \in DOMAIN referenda, Follow(k)
      PROVE  Orderly'
  BY <1>3, OrderlyFollow
<1>4. ASSUME NEW k \in DOMAIN referenda, Reject(k)
      PROVE  Orderly'
  BY <1>4, OrderlyReject
<1>5. CASE UNCHANGED vars
  BY <1>5 DEF vars, Orderly
<1> QED BY <1>1, <1>2, <1>3, <1>4, <1>5 DEF Next

\* Between proposals the chain is settled, and every proposal is as Entry says of it.
THEOREM OrderlyAlways == Spec => []Orderly
<1> QED BY OrderlyInit, OrderlyNext, PTL DEF Spec
-----------------------------------------------------------------------------
(* The same for the markets of their own.  Orderly does not keep it: an id   *)
(* that can be moved is not among what no call takes back, and needs a       *)
(* chain on which the collateral's token stays where it was foreseen.        *)

Bound(e, c, r) ==
  e > 4 =>
    /\ r.status = "pending" =>
         /\ Moored(Berth(e), r.seen, c)
         /\ r.prop = "recovery-gho-cross-refs" => ATokensOf(r.seen, "HOLLAR") # {}
    /\ r.status = "passed" => BerthResult(e, r.prop, r.base, r.at, c)
Anchored == \A k \in 1..Len(referenda) : Bound(era, chain, referenda[k])

LEMMA BoundKept ==
  ASSUME NEW e \in 1..6, NEW c, World(c), NEW d, World(d), Grown(c, d), e > 4 => Moored(Berth(e), c, d),
         NEW r, Bound(e, c, r)
  PROVE  Bound(e, d, r)
<1> SUFFICES ASSUME e \in {5, 6} PROVE Bound(e, d, r)
  BY DEF Bound
<1>1. ASSUME r.status = "pending"
      PROVE  /\ Moored(Berth(e), r.seen, d)
             /\ r.prop = "recovery-gho-cross-refs" => ATokensOf(r.seen, "HOLLAR") # {}
  <2>1. /\ Moored(Berth(e), r.seen, c) /\ Moored(Berth(e), c, d)
        /\ r.prop = "recovery-gho-cross-refs" => ATokensOf(r.seen, "HOLLAR") # {}
    BY <1>1 DEF Bound
  <2> QED BY <2>1, MooredTransitive
<1>2. ASSUME r.status = "passed"
      PROVE  BerthResult(e, r.prop, r.base, r.at, d)
  <2>1. BerthResult(e, r.prop, r.base, r.at, c) /\ Moored(Berth(e), c, d)
    BY <1>2 DEF Bound
  <2> QED BY <2>1, BerthKept
<1> QED BY <1>1, <1>2 DEF Bound

LEMMA ClearedMoored ==
  ASSUME NEW s, NEW x, NEW y, Moored(s, x, y), IsChain(y), NEW d, d = Cleared(y)
  PROVE  Moored(s, x, d)
<1>1. d.facts = y.facts /\ d.nonce = y.nonce
  BY DEF Cleared, IsChain
<1>2. CollateralToken(d, s[1]) = CollateralToken(y, s[1])
  BY <1>1 DEF CollateralToken, ATokensOf
<1> QED BY <1>1, <1>2 DEF Moored

\* A proposal is enacted.
LEMMA EnactedBound ==
  ASSUME NEW e \in 1..6, NEW c, Settled(e, c), NEW r, Entry(e, c, r), Bound(e, c, r), r.status = "pending",
         NEW fresh, NEW d, d = Cleared(Outcome(r, c).c), NEW q, q = Enacted(r, c, fresh)
  PROVE  /\ e > 4 => Moored(Berth(e), c, d)
         /\ Bound(e, d, q)
<1> SUFFICES ASSUME e \in {5, 6} PROVE Moored(Berth(e), c, d) /\ Bound(e, d, q)
  BY DEF Bound
<1> DEFINE now == Built(r.prop, r.seen, r.base).now
           res == Outcome(r, c)
           p == r.prop
           s == r.seen
           n == r.base
<1>1. /\ p \in Launches[e] \cup Upkeeps[e] /\ World(s) /\ Grown(s, c) /\ World(c) /\ IsChain(c)
      /\ n = s.nonce /\ Registered("HOLLAR") \in c.facts
  <2>1. p \in Launches[e] \cup Upkeeps[e] /\ Settled(e, s) /\ Grown(s, c) /\ (n = s.nonce \/ p \in {"zec-mm", "spy-mm"})
    BY DEF Entry
  <2> HIDE DEF p, s, n
  <2> QED BY <2>1, BerthProposals DEF Settled, World
<1>2. /\ Moored(Berth(e), s, c)
      /\ p = "recovery-gho-cross-refs" => ATokensOf(s, "HOLLAR") # {}
  BY DEF Bound
<1>3. res = Dispatch(now, c) /\ d = Cleared(res.c) /\ now = Built(p, s, n).now
  BY DEF Outcome
<1>4. /\ q.prop = p /\ q.base = n /\ q.at = c.nonce
      /\ q.status = (IF res.ok THEN "passed" ELSE "refused")
  <2> DEFINE later == IF res.ok THEN Built(r.prop, r.seen, r.base).later ELSE << >>
             status == IF res.ok THEN "passed" ELSE "refused"
             lost == res.c.lost
  <2>1. q = [r EXCEPT !.status = status, !.at = c.nonce, !.fresh = fresh, !.seen = << >>, !.left = later, !.lost = lost]
    BY DEF Enacted
  <2>2. r = [prop |-> r.prop, status |-> r.status, seen |-> r.seen, base |-> r.base, at |-> r.at,
             fresh |-> r.fresh, left |-> r.left, lost |-> r.lost]
    BY DEF Entry
  <2> HIDE DEF later, status, lost
  <2>3. q.prop = r.prop /\ q.base = r.base /\ q.at = c.nonce /\ q.status = status
    BY <2>1, <2>2
  <2> QED BY <2>3 DEF status
<1> HIDE DEF now, res, p, s, n
<1>5. Len(now) \in Nat
  <2>1. Decent(now)
    BY <1>1, <1>3, BuiltDecent
  <2> QED BY <2>1 DEF Decent, IsBatch
<1>6. CASE res = [c |-> c, ok |-> FALSE]
  <2>1. res.c = c /\ res.ok = FALSE
    BY <1>6
  <2>2. Moored(Berth(e), c, d)
    BY <1>1, <1>3, <2>1, MooredReflexive, ClearedMoored
  <2>3. q.status = "refused"
    BY <1>4, <2>1
  <2> QED BY <2>2, <2>3 DEF Bound
<1>7. CASE res.ok = TRUE /\ Runs(now, c, res.c)
  <2> DEFINE y == res.c
  <2>1. Runs(Built(p, s, n).now, c, y) /\ d = Cleared(y)
    BY <1>3, <1>7
  <2> HIDE DEF y
  <2>2. Moored(Berth(e), c, y) /\ BerthResult(e, p, n, c.nonce, y)
    BY <1>1, <1>2, <2>1, BerthRuns
  <2>3. Settled(e, y) /\ Grown(c, y)
    <3>1. n \in Nat
      BY <1>1 DEF World, IsChain
    <3> QED BY <1>1, <2>1, <3>1, SettledRuns
  <2>4. World(d) /\ World(y) /\ Grown(y, d)
    BY <2>1, <2>3, ClearedSettled DEF Settled
  <2>5. Moored(Berth(e), c, d) /\ Moored(Berth(e), y, d)
    BY <2>1, <2>2, <2>4, MooredReflexive, ClearedMoored DEF World
  <2>6. BerthResult(e, p, n, c.nonce, d)
    BY <2>2, <2>4, <2>5, BerthKept
  <2>7. q.status = "passed"
    BY <1>4, <1>7
  <2> QED BY <1>4, <2>5, <2>6, <2>7 DEF Bound
<1> QED BY <1>3, <1>5, <1>6, <1>7, DispatchCases

\* A later batch runs.
LEMMA FollowBound ==
  ASSUME NEW e \in 1..6, NEW c, Settled(e, c), NEW r, Entry(e, c, r), Bound(e, c, r), r.left # << >>,
         NEW res, res = Dispatch(Head(r.left), c),
         NEW d, d = Cleared(res.c), World(d), Grown(c, d),
         NEW lost,
         NEW q, q = [r EXCEPT !.left = Tail(@), !.lost = lost]
  PROVE  /\ e > 4 => Moored(Berth(e), c, d)
         /\ Bound(e, d, q)
<1> DEFINE b == Head(r.left)
<1>1. World(c) /\ IsChain(c)
  BY DEF Settled, World
<1>2. Idle(b)
  <2> DEFINE s == r.left
             S == Items(s)
  <2>1. s \in Seq(S) /\ s # << >> /\ \A x \in S : Idle(x)
    BY DEF Entry, IsBatch
  <2> HIDE DEF s, S
  <2>2. Head(s) \in S
    BY <2>1
  <2>3. Idle(Head(s))
    BY <2>1, <2>2
  <2> QED BY <2>3 DEF s
<1>3. q.prop = r.prop /\ q.base = r.base /\ q.at = r.at /\ q.status = r.status /\ q.seen = r.seen
  <2> DEFINE t == Tail(r.left)
  <2>1. r = [prop |-> r.prop, status |-> r.status, seen |-> r.seen, base |-> r.base, at |-> r.at,
             fresh |-> r.fresh, left |-> r.left, lost |-> r.lost]
    BY DEF Entry
  <2>2. q = [r EXCEPT !.left = t, !.lost = lost]
    OBVIOUS
  <2> HIDE DEF t
  <2> QED BY <2>1, <2>2
<1>4. ASSUME e \in {5, 6}
      PROVE  Moored(Berth(e), c, d)
  <2>1. CASE res = [c |-> c, ok |-> FALSE]
    <3>1. res.c = c
      BY <2>1
    <3> QED BY <1>1, <3>1, MooredReflexive, ClearedMoored
  <2>2. CASE Runs(b, c, res.c)
    <3> DEFINE y == res.c
    <3>1. Runs(b, c, y) /\ d = Cleared(y)
      BY <2>2
    <3> HIDE DEF b, y
    <3>2. Berth(e) \in Berths
      BY <1>4, BerthIs
    <3>3. Moored(Berth(e), c, y)
      BY <1>1, <1>2, <3>1, <3>2, IdleMoored
    <3>4. IsChain(y)
      BY <1>1, <1>2, <3>1, IdleRuns DEF World
    <3> QED BY <3>1, <3>3, <3>4, ClearedMoored
  <2>3. Len(b) \in Nat
    BY <1>2 DEF Idle, IsBatch
  <2> HIDE DEF b
  <2>4. res = Dispatch(b, c)
    BY DEF b
  <2> QED BY <2>1, <2>2, <2>3, <2>4, DispatchCases
<1>5. e > 4 => Moored(Berth(e), c, d)
  BY <1>4
<1>6. Bound(e, d, r)
  BY <1>1, <1>5, BoundKept
<1> QED BY <1>3, <1>5, <1>6 DEF Bound

LEMMA AnchoredInit == Init => Anchored
<1> SUFFICES ASSUME Init PROVE Anchored
  OBVIOUS
<1>1. IsBatch(referenda) /\ Len(referenda) = 0
  BY BatchEmpty DEF Init
<1> QED BY <1>1 DEF Anchored

LEMMA AnchoredBuild ==
  ASSUME Orderly, Anchored, NEW p \in Proposals, Build(p)
  PROVE  Anchored'
<1> DEFINE plan(n) == Built(p, chain, n)
<1>1. PICK n \in Bases(p) :
        /\ ~Exits(plan(n).now)
        /\ referenda' = Append(referenda,
            [prop |-> p, status |-> "pending", seen |-> chain, base |-> n, at |-> 0,
             fresh |-> FALSE, left |-> << >>, lost |-> {}])
  BY DEF Build
<1>2. chain' = chain /\ era' = era
  BY DEF Build
<1> DEFINE q == [prop |-> p, status |-> "pending", seen |-> chain, base |-> n, at |-> 0,
                 fresh |-> FALSE, left |-> << >>, lost |-> {}]
<1>3. ASSUME p = "recovery-gho-cross-refs"
      PROVE  ATokensOf(chain, "HOLLAR") # {}
  <2> SUFFICES ASSUME ATokensOf(chain, "HOLLAR") = {} PROVE FALSE
    OBVIOUS
  <2>1. plan(n) = Recovery(chain)
    BY <1>3 DEF Built
  <2>2. Recovery(chain).now = Exit
    BY DEF Recovery, Now, Proposal
  <2>3. Exits(Exit)
    <3> DEFINE call == Exit[1]
    <3>1. Exit = << call >>
      BY ExitPlain
    <3> HIDE DEF call
    <3>2. Len(<< call >>) = 1 /\ << call >>[1] = call
      OBVIOUS
    <3>3. Len(Exit) = 1 /\ Exit[1] = call
      BY <3>1, <3>2
    <3> QED BY <3>3 DEF Exits
  <2> HIDE DEF plan
  <2> QED BY <1>1, <2>1, <2>2, <2>3
<1>4. Bound(era, chain, q)
  <2>1. q.prop = p /\ q.status = "pending" /\ q.seen = chain
    OBVIOUS
  <2> HIDE DEF q, plan
  <2> QED BY <1>3, <2>1, MooredReflexive DEF Bound
<1> HIDE DEF q
<1>5. /\ IsBatch(referenda) /\ Len(referenda) \in Nat
      /\ \A k \in 1..Len(referenda) : Bound(era, chain, referenda[k])
  BY DEF Orderly, Anchored
<1>6. /\ Len(referenda') = Len(referenda) + 1
      /\ referenda'[Len(referenda) + 1] = q /\ \A i \in 1..Len(referenda) : referenda'[i] = referenda[i]
  <2> DEFINE t == referenda'
  <2>1. t = Append(referenda, q)
    BY <1>1 DEF q
  <2> HIDE DEF t
  <2>2. Len(t) = Len(referenda) + 1 /\ t[Len(referenda) + 1] = q
    BY <1>5, <2>1, AppendRoll
  <2>3. \A i \in 1..Len(referenda) : t[i] = referenda[i]
    BY <1>5, <2>1, AppendRoll
  <2> QED BY <2>2, <2>3 DEF t
<1> SUFFICES ASSUME NEW k \in 1..Len(referenda') PROVE Bound(era, chain, referenda'[k])
  BY <1>2 DEF Anchored
<1>7. k = Len(referenda) + 1 \/ k \in 1..Len(referenda)
  BY <1>5, <1>6
<1> QED BY <1>4, <1>5, <1>6, <1>7

\* A step of one proposal, which leaves the collateral's token where it is.
LEMMA AnchoredStep ==
  ASSUME Orderly, Anchored, NEW k \in DOMAIN referenda, NEW q, referenda' = [referenda EXCEPT ![k] = q], era' = era,
         World(chain'), Grown(chain, chain'), era > 4 => Moored(Berth(era), chain, chain'), Bound(era, chain', q)
  PROVE  Anchored'
<1>1. /\ era \in 1..6 /\ World(chain) /\ IsBatch(referenda) /\ Len(referenda) \in Nat
      /\ \A j \in 1..Len(referenda) : Bound(era, chain, referenda[j])
  BY DEF Orderly, Anchored, Settled
<1>2. /\ Len(referenda') = Len(referenda)
      /\ referenda'[k] = q /\ \A i \in 1..Len(referenda) : i # k => referenda'[i] = referenda[i]
  <2> DEFINE t == referenda'
  <2>1. t = [referenda EXCEPT ![k] = q]
    OBVIOUS
  <2> HIDE DEF t
  <2>2. Len(t) = Len(referenda)
    BY <1>1, <2>1, ExceptRoll
  <2>3. \A i \in 1..Len(referenda) : i # k => t[i] = referenda[i]
    BY <1>1, <2>1, ExceptRoll
  <2>4. t[k] = q
    BY <2>1
  <2> QED BY <2>2, <2>3, <2>4 DEF t
<1> SUFFICES ASSUME NEW j \in 1..Len(referenda') PROVE Bound(era, chain', referenda'[j])
  BY DEF Anchored
<1>3. CASE j = k
  BY <1>2, <1>3
<1>4. CASE j # k
  <2>1. j \in 1..Len(referenda) /\ referenda'[j] = referenda[j] /\ Bound(era, chain, referenda[j])
    BY <1>1, <1>2, <1>4
  <2>2. Bound(era, chain', referenda[j])
    BY <1>1, <2>1, BoundKept
  <2> QED BY <2>1, <2>2
<1> QED BY <1>3, <1>4

LEMMA AnchoredEnact ==
  ASSUME Orderly, Anchored, NEW k \in DOMAIN referenda, Enact(k)
  PROVE  Anchored'
<1> DEFINE r == referenda[k]
           fresh == (chain = r.seen)
           q == Enacted(r, chain, fresh)
           d == Cleared(Outcome(r, chain).c)
<1>1. r.status = "pending" /\ chain' = d /\ referenda' = [referenda EXCEPT ![k] = q] /\ era' = era
  BY DEF Enact, Pending, Cleared, Outcome, Enacted
<1>2. era \in 1..6 /\ Settled(era, chain) /\ Entry(era, chain, r) /\ Bound(era, chain, r)
  BY DomainRoll DEF Orderly, Anchored
<1> HIDE DEF r, fresh
<1>3. Settled(era, d) /\ Grown(chain, d)
  BY <1>1, <1>2, EnactedEntry
<1>4. World(d) /\ q = Enacted(r, chain, fresh) /\ d = Cleared(Outcome(r, chain).c)
  BY <1>3 DEF Settled
<1> HIDE DEF q, d
<1>5. (era > 4 => Moored(Berth(era), chain, d)) /\ Bound(era, d, q)
  BY <1>1, <1>2, <1>4, EnactedBound
<1> QED BY <1>1, <1>3, <1>4, <1>5, AnchoredStep

LEMMA AnchoredFollow ==
  ASSUME Orderly, Anchored, NEW k \in DOMAIN referenda, Follow(k)
  PROVE  Anchored'
<1> DEFINE r    == referenda[k]
           res  == Dispatch(Head(r.left), chain)
           lost == r.lost \cup res.c.lost
           q    == [r EXCEPT !.left = Tail(@), !.lost = lost]
<1>1. /\ r.left # << >> /\ chain' = Cleared(res.c) /\ referenda' = [referenda EXCEPT ![k] = q] /\ era' = era
  BY DEF Follow, Cleared
<1>2. era \in 1..6 /\ Settled(era, chain) /\ Entry(era, chain, r) /\ Bound(era, chain, r)
  BY DomainRoll DEF Orderly, Anchored
<1>3. /\ World(chain') /\ Grown(chain, chain')
      /\ era > 4 => Moored(Berth(era), chain, chain')
      /\ Bound(era, chain', q)
  <2> DEFINE d == chain'
  <2>1. res = Dispatch(Head(r.left), chain)
    OBVIOUS
  <2>2. q = [r EXCEPT !.left = Tail(@), !.lost = lost]
    OBVIOUS
  <2>3. d = Cleared(res.c)
    BY <1>1
  <2> HIDE DEF r, res, lost, q, d
  <2>4. World(d) /\ Grown(chain, d)
    BY <1>1, <1>2, <2>1, <2>2, <2>3, FollowEntry
  <2>5. (era > 4 => Moored(Berth(era), chain, d)) /\ Bound(era, d, q)
    BY <1>1, <1>2, <2>1, <2>2, <2>3, <2>4, FollowBound
  <2> QED BY <2>4, <2>5 DEF d
<1> HIDE DEF r, q
<1> QED BY <1>1, <1>3, AnchoredStep

LEMMA AnchoredReject ==
  ASSUME Orderly, Anchored, NEW k \in DOMAIN referenda, Reject(k)
  PROVE  Anchored'
<1> DEFINE r == referenda[k]
           q == [r EXCEPT !.status = "rejected", !.seen = << >>]
<1>1. chain' = chain /\ referenda' = [referenda EXCEPT ![k] = q] /\ era' = era
  BY DEF Reject
<1>2. era \in 1..6 /\ Settled(era, chain) /\ Entry(era, chain, r)
  BY DomainRoll DEF Orderly
<1>3. Bound(era, chain, q)
  <2> HIDE DEF r
  <2>1. q.status = "rejected"
    <3>1. r = [prop |-> r.prop, status |-> r.status, seen |-> r.seen, base |-> r.base, at |-> r.at,
               fresh |-> r.fresh, left |-> r.left, lost |-> r.lost]
      BY <1>2 DEF Entry
    <3>2. q = [r EXCEPT !.status = "rejected", !.seen = << >>]
      OBVIOUS
    <3> HIDE DEF q
    <3> QED BY <3>1, <3>2
  <2> HIDE DEF q
  <2> QED BY <2>1 DEF Bound
<1>4. World(chain) /\ Grown(chain, chain)
  BY <1>2, GrownReflexive DEF Settled, World
<1> HIDE DEF r, q
<1> QED BY <1>1, <1>3, <1>4, MooredReflexive, AnchoredStep

LEMMA AnchoredNext == Orderly /\ Anchored /\ [Next]_vars => Anchored'
<1> SUFFICES ASSUME Orderly, Anchored, [Next]_vars PROVE Anchored'
  OBVIOUS
<1>1. ASSUME NEW p \in Proposals, Build(p)
      PROVE  Anchored'
  BY <1>1, AnchoredBuild
<1>2. ASSUME NEW k \in DOMAIN referenda, Enact(k)
      PROVE  Anchored'
  BY <1>2, AnchoredEnact
<1>3. ASSUME NEW k \in DOMAIN referenda, Follow(k)
      PROVE  Anchored'
  BY <1>3, AnchoredFollow
<1>4. ASSUME NEW k \in DOMAIN referenda, Reject(k)
      PROVE  Anchored'
  BY <1>4, AnchoredReject
<1>5. CASE UNCHANGED vars
  BY <1>5 DEF vars, Anchored
<1> QED BY <1>1, <1>2, <1>3, <1>4, <1>5 DEF Next

\* In a market of its own the collateral's token never moves once it is listed, and where a
\* launch points the id of that token it stays (bil.ts:162-281, gigahdx.ts).
THEOREM AnchoredAlways == Spec => []Anchored
<1>1. Init => Orderly /\ Anchored
  BY OrderlyInit, AnchoredInit
<1>2. (Orderly /\ Anchored) /\ [Next]_vars => (Orderly /\ Anchored)'
  BY OrderlyNext, AnchoredNext
<1> QED BY <1>1, <1>2, PTL DEF Spec

-----------------------------------------------------------------------------
(* What holds whatever is enacted, and whenever                              *)

\* Isolation (prime.ts, apyusd.ts): between proposals, whatever order they come in and whoever
\* gets ahead, no isolated asset is collateral without its debt ceiling.
THEOREM IsolatedHasCeilingAlways == Spec => []IsolatedHasCeiling
<1>1. ASSUME Orderly
      PROVE  IsolatedHasCeiling
  <2>1. Backed(chain) /\ Sane(chain)
    BY <1>1 DEF Orderly, Settled, World
  <2>2. "HOLLAR" \notin Isolated
    BY ConfigAssumption
  <2> QED BY <2>1, <2>2 DEF IsolatedHasCeiling, Backed, Sane
<1> QED BY <1>1, OrderlyAlways, PTL

LEMMA ReviewsAre ==
  ASSUME NEW e \in 1..6, NEW p \in Launches[e] \cup Upkeeps[e], NEW s \in Reviews(p)
  PROVE  e < 5 /\ s \in Configuration
<1>1. p \in {"update-caps", "gigahydration", "hollar-pools-update", "htoken-collateral", "reserve-factor-prop",
             "3pool-collateral", "reserve-factor-and-utilization-prop", "reduce-stables-borrow-rate",
             "vdot-biggening", "bifrosto-vdot-oracle", "gigadot-update"}
  BY DEF Reviews
<1>2. e # 5 /\ e # 6
  BY <1>1 DEF Launches, Upkeeps
<1>3. s \in {"supplyCap", "borrowCap", "ltv", "factor", "rate"}
  BY DEF Reviews
<1> QED BY <1>2, <1>3 DEF Configuration

\* Reviews (market/tasks): once a review of the caps, the factors or the collateral settings
\* has passed, every listed reserve follows the configuration in what was reviewed, also one
\* that was listed between the review's being built and its being enacted, or afterwards.
THEOREM ReviewedIsConfiguredAlways == Spec => []ReviewedIsConfigured
<1>1. ASSUME Orderly
      PROVE  ReviewedIsConfigured
  <2> SUFFICES ASSUME NEW k \in DOMAIN referenda, Passed(k), NEW s \in Reviews(referenda[k].prop),
                      NEW i \in DOMAIN ReserveAssets, Listed(ReserveAssets[i]) \in chain.facts
               PROVE  Follows(s, ReserveAssets[i]) \in chain.facts
    BY DEF ReviewedIsConfigured
  <2>1. era \in 1..6 /\ Settled(era, chain) /\ Entry(era, chain, referenda[k])
    BY <1>1, DomainRoll DEF Orderly
  <2>2. referenda[k].prop \in Launches[era] \cup Upkeeps[era] /\ ReviewResult(era, referenda[k].prop, chain)
    BY <2>1 DEF Entry, Passed
  <2>3. era < 5 /\ s \in Configuration
    BY <2>1, <2>2, ReviewsAre
  <2>4. CASE ReserveAssets[i] \in Loose(era)
    <3>1. ReserveAssets[i] \in Items(ReserveAssets)
      BY ConfigAssumption DEF Items
    <3> QED BY <2>2, <2>3, <2>4, <3>1 DEF ReviewResult
  <2>5. CASE ReserveAssets[i] \notin Loose(era)
    BY <2>1, <2>3, <2>5 DEF Settled, Main
  <2> QED BY <2>4, <2>5
<1> QED BY <1>1, OrderlyAlways, PTL

\* GIGA launches (gigasol-launch.ts, gigaeth-launch.ts): the calls that may fail in silence
\* come before a root call that needs what they bring about, so that a launch that passed
\* has done all of it, whoever got ahead, and it stays done.
THEOREM GigaAllOrNothingAlways == Spec => []GigaAllOrNothing
<1>1. ASSUME Orderly
      PROVE  GigaAllOrNothing
  <2> SUFFICES ASSUME NEW k \in DOMAIN referenda, NEW a \in {"gSOL", "gETH"}, Passed(k),
                      a \in NewTokens(referenda[k].prop)
               PROVE  /\ InOmnipool(a) \in chain.facts
                      /\ \A b \in NewTokens(referenda[k].prop) : IsPair(Means[b], b, chain)
                      /\ Seeded(Means[a]) \in chain.facts /\ Collateral(Means[a]) \in chain.facts
    BY DEF GigaAllOrNothing
  <2>1. Entry(era, chain, referenda[k])
    BY <1>1, DomainRoll DEF Orderly
  <2> QED BY <2>1 DEF Entry, Passed, GigaResult
<1> QED BY <1>1, OrderlyAlways, PTL

\* The token of the collateral of a market of its own is the pair its id stands for.
LEMMA BerthPair ==
  ASSUME NEW s \in Berths, NEW c, World(c), Listed(s[1]) \in c.facts,
         Located(s[2], CollateralToken(c, s[1])) \in c.facts
  PROVE  IsPair(s[1], s[2], c)
<1> DEFINE r == s[1]
           n == CollateralToken(c, r)
<1>1. PICK m : AToken(r, m) \in c.facts
  BY DEF World, Sane
<1>2. n = m
  BY <1>1, TokenIs
<1>3. m \in Nat /\ m + 3 <= c.nonce /\ c.nonce \in Nat
  BY <1>1 DEF World, Sane, IsChain
<1>4. Located(s[2], m) \in c.facts
  BY <1>2
<1> HIDE DEF n, r
<1>5. m \in 0..c.nonce
  BY <1>3
<1>6. IsPair(r, s[2], c)
  BY <1>1, <1>4, <1>5 DEF IsPair
<1> QED BY <1>6 DEF r

LEMMA BerthMeans ==
  ASSUME NEW e \in {5, 6}, NEW p \in Launches[e] \cup Upkeeps[e], NEW a \in NewTokens(p)
  PROVE  a = Berth(e)[2] /\ Means[a] = Berth(e)[1]
<1>1. (e = 5 /\ a = "aBIL") \/ (e = 6 /\ a = "GIGAHDX")
  BY BerthProposals
<1>2. Means["aBIL"] = "BIL" /\ Means["GIGAHDX"] = "STHDX"
  BY DEF Means
<1> QED BY <1>1, <1>2, BerthIs

\* Address prediction (utils/nonce.ts, hype-mm.ts:19-20): the id of the token of a new reserve
\* is registered, before the reserve is initialised, at the address that the deployer's nonce
\* foretells.  Whenever a launch runs at the nonce it was built for, every id it brings stands
\* for the token of the reserve it means; whatever else is enacted, before or afterwards.
THEOREM PredictionHoldsAlways == Spec => []PredictionHolds
<1>1. ASSUME Orderly, Anchored
      PROVE  PredictionHolds
  <2> SUFFICES ASSUME NEW k \in DOMAIN referenda, Passed(k), OnTime(k), NEW a \in NewTokens(referenda[k].prop)
               PROVE  IsPair(Means[a], a, chain)
    BY DEF PredictionHolds
  <2> DEFINE r == referenda[k]
  <2>1. /\ era \in 1..6 /\ World(chain) /\ Entry(era, chain, r) /\ Bound(era, chain, r)
    BY <1>1, DomainRoll DEF Orderly, Anchored, Settled
  <2>2. r.status = "passed" /\ r.base = r.at /\ a \in NewTokens(r.prop)
    BY DEF Passed, OnTime
  <2> HIDE DEF r
  <2>3. CASE era < 5
    <3>1. PlaceResult(era, r.prop, r.base, r.at, chain)
      BY <2>1, <2>2 DEF Entry
    <3> QED BY <2>2, <2>3, <3>1 DEF PlaceResult
  <2>4. CASE era > 4
    <3>1. era \in {5, 6} /\ r.prop \in Launches[era] \cup Upkeeps[era]
      BY <2>1, <2>4 DEF Entry
    <3>2. BerthResult(era, r.prop, r.base, r.at, chain)
      BY <2>1, <2>2, <2>4 DEF Bound
    <3>3. /\ Listed(Berth(era)[1]) \in chain.facts
          /\ Located(Berth(era)[2], CollateralToken(chain, Berth(era)[1])) \in chain.facts
      BY <2>2, <3>2 DEF BerthResult
    <3>4. IsPair(Berth(era)[1], Berth(era)[2], chain)
      BY <2>1, <3>1, <3>3, BerthIs, BerthPair
    <3> QED BY <2>2, <3>1, <3>4, BerthMeans
  <2> QED BY <2>1, <2>3, <2>4
<1> QED BY <1>1, OrderlyAlways, AnchoredAlways, PTL

\* Markets of their own (bil.ts:162-281, recovery-gho-cross-refs.ts:1-20): a market launched at
\* the nonce it was built for has its collateral and HOLLAR, and the HOLLAR token it brought is
\* a facilitator that knows its debt token, its treasury and its discount; and after a recovery
\* every HOLLAR token does, also one that came later.
THEOREM SatelliteWiredAlways == Spec => []SatelliteWired
<1>1. ASSUME Orderly, Anchored
      PROVE  SatelliteWired
  <2> SUFFICES ASSUME era > 4, NEW k \in DOMAIN referenda, Passed(k), OnTime(k)
               PROVE  /\ NewTokens(referenda[k].prop) # {} =>
                           /\ {Listed("HOLLAR"), Listed(Satellites[era].r)} \subseteq chain.facts
                           /\ \A n \in MarketHollarTokens : n >= referenda[k].base => Wired(n) \subseteq chain.facts
                      /\ referenda[k].prop = "recovery-gho-cross-refs" =>
                           \A n \in MarketHollarTokens : Wired(n) \subseteq chain.facts
    BY DEF SatelliteWired
  <2> DEFINE r == referenda[k]
  <2>1. era \in {5, 6} /\ Bound(era, chain, r)
    BY <1>1, DomainRoll DEF Orderly, Anchored
  <2>2. r.status = "passed" /\ r.base = r.at
    BY DEF Passed, OnTime
  <2>3. BerthResult(era, r.prop, r.base, r.at, chain)
    BY <2>1, <2>2 DEF Bound
  <2>4. \A n \in MarketHollarTokens : n \in Nat /\ AToken("HOLLAR", n) \in chain.facts
    BY DEF MarketHollarTokens
  <2> HIDE DEF r
  <2>5. ASSUME NewTokens(r.prop) # {}
        PROVE  /\ {Listed("HOLLAR"), Listed(Satellites[era].r)} \subseteq chain.facts
               /\ \A n \in MarketHollarTokens : n >= r.base => Wired(n) \subseteq chain.facts
    <3>1. Listed(Berth(era)[1]) \in chain.facts /\ Listed("HOLLAR") \in chain.facts /\ HollarWired(chain, r.base)
      BY <2>2, <2>3, <2>5 DEF BerthResult
    <3>2. Berth(era)[1] = Satellites[era].r
      BY <2>1, BerthIs
    <3>3. {Listed("HOLLAR"), Listed(Satellites[era].r)} \subseteq chain.facts
      BY <3>1, <3>2
    <3>4. \A n \in MarketHollarTokens : n >= r.base => Wired(n) \subseteq chain.facts
      BY <2>4, <3>1 DEF HollarWired
    <3> QED BY <3>3, <3>4
  <2>6. ASSUME r.prop = "recovery-gho-cross-refs"
        PROVE  \A n \in MarketHollarTokens : Wired(n) \subseteq chain.facts
    <3>1. HollarWired(chain, 0)
      BY <2>3, <2>6 DEF BerthResult
    <3> QED BY <2>4, <3>1 DEF HollarWired
  <2> QED BY <2>5, <2>6 DEF r
<1> QED BY <1>1, OrderlyAlways, AnchoredAlways, PTL
=============================================================================
