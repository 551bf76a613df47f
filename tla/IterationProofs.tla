-------------------------- MODULE IterationProofs --------------------------
(***************************************************************************)
(* Facts about the recursive functions of Iteration, by induction over the *)
(* natural numbers.  Induction is used in the form of the least            *)
(* counterexample (a set, not a predicate): the well-foundedness of < on   *)
(* Nat is taken from the standard library.                                 *)
(*                                                                         *)
(* Then what the sifts of the maturity heap, which are such loops, keep    *)
(* for heaps of any size: their entries, that no two are equal, and the    *)
(* order.  They are followed on the heap as it is with the entry put into  *)
(* the vacancy.  Then a move is a swap of two places, the one thing out of *)
(* order is at the vacancy, and the vacancy gets to where the loop stops   *)
(* within the iterations the model allows it.                              *)
(***************************************************************************)
EXTENDS MaturityHeap, WellFoundedInduction, SequenceTheorems, TLAPS

\* Every non-empty set of naturals has a least element.
LEMMA NatMinimal ==
  ASSUME NEW T, T \subseteq Nat, T # {}
  PROVE  \E x \in T : \A y \in T : x <= y
<1> DEFINE R == OpToRel(<, Nat)
<1>1. IsWellFoundedOn(R, Nat)
  BY NatLessThanWellFounded
<1>2. \A x, y \in Nat : <<x, y>> \in R <=> x < y
  BY DEF OpToRel
<1> HIDE DEF R
<1>3. \E x \in T : \A y \in T : ~ (<<y, x>> \in R)
  BY <1>1, WFMin, Zenon
<1>4. PICK x \in T : \A y \in T : ~ (<<y, x>> \in R)
  BY <1>3
<1>5. \A y \in T : ~(y < x)
  BY <1>2, <1>4
<1>. QED BY <1>5

\* A set that contains 0 and is closed under successor contains every natural.
LEMMA NatSetInduction ==
  ASSUME NEW T, 0 \in T, \A n \in Nat : n \in T => n + 1 \in T
  PROVE  Nat \subseteq T
<1>1. SUFFICES ASSUME Nat \ T # {} PROVE FALSE
  OBVIOUS
<1>2. PICK x \in Nat \ T : \A y \in Nat \ T : x <= y
  BY <1>1, NatMinimal
<1>3. x # 0 /\ x - 1 \in Nat /\ (x - 1) + 1 = x /\ ~(x <= x - 1)
  BY <1>2
<1>4. x - 1 \in T
  BY <1>2, <1>3
<1>. QED BY <1>2, <1>3, <1>4

\* The recursive definition of Fold has the function it describes: the partial
\* solutions on 0..n exist, agree, and together form the solution on Nat.
LEMMA FoldDef ==
  ASSUME NEW G, NEW x0
  PROVE  Fold(G, x0) = [k \in Nat |-> IF k = 0 THEN x0 ELSE G[k - 1][Fold(G, x0)[k - 1]]]
<1> DEFINE P(g, n) == g = [k \in 0..n |-> IF k = 0 THEN x0 ELSE G[k - 1][g[k - 1]]]
           T == {n \in Nat : \E g : P(g, n)}
<1>1. 0 \in T
  <2> DEFINE g == [k \in 0..0 |-> x0]
  <2>1. P(g, 0) OBVIOUS
  <2> QED BY <2>1
<1>2. \A n \in Nat : n \in T => n + 1 \in T
  <2> SUFFICES ASSUME NEW n \in Nat, NEW g, P(g, n) PROVE \E h : P(h, n + 1)
    <3> HIDE DEF P
    <3>1. \A n \in Nat : n + 1 \in Nat
      OBVIOUS
    <3> QED BY <3>1
  <2> DEFINE h == [k \in 0..(n+1) |-> IF k = 0 THEN x0 ELSE G[k - 1][g[k - 1]]]
  <2>1. \A k \in 0..n : h[k] = g[k]
    <3>1. g = [k \in 0..n |-> IF k = 0 THEN x0 ELSE G[k - 1][g[k - 1]]] OBVIOUS
    <3>. HIDE DEF P
    <3> QED BY <3>1
  <2>2. \A k \in 0..(n+1) : h[k] = IF k = 0 THEN x0 ELSE G[k - 1][h[k - 1]]
    <3> TAKE k \in 0..(n+1)
    <3>1. CASE k = 0 BY <3>1
    <3>2. CASE k # 0
      <4>1. k - 1 \in 0..n BY <3>2
      <4> QED BY <4>1, <2>1, <3>2
    <3> QED BY <3>1, <3>2
  <2>3. h = [k \in 0..(n+1) |-> h[k]] OBVIOUS
  <2> HIDE DEF h
  <2>4. h = [k \in 0..(n+1) |-> IF k = 0 THEN x0 ELSE G[k - 1][h[k - 1]]] BY <2>2, <2>3
  <2> QED BY <2>4
<1>3. \A n \in Nat : \E g : P(g, n)
  <2> HIDE DEF T, P
  <2>1. Nat \subseteq T BY <1>1, <1>2, NatSetInduction
  <2> QED BY <2>1 DEF T
<1> DEFINE H(n) == CHOOSE g : P(g, n)
           f == [n \in Nat |-> H(n)[n]]
<1>4. \A n \in Nat : P(H(n), n)
  <2> HIDE DEF P
  <2> QED BY <1>3
<1>5. \A n \in Nat : H(n + 1)[n] = H(n)[n]
  <2> HIDE DEF H, P
  <2> SUFFICES ASSUME NEW n \in Nat PROVE H(n + 1)[n] = H(n)[n] OBVIOUS
  <2> DEFINE U == {k \in Nat : k <= n => H(n + 1)[k] = H(n)[k]}
  <2>a. H(n) = [k \in 0..n |-> IF k = 0 THEN x0 ELSE G[k - 1][H(n)[k - 1]]] BY <1>4 DEF P
  <2>b. H(n + 1) = [k \in 0..(n+1) |-> IF k = 0 THEN x0 ELSE G[k - 1][H(n + 1)[k - 1]]]
    <3>1. n + 1 \in Nat OBVIOUS
    <3>2. P(H(n + 1), n + 1) BY <1>4, <3>1
    <3> QED BY <3>2 DEF P
  <2>c. \A k \in 0..n : H(n)[k] = IF k = 0 THEN x0 ELSE G[k - 1][H(n)[k - 1]] BY <2>a
  <2>d. \A k \in 0..(n+1) : H(n + 1)[k] = IF k = 0 THEN x0 ELSE G[k - 1][H(n + 1)[k - 1]] BY <2>b
  <2>1. 0 \in U
     BY <2>c, <2>d
  <2>2. \A k \in Nat : k \in U => k + 1 \in U
    <3> SUFFICES ASSUME NEW k \in Nat, k \in U, k + 1 <= n PROVE H(n + 1)[k + 1] = H(n)[k + 1] OBVIOUS
    <3>1. k <= n /\ k + 1 \in 0..n /\ k + 1 \in 0..(n+1) /\ (k + 1) - 1 = k /\ k + 1 # 0 OBVIOUS
    <3>2. H(n + 1)[k] = H(n)[k] BY <3>1
    <3> QED BY <3>1, <3>2, <2>c, <2>d
  <2> HIDE DEF U
  <2>3. Nat \subseteq U BY <2>1, <2>2, NatSetInduction
  <2> QED BY <2>3 DEF U
<1>6. f = [k \in Nat |-> IF k = 0 THEN x0 ELSE G[k - 1][f[k - 1]]]
  <2>1. \A k \in Nat : H(k)[k] = IF k = 0 THEN x0 ELSE G[k - 1][f[k - 1]]
    <3> SUFFICES ASSUME NEW k \in Nat PROVE H(k)[k] = IF k = 0 THEN x0 ELSE G[k - 1][f[k - 1]] OBVIOUS
    <3>a. H(k) = [j \in 0..k |-> IF j = 0 THEN x0 ELSE G[j - 1][H(k)[j - 1]]] BY <1>4
    <3> HIDE DEF H, P
    <3>1. CASE k = 0 BY <3>a, <3>1
    <3>2. CASE k # 0
      <4>1. k - 1 \in Nat /\ (k - 1) + 1 = k BY <3>2
      <4>2. H(k)[k - 1] = H(k - 1)[k - 1] BY <4>1, <1>5
      <4>3. H(k)[k] = G[k - 1][H(k)[k - 1]] BY <3>a, <3>2
      <4>4. f[k - 1] = H(k - 1)[k - 1] BY <4>1
      <4> QED BY <3>2, <4>2, <4>3, <4>4
    <3> QED BY <3>1, <3>2
  <2> HIDE DEF H
  <2> QED BY <2>1
<1> HIDE DEF f
<1>7. QED
  BY <1>6 DEF Fold

\* A set of loop states that contains the first one and is closed under the
\* loop body contains the state after any number of iterations.
LEMMA IterateInvariant ==
  ASSUME NEW F, NEW x0, NEW T, x0 \in T, \A x \in T : F[x] \in T
  PROVE  \A n \in Nat : Iterate(F, x0, n) \in T
<1> DEFINE G == [k \in Nat |-> F]
           it == Fold(G, x0)
           U == {n \in Nat : it[n] \in T}
<1>1. it = [k \in Nat |-> IF k = 0 THEN x0 ELSE G[k - 1][it[k - 1]]]
  BY FoldDef
<1> HIDE DEF it
<1>2. 0 \in U
  BY <1>1
<1>3. \A n \in Nat : n \in U => n + 1 \in U
  <2> SUFFICES ASSUME NEW n \in Nat, it[n] \in T PROVE it[n + 1] \in T
    OBVIOUS
  <2>1. n + 1 \in Nat /\ (n + 1) - 1 = n /\ n + 1 # 0
    OBVIOUS
  <2>2. it[n + 1] = G[n][it[n]]
    BY <1>1, <2>1
  <2> QED BY <2>2
<1> HIDE DEF U
<1>4. Nat \subseteq U
  BY <1>2, <1>3, NatSetInduction
<1> QED BY <1>4 DEF U, it, Iterate

\* The same, when what holds of the loop state depends on how often the body has run.
LEMMA IterateReaches ==
  ASSUME NEW F, NEW x0, NEW W, x0 \in W[0],
         \A n \in Nat : \A x \in W[n] : F[x] \in W[n + 1]
  PROVE  \A n \in Nat : Iterate(F, x0, n) \in W[n]
<1> DEFINE G == [k \in Nat |-> F]
           it == Fold(G, x0)
           U == {n \in Nat : it[n] \in W[n]}
<1>1. it = [k \in Nat |-> IF k = 0 THEN x0 ELSE G[k - 1][it[k - 1]]]
  BY FoldDef
<1> HIDE DEF it
<1>2. 0 \in U
  BY <1>1
<1>3. \A n \in Nat : n \in U => n + 1 \in U
  <2> SUFFICES ASSUME NEW n \in Nat, it[n] \in W[n] PROVE it[n + 1] \in W[n + 1]
    OBVIOUS
  <2>1. n + 1 \in Nat /\ (n + 1) - 1 = n /\ n + 1 # 0
    OBVIOUS
  <2>2. it[n + 1] = G[n][it[n]]
    BY <1>1, <2>1
  <2> QED BY <2>2
<1> HIDE DEF U
<1>4. Nat \subseteq U
  BY <1>2, <1>3, NatSetInduction
<1> QED BY <1>4 DEF U, it, Iterate

-----------------------------------------------------------------------------
(* Sums over the first n entries of a function.                            *)

\* One more term adds that term.
LEMMA SumStep ==
  ASSUME NEW f, NEW n \in Nat, SumTo(f, n) \in Int
  PROVE  SumTo(f, n + 1) = SumTo(f, n) + f[n]
<1> DEFINE G == [k \in Nat |-> [acc \in Int |-> acc + f[k]]]
           it == Fold(G, 0)
<1>1. it = [k \in Nat |-> IF k = 0 THEN 0 ELSE G[k - 1][it[k - 1]]]
  <2> HIDE DEF G
  <2> QED BY FoldDef
<1>2. \A k \in Nat : SumTo(f, k) = it[k]
  BY DEF SumTo
<1> HIDE DEF it
<1>3. n + 1 \in Nat /\ (n + 1) - 1 = n /\ n + 1 # 0
  OBVIOUS
<1>4. it[n + 1] = G[n][it[n]]
  BY <1>1, <1>3
<1> QED BY <1>2, <1>3, <1>4

\* The sum of no terms is zero.
LEMMA SumZero ==
  ASSUME NEW f
  PROVE  SumTo(f, 0) = 0
<1> DEFINE G == [k \in Nat |-> [acc \in Int |-> acc + f[k]]]
           it == Fold(G, 0)
<1>1. it = [k \in Nat |-> IF k = 0 THEN 0 ELSE G[k - 1][it[k - 1]]]
  <2> HIDE DEF G
  <2> QED BY FoldDef
<1>2. SumTo(f, 0) = it[0]
  BY DEF SumTo
<1> HIDE DEF it
<1> QED BY <1>1, <1>2

\* A sum of naturals is a natural that bounds each of its terms.
LEMMA SumNat ==
  ASSUME NEW f, NEW m \in Nat, \A k \in 0 .. (m - 1) : f[k] \in Nat
  PROVE  /\ SumTo(f, m) \in Nat
         /\ \A k \in 0 .. (m - 1) : f[k] <= SumTo(f, m)
<1> DEFINE U == {n \in Nat : n <= m =>
                   /\ SumTo(f, n) \in Nat
                   /\ \A k \in 0 .. (n - 1) : f[k] <= SumTo(f, n)}
<1>1. 0 \in U
  BY SumZero
<1>2. \A n \in Nat : n \in U => n + 1 \in U
  <2> SUFFICES ASSUME NEW n \in Nat, n + 1 <= m,
                      SumTo(f, n) \in Nat,
                      \A k \in 0 .. (n - 1) : f[k] <= SumTo(f, n)
               PROVE  /\ SumTo(f, n + 1) \in Nat
                      /\ \A k \in 0 .. n : f[k] <= SumTo(f, n + 1)
    OBVIOUS
  <2>1. SumTo(f, n + 1) = SumTo(f, n) + f[n] /\ f[n] \in Nat
    BY SumStep
  <2>2. ASSUME NEW k \in 0 .. n PROVE f[k] <= SumTo(f, n + 1)
    <3>1. CASE k = n BY <2>1, <3>1
    <3>2. CASE k # n
      <4>1. k \in 0 .. (n - 1) /\ f[k] \in Nat BY <3>2
      <4> QED BY <2>1, <4>1
    <3> QED BY <3>1, <3>2
  <2> QED BY <2>1, <2>2
<1> HIDE DEF U
<1>3. m \in U
  BY <1>1, <1>2, NatSetInduction
<1> QED BY <1>3 DEF U

\* Changing one term changes the sum by the same amount.
LEMMA SumUpdate ==
  ASSUME NEW f, NEW g, NEW m \in Nat, NEW i \in 0 .. (m - 1),
         \A k \in 0 .. (m - 1) : f[k] \in Int /\ g[k] \in Int,
         \A k \in 0 .. (m - 1) : k # i => g[k] = f[k]
  PROVE  /\ SumTo(f, m) \in Int
         /\ SumTo(g, m) = SumTo(f, m) - f[i] + g[i]
<1> DEFINE U == {n \in Nat : n <= m =>
                   /\ SumTo(f, n) \in Int /\ SumTo(g, n) \in Int
                   /\ SumTo(g, n) = SumTo(f, n) + (IF i < n THEN g[i] - f[i] ELSE 0)}
<1>1. 0 \in U
  BY SumZero
<1>2. \A n \in Nat : n \in U => n + 1 \in U
  <2> SUFFICES ASSUME NEW n \in Nat, n + 1 <= m, n \in U
               PROVE  /\ SumTo(f, n + 1) \in Int /\ SumTo(g, n + 1) \in Int
                      /\ SumTo(g, n + 1) = SumTo(f, n + 1)
                           + (IF i < n + 1 THEN g[i] - f[i] ELSE 0)
    OBVIOUS
  <2>1. /\ SumTo(f, n) \in Int /\ SumTo(g, n) \in Int
        /\ SumTo(g, n) = SumTo(f, n) + (IF i < n THEN g[i] - f[i] ELSE 0)
    OBVIOUS
  <2>2. /\ SumTo(f, n + 1) = SumTo(f, n) + f[n]
        /\ SumTo(g, n + 1) = SumTo(g, n) + g[n]
    BY <2>1, SumStep
  <2>3. n \in 0 .. (m - 1) /\ f[n] \in Int /\ g[n] \in Int
        /\ f[i] \in Int /\ g[i] \in Int /\ (n # i => g[n] = f[n])
    OBVIOUS
  <2>4. CASE n = i BY <2>1, <2>2, <2>3, <2>4
  <2>5. CASE n # i BY <2>1, <2>2, <2>3, <2>5
  <2> QED BY <2>4, <2>5
<1> HIDE DEF U
<1>3. m \in U
  BY <1>1, <1>2, NatSetInduction
<1> QED BY <1>3 DEF U

\* Sums of naturals are monotone in their terms.
LEMMA SumMonotone ==
  ASSUME NEW f, NEW g, NEW m \in Nat,
         \A k \in 0 .. (m - 1) : f[k] \in Nat /\ g[k] \in Nat /\ f[k] <= g[k]
  PROVE  SumTo(f, m) <= SumTo(g, m)
<1> DEFINE U == {n \in Nat : n <= m =>
                   /\ SumTo(f, n) \in Nat /\ SumTo(g, n) \in Nat
                   /\ SumTo(f, n) <= SumTo(g, n)}
<1>1. 0 \in U
  BY SumZero
<1>2. \A n \in Nat : n \in U => n + 1 \in U
  <2> SUFFICES ASSUME NEW n \in Nat, n + 1 <= m, n \in U
               PROVE  /\ SumTo(f, n + 1) \in Nat /\ SumTo(g, n + 1) \in Nat
                      /\ SumTo(f, n + 1) <= SumTo(g, n + 1)
    OBVIOUS
  <2>1. /\ SumTo(f, n) \in Nat /\ SumTo(g, n) \in Nat
        /\ SumTo(f, n) <= SumTo(g, n)
    OBVIOUS
  <2>2. /\ SumTo(f, n + 1) = SumTo(f, n) + f[n]
        /\ SumTo(g, n + 1) = SumTo(g, n) + g[n]
    BY <2>1, SumStep
  <2>3. f[n] \in Nat /\ g[n] \in Nat /\ f[n] <= g[n]
    OBVIOUS
  <2> QED BY <2>1, <2>2, <2>3
<1> HIDE DEF U
<1>3. m \in U
  BY <1>1, <1>2, NatSetInduction
<1> QED BY <1>3 DEF U

\* A sum whose terms are all zero is zero.
LEMMA SumOfZeros ==
  ASSUME NEW f, NEW m \in Nat, \A k \in 0 .. (m - 1) : f[k] = 0
  PROVE  SumTo(f, m) = 0
<1> DEFINE U == {n \in Nat : n <= m => SumTo(f, n) = 0}
<1>1. 0 \in U
  BY SumZero
<1>2. \A n \in Nat : n \in U => n + 1 \in U
  <2> SUFFICES ASSUME NEW n \in Nat, n + 1 <= m, SumTo(f, n) = 0
               PROVE  SumTo(f, n + 1) = 0
    OBVIOUS
  <2> QED BY SumStep
<1> HIDE DEF U
<1>3. m \in U
  BY <1>1, <1>2, NatSetInduction
<1> QED BY <1>3 DEF U

\* A weighted difference of two sums, bounded term by term.
LEMMA SumOfDifferences ==
  ASSUME NEW f, NEW g, NEW h, NEW m \in Nat, NEW t \in Int,
         \A k \in 0 .. (m - 1) : /\ f[k] \in Int /\ g[k] \in Int /\ h[k] \in Int
                                 /\ t * f[k] - g[k] <= h[k]
  PROVE  t * SumTo(f, m) - SumTo(g, m) <= SumTo(h, m)
<1> DEFINE U == {n \in Nat : n <= m =>
                   /\ SumTo(f, n) \in Int /\ SumTo(g, n) \in Int /\ SumTo(h, n) \in Int
                   /\ t * SumTo(f, n) - SumTo(g, n) <= SumTo(h, n)}
<1>1. 0 \in U
  BY SumZero
<1>2. \A n \in Nat : n \in U => n + 1 \in U
  <2> SUFFICES ASSUME NEW n \in Nat, n + 1 <= m, n \in U
               PROVE  /\ SumTo(f, n + 1) \in Int /\ SumTo(g, n + 1) \in Int
                      /\ SumTo(h, n + 1) \in Int
                      /\ t * SumTo(f, n + 1) - SumTo(g, n + 1) <= SumTo(h, n + 1)
    OBVIOUS
  <2>1. /\ SumTo(f, n) \in Int /\ SumTo(g, n) \in Int /\ SumTo(h, n) \in Int
        /\ t * SumTo(f, n) - SumTo(g, n) <= SumTo(h, n)
    OBVIOUS
  <2>2. /\ SumTo(f, n + 1) = SumTo(f, n) + f[n] /\ SumTo(g, n + 1) = SumTo(g, n) + g[n]
        /\ SumTo(h, n + 1) = SumTo(h, n) + h[n]
    BY <2>1, SumStep
  <2>3. /\ f[n] \in Int /\ g[n] \in Int /\ h[n] \in Int /\ t * f[n] - g[n] <= h[n]
    OBVIOUS
  <2>4. t * SumTo(f, n + 1) = t * SumTo(f, n) + t * f[n]
    BY <2>1, <2>2, <2>3
  <2>5. t * SumTo(f, n) \in Int /\ t * f[n] \in Int
    BY <2>1, <2>3
  <2> QED BY <2>1, <2>2, <2>3, <2>4, <2>5
<1> HIDE DEF U
<1>3. m \in U
  BY <1>1, <1>2, NatSetInduction
<1> QED BY <1>3 DEF U

\* Two pairs of sums whose terms differ alike differ alike.
LEMMA SumsDifferAlike ==
  ASSUME NEW f, NEW g, NEW u, NEW v, NEW m \in Nat,
         \A k \in 0 .. (m - 1) : /\ f[k] \in Int /\ g[k] \in Int
                                 /\ u[k] \in Int /\ v[k] \in Int
                                 /\ f[k] - g[k] = u[k] - v[k]
  PROVE  SumTo(f, m) - SumTo(g, m) = SumTo(u, m) - SumTo(v, m)
<1> DEFINE U == {n \in Nat : n <= m =>
                   /\ SumTo(f, n) \in Int /\ SumTo(g, n) \in Int
                   /\ SumTo(u, n) \in Int /\ SumTo(v, n) \in Int
                   /\ SumTo(f, n) - SumTo(g, n) = SumTo(u, n) - SumTo(v, n)}
<1>1. 0 \in U
  BY SumZero
<1>2. \A n \in Nat : n \in U => n + 1 \in U
  <2> SUFFICES ASSUME NEW n \in Nat, n + 1 <= m, n \in U
               PROVE  /\ SumTo(f, n + 1) \in Int /\ SumTo(g, n + 1) \in Int
                      /\ SumTo(u, n + 1) \in Int /\ SumTo(v, n + 1) \in Int
                      /\ SumTo(f, n + 1) - SumTo(g, n + 1)
                           = SumTo(u, n + 1) - SumTo(v, n + 1)
    OBVIOUS
  <2>1. /\ SumTo(f, n) \in Int /\ SumTo(g, n) \in Int
        /\ SumTo(u, n) \in Int /\ SumTo(v, n) \in Int
        /\ SumTo(f, n) - SumTo(g, n) = SumTo(u, n) - SumTo(v, n)
    OBVIOUS
  <2>2. /\ SumTo(f, n + 1) = SumTo(f, n) + f[n] /\ SumTo(g, n + 1) = SumTo(g, n) + g[n]
        /\ SumTo(u, n + 1) = SumTo(u, n) + u[n] /\ SumTo(v, n + 1) = SumTo(v, n) + v[n]
    BY <2>1, SumStep
  <2>3. /\ f[n] \in Int /\ g[n] \in Int /\ u[n] \in Int /\ v[n] \in Int
        /\ f[n] - g[n] = u[n] - v[n]
    OBVIOUS
  <2> QED BY <2>1, <2>2, <2>3
<1> HIDE DEF U
<1>3. m \in U
  BY <1>1, <1>2, NatSetInduction
<1> QED BY <1>3 DEF U

-----------------------------------------------------------------------------
(* The heap: what goes in comes out.                                       *)

LEMMA FillKeeps ==
  ASSUME NEW E, NEW s, s.heap \in Seq(E), NEW e \in E
  PROVE  Fill(s, e) \in Seq(E) /\ Len(Fill(s, e)) = Len(s.heap)
<1>1. CASE s.at \in 1 .. Len(s.heap)
  BY <1>1, ExceptSeq DEF Fill
<1>2. CASE s.at \notin 1 .. Len(s.heap)
  <2>1. DOMAIN s.heap = 1 .. Len(s.heap)
    OBVIOUS
  <2>2. [s.heap EXCEPT ![s.at] = e] = s.heap
    BY <1>2, <2>1
  <2> QED BY <2>2 DEF Fill
<1> QED BY <1>1, <1>2

\* A move fills the vacancy with an entry of the heap and vacates its place.
LEMMA MoveKeeps ==
  ASSUME NEW E, E \subseteq Nat, NEW s \in Sifts, s.heap \in Seq(E),
         s.at \in 1 .. Len(s.heap), NEW c \in 1 .. Len(s.heap)
  PROVE  /\ MoveInto(s, c) \in Sifts /\ MoveInto(s, c).heap \in Seq(E)
         /\ MoveInto(s, c).at \in 1 .. Len(MoveInto(s, c).heap)
<1> DEFINE h == [s.heap EXCEPT ![s.at] = s.heap[c]]
<1>1. s.heap[c] \in E
  BY ElementOfSeq
<1>2. h \in Seq(E) /\ Len(h) = Len(s.heap)
  BY <1>1, ExceptSeq
<1>3. h \in Seq(Nat)
  BY <1>2, SeqMonotonic
<1> HIDE DEF h
<1>4. MoveInto(s, c) = [heap |-> h, at |-> c]
  BY DEF MoveInto, h
<1> QED BY <1>2, <1>3, <1>4 DEF Sifts

\* What every sift keeps: entries of E, and the vacancy within the heap.
SiftsOver(E) == {s \in Sifts : s.heap \in Seq(E) /\ s.at \in 1 .. Len(s.heap)}

LEMMA PushKeeps ==
  ASSUME NEW E, E \subseteq Nat, NEW h \in Seq(E), NEW e \in E
  PROVE  PushMaturity(h, e) \in Seq(E)
<1> DEFINE F == [s \in Sifts |-> SiftUp(s, e)]
           start == [heap |-> Append(h, e), at |-> Len(h) + 1]
<1>1. start \in SiftsOver(E)
  <2>1. Append(h, e) \in Seq(E) /\ Len(Append(h, e)) = Len(h) + 1
    BY AppendProperties
  <2>2. Append(h, e) \in Seq(Nat)
    BY <2>1, SeqMonotonic
  <2>3. start.at \in Nat /\ start.at \in 1 .. Len(Append(h, e))
    BY <2>1, LenProperties
  <2> QED BY <2>1, <2>2, <2>3 DEF SiftsOver, Sifts
<1>2. \A s \in SiftsOver(E) : F[s] \in SiftsOver(E)
  <2> SUFFICES ASSUME NEW s \in SiftsOver(E) PROVE SiftUp(s, e) \in SiftsOver(E)
    BY DEF SiftsOver
  <2>1. CASE s.at = 1 \/ s.heap[s.at \div 2] <= e
    BY <2>1 DEF SiftUp
  <2>2. CASE ~(s.at = 1 \/ s.heap[s.at \div 2] <= e)
    <3>1. s.at \div 2 \in 1 .. Len(s.heap)
      BY <2>2 DEF SiftsOver
    <3>2. SiftUp(s, e) = MoveInto(s, s.at \div 2)
      BY <2>2 DEF SiftUp
    <3> QED BY <3>1, <3>2, MoveKeeps DEF SiftsOver
  <2> QED BY <2>1, <2>2
<1> HIDE DEF F, start
<1>3. Iterate(F, start, Len(h)) \in SiftsOver(E)
  <2>1. Len(h) \in Nat
    BY LenProperties
  <2> QED BY <1>1, <1>2, <2>1, IterateInvariant
<1>4. Fill(Iterate(F, start, Len(h)), e) \in Seq(E)
  BY <1>3, FillKeeps DEF SiftsOver
<1> QED BY <1>4 DEF PushMaturity, F, start

\* A heap without its last entry.
LEMMA RestOfHeap ==
  ASSUME NEW E, NEW h \in Seq(E), Len(h) \in Nat \ {0}
  PROVE  LET rest == SubSeq(h, 1, Len(h) - 1)
         IN  /\ rest \in Seq(E) /\ Len(rest) = Len(h) - 1
             /\ \A c \in 1 .. (Len(h) - 1) : rest[c] = h[c]
<1> DEFINE n == Len(h) - 1
<1>1. n \in Nat /\ \A i \in 1 .. n : h[i] \in E
  BY ElementOfSeq
<1> HIDE DEF n
<1>2. SubSeq(h, 1, n) \in Seq(E)
  BY <1>1, SubSeqProperties
<1>3. PICK k : k = Len(SubSeq(h, 1, n))
  OBVIOUS
<1>4. k = IF 1 <= n THEN n - 1 + 1 ELSE 0
  BY <1>1, <1>3, SubSeqProperties
<1>5. k = n
  BY <1>1, <1>4
<1>6. \A c \in 1 .. n : SubSeq(h, 1, n)[c] = h[c]
  BY <1>1, <1>2, <1>3, <1>5, SubSeqProperties
<1> QED BY <1>2, <1>3, <1>5, <1>6 DEF n

LEMMA PopKeeps ==
  ASSUME NEW E, E \subseteq Nat, NEW h \in Seq(E), h # <<>>
  PROVE  PopMaturity(h) \in Seq(E)
<1> DEFINE last == h[Len(h)]
           rest == SubSeq(h, 1, Len(h) - 1)
           F == [s \in Sifts |-> SiftDown(s, last)]
           start == [heap |-> rest, at |-> 1]
<1>1. Len(h) \in Nat \ {0}
  BY EmptySeq
<1>2. last \in E
  BY <1>1, ElementOfSeq
<1>3. rest \in Seq(E) /\ Len(rest) = Len(h) - 1
  <2> HIDE DEF F, start, last
  <2> QED BY <1>1, RestOfHeap
<1> HIDE DEF last, rest
<1>4. CASE rest = <<>>
  BY <1>4 DEF PopMaturity, rest
<1>5. CASE rest # <<>>
  <2>1. start \in SiftsOver(E)
    <3>1. Len(rest) \in Nat \ {0}
      BY <1>3, <1>5, EmptySeq
    <3>2. rest \in Seq(Nat)
      BY <1>3, SeqMonotonic
    <3> QED BY <1>3, <3>1, <3>2 DEF SiftsOver, Sifts
  <2>2. \A s \in SiftsOver(E) : F[s] \in SiftsOver(E)
    <3> SUFFICES ASSUME NEW s \in SiftsOver(E) PROVE SiftDown(s, last) \in SiftsOver(E)
      BY DEF SiftsOver
    <3> DEFINE c == SmallestChild(s.heap, s.at)
    <3>1. CASE 2 * s.at > Len(s.heap) \/ s.heap[c] >= last
      BY <3>1 DEF SiftDown
    <3>2. CASE ~(2 * s.at > Len(s.heap) \/ s.heap[c] >= last)
      <4>1. c \in 1 .. Len(s.heap)
        BY <3>2 DEF SiftsOver, SmallestChild
      <4>2. SiftDown(s, last) = MoveInto(s, c)
        BY <3>2 DEF SiftDown
      <4> HIDE DEF c
      <4> QED BY <4>1, <4>2, MoveKeeps DEF SiftsOver
    <3> QED BY <3>1, <3>2
  <2> HIDE DEF F, start
  <2>3. Iterate(F, start, Len(rest)) \in SiftsOver(E)
    BY <1>3, <2>1, <2>2, IterateInvariant, LenProperties
  <2>4. Fill(Iterate(F, start, Len(rest)), last) \in Seq(E)
    BY <1>2, <2>3, FillKeeps DEF SiftsOver
  <2> QED BY <1>5, <2>4 DEF PopMaturity, F, start, last, rest
<1> QED BY <1>4, <1>5

-----------------------------------------------------------------------------
(* Swaps.                                                                  *)

Swap(g, a, b) == [g EXCEPT ![a] = g[b], ![b] = g[a]]

Distinct(g) == \A i, j \in 1 .. Len(g) : g[i] = g[j] => i = j

LEMMA SwapKeeps ==
  ASSUME NEW g \in Seq(Nat), NEW a \in 1 .. Len(g), NEW b \in 1 .. Len(g)
  PROVE  /\ Swap(g, a, b) \in Seq(Nat) /\ Len(Swap(g, a, b)) = Len(g)
         /\ Entries(Swap(g, a, b)) = Entries(g)
         /\ Distinct(g) => Distinct(Swap(g, a, b))
         /\ \A c \in 1 .. Len(g) :
              Swap(g, a, b)[c] = IF c = b THEN g[a] ELSE IF c = a THEN g[b] ELSE g[c]
<1> DEFINE h == Swap(g, a, b)
<1>1. g[a] \in Nat /\ g[b] \in Nat
  BY ElementOfSeq
<1>2. h \in Seq(Nat) /\ Len(h) = Len(g)
  <2> DEFINE f == [g EXCEPT ![a] = g[b]]
  <2>1. f \in Seq(Nat) /\ Len(f) = Len(g)
    BY <1>1, ExceptSeq
  <2>2. h = [f EXCEPT ![b] = g[a]]
    BY DEF Swap
  <2> HIDE DEF f
  <2>3. [f EXCEPT ![b] = g[a]] \in Seq(Nat) /\ Len([f EXCEPT ![b] = g[a]]) = Len(f)
    BY <1>1, <2>1, ExceptSeq
  <2> QED BY <2>1, <2>2, <2>3
<1>3. \A c \in 1 .. Len(g) : h[c] = IF c = b THEN g[a] ELSE IF c = a THEN g[b] ELSE g[c]
  <2>1. DOMAIN g = 1 .. Len(g)
    OBVIOUS
  <2> QED BY <2>1 DEF Swap
<1> HIDE DEF h
<1> DEFINE to(c) == IF c = b THEN a ELSE IF c = a THEN b ELSE c
<1>4. \A c \in 1 .. Len(g) : to(c) \in 1 .. Len(g) /\ h[c] = g[to(c)] /\ to(to(c)) = c
  BY <1>3
<1> HIDE DEF to
<1>5. Entries(h) = Entries(g)
  <2>1. \A c \in 1 .. Len(g) : h[c] \in Entries(g)
    BY <1>4 DEF Entries
  <2>2. \A c \in 1 .. Len(g) : g[c] \in Entries(h)
    <3> TAKE c \in 1 .. Len(g)
    <3>1. to(c) \in 1 .. Len(g) /\ h[to(c)] = g[c]
      BY <1>4
    <3> QED BY <1>2, <3>1 DEF Entries
  <2> QED BY <1>2, <2>1, <2>2 DEF Entries
<1>6. ASSUME Distinct(g) PROVE Distinct(h)
  <2> SUFFICES ASSUME NEW i \in 1 .. Len(g), NEW j \in 1 .. Len(g), h[i] = h[j]
               PROVE  i = j
    BY <1>2 DEF Distinct
  <2>1. to(i) = to(j)
    <3>1. g[to(i)] = g[to(j)] /\ to(i) \in 1 .. Len(g) /\ to(j) \in 1 .. Len(g)
      BY <1>4
    <3> QED BY <1>6, <3>1 DEF Distinct
  <2>2. to(to(i)) = i /\ to(to(j)) = j
    BY <1>4
  <2> QED BY <2>1, <2>2
<1> QED BY <1>2, <1>3, <1>5, <1>6 DEF h

\* Moving an entry into the vacancy swaps it with the one that is being sifted.
LEMMA MoveSwaps ==
  ASSUME NEW s \in SiftsOver(Nat), NEW e \in Nat, NEW c \in 1 .. Len(s.heap), c # s.at
  PROVE  Fill(MoveInto(s, c), e) = Swap(Fill(s, e), s.at, c)
<1>1. DOMAIN s.heap = 1 .. Len(s.heap) /\ s.at \in 1 .. Len(s.heap)
  BY DEF SiftsOver
<1> QED BY <1>1 DEF Fill, MoveInto, Swap

\* Outside the vacancy nothing has changed, and in it is the entry.
LEMMA FillAt ==
  ASSUME NEW s \in SiftsOver(Nat), NEW e \in Nat
  PROVE  /\ Fill(s, e) \in Seq(Nat) /\ Len(Fill(s, e)) = Len(s.heap)
         /\ s.at \in 1 .. Len(s.heap) /\ Fill(s, e)[s.at] = e
         /\ \A c \in 1 .. Len(s.heap) : c # s.at => Fill(s, e)[c] = s.heap[c]
<1>1. DOMAIN s.heap = 1 .. Len(s.heap) /\ s.at \in 1 .. Len(s.heap)
  BY DEF SiftsOver
<1>2. Fill(s, e) \in Seq(Nat) /\ Len(Fill(s, e)) = Len(s.heap)
  BY FillKeeps DEF SiftsOver
<1> QED BY <1>1, <1>2 DEF Fill

\* Places around a place of the heap.
LEMMA ParentPlace ==
  ASSUME NEW n \in Nat, NEW c \in 1 .. n, c # 1
  PROVE  c \div 2 \in 1 .. n /\ c \div 2 < c /\ c \div 2 # c
OBVIOUS

LEMMA RightChildPlace ==
  ASSUME NEW n \in Nat, NEW c \in 1 .. n, 2 * c < n
  PROVE  2 * c + 1 \in 1 .. n /\ 2 * c + 1 # c
OBVIOUS

\* The root is the smallest entry.
LEMMA RootIsSmallest ==
  ASSUME NEW h \in Seq(Nat), HeapOrdered(h)
  PROVE  \A c \in 1 .. Len(h) : h[1] <= h[c]
<1> DEFINE T == {c \in 1 .. Len(h) : ~(h[1] <= h[c])}
<1>1. SUFFICES ASSUME T # {} PROVE FALSE
  OBVIOUS
<1>2. PICK c \in T : \A d \in T : c <= d
  <2>1. T \subseteq Nat
    OBVIOUS
  <2> HIDE DEF T
  <2> QED BY <1>1, <2>1, NatMinimal
<1>3. \A d \in 1 .. Len(h) : h[d] \in Nat
  BY ElementOfSeq
<1>4. c \in 2 .. Len(h) /\ 1 \in 1 .. Len(h)
  BY <1>2, <1>3
<1>5. c \div 2 \in 1 .. Len(h) /\ c \div 2 < c
  BY <1>4
<1>6. h[1] <= h[c \div 2]
  BY <1>2, <1>5
<1>7. h[c \div 2] <= h[c]
  BY <1>4 DEF HeapOrdered
<1>8. h[1] <= h[c]
  BY <1>3, <1>4, <1>5, <1>6, <1>7
<1> QED BY <1>2, <1>8

-----------------------------------------------------------------------------
(* Sifting up.                                                             *)

\* Sifting e up through g: the only entry that may be smaller than its parent is at
\* the vacancy, and what is below the vacancy is not smaller than what is above it.
OrderedButUp(g, at) ==
  /\ \A c \in 2 .. Len(g) : c # at => g[c \div 2] <= g[c]
  /\ at >= 2 => \A c \in 2 .. Len(g) : c \div 2 = at => g[at \div 2] <= g[c]

UpDone(g, at) == at = 1 \/ g[at \div 2] <= g[at]

LEMMA UpDoneOrdered ==
  ASSUME NEW g \in Seq(Nat), NEW at \in 1 .. Len(g), OrderedButUp(g, at), UpDone(g, at)
  PROVE  HeapOrdered(g)
BY DEF OrderedButUp, UpDone, HeapOrdered

LEMMA UpSwap ==
  ASSUME NEW g \in Seq(Nat), NEW at \in 1 .. Len(g), OrderedButUp(g, at), ~UpDone(g, at)
  PROVE  /\ at \div 2 \in 1 .. Len(g) /\ at \div 2 < at
         /\ OrderedButUp(Swap(g, at, at \div 2), at \div 2)
<1>1. Len(g) \in Nat /\ \A c \in 1 .. Len(g) : g[c] \in Nat
  BY LenProperties, ElementOfSeq
<1> DEFINE p == at \div 2
           h == Swap(g, at, p)
<1>2. p \in 1 .. Len(g) /\ p < at /\ at \in 2 .. Len(g) /\ g[at] < g[p]
  <2>1. at # 1 /\ ~(g[p] <= g[at])
    BY DEF UpDone
  <2>2. p \in 1 .. Len(g) /\ p < at
    BY <1>1, <2>1, ParentPlace
  <2>3. at \in 2 .. Len(g)
    BY <1>1, <2>1
  <2> HIDE DEF p
  <2> QED BY <1>1, <2>1, <2>2, <2>3
<1>3. /\ Len(h) = Len(g)
      /\ \A c \in 1 .. Len(g) : h[c] = IF c = p THEN g[at] ELSE IF c = at THEN g[p] ELSE g[c]
  <2>1. p \in 1 .. Len(g) /\ p # at
    BY <1>1, <1>2
  <2> HIDE DEF p
  <2> QED BY <2>1, SwapKeeps
<1> HIDE DEF h
<1>4. ASSUME NEW c \in 2 .. Len(g), c # p
      PROVE  h[c \div 2] <= h[c]
  <2>1. c \div 2 \in 1 .. Len(g) /\ c \div 2 # c /\ c \in 1 .. Len(g)
    BY <1>1
  <2>2. CASE c = at
    BY <1>1, <1>2, <1>3, <2>1, <2>2
  <2>3. CASE c # at /\ c \div 2 = at
    <3>1. g[p] <= g[c]
      BY <1>2, <2>3 DEF OrderedButUp
    <3> QED BY <1>2, <1>3, <1>4, <2>1, <2>3, <3>1
  <2>4. CASE c # at /\ c \div 2 = p
    <3>1. g[p] <= g[c]
      BY <2>4 DEF OrderedButUp
    <3>2. h[c] = g[c] /\ h[p] = g[at]
      BY <1>2, <1>3, <1>4, <2>1, <2>4
    <3>3. g[p] \in Nat /\ g[at] \in Nat /\ g[c] \in Nat /\ g[at] < g[p]
      BY <1>1, <1>2, <2>1
    <3>4. g[at] <= g[c]
      BY <3>1, <3>3
    <3>5. h[c \div 2] = g[at]
      BY <2>4, <3>2
    <3> QED BY <3>2, <3>4, <3>5
  <2>5. CASE c # at /\ c \div 2 # at /\ c \div 2 # p
    <3>1. g[c \div 2] <= g[c]
      BY <2>5 DEF OrderedButUp
    <3> QED BY <1>2, <1>3, <1>4, <2>1, <2>5, <3>1
  <2> QED BY <2>2, <2>3, <2>4, <2>5
<1>5. ASSUME p >= 2, NEW c \in 2 .. Len(g), c \div 2 = p
      PROVE  h[p \div 2] <= h[c]
  <2> DEFINE q == p \div 2
  <2>1. q \in 1 .. Len(g) /\ q # p /\ q # at /\ p \in 2 .. Len(g) /\ p # at
    BY <1>1, <1>2, <1>5
  <2>2. g[q] <= g[p]
    BY <2>1 DEF OrderedButUp
  <2> HIDE DEF q
  <2>3. c \in 1 .. Len(g) /\ c # p
    BY <1>1, <1>5
  <2>4. CASE c = at
    BY <1>2, <1>3, <2>1, <2>2, <2>4 DEF q
  <2>5. CASE c # at
    <3>1. g[p] <= g[c]
      BY <1>5, <2>5 DEF OrderedButUp
    <3> HIDE DEF p
    <3>2. h[c] = g[c] /\ h[q] = g[q]
      BY <1>3, <2>1, <2>3, <2>5
    <3>3. g[q] \in Nat /\ g[p] \in Nat /\ g[c] \in Nat
      BY <1>1, <1>2, <2>1, <2>3
    <3> QED BY <2>2, <3>1, <3>2, <3>3 DEF q
  <2> QED BY <2>4, <2>5
<1> QED BY <1>2, <1>3, <1>4, <1>5 DEF OrderedButUp, h

-----------------------------------------------------------------------------
(* Sifting down.                                                           *)

\* Sifting down: only the children of the vacancy may be smaller than their parent,
\* and they are not smaller than what is above it.
OrderedButDown(g, at) ==
  /\ \A c \in 2 .. Len(g) : c \div 2 # at => g[c \div 2] <= g[c]
  /\ at >= 2 => \A c \in 2 .. Len(g) : c \div 2 = at => g[at \div 2] <= g[c]

DownDone(g, at) == 2 * at > Len(g) \/ g[SmallestChild(g, at)] >= g[at]

LEMMA SmallestChildIs ==
  ASSUME NEW g \in Seq(Nat), NEW at \in 1 .. Len(g), 2 * at <= Len(g)
  PROVE  /\ SmallestChild(g, at) \in 2 .. Len(g) /\ SmallestChild(g, at) \div 2 = at
         /\ SmallestChild(g, at) > at
         /\ \A c \in 2 .. Len(g) : c \div 2 = at => g[SmallestChild(g, at)] <= g[c]
<1>1. Len(g) \in Nat /\ \A c \in 1 .. Len(g) : g[c] \in Nat
  BY LenProperties, ElementOfSeq
<1> DEFINE m == SmallestChild(g, at)
<1>2. m \in 2 .. Len(g) /\ m \div 2 = at /\ m > at
  BY <1>1 DEF SmallestChild
<1>3. ASSUME NEW c \in 2 .. Len(g), c \div 2 = at PROVE g[m] <= g[c]
  <2>1. c = 2 * at \/ c = 2 * at + 1
    BY <1>1, <1>3
  <2>2. g[c] \in Nat /\ g[2 * at] \in Nat
    BY <1>1
  <2>3. CASE c = 2 * at
    BY <1>1, <2>2, <2>3 DEF SmallestChild
  <2>4. CASE c = 2 * at + 1
    BY <1>1, <2>2, <2>4 DEF SmallestChild
  <2> QED BY <2>1, <2>3, <2>4
<1> QED BY <1>2, <1>3

LEMMA DownDoneOrdered ==
  ASSUME NEW g \in Seq(Nat), NEW at \in 1 .. Len(g), OrderedButDown(g, at), DownDone(g, at)
  PROVE  HeapOrdered(g)
<1>1. Len(g) \in Nat /\ \A c \in 1 .. Len(g) : g[c] \in Nat
  BY LenProperties, ElementOfSeq
<1> SUFFICES ASSUME NEW c \in 2 .. Len(g), c \div 2 = at PROVE g[c \div 2] <= g[c]
  BY DEF OrderedButDown, HeapOrdered
<1>2. 2 * at <= Len(g)
  BY <1>1
<1> DEFINE m == SmallestChild(g, at)
<1>3. m \in 2 .. Len(g) /\ g[m] <= g[c] /\ g[m] >= g[at]
  <2>1. m \in 2 .. Len(g) /\ g[m] <= g[c]
    BY <1>2, SmallestChildIs
  <2>2. ~(2 * at > Len(g))
    BY <1>1, <1>2
  <2> QED BY <2>1, <2>2 DEF DownDone
<1> HIDE DEF m
<1>4. g[m] \in Nat /\ g[c] \in Nat /\ g[at] \in Nat
  BY <1>1, <1>3
<1> QED BY <1>3, <1>4

LEMMA DownSwap ==
  ASSUME NEW g \in Seq(Nat), NEW at \in 1 .. Len(g), OrderedButDown(g, at), ~DownDone(g, at)
  PROVE  /\ SmallestChild(g, at) \in 1 .. Len(g) /\ SmallestChild(g, at) > at
         /\ OrderedButDown(Swap(g, at, SmallestChild(g, at)), SmallestChild(g, at))
<1>1. Len(g) \in Nat /\ \A c \in 1 .. Len(g) : g[c] \in Nat
  BY LenProperties, ElementOfSeq
<1> DEFINE m == SmallestChild(g, at)
           h == Swap(g, at, m)
<1>2. /\ m \in 2 .. Len(g) /\ m \div 2 = at /\ m > at /\ g[m] < g[at]
      /\ \A c \in 2 .. Len(g) : c \div 2 = at => g[m] <= g[c]
  <2>1. 2 * at <= Len(g) /\ ~(g[m] >= g[at])
    BY <1>1 DEF DownDone
  <2>2. /\ m \in 2 .. Len(g) /\ m \div 2 = at /\ m > at
        /\ \A c \in 2 .. Len(g) : c \div 2 = at => g[m] <= g[c]
    BY <2>1, SmallestChildIs
  <2> HIDE DEF m
  <2>3. g[m] \in Nat /\ g[at] \in Nat
    BY <1>1, <2>2
  <2> QED BY <2>1, <2>2, <2>3
<1> HIDE DEF m
<1>3. /\ Len(h) = Len(g)
      /\ \A c \in 1 .. Len(g) : h[c] = IF c = m THEN g[at] ELSE IF c = at THEN g[m] ELSE g[c]
  <2>1. m \in 1 .. Len(g)
    BY <1>2
  <2> QED BY <2>1, SwapKeeps
<1> HIDE DEF h
<1>4. ASSUME NEW c \in 2 .. Len(g), c \div 2 # m
      PROVE  h[c \div 2] <= h[c]
  <2>1. c \div 2 \in 1 .. Len(g) /\ c \div 2 # c /\ c \in 1 .. Len(g) /\ m \in 1 .. Len(g)
    BY <1>1, <1>2
  <2>2. CASE c \div 2 = at
    <3>1. h[at] = g[m] /\ g[m] <= g[c]
      BY <1>2, <1>3, <2>2
    <3>2. h[c] = IF c = m THEN g[at] ELSE g[c]
      BY <1>3, <2>1, <2>2
    <3>3. g[m] \in Nat /\ g[at] \in Nat /\ g[c] \in Nat
      BY <1>1, <2>1
    <3> QED BY <1>2, <2>2, <3>1, <3>2, <3>3
  <2>3. CASE c \div 2 # at /\ c = at
    <3>1. g[at \div 2] <= g[m]
      BY <1>2, <2>3 DEF OrderedButDown
    <3> QED BY <1>2, <1>3, <1>4, <2>1, <2>3, <3>1
  <2>4. CASE c \div 2 # at /\ c # at
    <3>1. g[c \div 2] <= g[c]
      BY <2>4 DEF OrderedButDown
    <3>2. c # m
      BY <1>2, <2>4
    <3> QED BY <1>3, <1>4, <2>1, <2>4, <3>1, <3>2
  <2> QED BY <2>2, <2>3, <2>4
<1>5. ASSUME NEW c \in 2 .. Len(g), c \div 2 = m
      PROVE  h[m \div 2] <= h[c]
  <2>1. c \in 1 .. Len(g) /\ c # m /\ c # at
    BY <1>1, <1>2, <1>5
  <2>2. g[m] <= g[c]
    BY <1>2, <1>5 DEF OrderedButDown
  <2> QED BY <1>2, <1>3, <2>1, <2>2
<1> QED BY <1>2, <1>3, <1>4, <1>5 DEF OrderedButDown, h, m

-----------------------------------------------------------------------------
(* The loops.                                                              *)

\* A sift of e through a heap of m places that holds the set of entries E.
Sifting(m, E, e) ==
  {s \in SiftsOver(Nat) :
     Len(s.heap) = m /\ Entries(Fill(s, e)) = E /\ Distinct(Fill(s, e))}

LEMMA MoveSifts ==
  ASSUME NEW m, NEW E, NEW e \in Nat, NEW s \in Sifting(m, E, e),
         NEW c \in 1 .. Len(s.heap), c # s.at
  PROVE  /\ MoveInto(s, c) \in Sifting(m, E, e)
         /\ Fill(MoveInto(s, c), e) = Swap(Fill(s, e), s.at, c)
         /\ MoveInto(s, c).at = c
<1>1. s \in SiftsOver(Nat) /\ s \in Sifts /\ s.heap \in Seq(Nat) /\ s.at \in 1 .. Len(s.heap)
  BY DEF Sifting, SiftsOver
<1>2. /\ MoveInto(s, c) \in Sifts /\ MoveInto(s, c).heap \in Seq(Nat)
      /\ MoveInto(s, c).at \in 1 .. Len(MoveInto(s, c).heap)
  BY <1>1, MoveKeeps
<1>3. Fill(MoveInto(s, c), e) = Swap(Fill(s, e), s.at, c)
  BY <1>1, MoveSwaps
<1>4. Fill(s, e) \in Seq(Nat) /\ Len(Fill(s, e)) = Len(s.heap)
  BY <1>1, FillAt
<1>5. /\ Entries(Swap(Fill(s, e), s.at, c)) = Entries(Fill(s, e))
      /\ Distinct(Fill(s, e)) => Distinct(Swap(Fill(s, e), s.at, c))
      /\ Len(Swap(Fill(s, e), s.at, c)) = Len(s.heap)
  <2>1. PICK g : g = Fill(s, e)
    OBVIOUS
  <2>2. g \in Seq(Nat) /\ s.at \in 1 .. Len(g) /\ c \in 1 .. Len(g) /\ Len(g) = Len(s.heap)
    BY <1>1, <1>4, <2>1
  <2>3. /\ Entries(Swap(g, s.at, c)) = Entries(g)
        /\ Distinct(g) => Distinct(Swap(g, s.at, c))
        /\ Len(Swap(g, s.at, c)) = Len(g)
    BY <2>2, SwapKeeps
  <2> QED BY <2>1, <2>2, <2>3
<1>6. MoveInto(s, c) \in SiftsOver(Nat)
  BY <1>2 DEF SiftsOver
<1>7. Len(Fill(MoveInto(s, c), e)) = Len(MoveInto(s, c).heap)
  BY <1>6, FillAt
<1>8. MoveInto(s, c).at = c
  BY DEF MoveInto
<1> QED BY <1>3, <1>5, <1>6, <1>7, <1>8 DEF Sifting

LEMMA PushResult ==
  ASSUME NEW h \in Seq(Nat), NEW e \in Nat, HeapOrdered(h), Distinct(h), e \notin Entries(h)
  PROVE  /\ PushMaturity(h, e) \in Seq(Nat) /\ HeapOrdered(PushMaturity(h, e))
         /\ Distinct(PushMaturity(h, e))
         /\ Entries(PushMaturity(h, e)) = Entries(h) \cup {e}
         /\ Len(PushMaturity(h, e)) = Len(h) + 1
<1> DEFINE m == Len(h) + 1
           E == Entries(h) \cup {e}
           F == [s \in Sifts |-> SiftUp(s, e)]
           a == Append(h, e)
           start == [heap |-> a, at |-> m]
           W == [n \in Nat |->
                  {s \in Sifting(m, E, e) :
                     /\ OrderedButUp(Fill(s, e), s.at)
                     /\ UpDone(Fill(s, e), s.at) \/ s.at + n <= m}]
<1>1. Len(h) \in Nat /\ \A c \in 1 .. Len(h) : h[c] \in Nat
  BY LenProperties, ElementOfSeq
<1>2. /\ a \in Seq(Nat) /\ Len(a) = m /\ a[m] = e
      /\ \A c \in 1 .. Len(h) : a[c] = h[c]
  BY AppendProperties
<1>3. Entries(a) = E
  <2>1. \A c \in 1 .. m : a[c] \in E
    BY <1>1, <1>2 DEF Entries
  <2>2. \A c \in 1 .. Len(h) : h[c] \in Entries(a)
    BY <1>1, <1>2 DEF Entries
  <2>3. e \in Entries(a)
    BY <1>1, <1>2 DEF Entries
  <2> QED BY <1>2, <2>1, <2>2, <2>3 DEF Entries
<1>4. Distinct(a)
  <2> SUFFICES ASSUME NEW i \in 1 .. m, NEW j \in 1 .. m, a[i] = a[j] PROVE i = j
    BY <1>2 DEF Distinct
  <2>1. \A c \in 1 .. Len(h) : a[c] # e
    BY <1>2 DEF Entries
  <2>2. CASE i \in 1 .. Len(h) /\ j \in 1 .. Len(h)
    BY <1>2, <2>2 DEF Distinct
  <2>3. CASE ~(i \in 1 .. Len(h) /\ j \in 1 .. Len(h))
    BY <1>1, <1>2, <2>1, <2>3
  <2> QED BY <2>2, <2>3
<1>5. OrderedButUp(a, m)
  <2>1. ASSUME NEW c \in 2 .. m, c # m PROVE a[c \div 2] <= a[c]
    <3>1. c \in 2 .. Len(h) /\ c \div 2 \in 1 .. Len(h)
      BY <1>1, <2>1
    <3> QED BY <1>2, <3>1 DEF HeapOrdered
  <2>2. \A c \in 2 .. m : c \div 2 # m
    BY <1>1
  <2> QED BY <1>2, <2>1, <2>2 DEF OrderedButUp
<1> HIDE DEF a, E, m
<1>6. start \in W[0]
  <2>1. m \in 1 .. Len(a) /\ m + 0 <= m
    BY <1>1, <1>2 DEF m
  <2>2. start \in SiftsOver(Nat)
    BY <1>2, <2>1 DEF SiftsOver, Sifts
  <2>3. Fill(start, e) = a
    <3>1. a = [c \in 1 .. Len(a) |-> a[c]]
      BY <1>2
    <3> QED BY <1>2, <2>1, <3>1 DEF Fill
  <2> QED BY <1>2, <1>3, <1>4, <1>5, <2>1, <2>2, <2>3 DEF Sifting
<1>7. ASSUME NEW n \in Nat, NEW s \in W[n] PROVE F[s] \in W[n + 1]
  <2> DEFINE g == Fill(s, e)
  <2>1. /\ s \in Sifting(m, E, e) /\ OrderedButUp(g, s.at)
        /\ UpDone(g, s.at) \/ s.at + n <= m
        /\ s \in Sifts /\ s \in SiftsOver(Nat)
    BY <1>7 DEF Sifting, SiftsOver
  <2>2. /\ g \in Seq(Nat) /\ Len(g) = Len(s.heap)
        /\ s.at \in 1 .. Len(s.heap) /\ g[s.at] = e
        /\ \A c \in 1 .. Len(s.heap) : c # s.at => g[c] = s.heap[c]
    BY <2>1, FillAt
  <2>3. F[s] = SiftUp(s, e)
    BY <2>1
  <2> HIDE DEF g, F
  <2>4. UpDone(g, s.at) <=> (s.at = 1 \/ s.heap[s.at \div 2] <= e)
    <3>1. CASE s.at = 1
      BY <3>1 DEF UpDone
    <3>2. CASE s.at # 1
      <4>1. s.at \div 2 \in 1 .. Len(s.heap) /\ s.at \div 2 # s.at
        <5>1. Len(s.heap) \in Nat
          BY <2>2, LenProperties
        <5> QED BY <2>2, <3>2, <5>1, ParentPlace
      <4> QED BY <2>2, <3>2, <4>1 DEF UpDone
    <3> QED BY <3>1, <3>2
  <2>5. CASE UpDone(g, s.at)
    <3>1. SiftUp(s, e) = s
      BY <2>4, <2>5 DEF SiftUp
    <3> QED BY <2>1, <2>3, <2>5, <3>1 DEF g
  <2>6. CASE ~UpDone(g, s.at)
    <3> DEFINE p == s.at \div 2
               t == MoveInto(s, p)
    <3>1. p \in 1 .. Len(s.heap) /\ p < s.at /\ OrderedButUp(Swap(g, s.at, p), p)
      BY <2>1, <2>2, <2>6, UpSwap
    <3>2. SiftUp(s, e) = t
      BY <2>4, <2>6 DEF SiftUp
    <3>3. s.at \in Nat /\ m \in Nat /\ s.at + n <= m
      BY <1>1, <2>1, <2>2, <2>6 DEF m
    <3> HIDE DEF p
    <3>4. t \in Sifting(m, E, e) /\ Fill(t, e) = Swap(g, s.at, p) /\ t.at = p
      BY <2>1, <2>2, <3>1, MoveSifts DEF g
    <3>5. p + (n + 1) <= m
      BY <2>2, <3>1, <3>3
    <3> HIDE DEF t
    <3> QED BY <2>3, <3>1, <3>2, <3>4, <3>5
  <2> QED BY <2>5, <2>6
<1> DEFINE r == Iterate(F, start, Len(h))
<1>8. r \in W[Len(h)]
  <2> HIDE DEF F, start, W
  <2> QED BY <1>1, <1>6, <1>7, IterateReaches
<1> HIDE DEF r
<1>9. /\ r \in SiftsOver(Nat) /\ Len(r.heap) = m /\ Entries(Fill(r, e)) = E
      /\ Distinct(Fill(r, e)) /\ OrderedButUp(Fill(r, e), r.at)
      /\ UpDone(Fill(r, e), r.at) \/ r.at + Len(h) <= m
  BY <1>1, <1>8 DEF Sifting
<1>10. /\ Fill(r, e) \in Seq(Nat) /\ Len(Fill(r, e)) = m /\ r.at \in 1 .. m
  BY <1>9, FillAt
<1>11. UpDone(Fill(r, e), r.at)
  <2>1. CASE r.at + Len(h) <= m
    <3>1. r.at = 1
      BY <1>1, <1>10, <2>1 DEF m
    <3> QED BY <3>1 DEF UpDone
  <2> QED BY <1>9, <2>1
<1>12. HeapOrdered(Fill(r, e))
  BY <1>9, <1>10, <1>11, UpDoneOrdered
<1>13. PushMaturity(h, e) = Fill(r, e)
  BY DEF PushMaturity, r, F, start, a, m
<1> QED BY <1>9, <1>10, <1>12, <1>13 DEF E, m

LEMMA PopResult ==
  ASSUME NEW h \in Seq(Nat), h # <<>>, HeapOrdered(h), Distinct(h)
  PROVE  /\ PopMaturity(h) \in Seq(Nat) /\ HeapOrdered(PopMaturity(h))
         /\ Distinct(PopMaturity(h))
         /\ Entries(PopMaturity(h)) = Entries(h) \ {h[1]}
         /\ Len(PopMaturity(h)) = Len(h) - 1
<1> DEFINE m == Len(h) - 1
           E == Entries(h) \ {h[1]}
           last == h[Len(h)]
           rest == SubSeq(h, 1, Len(h) - 1)
           F == [s \in Sifts |-> SiftDown(s, last)]
           start == [heap |-> rest, at |-> 1]
           b == Fill(start, last)
           W == [n \in Nat |->
                  {s \in Sifting(m, E, last) :
                     /\ OrderedButDown(Fill(s, last), s.at)
                     /\ DownDone(Fill(s, last), s.at) \/ s.at >= n + 1}]
<1>1. Len(h) \in Nat \ {0} /\ m \in Nat /\ \A c \in 1 .. Len(h) : h[c] \in Nat
  BY EmptySeq, ElementOfSeq
<1>2. last \in Nat
  BY <1>1
<1>3. /\ rest \in Seq(Nat) /\ Len(rest) = m
      /\ \A c \in 1 .. m : rest[c] = h[c]
  BY <1>1, RestOfHeap
<1>4. CASE m = 0
  <2>1. rest = <<>>
    BY <1>3, <1>4, EmptySeq
  <2>2. Entries(h) = {h[1]} /\ Len(h) = 1
    <3>1. Len(h) = 1 /\ 1 .. 1 = {1}
      BY <1>1, <1>4
    <3> HIDE DEF m
    <3> QED BY <3>1 DEF Entries
  <2>3. PopMaturity(h) = <<>>
    BY <2>1 DEF PopMaturity
  <2>4. <<>> \in Seq(Nat) /\ Len(<<>>) = 0
    BY EmptySeq
  <2> QED BY <1>4, <2>2, <2>3, <2>4 DEF Entries, HeapOrdered, Distinct
<1>5. CASE m # 0
  <2>1. 1 \in 1 .. m /\ m + 1 \in 1 .. Len(h) /\ last = h[m + 1] /\ rest # <<>>
    <3>1. 1 \in 1 .. m /\ m + 1 \in 1 .. Len(h) /\ m + 1 = Len(h)
      <4>1. m + 1 = Len(h) /\ m \in Nat
        BY <1>1
      <4> HIDE DEF m
      <4> QED BY <1>5, <4>1
    <3>2. rest # <<>>
      BY <1>3, <1>5, EmptySeq
    <3> HIDE DEF m, rest
    <3> QED BY <3>1, <3>2
  <2> HIDE DEF rest
  <2>2. start \in SiftsOver(Nat)
    BY <1>3, <2>1 DEF SiftsOver, Sifts
  <2>3. /\ b \in Seq(Nat) /\ Len(b) = m
        /\ \A c \in 1 .. m : b[c] = IF c = 1 THEN h[m + 1] ELSE h[c]
    <3>1. /\ b \in Seq(Nat) /\ Len(b) = Len(rest) /\ b[1] = last
          /\ \A c \in 1 .. Len(rest) : c # 1 => b[c] = rest[c]
      BY <1>2, <2>2, FillAt
    <3> QED BY <1>3, <2>1, <3>1
  <2> HIDE DEF b, last
  <2>4. Entries(b) = E
    <3>1. \A c \in 1 .. m : b[c] \in E
      <4> TAKE c \in 1 .. m
      <4>1. PICK d \in 1 .. Len(h) : d # 1 /\ b[c] = h[d]
        <5>1. 1 \in 1 .. Len(h) /\ Len(h) = m + 1 /\ m \in Nat
          BY <1>1, <2>1
        <5>2. CASE c = 1
          BY <2>1, <2>3, <5>1, <5>2
        <5>3. CASE c # 1
          <6>1. c \in 1 .. Len(h)
            BY <5>1
          <6> QED BY <2>3, <5>3, <6>1
        <5> QED BY <5>2, <5>3
      <4>2. h[d] # h[1]
        BY <1>1, <4>1 DEF Distinct
      <4> QED BY <4>1, <4>2 DEF Entries
    <3>2. \A x \in E : x \in Entries(b)
      <4> TAKE x \in E
      <4>1. PICK d \in 1 .. Len(h) : x = h[d] /\ d # 1
        BY DEF Entries
      <4>2. CASE d = m + 1
        BY <2>1, <2>3, <4>1, <4>2 DEF Entries
      <4>3. CASE d # m + 1
        <5>1. d \in 1 .. m
          BY <1>1, <4>3
        <5> QED BY <2>3, <4>1, <5>1 DEF Entries
      <4> QED BY <4>2, <4>3
    <3>3. Entries(b) \subseteq E
      BY <2>3, <3>1 DEF Entries
    <3> HIDE DEF E
    <3> QED BY <3>2, <3>3
  <2>5. Distinct(b)
    <3> DEFINE from(c) == IF c = 1 THEN m + 1 ELSE c
    <3> SUFFICES ASSUME NEW i \in 1 .. m, NEW j \in 1 .. m, b[i] = b[j] PROVE i = j
      BY <2>3 DEF Distinct
    <3>1. /\ from(i) \in 1 .. Len(h) /\ from(j) \in 1 .. Len(h)
          /\ b[i] = h[from(i)] /\ b[j] = h[from(j)]
      <4>1. Len(h) = m + 1 /\ m \in Nat
        BY <1>1
      <4> HIDE DEF m
      <4> QED BY <2>1, <2>3, <4>1
    <3>2. from(i) = from(j)
      BY <3>1 DEF Distinct
    <3> QED BY <1>1, <3>2
  <2>6. OrderedButDown(b, 1)
    <3>1. ASSUME NEW c \in 2 .. m, c \div 2 # 1 PROVE b[c \div 2] <= b[c]
      <4>1. c \in 2 .. Len(h) /\ c \in 1 .. m /\ c \div 2 \in 1 .. m /\ c # 1
        BY <1>1, <3>1
      <4>2. h[c \div 2] <= h[c]
        BY <4>1 DEF HeapOrdered
      <4> QED BY <2>3, <3>1, <4>1, <4>2
    <3> QED BY <2>3, <3>1 DEF OrderedButDown
  <2> HIDE DEF E, m
  <2>7. start \in W[0]
    BY <2>2, <2>3, <2>4, <2>5, <2>6, <1>3 DEF Sifting, b
  <2>8. ASSUME NEW n \in Nat, NEW s \in W[n] PROVE F[s] \in W[n + 1]
    <3> DEFINE g == Fill(s, last)
               c == SmallestChild(g, s.at)
    <3>1. /\ s \in Sifting(m, E, last) /\ OrderedButDown(g, s.at)
          /\ DownDone(g, s.at) \/ s.at >= n + 1
          /\ s \in Sifts /\ s \in SiftsOver(Nat)
      BY <2>8 DEF Sifting, SiftsOver
    <3>2. /\ g \in Seq(Nat) /\ Len(g) = Len(s.heap)
          /\ s.at \in 1 .. Len(s.heap) /\ g[s.at] = last
          /\ \A d \in 1 .. Len(s.heap) : d # s.at => g[d] = s.heap[d]
      BY <1>2, <3>1, FillAt
    <3>3. F[s] = SiftDown(s, last)
      <4>1. s \in Sifts
        BY <3>1
      <4> QED BY <4>1
    <3> HIDE DEF g, F
    <3>4. Len(g) \in Nat
      BY <3>2, LenProperties
    <3>5. ASSUME 2 * s.at <= Len(g)
          PROVE  SmallestChild(s.heap, s.at) = c /\ s.heap[c] = g[c]
      <4>1. 2 * s.at \in 1 .. Len(s.heap) /\ 2 * s.at # s.at
        BY <3>2, <3>4, <3>5
      <4>2. 2 * s.at < Len(g) => 2 * s.at + 1 \in 1 .. Len(s.heap) /\ 2 * s.at + 1 # s.at
        BY <3>2, <3>4, RightChildPlace
      <4>3. c = SmallestChild(s.heap, s.at)
        BY <3>2, <4>1, <4>2 DEF SmallestChild
      <4>4. c \in 2 .. Len(g) /\ c > s.at
        BY <3>2, <3>5, SmallestChildIs
      <4> HIDE DEF c
      <4>5. c \in 1 .. Len(s.heap) /\ c # s.at
        BY <3>2, <3>4, <4>4
      <4> QED BY <3>2, <4>3, <4>5
    <3>6. DownDone(g, s.at)
          <=> (2 * s.at > Len(s.heap) \/ s.heap[SmallestChild(s.heap, s.at)] >= last)
      <4>1. CASE 2 * s.at > Len(g)
        BY <3>2, <4>1 DEF DownDone
      <4>2. CASE ~(2 * s.at > Len(g))
        <5>1. 2 * s.at <= Len(g)
          BY <3>2, <3>4, <4>2
        <5> QED BY <3>2, <3>5, <4>2, <5>1 DEF DownDone
      <4> QED BY <4>1, <4>2
    <3>7. CASE DownDone(g, s.at)
      <4>1. SiftDown(s, last) = s
        BY <3>6, <3>7 DEF SiftDown
      <4> QED BY <3>1, <3>3, <3>7, <4>1 DEF g
    <3>8. CASE ~DownDone(g, s.at)
      <4> DEFINE t == MoveInto(s, c)
      <4>1. c \in 1 .. Len(s.heap) /\ c > s.at /\ OrderedButDown(Swap(g, s.at, c), c)
        BY <3>1, <3>2, <3>8, DownSwap
      <4>2. 2 * s.at <= Len(g)
        BY <3>2, <3>4, <3>8 DEF DownDone
      <4>3. SiftDown(s, last) = t
        BY <3>5, <3>6, <3>8, <4>2 DEF SiftDown
      <4> HIDE DEF c
      <4>4. t \in Sifting(m, E, last) /\ Fill(t, last) = Swap(g, s.at, c) /\ t.at = c
        BY <1>2, <3>1, <4>1, <3>2, MoveSifts DEF g
      <4>5. c >= (n + 1) + 1
        BY <3>1, <3>2, <3>8, <4>1
      <4> HIDE DEF t
      <4> QED BY <3>3, <4>1, <4>3, <4>4, <4>5
    <3> QED BY <3>7, <3>8
  <2> DEFINE r == Iterate(F, start, Len(rest))
  <2>9. r \in W[m]
    <3> HIDE DEF F, start, W
    <3> QED BY <1>1, <1>3, <2>7, <2>8, IterateReaches
  <2> HIDE DEF r
  <2>10. /\ r \in SiftsOver(Nat) /\ Len(r.heap) = m /\ Entries(Fill(r, last)) = E
         /\ Distinct(Fill(r, last)) /\ OrderedButDown(Fill(r, last), r.at)
         /\ DownDone(Fill(r, last), r.at) \/ r.at >= m + 1
    BY <1>1, <2>9 DEF Sifting
  <2>11. /\ Fill(r, last) \in Seq(Nat) /\ Len(Fill(r, last)) = m /\ r.at \in 1 .. m
    BY <1>2, <2>10, FillAt
  <2>12. DownDone(Fill(r, last), r.at)
    BY <1>1, <2>10, <2>11
  <2>13. HeapOrdered(Fill(r, last))
    BY <2>10, <2>11, <2>12, DownDoneOrdered
  <2>14. PopMaturity(h) = Fill(r, last)
    BY <2>1 DEF PopMaturity, r, F, start, rest, last
  <2> QED BY <2>10, <2>11, <2>13, <2>14 DEF E, m
<1> QED BY <1>4, <1>5

=============================================================================
