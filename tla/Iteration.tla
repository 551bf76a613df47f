----------------------------- MODULE Iteration -----------------------------
(***************************************************************************)
(* Bounded loops and running sums as recursive functions.                  *)
(*                                                                         *)
(* The Solidity code iterates over storage with counters; here a loop is   *)
(* the n-th element of the orbit of a step function, and a sum over the    *)
(* entries of a mapping is a fold over its first n indices.  Both are      *)
(* recursive functions over Nat (never RECURSIVE operators), so that       *)
(* IterationProofs can reason about them by induction.                     *)
(***************************************************************************)
EXTENDS Integers

\* x0, G[0][x0], G[1][G[0][x0]], ... as a function of the number of steps.
Fold(G, x0) ==
  LET it[k \in Nat] == IF k = 0 THEN x0 ELSE G[k - 1][it[k - 1]]
  IN  it

\* The loop state after at most n iterations of the step function F.
Iterate(F, x0, n) == Fold([k \in Nat |-> F], x0)[n]

\* f[0] + ... + f[n - 1].
SumTo(f, n) == Fold([k \in Nat |-> [acc \in Int |-> acc + f[k]]], 0)[n]

=============================================================================
