----------------------------- MODULE HeapQueue -----------------------------
(***************************************************************************)
(* The vault's maturity heap as a component: pushMaturity on every new     *)
(* position, _popMaturity on every capped one.  It implements              *)
(* MaturityQueue.  Entries carry a position index, so no two are equal.    *)
(***************************************************************************)
EXTENDS MaturityHeap

CONSTANT AllEntries      \* the packed entries that may ever be pushed

ASSUME HeapQueueAssumption == AllEntries \subseteq Nat

VARIABLES heap,          \* _maturityHeap
          taken          \* the root popped last; 0 before the first pop

vars == <<heap, taken>>

Init == heap = <<>> /\ taken = 0

Push(e) ==
  /\ e \notin Entries(heap)
  /\ heap' = PushMaturity(heap, e)
  /\ UNCHANGED taken

Pop ==
  /\ heap # <<>>
  /\ taken' = heap[1]
  /\ heap' = PopMaturity(heap)

Next == Pop \/ \E e \in AllEntries : Push(e)

Spec == Init /\ [][Next]_vars

\* The heap implements the queue that always yields its earliest entry: the
\* sifts lose no entry, duplicate none, and bring the minimum to the root.
Earliest == INSTANCE MaturityQueue WITH waiting <- Entries(heap)
YieldsEarliest == Earliest!Spec

=============================================================================
