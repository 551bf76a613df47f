---------------------------- MODULE MaturityHeap ----------------------------
(***************************************************************************)
(* The binary min-heap of bil-vault/src/libraries/QueueLib.sol, as pure    *)
(* operators on a sequence; its entries are numbers here.                  *)
(* The Solidity array starts at 0 and the sequence at 1, so the parent of  *)
(* place c is c \div 2 and its children are 2c and 2c + 1.                 *)
(***************************************************************************)
EXTENDS Iteration, Sequences

\* A sift in progress: the vacant place, and the entries around it.
Sifts == [heap : Seq(Nat), at : Nat]

Fill(s, entry) == [s.heap EXCEPT ![s.at] = entry]

\* Move the entry at place c into the vacancy.
MoveInto(s, c) == [heap |-> [s.heap EXCEPT ![s.at] = s.heap[c]], at |-> c]

SiftUp(s, entry) ==
  IF s.at = 1 \/ s.heap[s.at \div 2] <= entry THEN s ELSE MoveInto(s, s.at \div 2)

PushMaturity(heap, entry) ==
  LET start == [heap |-> Append(heap, entry), at |-> Len(heap) + 1]
  IN  Fill(Iterate([s \in Sifts |-> SiftUp(s, entry)], start, Len(heap)), entry)

\* Seeded fault: the right child is never looked at.
LeftChild(heap, c) == 2 * c

SmallestChild(heap, c) ==
  IF 2 * c < Len(heap) /\ heap[2 * c + 1] < heap[2 * c] THEN 2 * c + 1 ELSE 2 * c

SiftDown(s, entry) ==
  IF 2 * s.at > Len(s.heap) \/ s.heap[SmallestChild(s.heap, s.at)] >= entry THEN s
  ELSE MoveInto(s, SmallestChild(s.heap, s.at))

\* Remove the root: the last entry is taken off and sifted down from the top.
PopMaturity(heap) ==
  LET last == heap[Len(heap)]
      rest == SubSeq(heap, 1, Len(heap) - 1)
  IN  IF rest = <<>> THEN <<>>
      ELSE Fill(Iterate([s \in Sifts |-> SiftDown(s, last)],
                        [heap |-> rest, at |-> 1], Len(rest)), last)

HeapOrdered(heap) == \A c \in 2 .. Len(heap) : heap[c \div 2] <= heap[c]

Entries(heap) == {heap[c] : c \in 1 .. Len(heap)}

=============================================================================
