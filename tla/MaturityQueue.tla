--------------------------- MODULE MaturityQueue ---------------------------
(***************************************************************************)
(* What the maturity heap promises the vault: a set of waiting entries     *)
(* from which the smallest is always the next one taken.                   *)
(***************************************************************************)
EXTENDS Naturals

CONSTANT AllEntries

VARIABLES waiting,   \* entries pushed and not yet popped
          taken      \* the entry popped last; 0 before the first pop

Init == waiting = {} /\ taken = 0

Add(e) == e \notin waiting /\ waiting' = waiting \cup {e} /\ UNCHANGED taken

TakeEarliest ==
  \E e \in waiting :
    /\ \A f \in waiting : e <= f
    /\ waiting' = waiting \ {e}
    /\ taken' = e

Next == TakeEarliest \/ \E e \in AllEntries : Add(e)

Spec == Init /\ [][Next]_<<waiting, taken>>

=============================================================================
