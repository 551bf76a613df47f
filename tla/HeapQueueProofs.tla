-------------------------- MODULE HeapQueueProofs --------------------------
(***************************************************************************)
(* The maturity heap implements the queue that always yields its earliest  *)
(* entry, for any entries and however they are pushed and popped.          *)
(***************************************************************************)
EXTENDS HeapQueue, IterationProofs

IInv ==
  /\ heap \in Seq(Nat)
  /\ HeapOrdered(heap) /\ Distinct(heap)

LEMMA InitInv == Init => IInv
<1>1. <<>> \in Seq(Nat) /\ Len(<<>>) = 0
  BY EmptySeq
<1> QED BY <1>1 DEF Init, IInv, HeapOrdered, Distinct

LEMMA InitImplements == Init => Earliest!Init
BY EmptySeq DEF Init, Earliest!Init, Entries

LEMMA StepImplements ==
  IInv /\ [Next]_vars => IInv' /\ [Earliest!Next]_<<Entries(heap), taken>>
<1> SUFFICES ASSUME IInv, [Next]_vars
             PROVE  IInv' /\ [Earliest!Next]_<<Entries(heap), taken>>
  OBVIOUS
<1>1. ASSUME NEW e \in AllEntries, Push(e)
      PROVE  IInv' /\ Earliest!Add(e)
  <2>1. e \in Nat /\ heap' = PushMaturity(heap, e) /\ e \notin Entries(heap) /\ taken' = taken
    BY <1>1, HeapQueueAssumption DEF Push
  <2>2. /\ heap' \in Seq(Nat) /\ HeapOrdered(heap') /\ Distinct(heap')
        /\ Entries(heap') = Entries(heap) \cup {e}
    BY <2>1, PushResult DEF IInv
  <2> QED BY <2>1, <2>2 DEF IInv, Earliest!Add
<1>2. ASSUME Pop
      PROVE  IInv' /\ Earliest!TakeEarliest
  <2>1. heap # <<>> /\ heap' = PopMaturity(heap) /\ taken' = heap[1]
    BY <1>2 DEF Pop
  <2>2. /\ heap' \in Seq(Nat) /\ HeapOrdered(heap') /\ Distinct(heap')
        /\ Entries(heap') = Entries(heap) \ {heap[1]}
    BY <2>1, PopResult DEF IInv
  <2>3. heap[1] \in Entries(heap) /\ \A f \in Entries(heap) : heap[1] <= f
    <3>1. 1 \in 1 .. Len(heap)
      BY <2>1, EmptySeq DEF IInv
    <3>2. \A c \in 1 .. Len(heap) : heap[1] <= heap[c]
      BY RootIsSmallest DEF IInv
    <3> QED BY <3>1, <3>2 DEF Entries
  <2> QED BY <2>1, <2>2, <2>3 DEF IInv, Earliest!TakeEarliest
<1>3. CASE UNCHANGED vars
  BY <1>3 DEF vars, IInv, HeapOrdered, Distinct, Entries
<1> QED BY <1>1, <1>2, <1>3 DEF Next, Earliest!Next

\* pushMaturity and _popMaturity, as they sift, lose no entry, duplicate none, and
\* bring the earliest maturity to the root: the heap implements MaturityQueue, for
\* any number of positions and any maturities.
THEOREM HeapYieldsEarliest == Spec => YieldsEarliest
<1>1. Init => IInv
  BY InitInv
<1>2. Init => Earliest!Init
  BY InitImplements
<1>3. IInv /\ [Next]_vars => IInv' /\ [Earliest!Next]_<<Entries(heap), taken>>
  BY StepImplements
<1> QED BY <1>1, <1>2, <1>3, PTL DEF Spec, YieldsEarliest, Earliest!Spec

=============================================================================
