-------------------------- MODULE AtomicRefProofs --------------------------
(***************************************************************************)
(* Proofs about AtomicRef, for any set of threads and any finite set of    *)
(* references.                                                             *)
(***************************************************************************)
EXTENDS AtomicRef, FiniteSetTheorems, TLAPS

(* No reference is held twice, and the counter is their number.             *)
HeldInv ==
    /\ \A t, u \in Threads : t # u => held[t] \intersect held[u] = {}
    /\ Live \subseteq used

CountInv == IsFiniteSet(Live) /\ counter = Cardinality(Live)

IInv == TypeOK /\ HeldInv /\ CountInv /\ NoEarlyDestruct

LEMMA InitIInv == Init => IInv
<1> SUFFICES ASSUME Init PROVE IInv
  OBVIOUS
<1>1. TypeOK
  BY RefAssumption DEF Init, TypeOK
<1>2. Live = {First}
  BY DEF Init, Live
<1>3. HeldInv
  BY <1>2 DEF Init, HeldInv
<1>4. CountInv
  BY <1>2, FS_Singleton DEF Init, CountInv
<1>5. QED  BY <1>1, <1>3, <1>4 DEF Init, IInv, NoEarlyDestruct

LEMMA IncStep ==
    ASSUME IInv, NEW t \in Threads, NEW u \in Threads, NEW r \in Refs, Inc(t, u, r)
    PROVE  IInv'
<1>1. r \notin Live /\ Live # {}
  BY DEF IInv, HeldInv, Inc, Live
<1>2. Live' = Live \union {r}
  BY DEF Inc, Live, IInv, TypeOK
<1>3. TypeOK'
  BY DEF IInv, TypeOK, Inc
<1>4. HeldInv'
  <2>1. ASSUME NEW a \in Threads, NEW b \in Threads, a # b
        PROVE  held'[a] \intersect held'[b] = {}
    BY <1>1, <2>1 DEF IInv, TypeOK, HeldInv, Inc, Live
  <2>2. QED  BY <1>2, <2>1 DEF IInv, HeldInv, Inc
<1>5. CountInv'
  BY <1>1, <1>2, FS_AddElement DEF IInv, CountInv, Inc
<1>6. NoEarlyDestruct'
  BY <1>1 DEF IInv, NoEarlyDestruct, Inc, TypeOK
<1>7. QED  BY <1>3, <1>4, <1>5, <1>6 DEF IInv

LEMMA DecStep ==
    ASSUME IInv, NEW t \in Threads, NEW r \in Refs, Dec(t, r)
    PROVE  IInv'
<1>1. r \in Live
  BY DEF Dec, Live
<1>2. Live' = Live \ {r}
  <2>1. \A a \in Threads : held'[a] = held[a] \ {r}
    BY DEF IInv, TypeOK, HeldInv, Dec
  <2>2. QED  BY <2>1 DEF Live
<1>3. CountInv'
  BY <1>1, <1>2, FS_RemoveElement DEF IInv, CountInv, Dec
<1>4. counter' \in Nat
  BY <1>3, FS_CardinalityType DEF CountInv
<1>5. TypeOK'
  BY <1>4 DEF IInv, TypeOK, Dec
<1>6. HeldInv'
  <2>1. \A a \in Threads : held'[a] \subseteq held[a]
    BY DEF IInv, TypeOK, Dec
  <2>2. QED  BY <1>2, <2>1 DEF IInv, HeldInv, Dec
<1>7. NoEarlyDestruct'
  BY <1>1 DEF IInv, NoEarlyDestruct, Dec
<1>8. QED  BY <1>3, <1>5, <1>6, <1>7 DEF IInv

LEMMA TestStep ==
    ASSUME IInv, NEW t \in Threads, Test(t)
    PROVE  IInv'
<1>1. Live' = Live
  BY DEF Test, Live
<1>2. TypeOK'
  BY DEF IInv, TypeOK, Test
<1>3. HeldInv' /\ CountInv'
  BY <1>1 DEF IInv, HeldInv, CountInv, Test
<1>4. counter = 0 => Live = {}
  BY FS_EmptySet DEF IInv, CountInv
<1>5. NoEarlyDestruct'
  BY <1>1, <1>4 DEF IInv, TypeOK, NoEarlyDestruct, Test
<1>6. QED  BY <1>2, <1>3, <1>5 DEF IInv

LEMMA NextIInv == IInv /\ [Next]_vars => IInv'
<1> SUFFICES ASSUME IInv, [Next]_vars PROVE IInv'
  OBVIOUS
<1>1. CASE UNCHANGED vars
  BY <1>1 DEF vars, IInv, TypeOK, HeldInv, CountInv, NoEarlyDestruct, Live
<1>2. QED
  BY <1>1, IncStep, DecStep, TestStep DEF Next, Over

(* The counter never goes below zero and the threads stay in their places.  *)
THEOREM TypeCorrect == SafeSpec => []TypeOK
<1>1. IInv => TypeOK
  BY DEF IInv
<1>2. QED  BY InitIInv, NextIInv, <1>1, PTL DEF SafeSpec

(* Whatever the number of threads and references, the connection is never   *)
(* destructed while a thread holds a reference to it, although              *)
(* dec_and_test reads the counter again after decrementing it.              *)
THEOREM EarlyDestructNever == SafeSpec => []NoEarlyDestruct
<1>1. IInv => NoEarlyDestruct
  BY DEF IInv
<1>2. QED  BY InitIInv, NextIInv, <1>1, PTL DEF SafeSpec
=============================================================================
