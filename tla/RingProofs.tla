----------------------------- MODULE RingProofs -----------------------------
(***************************************************************************)
(* Proofs about Ring, for any producers, consumers, capacity, batch size   *)
(* and counter width, from any position of the wrapping counters.          *)
(***************************************************************************)
EXTENDS Ring, TLAPS

(* The uint32_t that stands for the unwrapped count x.                      *)
Wrap(x) == IF Origin + x >= W THEN Origin + x - W ELSE Origin + x

(* The shared counters are the wrapped history counters.                    *)
LinkInv ==
    /\ headFirst = Wrap(claimed) /\ headSecond = Wrap(published)
    /\ tailFirst = Wrap(popped) /\ tailSecond = Wrap(released)

(* A thread in its loop holds a position that was current when it loaded    *)
(* it; if it still is, the clipped n still fits; a thread that is copying   *)
(* owns a range between the publication and the claim counter.              *)
PushOK(p) ==
    /\ pc[p] # "idle" => max[p] > 0
    /\ pc[p] \in {"room", "cas", "copy"} =>
          loc[p] = Wrap(base[p]) /\ base[p] <= claimed
    /\ pc[p] = "cas" =>
          /\ num[p] > 0
          /\ base[p] = claimed => base[p] + num[p] <= released + Capacity
    /\ pc[p] = "copy" =>
          num[p] > 0 /\ published <= base[p] /\ base[p] + num[p] <= claimed

PopOK(c) ==
    /\ pc[c] # "idle" => max[c] > 0
    /\ pc[c] \in {"room", "cas", "copy"} =>
          loc[c] = Wrap(base[c]) /\ base[c] <= popped
    /\ pc[c] = "cas" =>
          /\ num[c] > 0
          /\ base[c] = popped => base[c] + num[c] <= published
    /\ pc[c] = "copy" =>
          num[c] > 0 /\ released <= base[c] /\ base[c] + num[c] <= popped

PushInv == \A p \in Producers : PushOK(p)
PopInv == \A c \in Consumers : PopOK(c)

(* Ranges being copied by two producers, or by two consumers, are disjoint. *)
Apart(s, t) == base[s] + num[s] <= base[t] \/ base[t] + num[t] <= base[s]

RangeInv ==
    \A S \in {Producers, Consumers} : \A s, t \in S :
        s # t /\ pc[s] = "copy" /\ pc[t] = "copy" => Apart(s, t)

IInv == TypeOK /\ CounterOrder /\ LinkInv /\ PushInv /\ PopInv /\ RangeInv

----------------------------------------------------------------------------
(* Arithmetic of the wrapping counters.  No stretch of MaxClaims positions   *)
(* plus the capacity reaches around.                                        *)
LEMMA WrapInjective ==
    ASSUME NEW a \in 0..MaxClaims, NEW b \in 0..MaxClaims, Wrap(a) = Wrap(b)
    PROVE  a = b
  BY CounterAssumption DEF Wrap

LEMMA WrapRange ==
    ASSUME NEW a \in 0..MaxClaims
    PROVE  Wrap(a) \in 0..(W - 1)
  BY CounterAssumption DEF Wrap

LEMMA AddExact ==
    ASSUME NEW a \in 0..MaxClaims, NEW n \in Nat, a + n <= MaxClaims
    PROVE  Add32(Wrap(a), n) = Wrap(a + n)
  BY CounterAssumption DEF Wrap, Add32

(* free_entries is exact, also when it was computed from stale counters.     *)
LEMMA FreeExact ==
    ASSUME NEW a \in 0..MaxClaims, NEW b \in 0..MaxClaims, b <= Capacity + a
    PROVE  Sub32(Add32(Capacity, Wrap(a)), Wrap(b)) = Capacity + a - b
  BY CounterAssumption DEF Wrap, Add32, Sub32

LEMMA SubExact ==
    ASSUME NEW a \in 0..MaxClaims, NEW b \in 0..MaxClaims, b <= a
    PROVE  Sub32(Wrap(a), Wrap(b)) = a - b
  BY CounterAssumption DEF Wrap, Sub32

(* The clipped n is positive and does not exceed the room.                  *)
LEMMA LeastBounds ==
    ASSUME NEW a \in Nat \ {0}, NEW b \in Nat \ {0}
    PROVE  Least(a, b) \in Nat \ {0} /\ Least(a, b) <= a /\ Least(a, b) <= b
  BY DEF Least

LEMMA ClipRange ==
    ASSUME NEW n \in 1..MaxBatch, NEW b \in Nat \ {0}
    PROVE  Least(n, b) \in 1..MaxBatch
  BY CounterAssumption DEF Least

----------------------------------------------------------------------------
LEMMA InitIInv == Init => IInv
<1> SUFFICES ASSUME Init PROVE IInv
  OBVIOUS
<1> USE CounterAssumption DEF Init
<1>1. TypeOK
  BY DEF TypeOK, Size
<1>2. CounterOrder /\ LinkInv
  BY DEF CounterOrder, LinkInv, Wrap
<1>3. PushInv /\ PopInv /\ RangeInv
  BY DEF PushInv, PushOK, PopInv, PopOK, RangeInv, Threads
<1>4. QED  BY <1>1, <1>2, <1>3 DEF IInv

(* The history counters stay within the bound on claims.                    *)
LEMMA CountersBounded ==
    ASSUME IInv
    PROVE  /\ claimed \in 0..MaxClaims /\ published \in 0..MaxClaims
           /\ popped \in 0..MaxClaims /\ released \in 0..MaxClaims
           /\ \A p \in Producers : pc[p] \in {"room", "cas", "copy"} => base[p] \in 0..MaxClaims
           /\ \A c \in Consumers : pc[c] \in {"room", "cas", "copy"} => base[c] \in 0..MaxClaims
  BY CounterAssumption DEF IInv, TypeOK, CounterOrder, PushInv, PushOK, PopInv, PopOK, Threads

LEMMA CallStep ==
    ASSUME IInv, NEW t \in Threads, NEW n \in 1..MaxBatch, Call(t, n)
    PROVE  IInv'
<1> USE CounterAssumption, ThreadAssumption, CountersBounded DEF Call, Return, shared, counts, Threads
<1>1. TypeOK'
  <2>1. pc' \in [Threads -> {"idle", "load", "room", "cas", "copy"}]
    BY DEF IInv, TypeOK
  <2>2. max' \in [Threads -> 0..MaxBatch]
    <3>1. n \in 0..MaxBatch
      OBVIOUS
    <3>2. QED  BY <3>1 DEF IInv, TypeOK
  <2>3. QED  BY <2>1, <2>2 DEF IInv, TypeOK
<1>2. CounterOrder'
  BY DEF IInv, TypeOK, CounterOrder
<1>3. LinkInv'
  BY DEF IInv, LinkInv
<1>4. PushInv'
  BY DEF IInv, TypeOK, CounterOrder, LinkInv, PushInv, PushOK, RangeInv, Apart
<1>5. PopInv'
  BY DEF IInv, TypeOK, CounterOrder, LinkInv, PopInv, PopOK, RangeInv, Apart
<1>6. RangeInv'
  BY DEF IInv, TypeOK, PushInv, PushOK, PopInv, PopOK, RangeInv, Apart
<1>7. QED  BY <1>1, <1>2, <1>3, <1>4, <1>5, <1>6 DEF IInv

LEMMA LoadHeadStep ==
    ASSUME IInv, NEW p \in Producers, LoadHead(p)
    PROVE  IInv'
<1> USE CounterAssumption, ThreadAssumption, CountersBounded DEF LoadHead, Return, shared, counts, Threads
<1>1. TypeOK'
  BY DEF IInv, TypeOK
<1>2. CounterOrder'
  BY DEF IInv, TypeOK, CounterOrder
<1>3. LinkInv'
  BY DEF IInv, LinkInv
<1>4. PushInv'
  BY DEF IInv, TypeOK, CounterOrder, LinkInv, PushInv, PushOK, RangeInv, Apart
<1>5. PopInv'
  BY DEF IInv, TypeOK, CounterOrder, LinkInv, PopInv, PopOK, RangeInv, Apart
<1>6. RangeInv'
  BY DEF IInv, TypeOK, PushInv, PushOK, PopInv, PopOK, RangeInv, Apart
<1>7. QED  BY <1>1, <1>2, <1>3, <1>4, <1>5, <1>6 DEF IInv

LEMMA NoRoomStep ==
    ASSUME IInv, NEW p \in Producers, NoRoom(p)
    PROVE  IInv'
<1> USE CounterAssumption, ThreadAssumption, CountersBounded DEF NoRoom, Return, shared, counts, Threads
<1>1. TypeOK'
  BY DEF IInv, TypeOK
<1>2. CounterOrder'
  BY DEF IInv, TypeOK, CounterOrder
<1>3. LinkInv'
  BY DEF IInv, LinkInv
<1>4. PushInv'
  BY DEF IInv, TypeOK, CounterOrder, LinkInv, PushInv, PushOK, RangeInv, Apart
<1>5. PopInv'
  BY DEF IInv, TypeOK, CounterOrder, LinkInv, PopInv, PopOK, RangeInv, Apart
<1>6. RangeInv'
  BY DEF IInv, TypeOK, PushInv, PushOK, PopInv, PopOK, RangeInv, Apart
<1>7. QED  BY <1>1, <1>2, <1>3, <1>4, <1>5, <1>6 DEF IInv

LEMMA RoomStep ==
    ASSUME IInv, NEW p \in Producers, Room(p)
    PROVE  IInv'
<1> USE CounterAssumption, ThreadAssumption, CountersBounded DEF Room, Return, shared, counts, Threads
<1>b. base[p] <= Capacity + released
  <2>1. released \in 0..MaxClaims /\ base[p] \in 0..MaxClaims
    OBVIOUS
  <2>2. QED  BY <2>1 DEF IInv, TypeOK, CounterOrder, PushInv, PushOK
<1>a. FreeEntries(p) = Capacity + released - base[p]
  <2>1. loc[p] = Wrap(base[p]) /\ tailSecond = Wrap(released)
    BY DEF IInv, LinkInv, PushInv, PushOK
  <2>2. released \in 0..MaxClaims /\ base[p] \in 0..MaxClaims
    OBVIOUS
  <2>3. QED  BY <1>b, <2>1, <2>2, FreeExact DEF FreeEntries
<1>1. TypeOK'
  <2>1. Least(max[p], FreeEntries(p)) \in 1..MaxBatch
    <3>1. max[p] \in 1..MaxBatch /\ base[p] \in Nat /\ released \in Nat
      BY DEF IInv, TypeOK, PushInv, PushOK
    <3>2. FreeEntries(p) \in Nat \ {0}
      BY <1>a, <1>b, <3>1
    <3>3. QED  BY <3>1, <3>2, ClipRange, Zenon
  <2>2. num' \in [Threads -> 0..MaxBatch]
    BY <2>1 DEF IInv, TypeOK
  <2>3. QED  BY <2>2 DEF IInv, TypeOK
<1>2. CounterOrder'
  BY <1>a DEF IInv, TypeOK, CounterOrder
<1>3. LinkInv'
  BY <1>a DEF IInv, LinkInv
<1>4. PushInv'
  <2> SUFFICES ASSUME NEW q \in Producers PROVE PushOK(q)'
    BY DEF PushInv
  <2>1. PushOK(q) /\ PushOK(p)
    BY DEF IInv, PushInv
  <2>2. CASE q = p
    <3>1. /\ pc'[p] = "cas" /\ num'[p] = Least(max[p], FreeEntries(p))
          /\ UNCHANGED <<max[p], loc[p], base[p], claimed, released>>
      BY DEF IInv, TypeOK
    <3>2. max[p] \in Nat \ {0} /\ base[p] \in Nat /\ released \in Nat /\ pc[p] = "room"
      BY <2>1 DEF IInv, TypeOK, PushOK
    <3>3. FreeEntries(p) \in Nat \ {0} /\ base[p] + FreeEntries(p) = released + Capacity
      BY <1>a, <1>b, <3>2
    <3>4. num'[p] > 0 /\ base[p] + num'[p] <= released + Capacity
      BY <3>1, <3>2, <3>3, LeastBounds
    <3>5. QED  BY <2>1, <2>2, <3>1, <3>2, <3>4 DEF PushOK
  <2>3. CASE q # p
    BY <1>a, <2>1, <2>3 DEF IInv, TypeOK, CounterOrder, PushOK, RangeInv, Apart
  <2>4. QED  BY <2>2, <2>3
<1>5. PopInv'
  BY <1>a DEF IInv, TypeOK, CounterOrder, LinkInv, PopInv, PopOK, RangeInv, Apart, Least
<1>6. RangeInv'
  BY <1>a DEF IInv, TypeOK, PushInv, PushOK, PopInv, PopOK, RangeInv, Apart
<1>7. QED  BY <1>1, <1>2, <1>3, <1>4, <1>5, <1>6 DEF IInv

LEMMA CasHeadStep ==
    ASSUME IInv, NEW p \in Producers, CasHead(p)
    PROVE  IInv'
<1> USE CounterAssumption, ThreadAssumption, CountersBounded DEF CasHead, Return, shared, counts, Threads
<1>a. base[p] = claimed
  BY WrapInjective DEF IInv, LinkInv, PushInv, PushOK
<1>b. claimed + num[p] <= released + Capacity /\ claimed + num[p] <= MaxClaims
  BY <1>a DEF IInv, TypeOK, CounterOrder, PushInv, PushOK
<1>c. headFirst' = Wrap(claimed')
  BY <1>a, <1>b, AddExact DEF IInv, TypeOK, PushInv, PushOK
<1>1. TypeOK'
  <2>1. headFirst' \in 0..(W - 1) /\ claimed' \in 0..MaxClaims
    <3>1. claimed \in Nat /\ num[p] \in Nat /\ claimed' = claimed + num[p]
      BY DEF IInv, TypeOK
    <3>2. claimed' \in 0..MaxClaims
      BY <1>b, <3>1
    <3>3. QED  BY <1>c, <3>2, WrapRange
  <2>2. cnt' \in [Threads -> 0..MaxBatch]
    BY DEF IInv, TypeOK
  <2>3. QED  BY <2>1, <2>2 DEF IInv, TypeOK
<1>2. CounterOrder'
  BY <1>a, <1>b, <1>c DEF IInv, TypeOK, CounterOrder
<1>3. LinkInv'
  BY <1>a, <1>b, <1>c DEF IInv, LinkInv
<1>4. PushInv'
  <2> SUFFICES ASSUME NEW q \in Producers PROVE PushOK(q)'
    BY DEF PushInv
  <2>1. PushOK(q) /\ PushOK(p)
    BY DEF IInv, PushInv
  <2>2. CASE q = p
    <3>1. /\ pc'[p] = "copy" /\ claimed' = claimed + num[p]
          /\ UNCHANGED <<max[p], loc[p], num[p], base[p], published>>
      BY DEF IInv, TypeOK
    <3>2. num[p] \in Nat /\ claimed \in Nat /\ published \in Nat /\ published <= claimed
      BY DEF IInv, TypeOK, CounterOrder
    <3>3. QED  BY <1>a, <2>1, <2>2, <3>1, <3>2 DEF PushOK
  <2>3. CASE q # p
    <3>1. UNCHANGED <<pc[q], max[q], loc[q], num[q], base[q]>>
      BY <2>3 DEF IInv, TypeOK
    <3>2. /\ base[q] \in Nat /\ num[q] \in Nat /\ claimed \in Nat
          /\ num[p] \in Nat \ {0} /\ claimed' = claimed + num[p]
      BY <2>1 DEF IInv, TypeOK, PushOK
    <3>3. claimed' > claimed
      BY <3>2
    <3>4. QED  BY <2>1, <3>1, <3>2, <3>3 DEF PushOK
  <2>4. QED  BY <2>2, <2>3
<1>5. PopInv'
  BY <1>a, <1>b, <1>c DEF IInv, TypeOK, CounterOrder, LinkInv, PopInv, PopOK, RangeInv, Apart
<1>6. RangeInv'
  BY <1>a, <1>b, <1>c DEF IInv, TypeOK, PushInv, PushOK, PopInv, PopOK, RangeInv, Apart
<1>7. QED  BY <1>1, <1>2, <1>3, <1>4, <1>5, <1>6 DEF IInv

LEMMA CasHeadFailsStep ==
    ASSUME IInv, NEW p \in Producers, CasHeadFails(p)
    PROVE  IInv'
<1> USE CounterAssumption, ThreadAssumption, CountersBounded DEF CasHeadFails, Return, shared, counts, Threads
<1>1. TypeOK'
  BY DEF IInv, TypeOK
<1>2. CounterOrder'
  BY DEF IInv, TypeOK, CounterOrder
<1>3. LinkInv'
  BY DEF IInv, LinkInv
<1>4. PushInv'
  BY DEF IInv, TypeOK, CounterOrder, LinkInv, PushInv, PushOK, RangeInv, Apart
<1>5. PopInv'
  BY DEF IInv, TypeOK, CounterOrder, LinkInv, PopInv, PopOK, RangeInv, Apart
<1>6. RangeInv'
  BY DEF IInv, TypeOK, PushInv, PushOK, PopInv, PopOK, RangeInv, Apart
<1>7. QED  BY <1>1, <1>2, <1>3, <1>4, <1>5, <1>6 DEF IInv

LEMMA CopyInStep ==
    ASSUME IInv, NEW p \in Producers, CopyIn(p)
    PROVE  IInv'
<1> USE CounterAssumption, ThreadAssumption, CountersBounded DEF CopyIn, Return, shared, counts, Threads
<1>1. TypeOK'
  <2>1. cnt[p] + 1 \in 0..MaxBatch
    <3>1. cnt[p] \in 0..MaxBatch /\ num[p] \in 0..MaxBatch
      BY DEF IInv, TypeOK
    <3>2. QED  BY <3>1
  <2>2. cnt' \in [Threads -> 0..MaxBatch]
    BY <2>1 DEF IInv, TypeOK
  <2>3. msgs' \in [0..(Size - 1) -> Int]
    <3>1. base[p] + cnt[p] \in Int
      BY DEF IInv, TypeOK
    <3>2. QED  BY <3>1 DEF IInv, TypeOK
  <2>4. QED  BY <2>2, <2>3 DEF IInv, TypeOK
<1>2. CounterOrder'
  BY DEF IInv, TypeOK, CounterOrder
<1>3. LinkInv'
  BY DEF IInv, LinkInv
<1>4. PushInv'
  BY DEF IInv, TypeOK, CounterOrder, LinkInv, PushInv, PushOK, RangeInv, Apart
<1>5. PopInv'
  BY DEF IInv, TypeOK, CounterOrder, LinkInv, PopInv, PopOK, RangeInv, Apart
<1>6. RangeInv'
  BY DEF IInv, TypeOK, PushInv, PushOK, PopInv, PopOK, RangeInv, Apart
<1>7. QED  BY <1>1, <1>2, <1>3, <1>4, <1>5, <1>6 DEF IInv

LEMMA PublishStep ==
    ASSUME IInv, NEW p \in Producers, Publish(p)
    PROVE  IInv'
<1> USE CounterAssumption, ThreadAssumption, CountersBounded DEF Publish, Return, shared, counts, Threads
<1>a. base[p] = published
  BY WrapInjective DEF IInv, LinkInv, PushInv, PushOK
<1>b. published' = published + num[p] /\ published' <= claimed /\ num[p] \in Nat \ {0}
  BY <1>a DEF IInv, TypeOK, PushInv, PushOK
<1>c. headSecond' = Wrap(published')
  BY <1>a, <1>b, AddExact DEF IInv, TypeOK, PushInv, PushOK
<1>1. TypeOK'
  <2>1. headSecond' \in 0..(W - 1) /\ published' \in 0..MaxClaims
    <3>1. published' \in 0..MaxClaims
      BY <1>a, <1>b, CountersBounded
    <3>2. QED  BY <1>c, <3>1, WrapRange
  <2>2. QED  BY <2>1 DEF IInv, TypeOK
<1>2. CounterOrder'
  BY <1>a, <1>b, <1>c DEF IInv, TypeOK, CounterOrder
<1>3. LinkInv'
  BY <1>a, <1>b, <1>c DEF IInv, LinkInv
<1>4. PushInv'
  <2> SUFFICES ASSUME NEW q \in Producers PROVE PushOK(q)'
    BY DEF PushInv
  <2>1. PushOK(q) /\ PushOK(p)
    BY DEF IInv, PushInv
  <2>2. CASE q = p
    <3>1. pc'[p] = "idle"
      BY DEF IInv, TypeOK
    <3>2. QED  BY <2>2, <3>1 DEF PushOK
  <2>3. CASE q # p
    <3>1. UNCHANGED <<pc[q], max[q], loc[q], num[q], base[q]>>
      BY <2>3 DEF IInv, TypeOK
    <3>2. base[q] \in Nat /\ num[q] \in Nat /\ num[p] \in Nat /\ base[p] \in Nat
      BY DEF IInv, TypeOK
    <3>3. pc[q] = "copy" => Apart(q, p)
      BY <2>3 DEF IInv, RangeInv
    <3>4. pc[q] = "copy" => base[q] >= published'
      BY <1>a, <1>b, <2>1, <3>2, <3>3 DEF Apart, PushOK
    <3>5. QED  BY <2>1, <3>1, <3>4 DEF PushOK
  <2>4. QED  BY <2>2, <2>3
<1>5. PopInv'
  <2> SUFFICES ASSUME NEW q \in Consumers PROVE PopOK(q)'
    BY DEF PopInv
  <2>1. PopOK(q) /\ q # p
    BY DEF IInv, PopInv
  <2>2. UNCHANGED <<pc[q], max[q], loc[q], num[q], base[q]>>
    BY <2>1 DEF IInv, TypeOK
  <2>3. base[q] \in Nat /\ num[q] \in Nat /\ published \in Nat
    BY DEF IInv, TypeOK
  <2>4. published' > published
    BY <1>b, <2>3
  <2>5. QED  BY <2>1, <2>2, <2>3, <2>4 DEF PopOK
<1>6. RangeInv'
  BY <1>a, <1>b, <1>c DEF IInv, TypeOK, PushInv, PushOK, PopInv, PopOK, RangeInv, Apart
<1>7. QED  BY <1>1, <1>2, <1>3, <1>4, <1>5, <1>6 DEF IInv

LEMMA LoadTailStep ==
    ASSUME IInv, NEW c \in Consumers, LoadTail(c)
    PROVE  IInv'
<1> USE CounterAssumption, ThreadAssumption, CountersBounded DEF LoadTail, Return, shared, counts, Threads
<1>1. TypeOK'
  BY DEF IInv, TypeOK
<1>2. CounterOrder'
  BY DEF IInv, TypeOK, CounterOrder
<1>3. LinkInv'
  BY DEF IInv, LinkInv
<1>4. PushInv'
  BY DEF IInv, TypeOK, CounterOrder, LinkInv, PushInv, PushOK, RangeInv, Apart
<1>5. PopInv'
  BY DEF IInv, TypeOK, CounterOrder, LinkInv, PopInv, PopOK, RangeInv, Apart
<1>6. RangeInv'
  BY DEF IInv, TypeOK, PushInv, PushOK, PopInv, PopOK, RangeInv, Apart
<1>7. QED  BY <1>1, <1>2, <1>3, <1>4, <1>5, <1>6 DEF IInv

LEMMA NothingThereStep ==
    ASSUME IInv, NEW c \in Consumers, NothingThere(c)
    PROVE  IInv'
<1> USE CounterAssumption, ThreadAssumption, CountersBounded DEF NothingThere, Return, shared, counts, Threads
<1>1. TypeOK'
  BY DEF IInv, TypeOK
<1>2. CounterOrder'
  BY DEF IInv, TypeOK, CounterOrder
<1>3. LinkInv'
  BY DEF IInv, LinkInv
<1>4. PushInv'
  BY DEF IInv, TypeOK, CounterOrder, LinkInv, PushInv, PushOK, RangeInv, Apart
<1>5. PopInv'
  BY DEF IInv, TypeOK, CounterOrder, LinkInv, PopInv, PopOK, RangeInv, Apart
<1>6. RangeInv'
  BY DEF IInv, TypeOK, PushInv, PushOK, PopInv, PopOK, RangeInv, Apart
<1>7. QED  BY <1>1, <1>2, <1>3, <1>4, <1>5, <1>6 DEF IInv

LEMMA AvailableStep ==
    ASSUME IInv, NEW c \in Consumers, Available(c)
    PROVE  IInv'
<1> USE CounterAssumption, ThreadAssumption, CountersBounded DEF Available, Return, shared, counts, Threads
<1>b. base[c] <= published
  <2>1. published \in 0..MaxClaims /\ base[c] \in 0..MaxClaims
    OBVIOUS
  <2>2. QED  BY <2>1 DEF IInv, TypeOK, CounterOrder, PopInv, PopOK
<1>a. Entries(c) = published - base[c]
  <2>1. loc[c] = Wrap(base[c]) /\ headSecond = Wrap(published)
    BY DEF IInv, LinkInv, PopInv, PopOK
  <2>2. published \in 0..MaxClaims /\ base[c] \in 0..MaxClaims
    OBVIOUS
  <2>3. QED  BY <1>b, <2>1, <2>2, SubExact DEF Entries
<1>1. TypeOK'
  <2>1. Least(max[c], Entries(c)) \in 1..MaxBatch
    <3>1. max[c] \in 1..MaxBatch /\ base[c] \in Nat /\ published \in Nat
      BY DEF IInv, TypeOK, PopInv, PopOK
    <3>2. Entries(c) \in Nat \ {0}
      BY <1>a, <1>b, <3>1
    <3>3. QED  BY <3>1, <3>2, ClipRange, Zenon
  <2>2. num' \in [Threads -> 0..MaxBatch]
    BY <2>1 DEF IInv, TypeOK
  <2>3. QED  BY <2>2 DEF IInv, TypeOK
<1>2. CounterOrder'
  BY <1>a DEF IInv, TypeOK, CounterOrder
<1>3. LinkInv'
  BY <1>a DEF IInv, LinkInv
<1>4. PushInv'
  BY <1>a DEF IInv, TypeOK, CounterOrder, LinkInv, PushInv, PushOK, RangeInv, Apart, Least
<1>5. PopInv'
  <2> SUFFICES ASSUME NEW q \in Consumers PROVE PopOK(q)'
    BY DEF PopInv
  <2>1. PopOK(q) /\ PopOK(c)
    BY DEF IInv, PopInv
  <2>2. CASE q = c
    <3>1. /\ pc'[c] = "cas" /\ num'[c] = Least(max[c], Entries(c))
          /\ UNCHANGED <<max[c], loc[c], base[c], popped, published>>
      BY DEF IInv, TypeOK
    <3>2. max[c] \in Nat \ {0} /\ base[c] \in Nat /\ published \in Nat /\ pc[c] = "room"
      BY <2>1 DEF IInv, TypeOK, PopOK
    <3>3. Entries(c) \in Nat \ {0} /\ base[c] + Entries(c) = published
      BY <1>a, <1>b, <3>2
    <3>4. num'[c] > 0 /\ base[c] + num'[c] <= published
      BY <3>1, <3>2, <3>3, LeastBounds
    <3>5. QED  BY <2>1, <2>2, <3>1, <3>2, <3>4 DEF PopOK
  <2>3. CASE q # c
    BY <1>a, <2>1, <2>3 DEF IInv, TypeOK, CounterOrder, PopOK, RangeInv, Apart
  <2>4. QED  BY <2>2, <2>3
<1>6. RangeInv'
  BY <1>a DEF IInv, TypeOK, PushInv, PushOK, PopInv, PopOK, RangeInv, Apart
<1>7. QED  BY <1>1, <1>2, <1>3, <1>4, <1>5, <1>6 DEF IInv

LEMMA CasTailStep ==
    ASSUME IInv, NEW c \in Consumers, CasTail(c)
    PROVE  IInv'
<1> USE CounterAssumption, ThreadAssumption, CountersBounded DEF CasTail, Return, shared, counts, Threads
<1>a. base[c] = popped
  BY WrapInjective DEF IInv, LinkInv, PopInv, PopOK
<1>b. popped + num[c] <= published /\ popped + num[c] <= MaxClaims
  BY <1>a DEF IInv, TypeOK, CounterOrder, PopInv, PopOK
<1>c. tailFirst' = Wrap(popped')
  BY <1>a, <1>b, AddExact DEF IInv, TypeOK, PopInv, PopOK
<1>1. TypeOK'
  <2>1. tailFirst' \in 0..(W - 1) /\ popped' \in 0..MaxClaims
    <3>1. popped' \in 0..MaxClaims
      BY <1>b DEF IInv, TypeOK
    <3>2. QED  BY <1>c, <3>1, WrapRange
  <2>2. cnt' \in [Threads -> 0..MaxBatch]
    BY DEF IInv, TypeOK
  <2>3. pc' \in [Threads -> {"idle", "load", "room", "cas", "copy"}] /\ popped' \in Nat
    BY <2>1 DEF IInv, TypeOK
  <2>4. QED  BY <2>1, <2>2, <2>3 DEF IInv, TypeOK
<1>2. CounterOrder'
  BY <1>a, <1>b, <1>c DEF IInv, TypeOK, CounterOrder
<1>3. LinkInv'
  BY <1>a, <1>b, <1>c DEF IInv, LinkInv
<1>4. PushInv'
  BY <1>a, <1>b, <1>c DEF IInv, TypeOK, CounterOrder, LinkInv, PushInv, PushOK, RangeInv, Apart
<1>5. PopInv'
  <2> SUFFICES ASSUME NEW q \in Consumers PROVE PopOK(q)'
    BY DEF PopInv
  <2>1. PopOK(q) /\ PopOK(c)
    BY DEF IInv, PopInv
  <2>2. CASE q = c
    <3>1. /\ pc'[c] = "copy" /\ popped' = popped + num[c]
          /\ UNCHANGED <<max[c], loc[c], num[c], base[c], released>>
      BY DEF IInv, TypeOK
    <3>2. num[c] \in Nat /\ popped \in Nat /\ released \in Nat /\ released <= popped
      BY DEF IInv, TypeOK, CounterOrder
    <3>3. QED  BY <1>a, <2>1, <2>2, <3>1, <3>2 DEF PopOK
  <2>3. CASE q # c
    <3>1. UNCHANGED <<pc[q], max[q], loc[q], num[q], base[q]>>
      BY <2>3 DEF IInv, TypeOK
    <3>2. base[q] \in Nat /\ num[q] \in Nat /\ popped \in Nat /\ popped' > popped
      BY <1>a, <2>1, <2>3 DEF IInv, TypeOK, PopOK
    <3>3. QED  BY <2>1, <3>1, <3>2 DEF PopOK
  <2>4. QED  BY <2>2, <2>3
<1>6. RangeInv'
  BY <1>a, <1>b, <1>c DEF IInv, TypeOK, PushInv, PushOK, PopInv, PopOK, RangeInv, Apart
<1>7. QED  BY <1>1, <1>2, <1>3, <1>4, <1>5, <1>6 DEF IInv

LEMMA CasTailFailsStep ==
    ASSUME IInv, NEW c \in Consumers, CasTailFails(c)
    PROVE  IInv'
<1> USE CounterAssumption, ThreadAssumption, CountersBounded DEF CasTailFails, Return, shared, counts, Threads
<1>1. TypeOK'
  BY DEF IInv, TypeOK
<1>2. CounterOrder'
  BY DEF IInv, TypeOK, CounterOrder
<1>3. LinkInv'
  BY DEF IInv, LinkInv
<1>4. PushInv'
  BY DEF IInv, TypeOK, CounterOrder, LinkInv, PushInv, PushOK, RangeInv, Apart
<1>5. PopInv'
  BY DEF IInv, TypeOK, CounterOrder, LinkInv, PopInv, PopOK, RangeInv, Apart
<1>6. RangeInv'
  BY DEF IInv, TypeOK, PushInv, PushOK, PopInv, PopOK, RangeInv, Apart
<1>7. QED  BY <1>1, <1>2, <1>3, <1>4, <1>5, <1>6 DEF IInv

LEMMA CopyOutStep ==
    ASSUME IInv, NEW c \in Consumers, CopyOut(c)
    PROVE  IInv'
<1> USE CounterAssumption, ThreadAssumption, CountersBounded DEF CopyOut, Return, shared, counts, Threads
<1>1. TypeOK'
  <2>1. cnt[c] + 1 \in 0..MaxBatch
    <3>1. cnt[c] \in 0..MaxBatch /\ num[c] \in 0..MaxBatch
      BY DEF IInv, TypeOK
    <3>2. QED  BY <3>1
  <2>2. cnt' \in [Threads -> 0..MaxBatch]
    BY <2>1 DEF IInv, TypeOK
  <2>3. QED  BY <2>2 DEF IInv, TypeOK
<1>2. CounterOrder'
  BY DEF IInv, TypeOK, CounterOrder
<1>3. LinkInv'
  BY DEF IInv, LinkInv
<1>4. PushInv'
  BY DEF IInv, TypeOK, CounterOrder, LinkInv, PushInv, PushOK, RangeInv, Apart
<1>5. PopInv'
  BY DEF IInv, TypeOK, CounterOrder, LinkInv, PopInv, PopOK, RangeInv, Apart
<1>6. RangeInv'
  BY DEF IInv, TypeOK, PushInv, PushOK, PopInv, PopOK, RangeInv, Apart
<1>7. QED  BY <1>1, <1>2, <1>3, <1>4, <1>5, <1>6 DEF IInv

LEMMA ReleaseStep ==
    ASSUME IInv, NEW c \in Consumers, Release(c)
    PROVE  IInv'
<1> USE CounterAssumption, ThreadAssumption, CountersBounded DEF Release, Return, shared, counts, Threads
<1>a. base[c] = released
  BY WrapInjective DEF IInv, LinkInv, PopInv, PopOK
<1>b. released' = released + num[c] /\ released' <= popped /\ num[c] \in Nat \ {0}
  BY <1>a DEF IInv, TypeOK, PopInv, PopOK
<1>c. tailSecond' = Wrap(released')
  BY <1>a, <1>b, AddExact DEF IInv, TypeOK, PopInv, PopOK
<1>1. TypeOK'
  <2>1. tailSecond' \in 0..(W - 1) /\ released' \in 0..MaxClaims
    <3>1. released' \in 0..MaxClaims
      BY <1>a, <1>b, CountersBounded
    <3>2. QED  BY <1>c, <3>1, WrapRange
  <2>2. QED  BY <2>1 DEF IInv, TypeOK
<1>2. CounterOrder'
  BY <1>a, <1>b, <1>c DEF IInv, TypeOK, CounterOrder
<1>3. LinkInv'
  BY <1>a, <1>b, <1>c DEF IInv, LinkInv
<1>4. PushInv'
  <2> SUFFICES ASSUME NEW q \in Producers PROVE PushOK(q)'
    BY DEF PushInv
  <2>1. PushOK(q) /\ q # c
    BY DEF IInv, PushInv
  <2>2. UNCHANGED <<pc[q], max[q], loc[q], num[q], base[q]>>
    BY <2>1 DEF IInv, TypeOK
  <2>3. base[q] \in Nat /\ num[q] \in Nat /\ released \in Nat
    BY DEF IInv, TypeOK
  <2>4. released' > released
    BY <1>b, <2>3
  <2>5. QED  BY <2>1, <2>2, <2>3, <2>4 DEF PushOK
<1>5. PopInv'
  <2> SUFFICES ASSUME NEW q \in Consumers PROVE PopOK(q)'
    BY DEF PopInv
  <2>1. PopOK(q) /\ PopOK(c)
    BY DEF IInv, PopInv
  <2>2. CASE q = c
    <3>1. pc'[c] = "idle"
      BY DEF IInv, TypeOK
    <3>2. QED  BY <2>2, <3>1 DEF PopOK
  <2>3. CASE q # c
    <3>1. UNCHANGED <<pc[q], max[q], loc[q], num[q], base[q]>>
      BY <2>3 DEF IInv, TypeOK
    <3>2. base[q] \in Nat /\ num[q] \in Nat /\ num[c] \in Nat /\ base[c] \in Nat
      BY DEF IInv, TypeOK
    <3>3. pc[q] = "copy" => Apart(q, c)
      BY <2>3 DEF IInv, RangeInv
    <3>4. pc[q] = "copy" => base[q] >= released'
      BY <1>a, <1>b, <2>1, <3>2, <3>3 DEF Apart, PopOK
    <3>5. QED  BY <2>1, <3>1, <3>4 DEF PopOK
  <2>4. QED  BY <2>2, <2>3
<1>6. RangeInv'
  BY <1>a, <1>b, <1>c DEF IInv, TypeOK, PushInv, PushOK, PopInv, PopOK, RangeInv, Apart
<1>7. QED  BY <1>1, <1>2, <1>3, <1>4, <1>5, <1>6 DEF IInv

----------------------------------------------------------------------------
LEMMA NextIInv == IInv /\ [Next]_vars => IInv'
<1> SUFFICES ASSUME IInv, [Next]_vars PROVE IInv'
  OBVIOUS
<1>1. ASSUME NEW t \in Threads, NEW n \in 1..MaxBatch, Call(t, n) PROVE IInv'
  BY <1>1, CallStep
<1>2. ASSUME NEW p \in Producers, PushStep(p) PROVE IInv'
  BY <1>2, LoadHeadStep, NoRoomStep, RoomStep, CasHeadStep, CasHeadFailsStep,
     CopyInStep, PublishStep DEF PushStep
<1>3. ASSUME NEW c \in Consumers, PopStep(c) PROVE IInv'
  BY <1>3, LoadTailStep, NothingThereStep, AvailableStep, CasTailStep, CasTailFailsStep,
     CopyOutStep, ReleaseStep DEF PopStep
<1>4. CASE UNCHANGED vars
  BY <1>4 DEF vars, shared, counts, IInv, TypeOK, CounterOrder, LinkInv, PushInv, PushOK,
              PopInv, PopOK, RangeInv, Apart
<1>5. QED  BY <1>1, <1>2, <1>3, <1>4 DEF Next

(* The shared counters are uint32_t and the locals stay in range.            *)
THEOREM TypeCorrect == Spec => []TypeOK
<1>1. IInv => TypeOK
  BY DEF IInv
<1>2. QED  BY InitIInv, NextIInv, <1>1, PTL DEF Spec

(* released <= popped <= published <= claimed <= released + capacity, for    *)
(* every interleaving of pushes and pops, whatever the counters started at.  *)
THEOREM CounterOrderCorrect == Spec => []CounterOrder
<1>1. IInv => CounterOrder
  BY DEF IInv
<1>2. QED  BY InitIInv, NextIInv, <1>1, PTL DEF Spec

(* Two producers, or two consumers, never own the same position.             *)
THEOREM ClaimsExclusive == Spec => []ExclusiveClaims
<1>1. IInv => ExclusiveClaims
  <2> SUFFICES ASSUME IInv, NEW S \in {Producers, Consumers}, NEW s \in S, NEW t \in S,
                      NEW j \in 0..MaxClaims, Busy(s, j), Busy(t, j), s # t
               PROVE  FALSE
    BY DEF ExclusiveClaims
  <2>1. Apart(s, t)
    BY DEF IInv, RangeInv, Busy
  <2>2. /\ base[s] \in Nat /\ base[t] \in Nat /\ num[s] \in Nat /\ num[t] \in Nat
    BY DEF IInv, TypeOK, Threads
  <2>3. QED  BY <2>1, <2>2 DEF Apart, Busy
<1>2. QED  BY InitIInv, NextIInv, <1>1, PTL DEF Spec

(* The publication counters move forward one owner at a time: a push or pop  *)
(* publishes only when everything before it has been published.              *)
THEOREM PublishInTurnCorrect == Spec => PublishInTurn
<1> DEFINE Turn ==
      /\ published' # published =>
            /\ published' > published
            /\ \A p \in Producers : pc'[p] = "copy" => base[p] >= published'
      /\ released' # released =>
            /\ released' > released
            /\ \A c \in Consumers : pc'[c] = "copy" => base[c] >= released'
<1>1. ASSUME IInv, [Next]_vars PROVE Turn \/ UNCHANGED vars
  <2>1. CASE UNCHANGED <<published, released>>
    BY <2>1
  <2>2. ASSUME NEW p \in Producers, Publish(p) PROVE Turn
    <3>1. base[p] = published /\ num[p] \in Nat \ {0} /\ published \in Nat
      <4>1. pc[p] = "copy" /\ loc[p] = headSecond
        BY <2>2 DEF Publish
      <4>2. Wrap(base[p]) = Wrap(published) /\ num[p] > 0
        BY <1>1, <4>1 DEF IInv, LinkInv, PushInv, PushOK
      <4>3. base[p] \in 0..MaxClaims /\ published \in 0..MaxClaims
        BY <1>1, <4>1, CountersBounded
      <4>4. base[p] = published
        BY <4>2, <4>3, WrapInjective
      <4>5. num[p] \in Nat /\ published \in Nat
        BY <1>1 DEF IInv, TypeOK, Threads
      <4>6. QED  BY <4>2, <4>4, <4>5
    <3>2. published' = published + num[p] /\ UNCHANGED released
      BY <2>2, <3>1 DEF Publish
    <3>3. ASSUME NEW q \in Producers, pc'[q] = "copy" PROVE base[q] >= published'
      <4>1. q # p /\ pc[q] = "copy"
        BY <1>1, <2>2, <3>3 DEF Publish, Return, IInv, TypeOK, Threads
      <4>2. Apart(p, q) /\ published <= base[q] /\ num[q] > 0
        BY <1>1, <2>2, <4>1 DEF Publish, IInv, RangeInv, PushInv, PushOK
      <4>3. base[q] \in Nat /\ num[q] \in Nat
        BY <1>1 DEF IInv, TypeOK, Threads
      <4>4. QED  BY <3>1, <3>2, <4>2, <4>3 DEF Apart
    <3>4. QED  BY <3>1, <3>2, <3>3
  <2>3. ASSUME NEW c \in Consumers, Release(c) PROVE Turn
    <3>1. base[c] = released /\ num[c] \in Nat \ {0} /\ released \in Nat
      <4>1. pc[c] = "copy" /\ loc[c] = tailSecond
        BY <2>3 DEF Release
      <4>2. Wrap(base[c]) = Wrap(released) /\ num[c] > 0
        BY <1>1, <4>1 DEF IInv, LinkInv, PopInv, PopOK
      <4>3. base[c] \in 0..MaxClaims /\ released \in 0..MaxClaims
        BY <1>1, <4>1, CountersBounded
      <4>4. base[c] = released
        BY <4>2, <4>3, WrapInjective
      <4>5. num[c] \in Nat /\ released \in Nat
        BY <1>1 DEF IInv, TypeOK, Threads
      <4>6. QED  BY <4>2, <4>4, <4>5
    <3>2. released' = released + num[c] /\ UNCHANGED published
      BY <2>3, <3>1 DEF Release
    <3>3. ASSUME NEW q \in Consumers, pc'[q] = "copy" PROVE base[q] >= released'
      <4>1. q # c /\ pc[q] = "copy"
        BY <1>1, <2>3, <3>3 DEF Release, Return, IInv, TypeOK, Threads
      <4>2. Apart(c, q) /\ released <= base[q] /\ num[q] > 0
        BY <1>1, <2>3, <4>1 DEF Release, IInv, RangeInv, PopInv, PopOK
      <4>3. base[q] \in Nat /\ num[q] \in Nat
        BY <1>1 DEF IInv, TypeOK, Threads
      <4>4. QED  BY <3>1, <3>2, <4>2, <4>3 DEF Apart
    <3>4. QED  BY <3>1, <3>2, <3>3
  <2>4. ASSUME NEW p \in Producers, PushStep(p), ~Publish(p) PROVE UNCHANGED <<published, released>>
    BY <2>4 DEF PushStep, LoadHead, NoRoom, Room, CasHead, CasHeadFails, CopyIn, counts
  <2>5. ASSUME NEW c \in Consumers, PopStep(c), ~Release(c) PROVE UNCHANGED <<published, released>>
    BY <2>5 DEF PopStep, LoadTail, NothingThere, Available, CasTail, CasTailFails, CopyOut, counts
  <2>6. ASSUME NEW t \in Threads, NEW n \in 1..MaxBatch, Call(t, n)
        PROVE  UNCHANGED <<published, released>>
    BY <2>6 DEF Call, counts
  <2>7. QED
    BY <1>1, <2>1, <2>2, <2>3, <2>4, <2>5, <2>6 DEF Next
<1>2. QED
  BY InitIInv, NextIInv, <1>1, PTL DEF Spec, PublishInTurn
----------------------------------------------------------------------------
(* Nobody spins for ever.  Every position that was claimed and not yet      *)
(* published, or not yet released, belongs to a thread that is copying.     *)
Owned(S, lo, hi) == \A j \in lo..(hi - 1) : \E s \in S : Busy(s, j)

CoverInv == Owned(Producers, published, claimed) /\ Owned(Consumers, released, popped)

(* A thread that is copying goes on unless it publishes or releases.         *)
LEMMA CopyingStays ==
    ASSUME IInv, [Next]_vars, NEW s \in Threads, pc[s] = "copy",
           s \in Producers => ~Publish(s), s \in Consumers => ~Release(s)
    PROVE  pc'[s] = "copy" /\ base'[s] = base[s] /\ num'[s] = num[s]
<1> USE ThreadAssumption DEF Return, shared, counts, Threads
<1>0. /\ pc \in [Threads -> {"idle", "load", "room", "cas", "copy"}]
      /\ DOMAIN base = Threads /\ DOMAIN num = Threads
  BY DEF IInv, TypeOK
<1>1. ASSUME NEW t \in Threads, NEW n \in 1..MaxBatch, Call(t, n)
      PROVE  pc'[s] = "copy" /\ base'[s] = base[s] /\ num'[s] = num[s]
  BY <1>0, <1>1 DEF Call
<1>2. ASSUME NEW p \in Producers, PushStep(p)
      PROVE  pc'[s] = "copy" /\ base'[s] = base[s] /\ num'[s] = num[s]
  BY <1>0, <1>2 DEF PushStep, LoadHead, NoRoom, Room, CasHead, CasHeadFails, CopyIn, Publish
<1>3. ASSUME NEW c \in Consumers, PopStep(c)
      PROVE  pc'[s] = "copy" /\ base'[s] = base[s] /\ num'[s] = num[s]
  BY <1>0, <1>3 DEF PopStep, LoadTail, NothingThere, Available, CasTail, CasTailFails,
                    CopyOut, Release
<1>4. CASE UNCHANGED vars
  BY <1>4 DEF vars
<1>5. QED  BY <1>1, <1>2, <1>3, <1>4 DEF Next

LEMMA PushCovers ==
    ASSUME IInv, [Next]_vars, Owned(Producers, published, claimed)
    PROVE  Owned(Producers, published, claimed)'
<1> SUFFICES ASSUME NEW j \in published'..(claimed' - 1)
             PROVE  \E p \in Producers : Busy(p, j)'
  BY DEF Owned
<1>a. published \in Nat /\ claimed \in Nat /\ published <= claimed
  BY DEF IInv, TypeOK, CounterOrder
<1>b. \A p \in Producers : p \in Threads /\ p \notin Consumers
  BY ThreadAssumption DEF Threads
<1>c. \A p \in Producers : base[p] \in Nat /\ num[p] \in Nat
  BY <1>b DEF IInv, TypeOK
<1>1. ASSUME NEW p \in Producers, CasHead(p)
      PROVE  \E q \in Producers : Busy(q, j)'
  <2>1. base[p] = claimed
    <3>1. pc[p] = "cas" /\ Wrap(base[p]) = Wrap(claimed)
      BY <1>1 DEF CasHead, IInv, LinkInv, PushInv, PushOK
    <3>2. base[p] \in 0..MaxClaims /\ claimed \in 0..MaxClaims
      BY <3>1, CountersBounded
    <3>3. QED  BY <3>1, <3>2, WrapInjective
  <2>2. /\ claimed' = claimed + num[p] /\ published' = published
        /\ pc'[p] = "copy" /\ base'[p] = base[p] /\ num'[p] = num[p]
    BY <1>1, <1>b DEF CasHead, IInv, TypeOK
  <2>3. CASE j < claimed
    <3>1. j \in published..(claimed - 1)
      BY <1>a, <1>c, <2>2, <2>3
    <3>2. PICK q \in Producers : Busy(q, j)
      BY <3>1 DEF Owned
    <3>3. q # p
      BY <1>1, <3>2 DEF CasHead, Busy
    <3>4. pc'[q] = pc[q] /\ base' = base /\ num' = num
      BY <1>1, <1>b, <3>3 DEF CasHead, IInv, TypeOK
    <3>5. QED  BY <3>2, <3>4 DEF Busy
  <2>4. CASE ~(j < claimed)
    BY <1>a, <1>c, <2>1, <2>2, <2>4 DEF Busy
  <2>5. QED  BY <2>3, <2>4
<1>2. ASSUME NEW p \in Producers, Publish(p)
      PROVE  \E q \in Producers : Busy(q, j)'
  <2>1. base[p] = published /\ pc[p] = "copy"
    <3>1. pc[p] = "copy" /\ Wrap(base[p]) = Wrap(published)
      BY <1>2 DEF Publish, IInv, LinkInv, PushInv, PushOK
    <3>2. base[p] \in 0..MaxClaims /\ published \in 0..MaxClaims
      BY <3>1, CountersBounded
    <3>3. QED  BY <3>1, <3>2, WrapInjective
  <2>2. published' = published + num[p] /\ claimed' = claimed /\ pc' = [pc EXCEPT ![p] = "idle"]
    BY <1>2, <2>1 DEF Publish, Return
  <2>3. j \in published..(claimed - 1) /\ ~(j < base[p] + num[p])
    BY <1>a, <1>c, <2>1, <2>2
  <2>4. PICK q \in Producers : Busy(q, j)
    BY <2>3 DEF Owned
  <2>5. q # p
    BY <2>3, <2>4 DEF Busy
  <2>6. pc'[q] = pc[q] /\ base'[q] = base[q] /\ num'[q] = num[q]
    BY <1>2, <1>b, <2>5 DEF Publish, Return, IInv, TypeOK
  <2>7. QED  BY <2>4, <2>6 DEF Busy
<1>3. ASSUME \A p \in Producers : ~CasHead(p) /\ ~Publish(p)
      PROVE  \E q \in Producers : Busy(q, j)'
  <2>1. UNCHANGED <<published, claimed>>
    BY <1>3 DEF Next, Call, PushStep, PopStep, LoadHead, NoRoom, Room, CasHeadFails, CopyIn,
                LoadTail, NothingThere, Available, CasTail, CasTailFails, CopyOut, Release,
                counts, vars
  <2>2. PICK q \in Producers : Busy(q, j)
    BY <2>1 DEF Owned
  <2>3. QED  BY <1>3, <1>b, <2>2, CopyingStays DEF Busy
<1>4. QED  BY <1>1, <1>2, <1>3

LEMMA PopCovers ==
    ASSUME IInv, [Next]_vars, Owned(Consumers, released, popped)
    PROVE  Owned(Consumers, released, popped)'
<1> SUFFICES ASSUME NEW j \in released'..(popped' - 1)
             PROVE  \E c \in Consumers : Busy(c, j)'
  BY DEF Owned
<1>a. released \in Nat /\ popped \in Nat /\ released <= popped
  BY DEF IInv, TypeOK, CounterOrder
<1>b. \A c \in Consumers : c \in Threads /\ c \notin Producers
  BY ThreadAssumption DEF Threads
<1>c. \A c \in Consumers : base[c] \in Nat /\ num[c] \in Nat
  BY <1>b DEF IInv, TypeOK
<1>1. ASSUME NEW c \in Consumers, CasTail(c)
      PROVE  \E q \in Consumers : Busy(q, j)'
  <2>1. base[c] = popped
    <3>1. pc[c] = "cas" /\ Wrap(base[c]) = Wrap(popped)
      BY <1>1 DEF CasTail, IInv, LinkInv, PopInv, PopOK
    <3>2. base[c] \in 0..MaxClaims /\ popped \in 0..MaxClaims
      BY <3>1, CountersBounded
    <3>3. QED  BY <3>1, <3>2, WrapInjective
  <2>2. /\ popped' = popped + num[c] /\ released' = released
        /\ pc'[c] = "copy" /\ base'[c] = base[c] /\ num'[c] = num[c]
    BY <1>1, <1>b DEF CasTail, IInv, TypeOK
  <2>3. CASE j < popped
    <3>1. j \in released..(popped - 1)
      BY <1>a, <1>c, <2>2, <2>3
    <3>2. PICK q \in Consumers : Busy(q, j)
      BY <3>1 DEF Owned
    <3>3. q # c
      BY <1>1, <3>2 DEF CasTail, Busy
    <3>4. pc'[q] = pc[q] /\ base' = base /\ num' = num
      BY <1>1, <1>b, <3>3 DEF CasTail, IInv, TypeOK
    <3>5. QED  BY <3>2, <3>4 DEF Busy
  <2>4. CASE ~(j < popped)
    BY <1>a, <1>c, <2>1, <2>2, <2>4 DEF Busy
  <2>5. QED  BY <2>3, <2>4
<1>2. ASSUME NEW c \in Consumers, Release(c)
      PROVE  \E q \in Consumers : Busy(q, j)'
  <2>1. base[c] = released /\ pc[c] = "copy"
    <3>1. pc[c] = "copy" /\ Wrap(base[c]) = Wrap(released)
      BY <1>2 DEF Release, IInv, LinkInv, PopInv, PopOK
    <3>2. base[c] \in 0..MaxClaims /\ released \in 0..MaxClaims
      BY <3>1, CountersBounded
    <3>3. QED  BY <3>1, <3>2, WrapInjective
  <2>2. released' = released + num[c] /\ popped' = popped /\ pc' = [pc EXCEPT ![c] = "idle"]
    BY <1>2, <2>1 DEF Release, Return
  <2>3. j \in released..(popped - 1) /\ ~(j < base[c] + num[c])
    BY <1>a, <1>c, <2>1, <2>2
  <2>4. PICK q \in Consumers : Busy(q, j)
    BY <2>3 DEF Owned
  <2>5. q # c
    BY <2>3, <2>4 DEF Busy
  <2>6. pc'[q] = pc[q] /\ base'[q] = base[q] /\ num'[q] = num[q]
    BY <1>2, <1>b, <2>5 DEF Release, Return, IInv, TypeOK
  <2>7. QED  BY <2>4, <2>6 DEF Busy
<1>3. ASSUME \A c \in Consumers : ~CasTail(c) /\ ~Release(c)
      PROVE  \E q \in Consumers : Busy(q, j)'
  <2>1. UNCHANGED <<released, popped>>
    BY <1>3 DEF Next, Call, PushStep, PopStep, LoadHead, NoRoom, Room, CasHead, CasHeadFails, CopyIn,
                Publish, LoadTail, NothingThere, Available, CasTailFails, CopyOut,
                counts, vars
  <2>2. PICK q \in Consumers : Busy(q, j)
    BY <2>1 DEF Owned
  <2>3. QED  BY <1>3, <1>b, <2>2, CopyingStays DEF Busy
<1>4. QED  BY <1>1, <1>2, <1>3

(* As long as producers, or consumers, are copying, one of them has its turn *)
(* and can publish without waiting for another: the spin loops end.          *)
THEOREM TurnHeldCorrect == Spec => []TurnHeld
<1>1. Init => IInv /\ CoverInv
  <2>1. Init => CoverInv
    BY DEF Init, CoverInv, Owned
  <2>2. QED  BY <2>1, InitIInv
<1>2. IInv /\ CoverInv /\ [Next]_vars => (IInv /\ CoverInv)'
  BY NextIInv, PushCovers, PopCovers DEF CoverInv
<1>3. IInv /\ CoverInv => TurnHeld
  <2> SUFFICES ASSUME IInv, CoverInv PROVE TurnHeld
    OBVIOUS
  <2>1. ASSUME NEW p \in Producers, pc[p] = "copy"
        PROVE  \E q \in Producers : pc[q] = "copy" /\ headSecond = loc[q]
    <3>1. /\ published \in Nat /\ claimed \in Nat /\ base[p] \in Nat /\ num[p] \in Nat
          /\ num[p] > 0 /\ published <= base[p] /\ base[p] + num[p] <= claimed
      BY <2>1 DEF IInv, TypeOK, PushInv, PushOK, Threads
    <3>2. PICK q \in Producers : Busy(q, published)
      BY <3>1 DEF CoverInv, Owned
    <3>3. /\ pc[q] = "copy" /\ base[q] \in Nat /\ base[q] <= published /\ published <= base[q]
          /\ loc[q] = Wrap(base[q])
      BY <3>2 DEF Busy, IInv, TypeOK, PushInv, PushOK, Threads
    <3>4. base[q] = published
      BY <3>1, <3>3
    <3>5. QED  BY <3>3, <3>4 DEF IInv, LinkInv
  <2>2. ASSUME NEW c \in Consumers, pc[c] = "copy"
        PROVE  \E q \in Consumers : pc[q] = "copy" /\ tailSecond = loc[q]
    <3>1. /\ released \in Nat /\ popped \in Nat /\ base[c] \in Nat /\ num[c] \in Nat
          /\ num[c] > 0 /\ released <= base[c] /\ base[c] + num[c] <= popped
      BY <2>2 DEF IInv, TypeOK, PopInv, PopOK, Threads
    <3>2. PICK q \in Consumers : Busy(q, released)
      BY <3>1 DEF CoverInv, Owned
    <3>3. /\ pc[q] = "copy" /\ base[q] \in Nat /\ base[q] <= released /\ released <= base[q]
          /\ loc[q] = Wrap(base[q])
      BY <3>2 DEF Busy, IInv, TypeOK, PopInv, PopOK, Threads
    <3>4. base[q] = released
      BY <3>1, <3>3
    <3>5. QED  BY <3>3, <3>4 DEF IInv, LinkInv
  <2>3. QED  BY <2>1, <2>2 DEF TurnHeld
<1>4. QED  BY <1>1, <1>2, <1>3, PTL DEF Spec
=============================================================================
