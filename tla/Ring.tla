-------------------------------- MODULE Ring --------------------------------
(***************************************************************************)
(* base/gp_ringbuffer.c: the lock-free multi-producer, multi-consumer ring. *)
(*                                                                         *)
(* head.first and tail.first are claim counters, advanced by compare and   *)
(* swap; head.second and tail.second are publication counters, each thread *)
(* waiting for its turn.  All four are uint32_t and wrap at W = 2^32 (a    *)
(* smaller W in the models).  On x86, the only target of the code          *)
(* (emmintrin.h), a thread's stores become visible in order and the CAS is *)
(* a full barrier, so each access to shared memory is one step and the     *)
(* steps interleave.                                                       *)
(*                                                                         *)
(* The variables claimed, published, popped and released count the same    *)
(* four things without wrapping; they and base[t], the unwrapped position  *)
(* at which t's loop iteration started, are history: no guard looks at     *)
(* them.                                                                   *)
(***************************************************************************)
EXTENDS Integers, RingSlots

CONSTANTS
    Producers, Consumers,
    Capacity,   \* the `count' given to create_gp_ring
    W,          \* 2^32: the counters are taken modulo W
    Origin,     \* where the counters stand; the ring is empty
    MaxBatch,   \* bound: largest n given to push and pop
    MaxClaims   \* bound: positions claimed by pushes

Threads == Producers \union Consumers

ASSUME ThreadAssumption == Producers \intersect Consumers = {}
ASSUME CounterAssumption ==
    /\ Capacity \in Nat \ {0} /\ MaxBatch \in Nat \ {0} /\ MaxClaims \in Nat
    /\ W \in Nat /\ Origin \in 0..(W - 1)
    /\ Capacity + MaxClaims + MaxBatch < W
ASSUME SizeAssumption == Capacity < 2^30    \* `count' is an int

(* init_gp_ring                                                             *)
Size == SizeFor(Capacity)
Slot(pos, i) == SlotOf(Size, pos, i)

AddNoWrap(a, b) == a + b     \* mutant: more than 32 bits

(* uint32_t addition and subtraction: operands in 0..W-1, result mod W.     *)
Add32(a, b) == IF a + b >= W THEN a + b - W ELSE a + b
Sub32(a, b) == IF a - b < 0 THEN a - b + W ELSE a - b

VARIABLES
    headFirst, headSecond, tailFirst, tailSecond,   \* the uint32_t counters
    pc,     \* where each thread is in push or pop
    max,    \* the n it was called with
    loc,    \* its local `head' (push) or `tail' (pop)
    num,    \* its local n
    cnt,    \* its local i, the objects copied so far
    msgs,   \* the slots; an object is named by the position it was pushed at
    claimed, published, popped, released,   \* history: unwrapped counters
    base    \* history: unwrapped value of loc

shared == <<headFirst, headSecond, tailFirst, tailSecond>>
counts == <<claimed, published, popped, released>>
vars == <<shared, pc, max, loc, num, cnt, msgs, counts, base>>

----------------------------------------------------------------------------
Init ==
    /\ headFirst = Origin /\ headSecond = Origin
    /\ tailFirst = Origin /\ tailSecond = Origin
    /\ pc = [t \in Threads |-> "idle"]
    /\ max = [t \in Threads |-> 0]
    /\ loc = [t \in Threads |-> 0]
    /\ num = [t \in Threads |-> 0]
    /\ cnt = [t \in Threads |-> 0]
    /\ msgs = [k \in 0..(Size - 1) |-> -1]   \* calloc: no object yet
    /\ claimed = 0 /\ published = 0 /\ popped = 0 /\ released = 0
    /\ base = [t \in Threads |-> 0]

Least(a, b) == IF a < b THEN a ELSE b

(* gp_ring_push and gp_ring_pop are entered; n is positive.                 *)
Call(t, n) ==
    /\ pc[t] = "idle"
    /\ pc' = [pc EXCEPT ![t] = "load"]
    /\ max' = [max EXCEPT ![t] = n]
    /\ UNCHANGED <<shared, loc, num, cnt, msgs, counts, base>>

(* push or pop returns: its locals are gone.                                *)
Return(t) ==
    /\ pc' = [pc EXCEPT ![t] = "idle"]
    /\ max' = [max EXCEPT ![t] = 0]
    /\ loc' = [loc EXCEPT ![t] = 0]
    /\ num' = [num EXCEPT ![t] = 0]
    /\ cnt' = [cnt EXCEPT ![t] = 0]
    /\ base' = [base EXCEPT ![t] = 0]

(* head = q->head.first;                                                    *)
LoadHead(p) ==
    /\ pc[p] = "load"
    /\ loc' = [loc EXCEPT ![p] = headFirst]
    /\ base' = [base EXCEPT ![p] = claimed]
    /\ pc' = [pc EXCEPT ![p] = "room"]
    /\ UNCHANGED <<shared, max, num, cnt, msgs, counts>>

FreeEntriesEager(p) ==   \* mutant: counts what consumers claimed, not what they released
    Sub32(Add32(Capacity, tailFirst), loc[p])

(* free_entries = q->capacity + q->tail.second - head, in uint32_t          *)
FreeEntries(p) == Sub32(Add32(Capacity, tailSecond), loc[p])

NoRoom(p) ==
    /\ pc[p] = "room" /\ FreeEntries(p) = 0
    /\ Return(p)
    /\ UNCHANGED <<shared, msgs, counts>>

(* n is clipped to the room                                                 *)
Room(p) ==
    /\ pc[p] = "room" /\ FreeEntries(p) # 0
    /\ num' = [num EXCEPT ![p] = Least(max[p], FreeEntries(p))]
    /\ pc' = [pc EXCEPT ![p] = "cas"]
    /\ UNCHANGED <<shared, max, loc, cnt, msgs, counts, base>>

CasHeadRacy(p) ==        \* mutant: head.first is stored without comparing
    /\ pc[p] = "cas"
    /\ claimed + num[p] <= MaxClaims
    /\ headFirst' = Add32(loc[p], num[p])
    /\ claimed' = claimed + num[p]
    /\ cnt' = [cnt EXCEPT ![p] = 0]
    /\ pc' = [pc EXCEPT ![p] = "copy"]
    /\ UNCHANGED <<headSecond, tailFirst, tailSecond, max, loc, num, msgs,
                   published, popped, released, base>>

(* __sync_bool_compare_and_swap on head.first succeeds                      *)
CasHead(p) ==
    /\ pc[p] = "cas"
    /\ headFirst = loc[p]
    /\ claimed + num[p] <= MaxClaims
    /\ headFirst' = Add32(loc[p], num[p])
    /\ claimed' = claimed + num[p]
    /\ cnt' = [cnt EXCEPT ![p] = 0]
    /\ pc' = [pc EXCEPT ![p] = "copy"]
    /\ UNCHANGED <<headSecond, tailFirst, tailSecond, max, loc, num, msgs,
                   published, popped, released, base>>

(* ... or fails, and the loop starts over                                   *)
CasHeadFails(p) ==
    /\ pc[p] = "cas"
    /\ headFirst # loc[p]
    /\ pc' = [pc EXCEPT ![p] = "load"]
    /\ UNCHANGED <<shared, max, loc, num, cnt, msgs, counts, base>>

(* ring[idx] = obj[i]                                                       *)
CopyIn(p) ==
    /\ pc[p] = "copy" /\ cnt[p] < num[p]
    /\ msgs' = [msgs EXCEPT ![Slot(loc[p], cnt[p])] = base[p] + cnt[p]]
    /\ cnt' = [cnt EXCEPT ![p] = cnt[p] + 1]
    /\ UNCHANGED <<shared, pc, max, loc, num, counts, base>>

PublishOutOfTurn(p) ==   \* mutant: no spinning until head.second reaches head
    /\ pc[p] = "copy" /\ cnt[p] = num[p]
    /\ headSecond' = Add32(loc[p], num[p])
    /\ published' = base[p] + num[p]
    /\ Return(p)
    /\ UNCHANGED <<headFirst, tailFirst, tailSecond, msgs, claimed, popped, released>>

PublishOne(p) ==         \* mutant: counts one object of a batch
    /\ pc[p] = "copy" /\ cnt[p] = num[p]
    /\ headSecond = loc[p]
    /\ headSecond' = Add32(loc[p], 1)
    /\ published' = base[p] + 1
    /\ Return(p)
    /\ UNCHANGED <<headFirst, tailFirst, tailSecond, msgs, claimed, popped, released>>

(* All objects are in; the thread spins until head.second is its own head,  *)
(* and moves it on.                                                         *)
Publish(p) ==
    /\ pc[p] = "copy" /\ cnt[p] = num[p]
    /\ headSecond = loc[p]
    /\ headSecond' = Add32(loc[p], num[p])
    /\ published' = base[p] + num[p]
    /\ Return(p)
    /\ UNCHANGED <<headFirst, tailFirst, tailSecond, msgs, claimed, popped, released>>

----------------------------------------------------------------------------
(* gp_ring_pop: the same, with entries = q->head.second - tail              *)
LoadTail(c) ==
    /\ pc[c] = "load"
    /\ loc' = [loc EXCEPT ![c] = tailFirst]
    /\ base' = [base EXCEPT ![c] = popped]
    /\ pc' = [pc EXCEPT ![c] = "room"]
    /\ UNCHANGED <<shared, max, num, cnt, msgs, counts>>

Entries(c) == Sub32(headSecond, loc[c])

NothingThere(c) ==
    /\ pc[c] = "room" /\ Entries(c) = 0
    /\ Return(c)
    /\ UNCHANGED <<shared, msgs, counts>>

Available(c) ==
    /\ pc[c] = "room" /\ Entries(c) # 0
    /\ num' = [num EXCEPT ![c] = Least(max[c], Entries(c))]
    /\ pc' = [pc EXCEPT ![c] = "cas"]
    /\ UNCHANGED <<shared, max, loc, cnt, msgs, counts, base>>

CasTail(c) ==
    /\ pc[c] = "cas"
    /\ tailFirst = loc[c]
    /\ tailFirst' = Add32(loc[c], num[c])
    /\ popped' = popped + num[c]
    /\ cnt' = [cnt EXCEPT ![c] = 0]
    /\ pc' = [pc EXCEPT ![c] = "copy"]
    /\ UNCHANGED <<headFirst, headSecond, tailSecond, max, loc, num, msgs,
                   claimed, published, released, base>>

CasTailFails(c) ==
    /\ pc[c] = "cas"
    /\ tailFirst # loc[c]
    /\ pc' = [pc EXCEPT ![c] = "load"]
    /\ UNCHANGED <<shared, max, loc, num, cnt, msgs, counts, base>>

(* obj[i] = ring[idx]                                                       *)
CopyOut(c) ==
    /\ pc[c] = "copy" /\ cnt[c] < num[c]
    /\ cnt' = [cnt EXCEPT ![c] = cnt[c] + 1]
    /\ UNCHANGED <<shared, pc, max, loc, num, msgs, counts, base>>

Release(c) ==
    /\ pc[c] = "copy" /\ cnt[c] = num[c]
    /\ tailSecond = loc[c]
    /\ tailSecond' = Add32(loc[c], num[c])
    /\ released' = base[c] + num[c]
    /\ Return(c)
    /\ UNCHANGED <<headFirst, headSecond, tailFirst, msgs, claimed, published, popped>>

----------------------------------------------------------------------------
PushStep(p) ==
    \/ LoadHead(p) \/ NoRoom(p) \/ Room(p) \/ CasHead(p) \/ CasHeadFails(p)
    \/ CopyIn(p) \/ Publish(p)

PopStep(c) ==
    \/ LoadTail(c) \/ NothingThere(c) \/ Available(c) \/ CasTail(c) \/ CasTailFails(c)
    \/ CopyOut(c) \/ Release(c)

Next ==
    \/ \E t \in Threads, n \in 1..MaxBatch : Call(t, n)
    \/ \E p \in Producers : PushStep(p)
    \/ \E c \in Consumers : PopStep(c)

Spec == Init /\ [][Next]_vars

----------------------------------------------------------------------------
(* Types; the shared counters are uint32_t.                                 *)
TypeOK ==
    /\ headFirst \in 0..(W - 1) /\ headSecond \in 0..(W - 1)
    /\ tailFirst \in 0..(W - 1) /\ tailSecond \in 0..(W - 1)
    /\ pc \in [Threads -> {"idle", "load", "room", "cas", "copy"}]
    /\ max \in [Threads -> 0..MaxBatch]
    /\ loc \in [Threads -> 0..(W - 1)]
    /\ num \in [Threads -> 0..MaxBatch]
    /\ cnt \in [Threads -> 0..MaxBatch]
    /\ msgs \in [0..(Size - 1) -> Int]
    /\ claimed \in 0..MaxClaims /\ published \in Nat
    /\ popped \in Nat /\ released \in Nat
    /\ base \in [Threads -> Nat]

(* Nothing is consumed before it is published, nothing is published before  *)
(* it is claimed, and no more than Capacity positions are in use at once,   *)
(* although free_entries and entries are computed from two counters read at *)
(* different times (45-47, 110-112) and wrap.                               *)
CounterOrder ==
    /\ released <= popped
    /\ popped <= published
    /\ published <= claimed
    /\ claimed <= released + Capacity

Busy(t, j) == pc[t] = "copy" /\ base[t] <= j /\ j < base[t] + num[t]

(* No position belongs to two producers or to two consumers at once: the    *)
(* loop of load, clip and compare-and-swap hands out disjoint ranges.       *)
ExclusiveClaims ==
    \A S \in {Producers, Consumers} : \A s, t \in S : \A j \in 0..MaxClaims :
        Busy(s, j) /\ Busy(t, j) => s = t

(* What a consumer is about to copy out of a slot is the object pushed at   *)
(* that position: no object is lost, duplicated, overtaken or overwritten.  *)
InOrder ==
    \A c \in Consumers : pc[c] = "copy" =>
        \A i \in cnt[c]..(num[c] - 1) : msgs[Slot(loc[c], i)] = base[c] + i

(* The publication counters move only forward, and past no position that    *)
(* another thread is still copying (89-93, 152-156).                        *)
PublishInTurn ==
    [][ /\ published' # published =>
              /\ published' > published
              /\ \A p \in Producers : pc'[p] = "copy" => base[p] >= published'
        /\ released' # released =>
              /\ released' > released
              /\ \A c \in Consumers : pc'[c] = "copy" => base[c] >= released' ]_vars

(* Nobody spins for ever: as long as threads have claimed positions, it is  *)
(* the turn of one of them, which waits for nobody (the conditions of the   *)
(* spin loops at 89 and 152).                                               *)
TurnHeld ==
    /\ (\E p \in Producers : pc[p] = "copy") =>
          \E p \in Producers : pc[p] = "copy" /\ headSecond = loc[p]
    /\ (\E c \in Consumers : pc[c] = "copy") =>
          \E c \in Consumers : pc[c] = "copy" /\ tailSecond = loc[c]
=============================================================================
