----------------------------- MODULE AtomicRef -----------------------------
(***************************************************************************)
(* The reference counter of a gp_connection: gp_atomic_inc and             *)
(* gp_atomic_dec_and_test of include/gp.h, as conn_ref_inc and             *)
(* conn_ref_dec of base/gp_conn.c use them, called from several threads.   *)
(*                                                                         *)
(* dec_and_test is two accesses: `lock decq' on the counter, and then a    *)
(* plain read of the counter for the result.                               *)
(***************************************************************************)
EXTENDS Integers, FiniteSets

CONSTANTS
    Threads,
    Refs,       \* bound: the references that may ever be taken
    First       \* the reference gp_atomic_set(&conn->ref, 1) stands for

ASSUME RefAssumption == IsFiniteSet(Refs) /\ First \in Refs

VARIABLES
    counter,    \* ref.counter
    held,       \* per thread: the references it holds
    used,       \* references taken so far
    pc,         \* "idle", or "test": between the decrement and the read
    destructs   \* how often destruct_gp_connection was called

vars == <<counter, held, used, pc, destructs>>

Live == UNION {held[t] : t \in Threads}

Init ==
    /\ counter = 1
    /\ \E t \in Threads : held = [u \in Threads |-> IF u = t THEN {First} ELSE {}]
    /\ used = {First}
    /\ pc = [t \in Threads |-> "idle"]
    /\ destructs = 0

IncNotCounted(t, u, r) ==    \* mutant: the pointer is handed on without conn_ref_inc
    /\ pc[t] = "idle" /\ held[t] # {}
    /\ r \notin used
    /\ used' = used \union {r}
    /\ held' = [held EXCEPT ![u] = @ \union {r}]
    /\ UNCHANGED <<counter, pc, destructs>>

(* conn_ref_inc by a thread that holds a reference; the new one is for      *)
(* itself or travels, in a pending task or a message, to another thread.    *)
Inc(t, u, r) ==
    /\ pc[t] = "idle" /\ held[t] # {}
    /\ r \notin used
    /\ counter' = counter + 1
    /\ used' = used \union {r}
    /\ held' = [held EXCEPT ![u] = @ \union {r}]
    /\ UNCHANGED <<pc, destructs>>

(* conn_ref_dec, the locked decrement                                       *)
Dec(t, r) ==
    /\ pc[t] = "idle" /\ r \in held[t]
    /\ counter' = counter - 1
    /\ held' = [held EXCEPT ![t] = @ \ {r}]
    /\ pc' = [pc EXCEPT ![t] = "test"]
    /\ UNCHANGED <<used, destructs>>

TestNotLast(t) ==            \* mutant: the result is inverted
    /\ pc[t] = "test"
    /\ destructs' = IF counter = 0 THEN destructs ELSE destructs + 1
    /\ pc' = [pc EXCEPT ![t] = "idle"]
    /\ UNCHANGED <<counter, held, used>>

(* return v->counter == 0; and the destructor if it is.  Once the connection *)
(* is freed this reads freed memory: either answer.                         *)
Test(t) ==
    /\ pc[t] = "test"
    /\ \E zero \in IF destructs > 0 THEN BOOLEAN ELSE {counter = 0} :
          destructs' = IF zero THEN destructs + 1 ELSE destructs
    /\ pc' = [pc EXCEPT ![t] = "idle"]
    /\ UNCHANGED <<counter, held, used>>

(* Every reference was given back and everybody has looked.                 *)
Over ==
    /\ Live = {} /\ \A t \in Threads : pc[t] = "idle"
    /\ UNCHANGED vars

Next ==
    \/ \E t, u \in Threads, r \in Refs : Inc(t, u, r)
    \/ \E t \in Threads, r \in Refs : Dec(t, r)
    \/ \E t \in Threads : Test(t)
    \/ Over

(* A thread that has decremented goes on to the read.                       *)
Fairness == \A t \in Threads : WF_vars(Test(t))

SafeSpec == Init /\ [][Next]_vars
Spec == SafeSpec /\ Fairness

----------------------------------------------------------------------------
(* Types.                                                                   *)
TypeOK ==
    /\ counter \in Nat
    /\ held \in [Threads -> SUBSET Refs]
    /\ used \subseteq Refs
    /\ pc \in [Threads -> {"idle", "test"}]
    /\ destructs \in Nat

(* The connection is destructed only when no thread holds a reference, and  *)
(* none can come back: there is no early free, although the value tested is *)
(* not the value decremented to.                                            *)
NoEarlyDestruct == destructs > 0 => Live = {} /\ counter = 0

(* When the last reference is given back, somebody destructs.               *)
SomebodyDestructs == Live = {} ~> destructs > 0

(* "Atomically decrement @v by 1; if (atomic value == 0) return true; else   *)
(* return false": exactly one caller is told that it was the last.          *)
OneDestructs == destructs <= 1
=============================================================================
