------------------------------- MODULE Buffer -------------------------------
(***************************************************************************)
(* base/gp_buffer.c: a block of memory with a reader and a writer index.   *)
(* What lies between them is readable; Cheap bytes are kept in front of it *)
(* and the block is compacted or grown when an append does not fit.        *)
(*                                                                         *)
(* Each C function is an operator under its own name from a buffer (and    *)
(* the bytes it is given) to a buffer.  Junk is memory nobody has written. *)
(***************************************************************************)
EXTENDS Integers, Sequences

CONSTANTS
    Bytes, Junk,
    Cheap,      \* k_cheap_prepend (8)
    Initial,    \* k_initial_size (8192)
    ExtraSize   \* size of buffer_read_fd's second vector (65536)

ASSUME BufferAssumption ==
    Cheap \in Nat /\ Initial \in Nat /\ ExtraSize \in Nat \ {0} /\ Junk \notin Bytes

init_gp_buffer ==
    [block |-> [i \in 0..(Cheap + Initial - 1) |-> Junk],
     len |-> Cheap + Initial, reader |-> Cheap, writer |-> Cheap]

readable_bytes(b) == b.writer - b.reader
writable_bytes(b) == b.len - b.writer
prependable_bytes(b) == b.reader

(* The readable bytes, from peek(b) on.                                     *)
Contents(b) == [i \in 1..readable_bytes(b) |-> b.block[b.reader + (i - 1)]]

retrieve_all(b) == [b EXCEPT !.reader = Cheap, !.writer = Cheap]

retrieve(b, n) ==
    IF n < readable_bytes(b) THEN [b EXCEPT !.reader = @ + n] ELSE retrieve_all(b)

(* peek_int32, peek_str, peek_pb_msg and their like abort() unless the bytes *)
(* are there; a negative length is a huge one when it is compared with a     *)
(* size_t.  read_int32, read_str, read_pb_msg and their like peek, retrieve. *)
Peekable(b, n) == n >= 0 /\ readable_bytes(b) >= n
ReadPast(b, n) == retrieve(b, n)

(* make_space: realloc to the size the append needs, or memmove to the front. *)
Grown(b, n) ==
    [b EXCEPT !.block = [i \in 0..(b.writer + n - 1) |-> IF i < b.len THEN b.block[i] ELSE Junk],
              !.len = b.writer + n]

CompactedNoMove(b) ==   \* mutant: the indices move, the bytes stay
    [b EXCEPT !.reader = Cheap, !.writer = Cheap + readable_bytes(b)]

Compacted(b) ==
    [b EXCEPT !.block = [i \in 0..(b.len - 1) |->
                            IF Cheap <= i /\ i < Cheap + readable_bytes(b)
                            THEN b.block[b.reader + (i - Cheap)]
                            ELSE b.block[i]],
              !.reader = Cheap, !.writer = Cheap + readable_bytes(b)]

make_space(b, n) ==
    IF writable_bytes(b) + prependable_bytes(b) < n + Cheap
    THEN Grown(b, n)
    ELSE Compacted(b)

ensure_writable_bytes(b, n) == IF writable_bytes(b) < n THEN make_space(b, n) ELSE b

(* memcpy to the writer index, and has_written.                             *)
Store(b, s) ==
    [b EXCEPT !.block = [i \in 0..(b.len - 1) |->
                            IF b.writer <= i /\ i < b.writer + Len(s)
                            THEN s[(i - b.writer) + 1]
                            ELSE b.block[i]],
              !.writer = @ + Len(s)]

buffer_append(b, s) == Store(ensure_writable_bytes(b, Len(s)), s)

(* readv fills the block and then extrabuf, which is appended.               *)
ReadLimit(b) ==
    writable_bytes(b) + (IF writable_bytes(b) < ExtraSize THEN ExtraSize ELSE 0)

buffer_read_fd(b, s) ==
    IF Len(s) <= writable_bytes(b)
    THEN Store(b, s)
    ELSE buffer_append(Store(b, SubSeq(s, 1, writable_bytes(b))),
                       SubSeq(s, writable_bytes(b) + 1, Len(s)))

(* What every operation relies on: the indices are in order and inside the  *)
(* block, with Cheap bytes in front, and every readable byte was written.   *)
IsBuffer(b) ==
    /\ b.len \in Nat /\ b.reader \in Nat /\ b.writer \in Nat
    /\ Cheap <= b.reader /\ b.reader <= b.writer /\ b.writer <= b.len
    /\ b = [block |-> b.block, len |-> b.len, reader |-> b.reader, writer |-> b.writer]
    /\ b.block \in [0..(b.len - 1) -> Bytes \union {Junk}]
    /\ Contents(b) \in Seq(Bytes)
=============================================================================
