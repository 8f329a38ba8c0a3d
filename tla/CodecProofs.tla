---------------------------- MODULE CodecProofs -----------------------------
(***************************************************************************)
(* Proofs about Buffer and Codec, for every size of the block, the prepend *)
(* space and the second vector, and every set of message kinds.            *)
(*                                                                         *)
(* The first part rests on one relation: buffer b holds bytes lo + 1 .. hi *)
(* of the stream w.  Each operation of gp_buffer.c is shown to move hi     *)
(* (bytes written), lo (bytes retrieved) or neither (the block is moved or *)
(* grown).                                                                 *)
(*                                                                         *)
(* The second part is about what Codec makes of the bytes: what it hands   *)
(* out, when it aborts, and the bound on the frames that wait in the       *)
(* buffer.  The stream is cut into frames: off[f] is the number of bytes   *)
(* in front of frame f.  Statements about bytes become comparisons of      *)
(* offsets.                                                                *)
(***************************************************************************)
EXTENDS Codec, SequenceTheorems, FiniteSetTheorems, TLAPS

Block(b) ==
    /\ b = [block |-> b.block, len |-> b.len, reader |-> b.reader, writer |-> b.writer]
    /\ b.len \in Nat /\ b.reader \in Nat /\ b.writer \in Nat
    /\ Cheap <= b.reader /\ b.reader <= b.writer /\ b.writer <= b.len
    /\ b.block \in [0..(b.len - 1) -> Bytes \union {Junk}]

Holds(b, w, lo, hi) ==
    /\ Block(b)
    /\ b.writer - b.reader = hi - lo
    /\ \A i \in (lo + 1)..hi : b.block[b.reader + (i - lo - 1)] = w[i]

(* s is the n bytes of w behind position hi.                                *)
Piece(s, w, hi, n) ==
    /\ Len(s) = n
    /\ \A i \in 1..n : s[i] = w[hi + i]
    /\ \A i \in 1..n : s[i] \in Bytes

(* c is b with the next n bytes written behind its contents.                *)
Stored(c, b, w, lo, hi, n) ==
    Holds(c, w, lo, hi + n) /\ c.len = b.len /\ c.writer = b.writer + n

(* c is b with bytes taken from the front: lo + 1 .. hi are left.           *)
Taken(c, b, w, lo, hi) ==
    Holds(c, w, lo, hi) /\ c.len = b.len /\ c.writer <= b.writer

USE DEF readable_bytes, writable_bytes, prependable_bytes

(* Bytes written behind the contents of a buffer, where there is room.      *)
LEMMA StoreHolds ==
    ASSUME NEW b, NEW w, NEW lo \in Nat, NEW hi \in Nat, NEW n \in Nat, NEW s,
           Holds(b, w, lo, hi), lo <= hi, Piece(s, w, hi, n), n <= writable_bytes(b)
    PROVE  Stored(Store(b, s), b, w, lo, hi, n)
<1> USE BufferAssumption
<1> DEFINE c == Store(b, s)
           blk == [i \in 0..(b.len - 1) |-> IF b.writer <= i /\ i < b.writer + Len(s)
                                            THEN s[(i - b.writer) + 1] ELSE b.block[i]]
<1>0. /\ b.len \in Nat /\ b.reader \in Nat /\ b.writer \in Nat
      /\ Cheap <= b.reader /\ b.reader <= b.writer /\ b.writer <= b.len
      /\ b.block \in [0..(b.len - 1) -> Bytes \union {Junk}]
      /\ b = [block |-> b.block, len |-> b.len, reader |-> b.reader, writer |-> b.writer]
      /\ Len(s) = n /\ b.writer + n <= b.len /\ b.writer - b.reader = hi - lo
  BY DEF Holds, Block, Piece
<1>n. /\ b.len \in Nat /\ b.reader \in Nat /\ b.writer \in Nat /\ Cheap \in Nat /\ Len(s) = n
      /\ Cheap <= b.reader /\ b.reader <= b.writer
      /\ b.writer + n <= b.len /\ b.writer - b.reader = hi - lo
  BY <1>0
<1>1. c = [block |-> blk, len |-> b.len, reader |-> b.reader, writer |-> b.writer + n]
  <2>1. c = [b EXCEPT !.block = blk, !.writer = b.writer + Len(s)]
    BY Zenon DEF Store
  <2> HIDE DEF blk, c
  <2> QED
    BY <2>1, <1>0
<1> HIDE DEF c
<1>1a. c.block = blk /\ c.len = b.len /\ c.reader = b.reader /\ c.writer = b.writer + n
  <2> HIDE DEF blk
  <2> QED  BY <1>1
<1>2. blk \in [0..(b.len - 1) -> Bytes \union {Junk}]
  <2> SUFFICES ASSUME NEW i \in 0..(b.len - 1)
               PROVE  (IF b.writer <= i /\ i < b.writer + Len(s)
                       THEN s[(i - b.writer) + 1] ELSE b.block[i]) \in Bytes \union {Junk}
    OBVIOUS
  <2>1. CASE b.writer <= i /\ i < b.writer + n
    <3>1. (i - b.writer) + 1 \in 1..n
      BY <2>1, <1>0
    <3> QED
      BY <2>1, <3>1, <1>0 DEF Piece
  <2>2. CASE ~(b.writer <= i /\ i < b.writer + n)
    BY <2>2, <1>0
  <2> QED
    BY <2>1, <2>2
<1>3. Block(c)
  BY <1>0, <1>1, <1>2 DEF Block
<1>4. \A i \in (lo + 1)..(hi + n) : c.block[c.reader + (i - lo - 1)] = w[i]
  <2> SUFFICES ASSUME NEW i \in (lo + 1)..(hi + n)
               PROVE  blk[b.reader + (i - lo - 1)] = w[i]
    <3> HIDE DEF blk
    <3> QED  BY <1>1a
  <2> DEFINE j == b.reader + (i - lo - 1)
  <2>1. j \in 0..(b.len - 1) /\ i \in Int
    BY <1>n
  <2>2. CASE i <= hi
    <3>1. j < b.writer /\ i \in (lo + 1)..hi
      BY <1>n, <2>2
    <3>2. b.block[j] = w[i]
      BY <3>1, Zenon DEF Holds
    <3>3. blk[j] = b.block[j]
      BY <3>1, <2>1, <1>0
    <3> QED
      BY <3>2, <3>3
  <2>3. CASE ~(i <= hi)
    <3>0. j = b.writer + (i - hi - 1)
      BY <1>n
    <3>1. b.writer <= j /\ j < b.writer + n /\ (j - b.writer) + 1 = i - hi /\ i - hi \in 1..n
      <4> HIDE DEF j
      <4> QED  BY <1>n, <2>1, <2>3, <3>0
    <3>2. blk[j] = s[i - hi]
      BY <3>1, <2>1, <1>n
    <3>3. s[i - hi] = w[hi + (i - hi)] /\ hi + (i - hi) = i
      BY <3>1 DEF Piece
    <3> QED
      BY <3>2, <3>3
  <2> QED
    BY <2>2, <2>3
<1> HIDE DEF blk
<1>5. Holds(c, w, lo, hi + n) /\ c.len = b.len /\ c.writer = b.writer + n
  BY <1>0, <1>1a, <1>3, <1>4 DEF Holds
<1> QED
  BY <1>5, Zenon DEF c, Stored

(* The facts about indices that the arithmetic below needs, on their own.   *)
LEMMA HoldsFacts ==
    ASSUME NEW b, NEW w, NEW lo \in Nat, NEW hi \in Nat, Holds(b, w, lo, hi)
    PROVE  /\ b.len \in Nat /\ b.reader \in Nat /\ b.writer \in Nat /\ Cheap \in Nat
           /\ Cheap <= b.reader /\ b.reader <= b.writer /\ b.writer <= b.len
           /\ b.writer - b.reader = hi - lo /\ lo <= hi
<1>1. /\ b.len \in Nat /\ b.reader \in Nat /\ b.writer \in Nat
      /\ Cheap <= b.reader /\ b.reader <= b.writer /\ b.writer <= b.len
      /\ b.writer - b.reader = hi - lo
  BY DEF Holds, Block
<1> QED
  BY <1>1, BufferAssumption

(* retrieve takes bytes from the front and leaves the others in place.      *)
LEMMA RetrieveHolds ==
    ASSUME NEW b, NEW w, NEW lo \in Nat, NEW hi \in Nat, NEW n \in Nat,
           Holds(b, w, lo, hi), n <= hi - lo
    PROVE  Taken(retrieve(b, n), b, w, lo + n, hi)
<1>0. /\ b.len \in Nat /\ b.reader \in Nat /\ b.writer \in Nat /\ Cheap \in Nat
      /\ Cheap <= b.reader /\ b.reader <= b.writer /\ b.writer <= b.len
      /\ b.writer - b.reader = hi - lo /\ lo <= hi
  BY HoldsFacts
<1>1. /\ b = [block |-> b.block, len |-> b.len, reader |-> b.reader, writer |-> b.writer]
      /\ b.block \in [0..(b.len - 1) -> Bytes \union {Junk}]
  BY DEF Holds, Block
<1> DEFINE c == retrieve(b, n)
<1>2. CASE n < b.writer - b.reader
  <2>1. c = [b EXCEPT !.reader = b.reader + n]
    BY <1>2 DEF retrieve
  <2> HIDE DEF c
  <2>2. c = [block |-> b.block, len |-> b.len, reader |-> b.reader + n, writer |-> b.writer]
    BY <2>1, <1>1
  <2>3. c.block = b.block /\ c.len = b.len /\ c.reader = b.reader + n /\ c.writer = b.writer
    BY <2>2
  <2>4. Block(c)
    BY <2>2, <2>3, <1>0, <1>1, <1>2 DEF Block
  <2>5. ASSUME NEW i \in (lo + n + 1)..hi
        PROVE  c.block[c.reader + (i - (lo + n) - 1)] = w[i]
    <3>1. i \in (lo + 1)..hi
      OBVIOUS
    <3>2. b.block[b.reader + (i - lo - 1)] = w[i]
      BY <3>1, Zenon DEF Holds
    <3>3. c.reader + (i - (lo + n) - 1) = b.reader + (i - lo - 1)
      BY <2>3, <1>0
    <3> QED
      BY <3>2, <3>3, <2>3
  <2>6. c.writer - c.reader = hi - (lo + n)
    BY <2>3, <1>0
  <2>7. Holds(c, w, lo + n, hi)
    BY <2>4, <2>5, <2>6, Zenon DEF Holds
  <2> QED
    BY <2>3, <2>7, <1>0 DEF c, Taken
<1>3. CASE ~(n < b.writer - b.reader)
  <2>1. c = [b EXCEPT !.reader = Cheap, !.writer = Cheap]
    BY <1>3 DEF retrieve, retrieve_all
  <2> HIDE DEF c
  <2>2. c = [block |-> b.block, len |-> b.len, reader |-> Cheap, writer |-> Cheap]
    BY <2>1, <1>1
  <2>3. c.block = b.block /\ c.len = b.len /\ c.reader = Cheap /\ c.writer = Cheap
    BY <2>2
  <2>4. Block(c)
    BY <2>2, <2>3, <1>0, <1>1 DEF Block
  <2>5. lo + n = hi
    BY <1>0, <1>3
  <2>6. c.writer - c.reader = hi - hi /\ (hi + 1)..hi = {}
    BY <2>3, <1>0
  <2>7. Holds(c, w, lo + n, hi)
    BY <2>4, <2>5, <2>6 DEF Holds
  <2> QED
    BY <2>3, <2>7, <1>0 DEF c, Taken
<1> QED
  BY <1>2, <1>3

(* retrieve_all empties the buffer.                                         *)
LEMMA RetrieveAllHolds ==
    ASSUME NEW b, NEW w, NEW lo \in Nat, NEW hi \in Nat, Holds(b, w, lo, hi)
    PROVE  Taken(retrieve_all(b), b, w, hi, hi)
<1>0. /\ b.reader \in Nat /\ b.writer \in Nat /\ b.writer - b.reader = hi - lo /\ lo <= hi
  BY HoldsFacts
<1>1. hi - lo \in Nat /\ hi - lo <= hi - lo /\ lo + (hi - lo) = hi
  BY <1>0
<1>2. retrieve(b, hi - lo) = retrieve_all(b)
  BY <1>0 DEF retrieve
<1> QED
  BY <1>1, <1>2, RetrieveHolds

(* make_space moves or enlarges the block, keeps what is readable and ends  *)
(* with the room that was asked for: the comparison that chooses between    *)
(* the two is the right one.                                                *)
LEMMA MakeSpaceHolds ==
    ASSUME NEW b, NEW w, NEW lo \in Nat, NEW hi \in Nat, NEW n \in Nat, Holds(b, w, lo, hi),
           writable_bytes(b) < n
    PROVE  /\ Holds(make_space(b, n), w, lo, hi)
           /\ make_space(b, n).len >= b.len
           /\ n <= writable_bytes(make_space(b, n))
<1>0. /\ b.len \in Nat /\ b.reader \in Nat /\ b.writer \in Nat /\ Cheap \in Nat
      /\ Cheap <= b.reader /\ b.reader <= b.writer /\ b.writer <= b.len
      /\ b.writer - b.reader = hi - lo /\ lo <= hi
  BY HoldsFacts
<1>1. /\ b = [block |-> b.block, len |-> b.len, reader |-> b.reader, writer |-> b.writer]
      /\ b.block \in [0..(b.len - 1) -> Bytes \union {Junk}]
  BY DEF Holds, Block
<1> DEFINE c == make_space(b, n)
<1>2. CASE b.len - b.writer + b.reader < n + Cheap
  <2> DEFINE blk == [i \in 0..(b.writer + n - 1) |-> IF i < b.len THEN b.block[i] ELSE Junk]
  <2>1. c = [b EXCEPT !.block = blk, !.len = b.writer + n]
    BY <1>2 DEF make_space, Grown
  <2>2. blk \in [0..(b.writer + n - 1) -> Bytes \union {Junk}]
    BY <1>0, <1>1
  <2>3. \A j \in 0..(b.len - 1) : blk[j] = b.block[j]
    BY <1>0
  <2> HIDE DEF c, blk
  <2>4. c = [block |-> blk, len |-> b.writer + n, reader |-> b.reader, writer |-> b.writer]
    BY <2>1, <1>1
  <2>5. c.block = blk /\ c.len = b.writer + n /\ c.reader = b.reader /\ c.writer = b.writer
    BY <2>4
  <2>6. Block(c)
    <3>1. c = [block |-> c.block, len |-> c.len, reader |-> c.reader, writer |-> c.writer]
      BY <2>4, <2>5
    <3>2. c.block \in [0..(c.len - 1) -> Bytes \union {Junk}]
      <4>1. c.block = blk /\ 0..(c.len - 1) = 0..(b.writer + n - 1)
        BY <2>5, <1>0
      <4> QED
        BY <2>2, <4>1, Zenon
    <3>3. /\ c.len \in Nat /\ c.reader \in Nat /\ c.writer \in Nat
          /\ Cheap <= c.reader /\ c.reader <= c.writer /\ c.writer <= c.len
      BY <2>5, <1>0
    <3> QED
      BY <3>1, <3>2, <3>3, Zenon DEF Block
  <2>7. ASSUME NEW i \in (lo + 1)..hi
        PROVE  c.block[c.reader + (i - lo - 1)] = w[i]
    <3>1. b.block[b.reader + (i - lo - 1)] = w[i]
      BY Zenon DEF Holds
    <3>2. b.reader + (i - lo - 1) \in 0..(b.len - 1)
      BY <1>0
    <3> QED
      BY <3>1, <3>2, <2>3, <2>5
  <2>8. Holds(c, w, lo, hi)
    BY <2>5, <2>6, <2>7, <1>0, Zenon DEF Holds
  <2>9. c.len >= b.len /\ n <= c.len - c.writer
    BY <2>5, <1>0
  <2> QED
    BY <2>8, <2>9 DEF c
<1>3. CASE ~(b.len - b.writer + b.reader < n + Cheap)
  <2> DEFINE r == b.writer - b.reader
             blk == [i \in 0..(b.len - 1) |->
                        IF Cheap <= i /\ i < Cheap + r THEN b.block[b.reader + (i - Cheap)]
                        ELSE b.block[i]]
  <2>1. c = [b EXCEPT !.block = blk, !.reader = Cheap, !.writer = Cheap + r]
    BY <1>3 DEF make_space, Compacted
  <2>2. blk \in [0..(b.len - 1) -> Bytes \union {Junk}]
    <3> SUFFICES ASSUME NEW i \in 0..(b.len - 1)
                 PROVE  (IF Cheap <= i /\ i < Cheap + r THEN b.block[b.reader + (i - Cheap)]
                         ELSE b.block[i]) \in Bytes \union {Junk}
      OBVIOUS
    <3>1. Cheap <= i /\ i < Cheap + r => b.reader + (i - Cheap) \in 0..(b.len - 1)
      BY <1>0
    <3> QED
      BY <3>1, <1>1
  <2>3. \A i \in (lo + 1)..hi : blk[Cheap + (i - lo - 1)] = b.block[b.reader + (i - lo - 1)]
    <3> SUFFICES ASSUME NEW i \in (lo + 1)..hi
                 PROVE  blk[Cheap + (i - lo - 1)] = b.block[b.reader + (i - lo - 1)]
      OBVIOUS
    <3> DEFINE j == Cheap + (i - lo - 1)
    <3>1. /\ j \in 0..(b.len - 1) /\ Cheap <= j /\ j < Cheap + r
          /\ b.reader + (j - Cheap) = b.reader + (i - lo - 1)
      BY <1>0
    <3> HIDE DEF j
    <3>2. blk[j] = b.block[b.reader + (j - Cheap)]
      BY <3>1
    <3> HIDE DEF blk
    <3> QED
      BY <3>1, <3>2 DEF j
  <2> HIDE DEF c, blk
  <2>4. c = [block |-> blk, len |-> b.len, reader |-> Cheap, writer |-> Cheap + r]
    BY <2>1, <1>1
  <2>5. c.block = blk /\ c.len = b.len /\ c.reader = Cheap /\ c.writer = Cheap + r
    BY <2>4
  <2>6. Block(c)
    BY <2>2, <2>4, <2>5, <1>0 DEF Block
  <2>7. ASSUME NEW i \in (lo + 1)..hi
        PROVE  c.block[c.reader + (i - lo - 1)] = w[i]
    <3>1. b.block[b.reader + (i - lo - 1)] = w[i]
      BY Zenon DEF Holds
    <3> QED
      BY <3>1, <2>3, <2>5
  <2>8. c.writer - c.reader = hi - lo
    BY <2>5, <1>0
  <2>9. Holds(c, w, lo, hi)
    BY <2>6, <2>7, <2>8, Zenon DEF Holds
  <2>10. c.len >= b.len /\ n <= c.len - c.writer
    BY <2>5, <1>0, <1>3
  <2> QED
    BY <2>9, <2>10 DEF c
<1> QED
  BY <1>2, <1>3

(* ensure_writable_bytes keeps the bytes and makes the room it is asked for.*)
LEMMA EnsureHolds ==
    ASSUME NEW b, NEW w, NEW lo \in Nat, NEW hi \in Nat, NEW n \in Nat, Holds(b, w, lo, hi)
    PROVE  /\ Holds(ensure_writable_bytes(b, n), w, lo, hi)
           /\ ensure_writable_bytes(b, n).len >= b.len
           /\ n <= writable_bytes(ensure_writable_bytes(b, n))
<1>0. b.len \in Nat /\ b.writer \in Nat
  BY HoldsFacts
<1>1. CASE writable_bytes(b) < n
  <2>1. ensure_writable_bytes(b, n) = make_space(b, n)
    BY <1>1 DEF ensure_writable_bytes
  <2> QED
    BY <2>1, <1>1, MakeSpaceHolds
<1>2. CASE ~(writable_bytes(b) < n)
  <2>1. ensure_writable_bytes(b, n) = b
    BY <1>2 DEF ensure_writable_bytes
  <2> QED
    BY <2>1, <1>2, <1>0
<1> QED
  BY <1>1, <1>2

(* buffer_append adds its bytes behind those that are there.                *)
LEMMA AppendHolds ==
    ASSUME NEW b, NEW w, NEW lo \in Nat, NEW hi \in Nat, NEW n \in Nat, NEW s,
           Holds(b, w, lo, hi), Piece(s, w, hi, n)
    PROVE  /\ Holds(buffer_append(b, s), w, lo, hi + n)
           /\ buffer_append(b, s).len >= b.len
<1> DEFINE e == ensure_writable_bytes(b, n)
<1>1. Holds(e, w, lo, hi) /\ e.len >= b.len /\ n <= writable_bytes(e)
  BY EnsureHolds
<1>2. buffer_append(b, s) = Store(e, s)
  BY DEF buffer_append, Piece
<1>3. lo <= hi
  BY HoldsFacts
<1> HIDE DEF e
<1> QED
  BY <1>1, <1>2, <1>3, StoreHolds DEF Stored

(* The two pieces that readv splits a read into.                            *)
LEMMA PieceSplit ==
    ASSUME NEW w, NEW hi \in Nat, NEW n \in Nat, NEW s, Piece(s, w, hi, n),
           NEW k \in Nat, k <= n
    PROVE  /\ Piece(SubSeq(s, 1, k), w, hi, k)
           /\ Piece(SubSeq(s, k + 1, n), w, hi + k, n - k)
<1>1. \A i \in 1..k : s[i] \in Bytes
  BY DEF Piece
<1>2. \A i \in (k + 1)..n : s[i] \in Bytes
  BY DEF Piece
<1>3. /\ SubSeq(s, 1, k) \in Seq(Bytes)
      /\ Len(SubSeq(s, 1, k)) = k
      /\ \A i \in 1..k : SubSeq(s, 1, k)[i] = s[i]
  BY <1>1, SubSeqProperties
<1>4. /\ SubSeq(s, k + 1, n) \in Seq(Bytes)
      /\ Len(SubSeq(s, k + 1, n)) = n - k
      /\ \A i \in 1..(n - k) : SubSeq(s, k + 1, n)[i] = s[k + i]
  BY <1>2, SubSeqProperties
<1>5. Piece(SubSeq(s, 1, k), w, hi, k)
  BY <1>1, <1>3 DEF Piece
<1>6. ASSUME NEW i \in 1..(n - k)
      PROVE  SubSeq(s, k + 1, n)[i] = w[hi + k + i] /\ SubSeq(s, k + 1, n)[i] \in Bytes
  <2>1. k + i \in 1..n /\ hi + (k + i) = hi + k + i
    OBVIOUS
  <2> QED
    BY <2>1, <1>4 DEF Piece
<1> QED
  BY <1>4, <1>5, <1>6 DEF Piece

(* One read: the free space of the block is filled first, the rest comes    *)
(* out of the second vector.                                                *)
LEMMA ReadHolds ==
    ASSUME NEW b, NEW w, NEW lo \in Nat, NEW hi \in Nat, NEW n \in Nat, NEW s,
           Holds(b, w, lo, hi), Piece(s, w, hi, n)
    PROVE  /\ Holds(buffer_read_fd(b, s), w, lo, hi + n)
           /\ buffer_read_fd(b, s).len >= b.len
<1>0. b.len \in Nat /\ b.writer \in Nat /\ b.writer <= b.len /\ lo <= hi /\ Len(s) = n
  BY HoldsFacts DEF Piece
<1>1. CASE n <= writable_bytes(b)
  <2>1. buffer_read_fd(b, s) = Store(b, s)
    BY <1>0, <1>1 DEF buffer_read_fd
  <2>2. lo <= hi
    BY <1>0
  <2>3. Holds(Store(b, s), w, lo, hi + n) /\ Store(b, s).len = b.len
    BY <2>2, <1>1, StoreHolds DEF Stored
  <2> QED
    BY <2>1, <2>3, <1>0
<1>2. CASE ~(n <= writable_bytes(b))
  <2> DEFINE k == writable_bytes(b)
             c == Store(b, SubSeq(s, 1, k))
             t == SubSeq(s, k + 1, n)
  <2>1. buffer_read_fd(b, s) = buffer_append(c, t)
    BY <1>0, <1>2 DEF buffer_read_fd
  <2>2. k \in Nat /\ k <= n
    BY <1>0, <1>2
  <2>3. Piece(SubSeq(s, 1, k), w, hi, k) /\ Piece(t, w, hi + k, n - k)
    BY <2>2, PieceSplit
  <2>4. Holds(c, w, lo, hi + k) /\ c.len = b.len
    <3>1. k <= writable_bytes(b) /\ lo <= hi
      BY <1>0
    <3> HIDE DEF k
    <3> QED
      BY <2>2, <2>3, <3>1, StoreHolds DEF Stored
  <2> HIDE DEF k, c, t
  <2>5. hi + k \in Nat /\ n - k \in Nat /\ (hi + k) + (n - k) = hi + n
    BY <2>2
  <2>6. Holds(buffer_append(c, t), w, lo, (hi + k) + (n - k)) /\ buffer_append(c, t).len >= c.len
    BY <2>3, <2>4, <2>5, AppendHolds
  <2> QED
    BY <2>1, <2>4, <2>5, <2>6
<1> QED
  BY <1>1, <1>2

(* One read of a TLS connection, after which there is room for another.     *)
LEMMA SslReadHolds ==
    ASSUME NEW b, NEW w, NEW lo \in Nat, NEW hi \in Nat, NEW n \in Nat, NEW s,
           Holds(b, w, lo, hi), Piece(s, w, hi, n), n <= writable_bytes(b)
    PROVE  /\ Holds(SslStored(b, s), w, lo, hi + n)
           /\ SslStored(b, s).len >= b.len
           /\ b.len >= 2 => writable_bytes(SslStored(b, s)) > 0
<1>0. b.len \in Nat /\ b.writer \in Nat /\ b.writer <= b.len /\ lo <= hi /\ Len(s) = n
  BY HoldsFacts DEF Piece
<1> DEFINE c == Store(b, s)
<1>1. Holds(c, w, lo, hi + n) /\ c.len = b.len /\ c.writer = b.writer + n
  <2>1. lo <= hi /\ n <= writable_bytes(b)
    BY <1>0
  <2> QED
    BY <2>1, StoreHolds DEF Stored
<1>2. CASE n < writable_bytes(b)
  <2>1. SslStored(b, s) = c
    BY <1>0, <1>2 DEF SslStored
  <2> QED
    BY <2>1, <1>0, <1>1, <1>2
<1>3. CASE ~(n < writable_bytes(b))
  <2>1. SslStored(b, s) = ensure_writable_bytes(c, b.len \div 2)
    BY <1>0, <1>3 DEF SslStored
  <2>2. b.len \div 2 \in Nat /\ (b.len >= 2 => b.len \div 2 > 0)
    BY <1>0
  <2>3. hi + n \in Nat
    OBVIOUS
  <2> HIDE DEF c
  <2> DEFINE e == ensure_writable_bytes(c, b.len \div 2)
  <2>4. Holds(e, w, lo, hi + n) /\ e.len >= c.len /\ b.len \div 2 <= writable_bytes(e)
    BY <1>1, <2>2, <2>3, EnsureHolds
  <2>5. e.len \in Nat /\ e.writer \in Nat
    BY <2>3, <2>4, HoldsFacts
  <2> HIDE DEF e
  <2> QED
    BY <2>1, <2>2, <2>4, <2>5, <1>1 DEF e
<1> QED
  BY <1>2, <1>3

(***************************************************************************)
(* decode and on_message.                                                  *)
(***************************************************************************)
(* Streams: what is sent, and what of it has come.                          *)
Streams ==
    /\ sent \in Seq(Kinds) /\ Len(sent) <= MaxFrames
    /\ wire \in Seq(Bytes)
    /\ \A i \in 1..Len(wire) : wire[i].frame \in 1..Len(sent)
    /\ arrived \in 0..Len(wire)
    /\ tls \in BOOLEAN

(* b is what on_message leaves of a buffer c that holds lo + 1 .. hi.       *)
Rest(b, c, lo, hi) ==
    /\ \E k \in lo..hi : Holds(b, wire, k, hi)
    /\ b.len = c.len /\ b.writer <= c.writer

(* A header is four fields of these types, and a frame is not empty.        *)
LEMMA HeadType ==
    ASSUME NEW k \in Kinds
    PROVE  /\ FrameLen(k) \in Nat /\ 0 < FrameLen(k) /\ H \in Nat
           /\ \A at \in DOMAIN Fields(k) :
                  /\ Fields(k)[at].len \in Int /\ Fields(k)[at].name_len \in Int
                  /\ Fields(k)[at].known \in BOOLEAN /\ Fields(k)[at].valid \in BOOLEAN
<1>0. H \in Nat \ {0}
  BY CodecAssumption
<1>1. ASSUME NEW at \in DOMAIN Looks[k]
      PROVE  /\ Looks[k][at].len \in Int /\ Looks[k][at].name_len \in Int
             /\ Looks[k][at].known \in BOOLEAN /\ Looks[k][at].valid \in BOOLEAN
  <2>1. Looks[k][at] \in [len : Int, name_len : Int, known : BOOLEAN, valid : BOOLEAN]
    BY CodecAssumption
  <2> QED
    BY <2>1
<1>2. CASE k \in Messages
  <2>1. NameLen[k] \in Nat /\ BodyLen[k] \in Nat
    BY <1>2, CodecAssumption
  <2>2. FrameLen(k) = 2 * H + (H + NameLen[k] + BodyLen[k]) /\ LenField(k) = H + NameLen[k] + BodyLen[k]
    BY <1>2 DEF FrameLen, LenField
  <2>3. FrameLen(k) \in Nat /\ 0 < FrameLen(k) /\ LenField(k) \in Int
    BY <2>1, <2>2, <1>0
  <2>4. /\ encoded(k).len \in Int /\ encoded(k).name_len \in Int
        /\ encoded(k).known \in BOOLEAN /\ encoded(k).valid \in BOOLEAN
    BY <2>1, <2>3 DEF encoded
  <2>5. Fields(k) = [at \in {0} \union DOMAIN Looks[k] |-> IF at = 0 THEN encoded(k) ELSE Looks[k][at]]
    BY <1>2 DEF Fields
  <2>6. ASSUME NEW at \in DOMAIN Fields(k)
        PROVE  \/ Fields(k)[at] = encoded(k)
               \/ at \in DOMAIN Looks[k] /\ Fields(k)[at] = Looks[k][at]
    BY <2>5
  <2> QED
    BY <2>3, <2>4, <2>6, <1>0, <1>1
<1>3. CASE k \notin Messages
  <2>1. k \in Strays
    BY <1>3 DEF Kinds
  <2>2. FrameLen(k) = StrayLen[k] /\ StrayLen[k] \in Nat \ {0}
    BY <1>3, <2>1, CodecAssumption DEF FrameLen
  <2>3. Fields(k) = Looks[k]
    BY <1>3 DEF Fields
  <2> QED
    BY <2>2, <2>3, <1>0, <1>1
<1> QED
  BY <1>2, <1>3

(* What encode puts in front of a message that decode should hand out.      *)
LEMMA GoodHead ==
    ASSUME Streams, NEW f \in Frames, Good(f), NEW x, x.frame = f, x.at = 0
    PROVE  /\ IsHead(x) /\ Small(HeadAt(x)) /\ Fits(HeadAt(x))
           /\ HeadAt(x).known /\ HeadAt(x).valid
           /\ 2 * H + HeadAt(x).len = FrameLen(sent[f])
<1> DEFINE k == sent[f]
<1>1. k \in Messages /\ k \in Registered /\ LenField(k) <= MaxLen
  BY CodecAssumption DEF Good
<1>2. H \in Nat \ {0} /\ NameLen[k] \in Nat /\ BodyLen[k] \in Nat /\ MaxLen \in Nat
  BY <1>1, CodecAssumption
<1>3. LenField(k) = H + NameLen[k] + BodyLen[k] /\ FrameLen(k) = 2 * H + LenField(k)
  BY <1>1 DEF LenField, FrameLen
<1>4. 0 \in DOMAIN Fields(k) /\ Fields(k)[0] = encoded(k)
  BY <1>1 DEF Fields
<1>5. IsHead(x) /\ HeadAt(x) = encoded(k)
  BY <1>4 DEF IsHead, HeadAt
<1>6. /\ encoded(k).len = LenField(k) /\ encoded(k).name_len = NameLen[k]
      /\ encoded(k).known = (k \in Registered) /\ encoded(k).valid = TRUE
  BY DEF encoded
<1> HIDE DEF k
<1>7. Small(encoded(k)) /\ Fits(encoded(k))
  BY <1>1, <1>2, <1>3, <1>6 DEF Small, Fits
<1> QED
  BY <1>1, <1>3, <1>5, <1>6, <1>7 DEF k

(* What on_message makes of a buffer that holds lo + 1 .. hi: it keeps what *)
(* is behind p, and hands out got.  It waits for more bytes, drops all it   *)
(* has, takes what the header says is there, or aborts (ab).                *)
First(lo) == wire[lo + 1]

Waits(lo, hi, p, got) ==
    /\ got = <<>> /\ p = lo
    /\ \/ hi - lo < 2 * H
       \/ /\ IsHead(First(lo)) /\ Small(HeadAt(First(lo)))
          /\ hi - lo < 2 * H + HeadAt(First(lo)).len

Drops(lo, hi, p, got) ==
    /\ 2 * H <= hi - lo /\ got = <<>> /\ p = hi
    /\ IsHead(First(lo)) /\ Small(HeadAt(First(lo))) => ~HeadAt(First(lo)).known

Takes(lo, hi, p, got) ==
    /\ 2 * H <= hi - lo
    /\ IsHead(First(lo)) /\ Small(HeadAt(First(lo))) /\ Fits(HeadAt(First(lo)))
    /\ HeadAt(First(lo)).known
    /\ p = lo + 2 * H + HeadAt(First(lo)).len
    /\ got = IF HeadAt(First(lo)).valid THEN <<First(lo)>> ELSE <<>>

Fails(lo, hi, p, got) ==
    /\ 2 * H <= hi - lo /\ got = <<>> /\ p = lo
    /\ IsHead(First(lo)) /\ ~Fits(HeadAt(First(lo)))

Outcome(lo, hi, p, got, ab) ==
    \/ /\ ab = FALSE
       /\ Waits(lo, hi, p, got) \/ Drops(lo, hi, p, got) \/ Takes(lo, hi, p, got)
    \/ ab = TRUE /\ Fails(lo, hi, p, got)

(* A decoding d of a buffer b that holds lo + 1 .. hi.                      *)
Decoded(d, b, lo, hi) ==
    /\ Rest(d.left, b, lo, hi)
    /\ \E p \in lo..hi : Outcome(lo, hi, p, d.got, d.abort) /\ Holds(d.left, wire, p, hi)

(* Taking a complete frame out of the buffer aborts only if its lengths do  *)
(* not agree.                                                               *)
LEMMA RestOfTake ==
    ASSUME NEW b, Streams, NEW lo \in Nat, NEW hi \in Nat, Holds(b, wire, lo, hi), hi <= Len(wire),
           2 * H <= hi - lo, IsHead(First(lo)), Small(HeadAt(First(lo))),
           Complete(b, HeadAt(First(lo)))
    PROVE  Decoded(TakeFrame(b, First(lo)), b, lo, hi)
<1> DEFINE x == First(lo)
           h == HeadAt(x)
           nl == h.name_len
           body == h.len - H - nl
           b1 == retrieve(b, 2 * H)
           b2 == retrieve(b1, H)
           b3 == retrieve(b2, nl)
           b4 == retrieve(b3, body)
           T == TakeFrame(b, x)
<1>0. H \in Nat \ {0} /\ Len(wire) \in Nat
  BY CodecAssumption DEF Streams
<1>1. h.len \in Nat /\ nl \in Int /\ H \in Nat /\ h.known \in BOOLEAN /\ h.valid \in BOOLEAN
  <2>1. lo + 1 \in 1..Len(wire)
    BY <1>0
  <2>2. sent[x.frame] \in Kinds
    BY <2>1 DEF Streams, First
  <2>3. h.len \in Int /\ nl \in Int /\ h.known \in BOOLEAN /\ h.valid \in BOOLEAN
    BY <2>2, HeadType DEF IsHead, HeadAt
  <2>4. 0 <= h.len
    BY DEF Small
  <2> QED
    BY <2>3, <2>4, <1>0
<1>2. body = h.len - H - nl
  OBVIOUS
<1>3. b.writer \in Nat /\ b.len \in Nat /\ b.reader \in Nat /\ b.writer - b.reader = hi - lo /\ lo <= hi
  BY HoldsFacts
<1>4. 2 * H + h.len <= hi - lo
  BY <1>1, <1>3 DEF Complete
<1>f. Fits(h) <=> (0 <= nl /\ 0 <= body)
  BY <1>1 DEF Fits
<1>t. T = IF ~Peekable(b1, H) \/ ~Peekable(b2, nl)
          THEN [left |-> b, got |-> <<>>, abort |-> TRUE]
          ELSE IF ~h.known
          THEN [left |-> retrieve_all(b3), got |-> <<>>, abort |-> FALSE]
          ELSE IF ~Peekable(b3, body)
          THEN [left |-> b, got |-> <<>>, abort |-> TRUE]
          ELSE [left |-> b4, got |-> IF h.valid THEN <<x>> ELSE <<>>, abort |-> FALSE]
  BY DEF TakeFrame, ReadPast, Nothing, Abort
<1>g. IsHead(x) /\ Small(h)
  OBVIOUS
<1> HIDE DEF T, b4, b3, b2, b1, body, nl, h, x
<1>b. body \in Int
  BY <1>1, <1>2
<1>5. Holds(b1, wire, lo + 2 * H, hi) /\ b1.len = b.len /\ b1.writer <= b.writer
  <2>1. 2 * H \in Nat /\ 2 * H <= hi - lo
    BY <1>1
  <2> QED
    BY <2>1, RetrieveHolds DEF Taken, b1
<1>5a. b1.writer \in Nat /\ b1.reader \in Nat /\ b1.writer - b1.reader = hi - (lo + 2 * H)
  <2>1. lo + 2 * H \in Nat
    BY <1>1
  <2> QED
    BY <2>1, <1>5, HoldsFacts
<1>6. CASE Peekable(b1, H) /\ Peekable(b2, nl)
  <2>1. Holds(b2, wire, lo + 2 * H + H, hi) /\ b2.len = b1.len /\ b2.writer <= b1.writer
    <3>1. lo + 2 * H \in Nat /\ H <= hi - (lo + 2 * H)
      BY <1>1, <1>5a, <1>6 DEF Peekable
    <3> QED
      BY <3>1, <1>1, <1>5, RetrieveHolds DEF Taken, b2
  <2>1a. b2.writer \in Nat /\ b2.reader \in Nat /\ b2.writer - b2.reader = hi - (lo + 2 * H + H)
    <3>1. lo + 2 * H + H \in Nat
      BY <1>1
    <3> QED
      BY <3>1, <2>1, HoldsFacts
  <2>2. nl \in Nat /\ nl <= hi - (lo + 2 * H + H)
    BY <1>1, <1>6, <2>1a DEF Peekable
  <2>3. Holds(b3, wire, lo + 2 * H + H + nl, hi) /\ b3.len = b2.len /\ b3.writer <= b2.writer
    <3>1. lo + 2 * H + H \in Nat
      BY <1>1
    <3> QED
      BY <3>1, <2>1, <2>2, RetrieveHolds DEF Taken, b3
  <2>n. lo + 2 * H + H + nl \in Nat
    BY <1>1, <2>2
  <2>3a. b3.writer \in Nat /\ b3.reader \in Nat /\ b3.writer - b3.reader = hi - (lo + 2 * H + H + nl)
    BY <2>n, <2>3, HoldsFacts
  <2>4. b3.writer <= b.writer /\ b3.len = b.len
    <3>1. b3.writer <= b.writer
      BY <1>3, <1>5, <1>5a, <2>1, <2>1a, <2>3, <2>3a
    <3>2. b3.len = b.len
      BY <1>5, <2>1, <2>3, Zenon
    <3> QED
      BY <3>1, <3>2
  <2>5. CASE ~h.known
    <3>1. T = [left |-> retrieve_all(b3), got |-> <<>>, abort |-> FALSE]
      BY <1>6, <1>t, <2>5, Zenon
    <3>2. Holds(retrieve_all(b3), wire, hi, hi) /\ retrieve_all(b3).len = b3.len
          /\ retrieve_all(b3).writer <= b3.writer
      BY <2>n, <2>3, RetrieveAllHolds DEF Taken
    <3>3. retrieve_all(b3).writer \in Nat
      BY <3>2, HoldsFacts
    <3>4. hi \in lo..hi
      BY <1>3
    <3>5. Rest(retrieve_all(b3), b, lo, hi)
      BY <3>2, <3>3, <3>4, <2>3a, <2>4, <1>3 DEF Rest
    <3>6. Outcome(lo, hi, hi, <<>>, FALSE)
      BY <2>5 DEF Outcome, Drops, h, x
    <3>7. T.left = retrieve_all(b3) /\ T.got = <<>> /\ T.abort = FALSE
      BY <3>1
    <3> QED
      BY <3>2, <3>4, <3>5, <3>6, <3>7, Zenon DEF Decoded, T, x
  <2>6. CASE h.known /\ Peekable(b3, body)
    <3>1. T = [left |-> b4, got |-> IF h.valid THEN <<x>> ELSE <<>>, abort |-> FALSE]
      BY <1>6, <1>t, <2>6, Zenon
    <3>2. body \in Nat /\ body <= hi - (lo + 2 * H + H + nl)
      BY <1>b, <2>3a, <2>6 DEF Peekable
    <3>3. Holds(b4, wire, lo + 2 * H + H + nl + body, hi) /\ b4.len = b3.len /\ b4.writer <= b3.writer
      BY <3>2, <2>n, <2>3, RetrieveHolds DEF Taken, b4
    <3>4. b4.writer \in Nat
      <4>1. lo + 2 * H + H + nl + body \in Nat
        BY <2>n, <3>2
      <4> QED
        BY <4>1, <3>3, HoldsFacts
    <3>5. lo + 2 * H + H + nl + body = lo + 2 * H + h.len
      BY <1>1, <1>2
    <3>6. lo + 2 * H + h.len \in lo..hi
      BY <1>1, <1>3, <1>4
    <3>7. Rest(b4, b, lo, hi)
      <4>1. b4.writer <= b.writer /\ b4.len = b.len
        BY <3>3, <3>4, <2>3a, <2>4, <1>3
      <4> QED
        BY <4>1, <3>3, <3>5, <3>6 DEF Rest
    <3>8. Fits(h)
      BY <1>f, <2>2, <3>2
    <3>9. Outcome(lo, hi, lo + 2 * H + h.len, IF h.valid THEN <<x>> ELSE <<>>, FALSE)
      BY <3>8, <2>6, <1>g DEF Outcome, Takes, h, x
    <3>10. T.left = b4 /\ T.got = (IF h.valid THEN <<x>> ELSE <<>>) /\ T.abort = FALSE
      BY <3>1
    <3> QED
      BY <3>3, <3>5, <3>6, <3>7, <3>9, <3>10, Zenon DEF Decoded, T, x
  <2>7. CASE h.known /\ ~Peekable(b3, body)
    <3>1. T = [left |-> b, got |-> <<>>, abort |-> TRUE]
      BY <1>6, <1>t, <2>7, Zenon
    <3>2. ~(0 <= body)
      BY <1>1, <1>2, <1>4, <1>3, <2>2, <2>3a, <2>7 DEF Peekable
    <3>3. Outcome(lo, hi, lo, <<>>, TRUE)
      BY <3>2, <1>f, <1>g DEF Outcome, Fails, h, x
    <3>4. lo \in lo..hi /\ b.writer <= b.writer
      BY <1>3
    <3>5. Rest(b, b, lo, hi)
      BY <3>4 DEF Rest
    <3>6. T.left = b /\ T.got = <<>> /\ T.abort = TRUE
      BY <3>1
    <3> QED
      BY <3>3, <3>4, <3>5, <3>6, Zenon DEF Decoded, T, x
  <2> QED
    BY <2>5, <2>6, <2>7
<1>7. CASE ~(Peekable(b1, H) /\ Peekable(b2, nl))
  <2>1. T = [left |-> b, got |-> <<>>, abort |-> TRUE]
    BY <1>7, <1>t, Zenon
  <2>2. ASSUME 0 <= nl, 0 <= body PROVE FALSE
    <3>1. 3 * H + nl <= hi - lo
      BY <2>2, <1>1, <1>2, <1>4, <1>3
    <3>2. Peekable(b1, H)
      BY <3>1, <2>2, <1>1, <1>5a DEF Peekable
    <3>3. Holds(b2, wire, lo + 2 * H + H, hi)
      <4>1. lo + 2 * H \in Nat /\ H <= hi - (lo + 2 * H)
        BY <1>1, <3>1, <2>2
      <4> QED
        BY <4>1, <1>1, <1>5, RetrieveHolds DEF Taken, b2
    <3>4. b2.writer \in Nat /\ b2.reader \in Nat /\ b2.writer - b2.reader = hi - (lo + 2 * H + H)
      <4>1. lo + 2 * H + H \in Nat
        BY <1>1
      <4> QED
        BY <4>1, <3>3, HoldsFacts
    <3>5. Peekable(b2, nl)
      BY <3>1, <3>4, <2>2, <1>1 DEF Peekable
    <3> QED
      BY <3>2, <3>5, <1>7
  <2>3. Outcome(lo, hi, lo, <<>>, TRUE)
    BY <2>2, <1>f, <1>g DEF Outcome, Fails, h, x
  <2>4. lo \in lo..hi /\ b.writer <= b.writer
    BY <1>3
  <2>5. Rest(b, b, lo, hi)
    BY <2>4 DEF Rest
  <2>6. T.left = b /\ T.got = <<>> /\ T.abort = TRUE
    BY <2>1
  <2> QED
    BY <2>3, <2>4, <2>5, <2>6, Zenon DEF Decoded, T, x
<1> QED
  BY <1>6, <1>7

(* The first byte of a buffer that is not empty.                            *)
LEMMA FirstByte ==
    ASSUME NEW b, Streams, NEW lo \in Nat, NEW hi \in Nat, Holds(b, wire, lo, hi), lo < hi,
           hi <= Len(wire)
    PROVE  Contents(b)[1] = wire[lo + 1] /\ Contents(b)[1].frame \in 1..Len(sent)
<1>1. b.writer \in Nat /\ b.reader \in Nat /\ b.writer - b.reader = hi - lo
  BY HoldsFacts
<1>2. 1 \in 1..(b.writer - b.reader) /\ b.reader + (1 - 1) = b.reader + ((lo + 1) - lo - 1)
      /\ lo + 1 \in (lo + 1)..hi
  BY <1>1
<1>3. Contents(b)[1] = b.block[b.reader + (1 - 1)]
  BY <1>2 DEF Contents
<1>4. b.block[b.reader + ((lo + 1) - lo - 1)] = wire[lo + 1]
  BY <1>2, Zenon DEF Holds
<1>5. Len(wire) \in Nat
  BY DEF Streams
<1>6. lo + 1 \in 1..Len(wire)
  BY <1>5
<1>7. wire[lo + 1].frame \in 1..Len(sent)
  BY <1>6 DEF Streams
<1> QED
  BY <1>2, <1>3, <1>4, <1>7

(* decode leaves the last bytes of the stream in the buffer.                *)
LEMMA RestOfDecode ==
    ASSUME NEW b, Streams, NEW lo \in Nat, NEW hi \in Nat, Holds(b, wire, lo, hi),
           hi <= Len(wire), 2 * H <= hi - lo
    PROVE  Decoded(decode(b), b, lo, hi)
<1> DEFINE x == First(lo)
           D == decode(b)
<1>1. Contents(b)[1] = x
  <2>1. lo < hi
    BY CodecAssumption
  <2> QED
    BY <2>1, FirstByte DEF First
<1>2. b.writer \in Nat /\ b.reader \in Nat /\ b.writer - b.reader = hi - lo /\ lo <= hi
  BY HoldsFacts
<1>3. D = IF ~IsHead(x) \/ ~Small(HeadAt(x)) THEN [left |-> retrieve_all(b), got |-> <<>>, abort |-> FALSE]
          ELSE IF Complete(b, HeadAt(x)) THEN TakeFrame(b, x)
          ELSE [left |-> b, got |-> <<>>, abort |-> FALSE]
  BY <1>1 DEF decode, Nothing
<1> HIDE DEF D, x
<1>4. CASE ~IsHead(x) \/ ~Small(HeadAt(x))
  <2>1. D.left = retrieve_all(b) /\ D.got = <<>> /\ D.abort = FALSE
    BY <1>3, <1>4
  <2>2. Taken(retrieve_all(b), b, wire, hi, hi) /\ hi \in lo..hi
    BY <1>2, RetrieveAllHolds
  <2>3. Outcome(lo, hi, hi, <<>>, FALSE)
    BY <1>4 DEF Outcome, Drops, x
  <2>4. Rest(retrieve_all(b), b, lo, hi) /\ Holds(retrieve_all(b), wire, hi, hi)
    BY <2>2 DEF Rest, Taken
  <2> QED
    BY <2>1, <2>2, <2>3, <2>4, Zenon DEF Decoded, D
<1>5. CASE IsHead(x) /\ Small(HeadAt(x)) /\ Complete(b, HeadAt(x))
  <2>1. D = TakeFrame(b, x)
    BY <1>3, <1>5, Zenon
  <2>2. Decoded(TakeFrame(b, x), b, lo, hi)
    BY <1>5, RestOfTake DEF x
  <2> QED
    BY <2>1, <2>2 DEF D
<1>6. CASE IsHead(x) /\ Small(HeadAt(x)) /\ ~Complete(b, HeadAt(x))
  <2>1. D.left = b /\ D.got = <<>> /\ D.abort = FALSE
    BY <1>3, <1>6
  <2>2. lo \in lo..hi /\ b.writer <= b.writer
    BY <1>2
  <2>3. hi - lo < 2 * H + HeadAt(x).len
    <3>0. H \in Nat \ {0} /\ Len(wire) \in Nat
      BY CodecAssumption DEF Streams
    <3>1. lo + 1 \in 1..Len(wire)
      BY <3>0
    <3>2. sent[x.frame] \in Kinds
      BY <3>1 DEF Streams, First, x
    <3>3. HeadAt(x).len \in Int
      BY <3>2, <1>6, HeadType DEF IsHead, HeadAt
    <3> QED
      BY <3>0, <3>3, <1>2, <1>6 DEF Complete
  <2>4. Outcome(lo, hi, lo, <<>>, FALSE)
    BY <1>6, <2>3 DEF Outcome, Waits, x
  <2>5. Rest(b, b, lo, hi)
    BY <2>2 DEF Rest
  <2> QED
    BY <2>1, <2>2, <2>4, <2>5, Zenon DEF Decoded, D
<1> QED
  BY <1>4, <1>5, <1>6

(* The message callback was called with what got holds.                     *)
Handed(got) == delivered' = delivered \o got

(* on_message, after whichever read brought the buffer to b.                *)
LEMMA OnMessage ==
    ASSUME NEW b, Streams, NEW lo \in Nat, NEW hi \in Nat, Holds(b, wire, lo, hi),
           hi <= Len(wire), on_message(b)
    PROVE  /\ aborted' \in BOOLEAN /\ Rest(input', b, lo, hi)
           /\ \E p \in lo..hi : \E got :
                  Outcome(lo, hi, p, got, aborted') /\ Holds(input', wire, p, hi) /\ Handed(got)
<1>1. b.writer \in Nat /\ b.reader \in Nat /\ b.writer - b.reader = hi - lo /\ lo <= hi
  BY HoldsFacts
<1>2. CASE readable_bytes(b) >= 2 * H
  <2>1. 2 * H <= hi - lo
    BY <1>1, <1>2, CodecAssumption
  <2>2. input' = decode(b).left /\ aborted' = decode(b).abort /\ Handed(decode(b).got)
    BY <1>2 DEF on_message, Handed
  <2>3. Decoded(decode(b), b, lo, hi)
    BY <2>1, RestOfDecode
  <2>4. PICK p \in lo..hi : Outcome(lo, hi, p, decode(b).got, decode(b).abort)
                            /\ Holds(decode(b).left, wire, p, hi)
    BY <2>3, Zenon DEF Decoded
  <2>5. decode(b).abort \in BOOLEAN
    BY <2>4 DEF Outcome
  <2>6. Rest(decode(b).left, b, lo, hi)
    BY <2>3, Zenon DEF Decoded
  <2> QED
    BY <2>2, <2>4, <2>5, <2>6
<1>3. CASE ~(readable_bytes(b) >= 2 * H)
  <2>1. input' = b /\ aborted' = FALSE /\ Handed(<<>>)
    BY <1>3 DEF on_message, Nothing, Handed
  <2>2. lo \in lo..hi /\ b.writer <= b.writer
    BY <1>1
  <2>3. Outcome(lo, hi, lo, <<>>, FALSE)
    BY <1>1, <1>3, CodecAssumption DEF Outcome, Waits
  <2> QED
    BY <2>1, <2>2, <2>3 DEF Rest
<1> QED
  BY <1>2, <1>3

(***************************************************************************)
(* The invariant of the specification.                                     *)
(***************************************************************************)
Inv ==
    /\ Streams
    /\ \E lo \in 0..arrived : Holds(input, wire, lo, arrived)
    /\ input.len >= 2
    /\ RoomToRead
    /\ aborted \in BOOLEAN

(* The invariant holds of a new connection.                                 *)
LEMMA InitInv == Init => Inv
<1> SUFFICES ASSUME Init PROVE Inv
  OBVIOUS
<1>0. Cheap \in Nat /\ Initial \in Nat /\ Initial > 1 /\ MaxFrames \in Nat
  BY BufferAssumption, CodecAssumption
<1> DEFINE blk == [i \in 0..(Cheap + Initial - 1) |-> Junk]
<1>1. input = [block |-> blk, len |-> Cheap + Initial, reader |-> Cheap, writer |-> Cheap]
  BY DEF Init, init_gp_buffer
<1>2. blk \in [0..(Cheap + Initial - 1) -> Bytes \union {Junk}]
  OBVIOUS
<1> HIDE DEF blk
<1>3. input.block = blk /\ input.len = Cheap + Initial /\ input.reader = Cheap /\ input.writer = Cheap
  BY <1>1
<1>4. Block(input)
  <2>1. input = [block |-> input.block, len |-> input.len, reader |-> input.reader, writer |-> input.writer]
    BY <1>1, <1>3
  <2>2. input.block \in [0..(input.len - 1) -> Bytes \union {Junk}]
    <3>1. input.block = blk /\ 0..(input.len - 1) = 0..(Cheap + Initial - 1)
      BY <1>0, <1>3
    <3> QED
      BY <1>2, <3>1, Zenon
  <2>3. /\ input.len \in Nat /\ input.reader \in Nat /\ input.writer \in Nat
        /\ Cheap <= input.reader /\ input.reader <= input.writer /\ input.writer <= input.len
    BY <1>0, <1>3
  <2> QED
    BY <2>1, <2>2, <2>3, Zenon DEF Block
<1>5. Streams
  BY <1>0 DEF Init, Streams
<1>6. Holds(input, wire, 0, 0) /\ 0 \in 0..arrived /\ arrived = 0
  <2>1. arrived = 0
    BY DEF Init
  <2>2. input.writer - input.reader = 0 - 0 /\ (0 + 1)..0 = {}
    BY <1>0, <1>3
  <2> QED
    BY <2>1, <2>2, <1>4 DEF Holds
<1>7. input.len >= 2 /\ RoomToRead
  BY <1>0, <1>3 DEF RoomToRead
<1>8. aborted \in BOOLEAN
  BY DEF Init
<1> QED
  BY <1>5, <1>6, <1>7, <1>8 DEF Inv

(* The bytes of the next read are the next of the stream.                   *)
LEMMA ArrivingPiece ==
    ASSUME Streams, NEW n \in 1..(Len(wire) - arrived)
    PROVE  /\ Piece(Arriving(n), wire, arrived, n)
           /\ n \in Nat /\ arrived \in Nat /\ arrived + n \in Nat /\ arrived + n <= Len(wire)
<1>1. Len(wire) \in Nat /\ arrived \in 0..Len(wire) /\ wire \in Seq(Bytes)
  BY DEF Streams
<1>2. \A i \in (arrived + 1)..(arrived + n) : wire[i] \in Bytes
  BY <1>1
<1>3. /\ Len(Arriving(n)) = n
      /\ \A i \in 1..n : Arriving(n)[i] = wire[arrived + i]
  BY <1>1, <1>2, SubSeqProperties DEF Arriving
<1>4. \A i \in 1..n : Arriving(n)[i] \in Bytes
  <2> SUFFICES ASSUME NEW i \in 1..n PROVE wire[arrived + i] \in Bytes
    BY <1>3
  <2>1. arrived + i \in (arrived + 1)..(arrived + n)
    BY <1>1
  <2> QED
    BY <2>1, <1>2
<1> QED
  BY <1>1, <1>3, <1>4 DEF Piece

(* What encode writes for frame f of kind k.                                *)
LEMMA EncodeBytes ==
    ASSUME NEW k \in Kinds, NEW f \in 1..MaxFrames
    PROVE  /\ FrameLen(k) \in Nat /\ 0 < FrameLen(k)
           /\ encode(f, k) \in Seq(Bytes) /\ Len(encode(f, k)) = FrameLen(k)
           /\ \A i \in 1..FrameLen(k) : encode(f, k)[i] = [frame |-> f, at |-> i - 1]
<1> DEFINE m == FrameLen(k)
           e == encode(f, k)
<1>1. m \in Nat /\ 0 < m
  BY HeadType
<1>2. e = [i \in 1..m |-> [frame |-> f, at |-> i - 1]]
  BY DEF encode
<1>3. [frame : 1..MaxFrames, at : 0..(m - 1)] \subseteq Bytes
  BY CodecAssumption, Zenon
<1> HIDE DEF m, e
<1>4. ASSUME NEW i \in 1..m
      PROVE  [frame |-> f, at |-> i - 1] \in [frame : 1..MaxFrames, at : 0..(m - 1)]
  <2>1. i - 1 \in 0..(m - 1)
    BY <1>1
  <2> QED
    BY <2>1
<1>5. e \in [1..m -> Bytes]
  BY <1>2, <1>3, <1>4
<1>6. e \in Seq(Bytes) /\ Len(e) = m
  BY <1>1, <1>5
<1>7. \A i \in 1..m : e[i] = [frame |-> f, at |-> i - 1]
  BY <1>2
<1> QED
  BY <1>1, <1>6, <1>7 DEF m, e

(* What the peer sends does not disturb what has arrived.                   *)
LEMMA SendInv ==
    ASSUME Inv, NEW k \in Kinds, Send(k)
    PROVE  Inv'
<1> DEFINE f == Len(sent) + 1
           e == encode(f, k)
<1>1. /\ sent \in Seq(Kinds) /\ Len(sent) < MaxFrames /\ wire \in Seq(Bytes) /\ MaxFrames \in Nat
      /\ arrived \in 0..Len(wire)
  BY CodecAssumption DEF Inv, Streams, Send
<1>2. sent' \in Seq(Kinds) /\ Len(sent') = f /\ f \in 1..MaxFrames
  <2>1. sent' = Append(sent, k)
    BY DEF Send
  <2>2. sent' \in Seq(Kinds) /\ Len(sent') = Len(sent) + 1
    BY <2>1, <1>1, AppendProperties
  <2>3. Len(sent) \in Nat
    BY <1>1
  <2>4. f \in 1..MaxFrames
    BY <2>3, <1>1
  <2> QED
    BY <2>2, <2>4
<1>4. e \in Seq(Bytes) /\ \A i \in 1..Len(e) : e[i].frame = f
  <2>1. /\ e \in Seq(Bytes) /\ Len(e) = FrameLen(k)
        /\ \A i \in 1..FrameLen(k) : e[i] = [frame |-> f, at |-> i - 1]
    BY <1>2, EncodeBytes
  <2> HIDE DEF e, f
  <2> QED
    BY <2>1
<1>5. wire' = wire \o e
  BY DEF Send
<1> HIDE DEF e, f
<1>6. /\ wire' \in Seq(Bytes) /\ Len(wire') = Len(wire) + Len(e)
      /\ \A i \in 1..(Len(wire) + Len(e)) :
             wire'[i] = IF i <= Len(wire) THEN wire[i] ELSE e[i - Len(wire)]
  BY <1>1, <1>4, <1>5, ConcatProperties
<1>6a. Len(e) \in Nat /\ Len(wire) \in Nat
  BY <1>1, <1>4
<1>7. \A i \in 1..Len(wire') : wire'[i].frame \in 1..Len(sent')
  <2> SUFFICES ASSUME NEW i \in 1..(Len(wire) + Len(e)) PROVE wire'[i].frame \in 1..Len(sent')
    BY <1>6
  <2>1. CASE i <= Len(wire)
    <3>1. wire'[i] = wire[i] /\ i \in 1..Len(wire)
      BY <2>1, <1>6, <1>6a
    <3>2. wire[i].frame \in 1..Len(sent)
      BY <3>1 DEF Inv, Streams
    <3> QED
      BY <3>1, <3>2, <1>1, <1>2 DEF f
  <2>2. CASE ~(i <= Len(wire))
    <3>1. wire'[i] = e[i - Len(wire)] /\ i - Len(wire) \in 1..Len(e)
      BY <2>2, <1>6, <1>6a
    <3> QED
      BY <3>1, <1>2, <1>4
  <2> QED
    BY <2>1, <2>2
<1>8. Streams'
  <2>1. arrived' \in 0..Len(wire') /\ tls' \in BOOLEAN
    BY <1>1, <1>6, <1>6a DEF Send, Inv, Streams
  <2>2. Len(sent') <= MaxFrames
    BY <1>1, <1>2
  <2> QED
    BY <2>1, <2>2, <1>2, <1>6, <1>7 DEF Streams
<1>9. \E lo \in 0..arrived' : Holds(input', wire', lo, arrived')
  <2>1. PICK lo \in 0..arrived : Holds(input, wire, lo, arrived)
    BY DEF Inv
  <2>2. ASSUME NEW i \in (lo + 1)..arrived
        PROVE  input.block[input.reader + (i - lo - 1)] = wire'[i]
    <3>1. input.block[input.reader + (i - lo - 1)] = wire[i]
      BY <2>1, Zenon DEF Holds
    <3>2. i \in 1..(Len(wire) + Len(e)) /\ i <= Len(wire)
      BY <1>1, <1>6a
    <3> QED
      BY <3>1, <3>2, <1>6
  <2>3. input' = input /\ arrived' = arrived
    BY DEF Send
  <2>4. Block(input) /\ input.writer - input.reader = arrived - lo
    BY <2>1, Zenon DEF Holds
  <2>5. Holds(input, wire', lo, arrived)
    BY <2>2, <2>4, Zenon DEF Holds
  <2> QED
    BY <2>3, <2>5, Zenon
<1>10. /\ input' = input /\ arrived' = arrived /\ tls' = tls /\ aborted' = aborted
  BY DEF Send
<1> QED
  BY <1>8, <1>9, <1>10 DEF Inv, RoomToRead

(* Whatever brought the buffer to c, on_message restores the invariant.     *)
LEMMA ReadInv ==
    ASSUME Streams, Streams', wire' = wire, tls' = tls, NEW c, NEW lo \in Nat, arrived' \in Nat,
           Holds(c, wire, lo, arrived'), on_message(c), c.len >= 2,
           tls => writable_bytes(c) > 0
    PROVE  Inv'
<1>1. arrived' <= Len(wire)
  BY DEF Streams
<1>2. aborted' \in BOOLEAN /\ Rest(input', c, lo, arrived')
  BY <1>1, OnMessage
<1>3. PICK k \in lo..arrived' : Holds(input', wire, k, arrived')
  BY <1>2 DEF Rest
<1>4. k \in Nat /\ k \in 0..arrived'
  OBVIOUS
<1>5. input'.len \in Nat /\ input'.writer \in Nat /\ c.len \in Nat /\ c.writer \in Nat
  BY <1>3, <1>4, HoldsFacts
<1>6. input'.len = c.len /\ input'.writer <= c.writer
  BY <1>2 DEF Rest
<1>7. input'.len >= 2 /\ (tls => input'.len - input'.writer > 0)
  BY <1>5, <1>6
<1>8. \E l \in 0..arrived' : Holds(input', wire', l, arrived')
  BY <1>3, <1>4
<1> QED
  BY <1>2, <1>7, <1>8 DEF Inv, RoomToRead

(* The invariant is inductive.                                              *)
LEMMA NextInv == Inv /\ [Next]_vars => Inv'
<1> SUFFICES ASSUME Inv, [Next]_vars PROVE Inv'
  OBVIOUS
<1>0. Streams /\ input.len >= 2 /\ RoomToRead
  BY DEF Inv
<1>1. ASSUME NEW k \in Kinds, Send(k) PROVE Inv'
  BY <1>1, SendInv
<1>2. PICK lo \in 0..arrived : Holds(input, wire, lo, arrived)
  BY DEF Inv
<1>3. lo \in Nat /\ arrived \in Nat /\ Len(wire) \in Nat
  BY <1>0 DEF Streams
<1>4. input.len \in Nat /\ input.writer \in Nat
  BY <1>2, <1>3, HoldsFacts
<1>5. ASSUME NEW n \in 1..(Len(wire) - arrived), connection_handler_read(n) PROVE Inv'
  <2>1. /\ Piece(Arriving(n), wire, arrived, n)
        /\ n \in Nat /\ arrived + n \in Nat /\ arrived + n <= Len(wire)
    BY <1>0, ArrivingPiece
  <2> DEFINE c == buffer_read_fd(input, Arriving(n))
  <2>2. Holds(c, wire, lo, arrived + n) /\ c.len >= input.len
    BY <2>1, <1>2, <1>3, ReadHolds
  <2>3. /\ on_message(c) /\ arrived' = arrived + n /\ wire' = wire /\ tls' = tls /\ sent' = sent
        /\ ~tls
    BY <1>5 DEF connection_handler_read, Received
  <2> HIDE DEF c
  <2>4. Streams'
    BY <1>0, <1>3, <2>1, <2>3 DEF Streams
  <2>5. c.len \in Nat
    BY <2>1, <2>2, <1>3, HoldsFacts
  <2>6. c.len >= 2
    BY <2>2, <2>5, <1>0, <1>4
  <2> QED
    BY <2>1, <2>2, <2>3, <2>4, <2>6, <1>0, <1>3, ReadInv
<1>6. ASSUME NEW n \in 1..(Len(wire) - arrived), ssl_handler_read(n) PROVE Inv'
  <2>1. /\ Piece(Arriving(n), wire, arrived, n)
        /\ n \in Nat /\ arrived + n \in Nat /\ arrived + n <= Len(wire)
    BY <1>0, ArrivingPiece
  <2> DEFINE c == SslStored(input, Arriving(n))
  <2>2. /\ on_message(c) /\ arrived' = arrived + n /\ wire' = wire /\ tls' = tls /\ sent' = sent
        /\ n <= writable_bytes(input)
    BY <1>6 DEF ssl_handler_read, Received
  <2>3. /\ Holds(c, wire, lo, arrived + n) /\ c.len >= input.len
        /\ input.len >= 2 => writable_bytes(c) > 0
    BY <2>1, <2>2, <1>2, <1>3, SslReadHolds
  <2> HIDE DEF c
  <2>4. Streams'
    BY <1>0, <1>3, <2>1, <2>2 DEF Streams
  <2>5. c.len \in Nat
    BY <2>1, <2>3, <1>3, HoldsFacts
  <2>6. c.len >= 2 /\ writable_bytes(c) > 0
    BY <2>3, <2>5, <1>0, <1>4
  <2> QED
    BY <2>1, <2>2, <2>3, <2>4, <2>6, <1>0, <1>3, ReadInv
<1>7. CASE ReadFails
  <2>1. /\ on_message(input) /\ arrived' = arrived /\ wire' = wire /\ tls' = tls /\ sent' = sent
        /\ ~tls
    BY <1>7 DEF ReadFails
  <2>2. Streams'
    BY <1>0, <2>1 DEF Streams
  <2> QED
    BY <2>1, <2>2, <1>0, <1>2, <1>3, ReadInv
<1>8. CASE UNCHANGED vars
  <2>1. /\ tls' = tls /\ sent' = sent /\ wire' = wire /\ arrived' = arrived
        /\ input' = input /\ aborted' = aborted
    BY <1>8 DEF vars
  <2> QED
    BY <2>1 DEF Inv, Streams, RoomToRead, Holds, Block
<1> QED
  BY <1>1, <1>5, <1>6, <1>7, <1>8 DEF Next

(* The invariant is stated by bytes of the block, the property by           *)
(* sequences.                                                               *)
LEMMA InvExact == Inv => InputExact
<1> SUFFICES ASSUME Inv PROVE InputExact
  OBVIOUS
<1>1. PICK lo \in 0..arrived : Holds(input, wire, lo, arrived)
  BY DEF Inv
<1>2. lo \in Nat /\ arrived \in Nat /\ arrived <= Len(wire) /\ Len(wire) \in Nat /\ wire \in Seq(Bytes)
  BY DEF Inv, Streams
<1>3. /\ input.reader \in Nat /\ input.writer \in Nat
      /\ input.writer - input.reader = arrived - lo /\ lo <= arrived
  BY <1>1, <1>2, HoldsFacts
<1>4. gone = lo
  BY <1>2, <1>3 DEF gone
<1> DEFINE r == arrived - lo
           t == SubSeq(wire, lo + 1, arrived)
<1>5. r \in Nat /\ input.writer - input.reader = r
  BY <1>2, <1>3
<1>6. \A i \in (lo + 1)..arrived : wire[i] \in Bytes
  BY <1>2
<1>7. /\ t \in Seq(Bytes) /\ Len(t) = r
      /\ \A i \in 1..r : t[i] = wire[lo + i]
  <2>1. lo + 1 \in Int /\ arrived \in Int
    BY <1>2
  <2>2. /\ t \in Seq(Bytes)
        /\ Len(t) = IF lo + 1 <= arrived THEN arrived - (lo + 1) + 1 ELSE 0
        /\ \A i \in 1..(arrived - (lo + 1) + 1) : t[i] = wire[lo + 1 + i - 1]
    BY <2>1, <1>6, SubSeqProperties
  <2>3. \A i \in 1..r : i \in 1..(arrived - (lo + 1) + 1) /\ lo + 1 + i - 1 = lo + i
    BY <1>2
  <2> HIDE DEF t
  <2> QED
    BY <2>2, <2>3, <1>2, <1>3
<1>8. \A i \in 1..r : input.block[input.reader + (i - 1)] = t[i]
  <2> SUFFICES ASSUME NEW i \in 1..r PROVE input.block[input.reader + (i - 1)] = t[i]
    OBVIOUS
  <2>1. lo + i \in (lo + 1)..arrived /\ (lo + i) - lo - 1 = i - 1
    BY <1>2
  <2>2. input.block[input.reader + ((lo + i) - lo - 1)] = wire[lo + i]
    BY <2>1, <1>1, Zenon DEF Holds
  <2> HIDE DEF t, r
  <2> QED
    BY <2>1, <2>2, <1>7
<1>9. t = [i \in 1..r |-> t[i]]
  BY <1>7, <1>5
<1> HIDE DEF r, t
<1>10. Contents(input) = [i \in 1..r |-> input.block[input.reader + (i - 1)]]
  BY <1>5, Zenon DEF Contents
<1>11. Contents(input) = t
  BY <1>8, <1>9, <1>10
<1>12. IsBuffer(input)
  <2>1. Block(input)
    BY <1>1, Zenon DEF Holds
  <2>2. Contents(input) \in Seq(Bytes)
    BY <1>7, <1>11
  <2> QED
    BY <2>1, <2>2, Zenon DEF IsBuffer, Block
<1> QED
  BY <1>2, <1>4, <1>11, <1>12 DEF InputExact, t

(* The invariant holds throughout.                                          *)
LEMMA SpecInv == Spec => []Inv
<1> QED
  BY InitInv, NextInv, PTL DEF Spec

(* However the stream is cut into reads, and however often the block of the *)
(* input buffer is compacted or reallocated, it holds exactly the last      *)
(* bytes of the stream that came: nothing lost, repeated or uninitialised,  *)
(* and no index outside the block.                                          *)
THEOREM InputCorrect == Spec => []InputExact
<1> QED
  BY SpecInv, InvExact, PTL

(* After every message of a TLS connection there is room for SSL_read.      *)
THEOREM RoomAlways == Spec => []RoomToRead
<1>1. Inv => RoomToRead
  BY DEF Inv
<1> QED
  BY <1>1, SpecInv, PTL

----------------------------------------------------------------------------
(* The frames.                                                              *)

(* Frame f is the bytes off[f] + 1 .. off[f + 1] of the stream.             *)
Laid(off) ==
    /\ off \in [1..(Len(sent) + 1) -> Nat]
    /\ off[Len(sent) + 1] = Len(wire)
    /\ \A f \in Frames : off[f + 1] = off[f] + FrameLen(sent[f])
    /\ \A e \in Frames : \A f \in 1..(Len(sent) + 1) : e < f => off[e + 1] <= off[f]
    /\ \A f \in Frames : \A i \in 1..FrameLen(sent[f]) :
           wire[off[f] + i] = [frame |-> f, at |-> i - 1]
    /\ \A j \in 1..Len(wire) : \E f \in Frames : off[f] < j /\ j <= off[f + 1]

AllGood(f) == \A e \in 1..f : Good(e)

Among(f, d) == \E i \in 1..Len(d) : d[i] = [frame |-> f, at |-> 0]

(* Where in the stream the byte x is, counted from 0.                       *)
Pos(off, x) == off[x.frame] + x.at

(* x is a place of the stream that decode may hand out.                     *)
Handable(off, x) ==
    /\ Sound(x) /\ x.at \in 0..(FrameLen(sent[x.frame]) - 1)
    /\ AllGood(x.frame) => x.at = 0

(* When g bytes have left the buffer and d was handed to the callback.      *)
Progress(off, g, d) ==
    /\ d \in Seq(Bytes)
    /\ \A i \in 1..Len(d) : Handable(off, d[i]) /\ Pos(off, d[i]) < g
    /\ \A i, j \in 1..Len(d) : i < j => Pos(off, d[i]) < Pos(off, d[j])
    /\ \A f \in Frames : AllGood(f) => IF Among(f, d) THEN off[f + 1] <= g ELSE g <= off[f]

(* The complete frames in a buffer that holds g + 1 .. a.                   *)
Behind(off, g, a) == {f \in Frames : g <= off[f] /\ off[f + 1] <= a}

(* The bytes behind the first g begin with lengths that do not agree, in a  *)
(* frame that decode throws away or one behind such a frame.                *)
Misfit(g) ==
    /\ g < arrived /\ IsHead(First(g)) /\ ~Fits(HeadAt(First(g)))
    /\ ~AllGood(First(g).frame)

FrameInv ==
    /\ Inv
    /\ extra \in Nat
    /\ aborted => Misfit(gone)
    /\ \E off : /\ Laid(off)
                /\ Progress(off, gone, delivered)
                /\ AllGood(Len(sent)) => Cardinality(Behind(off, gone, arrived)) <= extra

USE DEF readable_bytes, writable_bytes

(***************************************************************************)
(* Offsets.                                                                *)
(***************************************************************************)
(* A frame is not empty.                                                    *)
LEMMA FrameSize ==
    ASSUME Streams, NEW f \in Frames
    PROVE  /\ Len(sent) \in Nat /\ f \in Nat /\ H \in Nat /\ f + 1 \in 1..(Len(sent) + 1)
           /\ f \in 1..(Len(sent) + 1)
           /\ FrameLen(sent[f]) \in Nat /\ 0 < FrameLen(sent[f])
<1>1. Len(sent) \in Nat /\ f \in 1..Len(sent) /\ sent[f] \in Kinds
  BY DEF Streams, Frames
<1>2. FrameLen(sent[f]) \in Nat /\ 0 < FrameLen(sent[f]) /\ H \in Nat
  BY <1>1, HeadType
<1> QED
  BY <1>1, <1>2

(* Where a frame begins and ends.                                           *)
LEMMA Offsets ==
    ASSUME Streams, NEW off, Laid(off), NEW f \in Frames
    PROVE  /\ off[f] \in Nat /\ off[f + 1] \in Nat
           /\ off[f + 1] = off[f] + FrameLen(sent[f])
           /\ off[f] < off[f + 1]
           /\ off[f + 1] <= Len(wire)
<1>1. /\ Len(sent) \in Nat /\ f \in Nat /\ H \in Nat /\ f + 1 \in 1..(Len(sent) + 1)
      /\ f \in 1..(Len(sent) + 1)
      /\ FrameLen(sent[f]) \in Nat /\ 0 < FrameLen(sent[f])
  BY FrameSize
<1>2. off[f] \in Nat /\ off[f + 1] \in Nat /\ off[f + 1] = off[f] + FrameLen(sent[f])
  BY <1>1 DEF Laid
<1>3. off[f] < off[f + 1]
  BY <1>1, <1>2
<1>4. Len(sent) + 1 \in 1..(Len(sent) + 1) /\ f < Len(sent) + 1
  BY <1>1 DEF Frames
<1>5. off[f + 1] <= off[Len(sent) + 1] /\ off[Len(sent) + 1] = Len(wire)
  BY <1>4 DEF Laid
<1> QED
  BY <1>2, <1>3, <1>5

(* Frames lie one after the other.                                          *)
LEMMA Ordered ==
    ASSUME Streams, NEW off, Laid(off), NEW e \in Frames, NEW f \in Frames
    PROVE  /\ e < f => off[e + 1] <= off[f]
           /\ off[e] < off[f] => e < f
           /\ off[e] <= off[f] => off[e + 1] <= off[f + 1]
           /\ off[e + 1] <= off[f] => e < f
<1>1. /\ e \in Nat /\ f \in Nat /\ H \in Nat /\ e \in 1..(Len(sent) + 1) /\ f \in 1..(Len(sent) + 1)
  BY FrameSize
<1>2. /\ off[e] \in Nat /\ off[e + 1] \in Nat /\ off[e] < off[e + 1]
      /\ off[f] \in Nat /\ off[f + 1] \in Nat /\ off[f] < off[f + 1]
  BY Offsets
<1>3. e < f => off[e + 1] <= off[f]
  BY <1>1 DEF Laid
<1>4. f < e => off[f + 1] <= off[e]
  BY <1>1 DEF Laid
<1>5. CASE e < f
  BY <1>1, <1>2, <1>3, <1>5
<1>6. CASE f < e
  BY <1>1, <1>2, <1>4, <1>6
<1>7. CASE e = f
  BY <1>1, <1>2, <1>7
<1> QED
  BY <1>1, <1>5, <1>6, <1>7

(* A byte belongs to the frame between whose offsets it lies.               *)
LEMMA Place ==
    ASSUME Streams, NEW off, Laid(off), NEW j \in 1..Len(wire), NEW f \in Frames
    PROVE  /\ wire[j].frame = f <=> (off[f] < j /\ j <= off[f + 1])
           /\ wire[j].frame = f => wire[j].at = j - off[f] - 1
<1>0. Len(wire) \in Nat
  BY DEF Streams
<1>1. PICK e \in Frames : off[e] < j /\ j <= off[e + 1]
  BY DEF Laid
<1>2. /\ off[e] \in Nat /\ off[e + 1] \in Nat /\ off[e + 1] = off[e] + FrameLen(sent[e])
      /\ FrameLen(sent[e]) \in Nat
  BY Offsets, FrameSize
<1>3. j - off[e] \in 1..FrameLen(sent[e]) /\ off[e] + (j - off[e]) = j
  BY <1>0, <1>1, <1>2
<1>4. wire[off[e] + (j - off[e])] = [frame |-> e, at |-> (j - off[e]) - 1]
  BY <1>3, Zenon DEF Laid
<1>5. wire[j].frame = e /\ wire[j].at = j - off[e] - 1
  BY <1>3, <1>4
<1>6. e \in Nat /\ f \in Nat
  BY FrameSize
<1>7. CASE e = f
  BY <1>1, <1>5, <1>7
<1>8. CASE e # f
  <2>1. /\ e < f => off[e + 1] <= off[f]
        /\ f < e => off[f + 1] <= off[e]
    BY Ordered
  <2>2. off[f] \in Nat /\ off[f + 1] \in Nat
    BY Offsets
  <2>3. ~(off[f] < j /\ j <= off[f + 1])
    BY <2>1, <2>2, <1>0, <1>1, <1>2, <1>6, <1>8
  <2> QED
    BY <2>3, <1>5, <1>8
<1> QED
  BY <1>7, <1>8

(* The first byte of the buffer tells where in its frame the buffer begins. *)
LEMMA FirstFrame ==
    ASSUME Streams, NEW off, Laid(off), NEW lo \in Nat, lo < Len(wire)
    PROVE  /\ wire[lo + 1].frame \in Frames
           /\ off[wire[lo + 1].frame] <= lo /\ lo < off[wire[lo + 1].frame + 1]
           /\ wire[lo + 1].at = lo - off[wire[lo + 1].frame]
<1>0. Len(wire) \in Nat
  BY DEF Streams
<1>1. lo + 1 \in 1..Len(wire)
  BY <1>0
<1> DEFINE f == wire[lo + 1].frame
<1>2. f \in Frames
  BY <1>1 DEF Streams, Frames
<1> HIDE DEF f
<1>3. off[f] < lo + 1 /\ lo + 1 <= off[f + 1] /\ wire[lo + 1].at = (lo + 1) - off[f] - 1
  BY <1>1, <1>2, Place DEF f
<1>4. off[f] \in Nat /\ off[f + 1] \in Nat
  BY <1>2, Offsets
<1>5. off[f] <= lo /\ lo < off[f + 1] /\ wire[lo + 1].at = lo - off[f]
  BY <1>3, <1>4
<1> QED
  BY <1>2, <1>5 DEF f

(***************************************************************************)
(* on_message, in offsets.                                                 *)
(***************************************************************************)
(* Appending one place to those delivered.                                  *)
LEMMA AppendAmong ==
    ASSUME NEW S, NEW d \in Seq(S), NEW x \in S
    PROVE  /\ d \o <<x>> \in Seq(S) /\ Len(d \o <<x>>) = Len(d) + 1 /\ Len(d) \in Nat
           /\ \A i \in 1..Len(d) : (d \o <<x>>)[i] = d[i]
           /\ (d \o <<x>>)[Len(d) + 1] = x
           /\ \A f : Among(f, d \o <<x>>) <=> (Among(f, d) \/ x = [frame |-> f, at |-> 0])
<1>1. /\ d \o <<x>> \in Seq(S) /\ Len(d \o <<x>>) = Len(d) + 1 /\ Len(d) \in Nat
      /\ \A i \in 1..Len(d) : (d \o <<x>>)[i] = d[i]
      /\ (d \o <<x>>)[Len(d) + 1] = x
  <2>1. <<x>> \in Seq(S) /\ Len(<<x>>) = 1 /\ <<x>>[1] = x /\ Len(d) \in Nat
    OBVIOUS
  <2>2. /\ d \o <<x>> \in Seq(S) /\ Len(d \o <<x>>) = Len(d) + Len(<<x>>)
        /\ \A i \in 1..(Len(d) + Len(<<x>>)) :
               (d \o <<x>>)[i] = IF i <= Len(d) THEN d[i] ELSE <<x>>[i - Len(d)]
    BY <2>1, ConcatProperties
  <2>3. PICK a : a = d \o <<x>>
    OBVIOUS
  <2>4. PICK y : y = <<x>>
    OBVIOUS
  <2>5. /\ Len(a) = Len(d) + 1 /\ y[1] = x
        /\ \A i \in 1..(Len(d) + 1) : a[i] = IF i <= Len(d) THEN d[i] ELSE y[i - Len(d)]
    BY <2>1, <2>2, <2>3, <2>4
  <2>6. \A i \in 1..Len(d) : a[i] = d[i]
    BY <2>1, <2>5
  <2>7. a[Len(d) + 1] = x
    <3>1. Len(d) + 1 \in 1..(Len(d) + 1) /\ ~(Len(d) + 1 <= Len(d)) /\ (Len(d) + 1) - Len(d) = 1
      BY <2>1
    <3> QED
      BY <3>1, <2>5
  <2> QED
    BY <2>1, <2>2, <2>3, <2>5, <2>6, <2>7
<1> DEFINE a == d \o <<x>>
<1> HIDE DEF a
<1>2. ASSUME NEW f PROVE Among(f, a) <=> (Among(f, d) \/ x = [frame |-> f, at |-> 0])
  <2> DEFINE z == [frame |-> f, at |-> 0]
  <2> HIDE DEF z
  <2>1. ASSUME Among(f, a) PROVE Among(f, d) \/ x = z
    <3>1. PICK i \in 1..Len(a) : a[i] = z
      BY <2>1 DEF Among, z
    <3>2. i \in 1..Len(d) \/ i = Len(d) + 1
      BY <1>1 DEF a
    <3> QED
      BY <3>1, <3>2, <1>1 DEF Among, a, z
  <2>2. ASSUME Among(f, d) PROVE Among(f, a)
    <3>1. PICK i \in 1..Len(d) : d[i] = z
      BY <2>2 DEF Among, z
    <3>2. i \in 1..Len(a) /\ a[i] = z
      BY <3>1, <1>1 DEF a
    <3> QED
      BY <3>2 DEF Among, z
  <2>3. ASSUME x = z PROVE Among(f, a)
    <3>1. Len(d) + 1 \in 1..Len(a) /\ a[Len(d) + 1] = z
      BY <2>3, <1>1 DEF a
    <3> QED
      BY <3>1 DEF Among, z
  <2> QED
    BY <2>1, <2>2, <2>3 DEF z
<1> QED
  BY <1>1, <1>2 DEF a

(* As long as no bad frame has come, a buffer begins with a frame: decode   *)
(* finds encode's header.                                                   *)
LEMMA InStep ==
    ASSUME Streams, NEW off, Laid(off), NEW lo \in Nat, lo < Len(wire), NEW d, Progress(off, lo, d),
           AllGood(First(lo).frame)
    PROVE  /\ First(lo).frame \in Frames /\ First(lo).at = 0 /\ Good(First(lo).frame)
           /\ First(lo) = [frame |-> First(lo).frame, at |-> 0]
           /\ lo = off[First(lo).frame]
           /\ IsHead(First(lo)) /\ Small(HeadAt(First(lo))) /\ Fits(HeadAt(First(lo)))
           /\ HeadAt(First(lo)).known /\ HeadAt(First(lo)).valid
           /\ lo + 2 * H + HeadAt(First(lo)).len = off[First(lo).frame + 1]
<1> DEFINE x == First(lo)
           e == x.frame
<1>1. e \in Frames /\ off[e] <= lo /\ lo < off[e + 1] /\ x.at = lo - off[e]
  BY FirstFrame DEF First
<1>2. /\ off[e] \in Nat /\ off[e + 1] \in Nat /\ off[e + 1] = off[e] + FrameLen(sent[e])
      /\ e \in Nat /\ FrameLen(sent[e]) \in Nat
  BY <1>1, Offsets, FrameSize
<1>3. Good(e)
  <2>1. e \in 1..e
    BY <1>1, <1>2 DEF Frames
  <2> QED
    BY <2>1 DEF AllGood
<1>4. IF Among(e, d) THEN off[e + 1] <= lo ELSE lo <= off[e]
  BY <1>1 DEF Progress
<1>5. lo = off[e] /\ x.at = 0
  BY <1>1, <1>2, <1>4
<1>6. /\ IsHead(x) /\ Small(HeadAt(x)) /\ Fits(HeadAt(x))
      /\ HeadAt(x).known /\ HeadAt(x).valid
      /\ 2 * H + HeadAt(x).len = FrameLen(sent[e])
  BY <1>1, <1>3, <1>5, GoodHead
<1>7. x = [frame |-> e, at |-> 0]
  <2>1. 1 \in 1..FrameLen(sent[e])
    BY <1>1, <1>2
  <2>2. wire[off[e] + 1] = [frame |-> e, at |-> 1 - 1]
    BY <1>1, <2>1, Zenon DEF Laid
  <2> QED
    BY <2>2, <1>5 DEF First
<1>8. HeadAt(x).len \in Int /\ H \in Int
  <2>1. sent[e] \in Kinds
    BY <1>1 DEF Streams, Frames
  <2> QED
    BY <2>1, <1>6, HeadType DEF IsHead, HeadAt
<1> HIDE DEF x, e
<1>9. lo + 2 * H + HeadAt(x).len = off[e + 1]
  BY <1>2, <1>5, <1>6, <1>8
<1> QED
  BY <1>1, <1>3, <1>5, <1>6, <1>7, <1>9 DEF x, e

(* A buffer that does not begin with a frame to be handed out: a bad frame  *)
(* has come, and no later frame is promised.                                *)
LEMMA Spoilt ==
    ASSUME Streams, NEW off, Laid(off), NEW lo \in Nat, lo < Len(wire), NEW d, Progress(off, lo, d),
           ~AllGood(First(lo).frame), NEW f \in Frames, AllGood(f)
    PROVE  Among(f, d)
<1> DEFINE e == First(lo).frame
<1>1. e \in Frames /\ off[e] <= lo /\ lo < off[e + 1]
  BY FirstFrame DEF First
<1>0. ~AllGood(e)
  OBVIOUS
<1> HIDE DEF e
<1>3. /\ off[e] \in Nat /\ off[e + 1] \in Nat /\ off[f] \in Nat /\ off[f + 1] \in Nat
      /\ e \in Nat /\ f \in Nat
      /\ f < e => off[f + 1] <= off[e]
      /\ off[f] < off[f + 1]
  BY <1>1, Offsets, Ordered, FrameSize
<1>4. ASSUME ~Among(f, d) PROVE FALSE
  <2>1. lo <= off[f]
    BY <1>4 DEF Progress
  <2>2. e <= f
    BY <2>1, <1>1, <1>3
  <2>3. AllGood(e)
    BY <2>2, <1>3 DEF AllGood
  <2> QED
    BY <2>3, <1>0
<1> QED
  BY <1>4

(* A frame that was handed out has left the buffer, whatever is taken next. *)
LEMMA StillGone ==
    ASSUME Streams, NEW off, Laid(off), NEW lo \in Nat, NEW p \in Nat, lo <= p, NEW d,
           Progress(off, lo, d)
    PROVE  /\ d \in Seq(Bytes) /\ Len(d) \in Nat
           /\ \A i \in 1..Len(d) : Handable(off, d[i]) /\ Pos(off, d[i]) < lo /\ Pos(off, d[i]) < p
                                  /\ Pos(off, d[i]) \in Nat
           /\ \A i, j \in 1..Len(d) : i < j => Pos(off, d[i]) < Pos(off, d[j])
           /\ \A f \in Frames : AllGood(f) /\ Among(f, d) => off[f + 1] <= p
<1>1. /\ d \in Seq(Bytes) /\ Len(d) \in Nat
      /\ \A i, j \in 1..Len(d) : i < j => Pos(off, d[i]) < Pos(off, d[j])
  BY DEF Progress
<1>2. ASSUME NEW i \in 1..Len(d)
      PROVE  Handable(off, d[i]) /\ Pos(off, d[i]) < lo /\ Pos(off, d[i]) < p /\ Pos(off, d[i]) \in Nat
  <2>1. Handable(off, d[i]) /\ Pos(off, d[i]) < lo
    BY DEF Progress
  <2>2. d[i].frame \in Frames /\ d[i].at \in 0..(FrameLen(sent[d[i].frame]) - 1)
    BY <2>1 DEF Handable, Sound
  <2>3. off[d[i].frame] \in Nat /\ FrameLen(sent[d[i].frame]) \in Nat
    BY <2>2, Offsets, FrameSize
  <2>4. Pos(off, d[i]) \in Nat
    BY <2>2, <2>3 DEF Pos
  <2> QED
    BY <2>1, <2>4
<1>3. ASSUME NEW f \in Frames, AllGood(f), Among(f, d) PROVE off[f + 1] <= p
  <2>1. off[f + 1] <= lo
    BY <1>3 DEF Progress
  <2>2. off[f + 1] \in Nat
    BY Offsets
  <2> QED
    BY <2>1, <2>2
<1> QED
  BY <1>1, <1>2, <1>3

(* Nothing is handed out, and no frame that is promised is left behind.     *)
LEMMA NoneHanded ==
    ASSUME Streams, NEW off, Laid(off), NEW lo \in Nat, NEW p \in Nat, lo <= p, NEW d,
           Progress(off, lo, d),
           p = lo \/ (lo < Len(wire) /\ ~AllGood(First(lo).frame))
    PROVE  Progress(off, p, d)
<1>1. /\ d \in Seq(Bytes) /\ Len(d) \in Nat
      /\ \A i \in 1..Len(d) : Handable(off, d[i]) /\ Pos(off, d[i]) < p
      /\ \A i, j \in 1..Len(d) : i < j => Pos(off, d[i]) < Pos(off, d[j])
      /\ \A f \in Frames : AllGood(f) /\ Among(f, d) => off[f + 1] <= p
  BY StillGone
<1>2. CASE p = lo
  BY <1>2
<1>3. CASE lo < Len(wire) /\ ~AllGood(First(lo).frame)
  <2>1. \A f \in Frames : AllGood(f) => Among(f, d)
    BY <1>3, Spoilt
  <2> QED
    BY <2>1, <1>1 DEF Progress
<1> QED
  BY <1>2, <1>3

(* A place is handed out: the first of the buffer.                          *)
LEMMA OneHanded ==
    ASSUME Streams, NEW off, Laid(off), NEW lo \in Nat, lo < Len(wire), NEW p \in Nat, lo < p, NEW d,
           Progress(off, lo, d), Sound(First(lo)),
           AllGood(First(lo).frame) => p = off[First(lo).frame + 1]
    PROVE  Progress(off, p, d \o <<First(lo)>>)
<1> DEFINE x == First(lo)
           e == x.frame
           a == d \o <<x>>
<1>0. x \in Bytes
  <2>1. lo + 1 \in 1..Len(wire)
    BY DEF Streams
  <2> QED
    BY <2>1 DEF Streams, First
<1>1. e \in Frames /\ off[e] <= lo /\ lo < off[e + 1] /\ x.at = lo - off[e]
  BY FirstFrame DEF First
<1>2. /\ off[e] \in Nat /\ off[e + 1] \in Nat /\ off[e + 1] = off[e] + FrameLen(sent[e])
      /\ FrameLen(sent[e]) \in Nat /\ e \in Nat
  BY <1>1, Offsets, FrameSize
<1>3. AllGood(e) => x.at = 0 /\ x = [frame |-> e, at |-> 0] /\ lo = off[e]
  BY InStep
<1>4. /\ d \in Seq(Bytes) /\ Len(d) \in Nat
      /\ \A i \in 1..Len(d) : Handable(off, d[i]) /\ Pos(off, d[i]) < lo /\ Pos(off, d[i]) < p
                             /\ Pos(off, d[i]) \in Nat
      /\ \A i, j \in 1..Len(d) : i < j => Pos(off, d[i]) < Pos(off, d[j])
      /\ \A f \in Frames : AllGood(f) /\ Among(f, d) => off[f + 1] <= p
  BY StillGone
<1>5. /\ a \in Seq(Bytes) /\ Len(a) = Len(d) + 1
      /\ \A i \in 1..Len(d) : a[i] = d[i]
      /\ a[Len(d) + 1] = x
      /\ \A f : Among(f, a) <=> (Among(f, d) \/ x = [frame |-> f, at |-> 0])
  BY <1>0, <1>4, AppendAmong
<1>6. Sound(x) /\ (AllGood(e) => p = off[e + 1])
  OBVIOUS
<1>g. ~AllGood(e) => \A f \in Frames : AllGood(f) => Among(f, d)
  BY Spoilt
<1>p. \A f \in Frames : AllGood(f) => IF Among(f, d) THEN off[f + 1] <= lo ELSE lo <= off[f]
  BY DEF Progress
<1>d. Pos(off, x) = off[e] + x.at
  BY DEF Pos
<1> HIDE DEF a
<1>7. Handable(off, x) /\ Pos(off, x) = lo
  <2>1. x.at \in 0..(FrameLen(sent[e]) - 1) /\ off[e] + x.at = lo
    <3> HIDE DEF x, e
    <3> QED  BY <1>1, <1>2
  <2> QED
    BY <2>1, <1>3, <1>6, <1>d DEF Handable
<1> HIDE DEF x
<1>8. ASSUME NEW i \in 1..Len(a) PROVE Handable(off, a[i]) /\ Pos(off, a[i]) < p
  <2>1. CASE i \in 1..Len(d)
    BY <2>1, <1>4, <1>5
  <2>2. CASE i = Len(d) + 1
    BY <2>2, <1>5, <1>7
  <2> QED
    BY <2>1, <2>2, <1>4, <1>5
<1>9. ASSUME NEW i \in 1..Len(a), NEW j \in 1..Len(a), i < j PROVE Pos(off, a[i]) < Pos(off, a[j])
  <2>1. i \in 1..Len(d) /\ (j \in 1..Len(d) \/ j = Len(d) + 1)
    BY <1>9, <1>4, <1>5
  <2>2. CASE j \in 1..Len(d)
    BY <2>1, <2>2, <1>4, <1>5, <1>9
  <2>3. CASE j = Len(d) + 1
    BY <2>1, <2>3, <1>4, <1>5, <1>7
  <2> QED
    BY <2>1, <2>2, <2>3
<1>10. ASSUME NEW f \in Frames, AllGood(f)
       PROVE  IF Among(f, a) THEN off[f + 1] <= p ELSE p <= off[f]
  <2>1. /\ off[f] \in Nat /\ off[f + 1] \in Nat /\ f \in Nat
        /\ off[f] < off[f + 1]
        /\ e < f => off[e + 1] <= off[f]
        /\ f < e => off[f + 1] <= off[e]
    BY <1>1, Offsets, Ordered, FrameSize
  <2>2. CASE Among(f, d)
    <3>1. Among(f, a) /\ off[f + 1] <= p
      BY <2>2, <1>4, <1>5, <1>10
    <3> QED
      BY <3>1
  <2>3. CASE ~Among(f, d)
    <3>1. AllGood(e)
      BY <2>3, <1>g, <1>10
    <3>2. p = off[e + 1] /\ lo = off[e] /\ lo <= off[f] /\ x = [frame |-> e, at |-> 0]
      BY <3>1, <2>3, <1>3, <1>6, <1>p, <1>10
    <3>3. CASE f = e
      <4>1. Among(f, a)
        BY <3>2, <3>3, <1>5
      <4>2. off[f + 1] <= p
        BY <3>2, <3>3, <2>1
      <4> QED
        BY <4>1, <4>2
    <3>4. CASE f # e
      <4>1. e < f
        BY <3>2, <3>4, <2>1, <1>2
      <4>2. p <= off[f]
        BY <4>1, <3>2, <2>1
      <4>3. ~Among(f, a)
        <5>1. x.frame = e
          BY DEF e
        <5>2. x # [frame |-> f, at |-> 0]
          BY <5>1, <3>4
        <5> QED
          BY <5>2, <2>3, <1>5
      <4> QED
        BY <4>2, <4>3
    <3> QED
      BY <3>3, <3>4
  <2> QED
    BY <2>2, <2>3
<1>11. Progress(off, p, a)
  BY <1>5, <1>8, <1>9, <1>10 DEF Progress
<1> QED
  BY <1>11 DEF a, x

(* Whatever on_message does, frames stay in order and whole, and an abort   *)
(* has its reason.                                                          *)
LEMMA ReadProgress ==
    ASSUME Streams, NEW off, Laid(off), NEW lo \in Nat, NEW hi \in Nat, hi <= Len(wire),
           NEW p \in lo..hi, NEW got, NEW ab, NEW d, Progress(off, lo, d), Outcome(lo, hi, p, got, ab)
    PROVE  /\ Progress(off, p, d \o got)
           /\ ab => /\ p = lo /\ lo < hi /\ IsHead(First(lo)) /\ ~Fits(HeadAt(First(lo)))
                    /\ ~AllGood(First(lo).frame)
<1>0. d \in Seq(Bytes) /\ Len(d) \in Nat /\ d \o <<>> = d
  <2>1. d \in Seq(Bytes)
    BY DEF Progress
  <2> QED
    BY <2>1, ConcatEmptySeq
<1>n. p \in Nat /\ lo <= p /\ Len(wire) \in Nat /\ H \in Nat \ {0}
  BY CodecAssumption DEF Streams
<1>1. CASE Waits(lo, hi, p, got) /\ ab = FALSE
  BY <1>0, <1>1 DEF Waits
<1>2. CASE Drops(lo, hi, p, got) /\ ab = FALSE
  <2>1. got = <<>> /\ lo < Len(wire)
    BY <1>2, <1>n DEF Drops
  <2>2. ~AllGood(First(lo).frame)
    <3>1. ASSUME AllGood(First(lo).frame) PROVE FALSE
      <4>1. IsHead(First(lo)) /\ Small(HeadAt(First(lo))) /\ HeadAt(First(lo)).known
        BY <3>1, <2>1, InStep
      <4> QED
        BY <4>1, <1>2 DEF Drops
    <3> QED
      BY <3>1
  <2>3. Progress(off, p, d)
    BY <2>1, <2>2, <1>n, NoneHanded
  <2> QED
    BY <2>1, <2>3, <1>0, <1>2
<1>3. CASE Takes(lo, hi, p, got) /\ ab = FALSE
  <2> DEFINE x == First(lo)
             h == HeadAt(x)
  <2>1. lo < Len(wire)
    BY <1>3, <1>n DEF Takes
  <2>2. /\ IsHead(x) /\ Small(h) /\ Fits(h) /\ h.known
        /\ p = lo + 2 * H + h.len
        /\ got = IF h.valid THEN <<x>> ELSE <<>>
    BY <1>3 DEF Takes
  <2>3. AllGood(x.frame) => h.valid /\ lo + 2 * H + h.len = off[x.frame + 1]
    BY <2>1, InStep
  <2>4. x.frame \in Frames
    BY <2>1, FirstFrame DEF First
  <2>5. h.len \in Int
    <3>1. sent[x.frame] \in Kinds
      BY <2>4 DEF Streams, Frames
    <3> QED
      BY <3>1, <2>2, HeadType DEF IsHead, HeadAt
  <2>6. lo < p
    <3>1. 0 <= h.len
      BY <2>2 DEF Small
    <3> HIDE DEF h
    <3> QED
      BY <3>1, <2>2, <2>5, <1>n
  <2>7. CASE h.valid
    <3>1. Sound(x)
      BY <2>2, <2>4, <2>7 DEF Sound
    <3>2. got = <<x>>
      BY <2>2, <2>7
    <3>3. AllGood(x.frame) => p = off[x.frame + 1]
      BY <2>2, <2>3
    <3>4. Progress(off, p, d \o <<x>>)
      BY <3>1, <3>3, <2>1, <2>6, <1>n, OneHanded
    <3> QED
      BY <3>2, <3>4, <1>3
  <2>8. CASE ~h.valid
    <3>1. got = <<>> /\ ~AllGood(x.frame)
      BY <2>2, <2>3, <2>8
    <3>2. Progress(off, p, d)
      BY <3>1, <2>1, <1>n, NoneHanded
    <3> QED
      BY <3>1, <3>2, <1>0, <1>3
  <2> QED
    BY <2>7, <2>8
<1>4. CASE Fails(lo, hi, p, got) /\ ab = TRUE
  <2>1. /\ got = <<>> /\ p = lo /\ lo < hi /\ lo < Len(wire)
        /\ IsHead(First(lo)) /\ ~Fits(HeadAt(First(lo)))
    BY <1>4, <1>n DEF Fails
  <2>2. ~AllGood(First(lo).frame)
    <3>1. ASSUME AllGood(First(lo).frame) PROVE FALSE
      <4>1. Fits(HeadAt(First(lo)))
        BY <3>1, <2>1, InStep
      <4> QED
        BY <4>1, <2>1
    <3> QED
      BY <3>1
  <2> QED
    BY <2>1, <2>2, <1>0
<1> QED
  BY <1>1, <1>2, <1>3, <1>4 DEF Outcome

(* on_message completes no frame, and takes one if there is one to take.    *)
LEMMA ReadTakesOne ==
    ASSUME Streams, NEW off, Laid(off), NEW lo \in Nat, NEW hi \in Nat, hi <= Len(wire),
           NEW p \in lo..hi, NEW got, NEW ab, Outcome(lo, hi, p, got, ab),
           NEW d, Progress(off, lo, d), AllGood(Len(sent))
    PROVE  /\ Behind(off, p, hi) \subseteq Behind(off, lo, hi)
           /\ Behind(off, lo, hi) # {} => \E f \in Behind(off, lo, hi) : f \notin Behind(off, p, hi)
<1>0. Len(wire) \in Nat /\ lo <= p /\ p <= hi /\ p \in Nat /\ H \in Nat
  BY CodecAssumption DEF Streams
<1>1. Behind(off, p, hi) \subseteq Behind(off, lo, hi)
  <2> SUFFICES ASSUME NEW f \in Frames, p <= off[f] PROVE lo <= off[f]
    BY DEF Behind
  <2>1. off[f] \in Nat
    BY Offsets
  <2> QED
    BY <2>1, <1>0
<1>2. ASSUME NEW f \in Behind(off, lo, hi)
      PROVE  \E g \in Behind(off, lo, hi) : g \notin Behind(off, p, hi)
  <2> DEFINE x == First(lo)
             e == x.frame
  <2>1. f \in Frames /\ lo <= off[f] /\ off[f + 1] <= hi
    BY DEF Behind
  <2>2. off[f] \in Nat /\ off[f + 1] \in Nat /\ off[f] < off[f + 1]
    BY <2>1, Offsets
  <2>3. lo < Len(wire)
    BY <2>1, <2>2, <1>0
  <2>4. e \in Frames /\ off[e] <= lo /\ lo < off[e + 1]
    BY <2>3, FirstFrame DEF First
  <2>4a. AllGood(e)
    <3>1. e \in Nat /\ Len(sent) \in Nat /\ e <= Len(sent)
      BY <2>4, FrameSize DEF Frames
    <3> QED
      BY <3>1 DEF AllGood
  <2>4b. /\ IsHead(x) /\ Small(HeadAt(x)) /\ Fits(HeadAt(x)) /\ HeadAt(x).known
         /\ lo + 2 * H + HeadAt(x).len = off[e + 1] /\ lo = off[e]
    BY <2>3, <2>4a, InStep
  <2>5. off[e] \in Nat /\ off[e + 1] \in Nat
    BY <2>4, Offsets
  <2>6. off[e] <= off[f] => off[e + 1] <= off[f + 1]
    BY <2>1, <2>4, Ordered
  <2>l. HeadAt(x).len \in Nat
    <3>1. sent[e] \in Kinds
      BY <2>4 DEF Streams, Frames
    <3>2. HeadAt(x).len \in Int
      BY <3>1, <2>4b, HeadType DEF IsHead, HeadAt
    <3> QED
      BY <3>2, <2>4b DEF Small
  <2>x. Waits(lo, hi, p, got) => (hi - lo < 2 * H \/ hi - lo < 2 * H + HeadAt(x).len)
    BY DEF Waits
  <2>y. Takes(lo, hi, p, got) => p = lo + 2 * H + HeadAt(x).len
    BY DEF Takes
  <2>z. ~Drops(lo, hi, p, got) /\ ~Fails(lo, hi, p, got)
    BY <2>4b DEF Drops, Fails
  <2> HIDE DEF e, x
  <2>7. off[e + 1] <= hi
    BY <2>1, <2>2, <2>4, <2>5, <2>6
  <2>8. ~Waits(lo, hi, p, got)
    BY <2>4b, <2>5, <2>7, <2>l, <2>x, <1>0
  <2>9. Takes(lo, hi, p, got)
    BY <2>8, <2>z DEF Outcome
  <2>10. p = off[e + 1]
    BY <2>4b, <2>9, <2>y
  <2>11. e \in Behind(off, lo, hi)
    BY <2>4, <2>4b, <2>5, <2>7 DEF Behind
  <2>12. e \notin Behind(off, p, hi)
    BY <2>4, <2>5, <2>10 DEF Behind
  <2> QED
    BY <2>11, <2>12
<1> QED
  BY <1>1, <1>2

(* Counting: a set that grew by C and then lost a member.                   *)
LEMMA CountLeft ==
    ASSUME NEW B, NEW C, NEW B1, NEW B2, IsFiniteSet(B), IsFiniteSet(C),
           B1 \subseteq B \union C, B2 \subseteq B1, B1 # {} => \E f \in B1 : f \notin B2
    PROVE  /\ Cardinality(B) \in Nat /\ Cardinality(C) \in Nat
           /\ \/ Cardinality(B2) = 0
              \/ 0 < Cardinality(B) + Cardinality(C) /\ Cardinality(B2) <= Cardinality(B) + Cardinality(C) - 1
<1>1. Cardinality(B) \in Nat /\ Cardinality(C) \in Nat
  BY FS_CardinalityType
<1>2. /\ IsFiniteSet(B \union C) /\ IsFiniteSet(B \cap C)
      /\ Cardinality(B \union C) = Cardinality(B) + Cardinality(C) - Cardinality(B \cap C)
  <2>1. B \cap C \subseteq B
    OBVIOUS
  <2> QED
    BY <2>1, FS_Union, FS_Subset
<1>3. Cardinality(B \cap C) \in Nat
  BY <1>2, FS_CardinalityType
<1>4. IsFiniteSet(B1) /\ Cardinality(B1) <= Cardinality(B \union C) /\ Cardinality(B1) \in Nat
  <2>1. IsFiniteSet(B1) /\ Cardinality(B1) <= Cardinality(B \union C)
    BY <1>2, FS_Subset
  <2> QED
    BY <2>1, FS_CardinalityType
<1>5. Cardinality(B1) <= Cardinality(B) + Cardinality(C)
  BY <1>1, <1>2, <1>3, <1>4
<1>6. CASE B1 = {}
  <2>1. B2 = {}
    BY <1>6
  <2>2. Cardinality(B2) = 0
    BY <2>1, FS_EmptySet
  <2> QED
    BY <2>2, <1>1
<1>7. CASE B1 # {}
  <2>1. PICK f \in B1 : f \notin B2
    BY <1>7
  <2>2. IsFiniteSet(B1 \ {f}) /\ Cardinality(B1 \ {f}) = Cardinality(B1) - 1
    BY <1>4, FS_RemoveElement
  <2>3. B2 \subseteq B1 \ {f}
    BY <2>1
  <2>4. IsFiniteSet(B2) /\ Cardinality(B2) <= Cardinality(B1 \ {f})
    BY <2>2, <2>3, FS_Subset
  <2>5. Cardinality(B2) \in Nat
    BY <2>4, FS_CardinalityType
  <2>6. Cardinality(B2) <= Cardinality(B) + Cardinality(C) - 1
    BY <2>2, <2>4, <2>5, <1>1, <1>4, <1>5
  <2>7. 0 < Cardinality(B) + Cardinality(C)
    BY <2>5, <2>6, <1>1
  <2> QED
    BY <2>6, <2>7, <1>1
<1> QED
  BY <1>1, <1>6, <1>7

(* Sets of frames are finite.                                               *)
LEMMA FewFrames ==
    ASSUME Streams, NEW S, S \subseteq Frames
    PROVE  IsFiniteSet(S) /\ Cardinality(S) \in Nat
<1>1. Len(sent) \in Nat
  BY DEF Streams
<1>2. IsFiniteSet(Frames)
  BY <1>1, FS_Interval DEF Frames
<1> QED
  BY <1>2, FS_Subset, FS_CardinalityType

(* The frames a read of n bytes completes, by their offsets.                *)
LEMMA CompletedBy ==
    ASSUME Streams, NEW off, Laid(off), NEW n \in 1..(Len(wire) - arrived), NEW f \in Frames
    PROVE  f \in Completed(n) <=> (arrived < off[f + 1] /\ off[f + 1] <= arrived + n)
<1>0. Len(wire) \in Nat /\ arrived \in Nat /\ arrived + n <= Len(wire) /\ n \in Nat
  BY DEF Streams
<1>1. /\ off[f] \in Nat /\ off[f + 1] \in Nat /\ off[f + 1] = off[f] + FrameLen(sent[f])
      /\ FrameLen(sent[f]) \in Nat /\ 0 < FrameLen(sent[f]) /\ H \in Nat
      /\ off[f + 1] <= Len(wire)
  BY Offsets, FrameSize
<1>2. \A i \in 1..n : Arriving(n)[i] = wire[arrived + i]
  BY ArrivingPiece DEF Piece
<1> DEFINE last == [frame |-> f, at |-> FrameLen(sent[f]) - 1]
<1>3. wire[off[f] + FrameLen(sent[f])] = last
  <2>1. FrameLen(sent[f]) \in 1..FrameLen(sent[f])
    BY <1>1
  <2> QED
    BY <2>1, Zenon DEF Laid
<1>4. last.frame = f /\ last.at = FrameLen(sent[f]) - 1
  OBVIOUS
<1> HIDE DEF last
<1>5. f \in Completed(n) <=> \E i \in 1..n : Arriving(n)[i] = last
  BY DEF Completed, last
<1>6. ASSUME NEW i \in 1..n, Arriving(n)[i] = last
      PROVE  arrived < off[f + 1] /\ off[f + 1] <= arrived + n
  <2>1. wire[arrived + i] = last /\ arrived + i \in 1..Len(wire)
    BY <1>0, <1>2, <1>6
  <2>2. wire[arrived + i].at = (arrived + i) - off[f] - 1
    BY <2>1, <1>4, Place
  <2>3. FrameLen(sent[f]) - 1 = (arrived + i) - off[f] - 1
    BY <2>1, <2>2, <1>4
  <2> QED
    BY <2>3, <1>0, <1>1
<1>7. ASSUME arrived < off[f + 1], off[f + 1] <= arrived + n
      PROVE  \E i \in 1..n : Arriving(n)[i] = last
  <2>1. off[f + 1] - arrived \in 1..n /\ arrived + (off[f + 1] - arrived) = off[f + 1]
    BY <1>0, <1>1, <1>7
  <2>2. Arriving(n)[off[f + 1] - arrived] = wire[arrived + (off[f + 1] - arrived)]
    BY <2>1, <1>2
  <2>3. Arriving(n)[off[f + 1] - arrived] = last
    BY <2>1, <2>2, <1>1, <1>3
  <2> QED
    BY <2>1, <2>3
<1> QED
  BY <1>5, <1>6, <1>7

(***************************************************************************)
(* The invariant of the specification.                                     *)
(***************************************************************************)
(* The input buffer begins behind the bytes that are gone.                  *)
LEMMA GoneHolds ==
    ASSUME Inv
    PROVE  /\ gone \in Nat /\ arrived \in Nat /\ Len(wire) \in Nat
           /\ gone <= arrived /\ arrived <= Len(wire)
           /\ Holds(input, wire, gone, arrived)
<1>1. PICK lo \in 0..arrived : Holds(input, wire, lo, arrived)
  BY DEF Inv
<1>2. lo \in Nat /\ arrived \in Nat /\ arrived <= Len(wire) /\ Len(wire) \in Nat
  BY DEF Inv, Streams
<1>3. /\ input.reader \in Nat /\ input.writer \in Nat
      /\ input.writer - input.reader = arrived - lo /\ lo <= arrived
  BY <1>1, <1>2, HoldsFacts
<1>4. gone = lo
  BY <1>2, <1>3 DEF gone
<1> QED
  BY <1>1, <1>2, <1>3, <1>4

(* No frame has been sent, none is owed.                                    *)
LEMMA InitFrames == Init => FrameInv
<1> SUFFICES ASSUME Init PROVE FrameInv
  OBVIOUS
<1>1. Inv
  BY InitInv
<1>2. /\ sent = <<>> /\ wire = <<>> /\ delivered = <<>> /\ extra = 0 /\ aborted = FALSE
      /\ Len(sent) = 0 /\ Len(wire) = 0 /\ Len(delivered) = 0 /\ Frames = {}
  BY DEF Init, Frames
<1>3. PICK off : off = [i \in 1..(Len(sent) + 1) |-> 0]
  OBVIOUS
<1>4. Laid(off)
  BY <1>2, <1>3 DEF Laid
<1>5. Progress(off, gone, delivered)
  BY <1>2 DEF Progress
<1>6. Cardinality(Behind(off, gone, arrived)) = 0
  <2>1. Behind(off, gone, arrived) = {}
    BY <1>2 DEF Behind
  <2> QED
    BY <2>1, FS_EmptySet
<1> QED
  BY <1>1, <1>2, <1>4, <1>5, <1>6 DEF FrameInv

(* A frame is sent: what it does to the two sequences.                      *)
LEMMA SentOne ==
    ASSUME Inv, NEW k \in Kinds, Send(k)
    PROVE  /\ Len(sent) \in Nat /\ Len(wire) \in Nat /\ FrameLen(k) \in Nat /\ 0 < FrameLen(k)
           /\ Len(sent') = Len(sent) + 1
           /\ \A f \in 1..Len(sent) : sent'[f] = sent[f]
           /\ sent'[Len(sent) + 1] = k
           /\ Len(wire') = Len(wire) + FrameLen(k)
           /\ \A i \in 1..Len(wire) : wire'[i] = wire[i]
           /\ \A i \in 1..FrameLen(k) :
                  wire'[Len(wire) + i] = [frame |-> Len(sent) + 1, at |-> i - 1]
<1>1. sent \in Seq(Kinds) /\ wire \in Seq(Bytes) /\ Len(sent) \in Nat /\ Len(wire) \in Nat
  BY DEF Inv, Streams
<1>2. /\ Len(sent') = Len(sent) + 1
      /\ \A f \in 1..Len(sent) : sent'[f] = sent[f]
      /\ sent'[Len(sent) + 1] = k
  BY <1>1, AppendProperties DEF Send
<1> DEFINE m == FrameLen(k)
           F == Len(sent) + 1
           e == encode(F, k)
<1>3. F \in 1..MaxFrames
  BY <1>1, CodecAssumption DEF Send
<1>4. /\ m \in Nat /\ 0 < m /\ e \in Seq(Bytes) /\ Len(e) = m
      /\ \A i \in 1..m : e[i] = [frame |-> F, at |-> i - 1]
  BY <1>3, EncodeBytes
<1>5. wire' = wire \o e
  BY DEF Send
<1> HIDE DEF m, e, F
<1>7. /\ Len(wire') = Len(wire) + m
      /\ \A i \in 1..(Len(wire) + m) :
             wire'[i] = IF i <= Len(wire) THEN wire[i] ELSE e[i - Len(wire)]
  BY <1>1, <1>4, <1>5, ConcatProperties
<1>8. ASSUME NEW i \in 1..m PROVE wire'[Len(wire) + i] = [frame |-> F, at |-> i - 1]
  <2>1. /\ Len(wire) + i \in 1..(Len(wire) + m) /\ ~(Len(wire) + i <= Len(wire))
        /\ (Len(wire) + i) - Len(wire) = i
    BY <1>1, <1>4
  <2>2. wire'[Len(wire) + i] = e[i]
    BY <2>1, <1>7
  <2> QED
    BY <2>2, <1>4
<1>9. ASSUME NEW i \in 1..Len(wire) PROVE wire'[i] = wire[i]
  BY <1>1, <1>4, <1>7
<1> QED
  BY <1>1, <1>2, <1>4, <1>7, <1>8, <1>9 DEF m, F

(* The stream with one more frame is cut into frames.                       *)
LEMMA LaidMore ==
    ASSUME Inv, NEW k \in Kinds, Send(k), NEW off, Laid(off), NEW new,
           new = [i \in 1..(Len(sent) + 2) |->
                      IF i <= Len(sent) + 1 THEN off[i] ELSE Len(wire) + FrameLen(k)]
    PROVE  Laid(new)'
<1> DEFINE N == Len(sent)
           L == Len(wire)
           m == FrameLen(k)
<1>1. /\ N \in Nat /\ L \in Nat /\ m \in Nat /\ 0 < m
      /\ Len(sent') = N + 1
      /\ \A f \in 1..N : sent'[f] = sent[f]
      /\ sent'[N + 1] = k
      /\ Len(wire') = L + m
      /\ \A i \in 1..L : wire'[i] = wire[i]
      /\ \A i \in 1..m : wire'[L + i] = [frame |-> N + 1, at |-> i - 1]
  BY SentOne
<1>s. Streams
  BY DEF Inv
<1>2. /\ off \in [1..(N + 1) -> Nat] /\ off[N + 1] = L
      /\ \A f \in 1..N : off[f + 1] = off[f] + FrameLen(sent[f])
      /\ \A e \in 1..N : \A f \in 1..(N + 1) : e < f => off[e + 1] <= off[f]
  BY DEF Laid, Frames
<1>2a. \A f \in 1..N : \A i \in 1..FrameLen(sent[f]) : wire[off[f] + i] = [frame |-> f, at |-> i - 1]
  BY DEF Laid, Frames
<1>2b. \A j \in 1..L : \E f \in 1..N : off[f] < j /\ j <= off[f + 1]
  BY DEF Laid, Frames
<1>2c. \A f \in 1..N : FrameLen(sent[f]) \in Nat /\ off[f + 1] <= L
  BY <1>s, FrameSize, Offsets DEF Frames
<1> HIDE DEF N, L, m
<1>3. /\ \A i \in 1..(N + 1) : new[i] = off[i]
      /\ new[N + 2] = L + m
      /\ new \in [1..(N + 2) -> Nat]
  <2>1. new = [i \in 1..(N + 2) |-> IF i <= N + 1 THEN off[i] ELSE L + m]
    BY DEF N, L, m
  <2> QED
    BY <2>1, <1>1, <1>2
<1>4. ASSUME NEW f \in 1..(N + 1) PROVE new[f + 1] = new[f] + FrameLen(sent'[f])
  <2>1. CASE f \in 1..N
    <3>1. f \in 1..(N + 1) /\ f + 1 \in 1..(N + 1)
      BY <2>1, <1>1
    <3> QED
      BY <3>1, <2>1, <1>1, <1>2, <1>3
  <2>2. CASE f = N + 1
    <3>1. f + 1 = N + 2 /\ new[f] = L
      BY <2>2, <1>1, <1>2, <1>3
    <3> QED
      BY <3>1, <2>2, <1>1, <1>3 DEF m
  <2> QED
    BY <2>1, <2>2, <1>1
<1>5. ASSUME NEW e \in 1..(N + 1), NEW f \in 1..(N + 2), e < f PROVE new[e + 1] <= new[f]
  <2>1. CASE f \in 1..(N + 1)
    <3>1. e \in 1..N /\ e + 1 \in 1..(N + 1)
      BY <2>1, <1>1, <1>5
    <3>2. off[e + 1] <= off[f]
      BY <3>1, <2>1, <1>2, <1>5
    <3> QED
      BY <3>1, <3>2, <2>1, <1>3
  <2>2. CASE f = N + 2 /\ e \in 1..N
    <3>1. e + 1 \in 1..(N + 1) /\ off[e + 1] \in Nat /\ off[e + 1] <= L
      BY <2>2, <1>1, <1>2, <1>2c
    <3> QED
      BY <3>1, <2>2, <1>1, <1>3
  <2>3. CASE f = N + 2 /\ e = N + 1
    <3>1. e + 1 = N + 2
      BY <2>3, <1>1
    <3> QED
      BY <3>1, <2>3, <1>1, <1>3
  <2>4. f \in 1..(N + 1) \/ (f = N + 2 /\ e \in 1..N) \/ (f = N + 2 /\ e = N + 1)
    BY <1>1
  <2> QED
    BY <2>1, <2>2, <2>3, <2>4, Zenon
<1>6. ASSUME NEW f \in 1..(N + 1), NEW i \in 1..FrameLen(sent'[f])
      PROVE  wire'[new[f] + i] = [frame |-> f, at |-> i - 1]
  <2>1. CASE f \in 1..N
    <3>0. sent'[f] = sent[f] /\ f \in 1..(N + 1) /\ f + 1 \in 1..(N + 1)
      BY <2>1, <1>1
    <3>1. wire[off[f] + i] = [frame |-> f, at |-> i - 1]
      BY <2>1, <3>0, <1>2a
    <3>2. /\ FrameLen(sent[f]) \in Nat /\ off[f] \in Nat /\ off[f + 1] <= L
          /\ off[f + 1] = off[f] + FrameLen(sent[f])
      BY <2>1, <3>0, <1>2, <1>2c
    <3>3. off[f] + i \in 1..L
      BY <3>0, <3>2, <1>1
    <3> QED
      BY <3>0, <3>1, <3>3, <1>1, <1>3
  <2>2. CASE f = N + 1
    <3>1. new[f] = L /\ i \in 1..m
      BY <2>2, <1>1, <1>2, <1>3 DEF m
    <3> QED
      BY <3>1, <2>2, <1>1
  <2> QED
    BY <2>1, <2>2, <1>1
<1>7. ASSUME NEW j \in 1..(L + m) PROVE \E f \in 1..(N + 1) : new[f] < j /\ j <= new[f + 1]
  <2>1. CASE j \in 1..L
    <3>1. PICK f \in 1..N : off[f] < j /\ j <= off[f + 1]
      BY <2>1, <1>2b
    <3>2. f \in 1..(N + 1) /\ f + 1 \in 1..(N + 1)
      BY <1>1
    <3> QED
      BY <3>1, <3>2, <1>3
  <2>2. CASE j \in (L + 1)..(L + m)
    <3>1. N + 1 \in 1..(N + 1) /\ (N + 1) + 1 = N + 2
      BY <1>1
    <3>2. new[N + 1] < j /\ j <= new[(N + 1) + 1]
      BY <3>1, <2>2, <1>1, <1>2, <1>3
    <3> QED
      BY <3>1, <3>2
  <2>3. j \in 1..L \/ j \in (L + 1)..(L + m)
    BY <1>1
  <2> QED
    BY <2>1, <2>2, <2>3, Zenon
<1>8. Frames' = 1..(N + 1) /\ Len(sent') + 1 = N + 2 /\ Len(wire') = L + m
  BY <1>1 DEF Frames
<1> QED
  BY <1>3, <1>4, <1>5, <1>6, <1>7, <1>8 DEF Laid

(* Sending a frame changes nothing for the frames before it, and the new    *)
(* one is wholly outside the buffer.                                        *)
LEMMA SendFrames ==
    ASSUME FrameInv, NEW k \in Kinds, Send(k)
    PROVE  FrameInv'
<1>0. Inv /\ Streams /\ extra \in Nat
  BY DEF FrameInv, Inv
<1>1. Inv'
  BY <1>0, SendInv
<1>2. PICK off : /\ Laid(off) /\ Progress(off, gone, delivered)
                 /\ AllGood(Len(sent)) => Cardinality(Behind(off, gone, arrived)) <= extra
  BY DEF FrameInv
<1>3. PICK new : new = [i \in 1..(Len(sent) + 2) |->
                           IF i <= Len(sent) + 1 THEN off[i] ELSE Len(wire) + FrameLen(k)]
  OBVIOUS
<1>4. Laid(new)'
  BY <1>0, <1>2, <1>3, LaidMore
<1>5. /\ Len(sent) \in Nat /\ Len(wire) \in Nat /\ FrameLen(k) \in Nat /\ 0 < FrameLen(k)
      /\ Len(sent') = Len(sent) + 1
      /\ \A f \in 1..Len(sent) : sent'[f] = sent[f]
      /\ \A i \in 1..Len(wire) : wire'[i] = wire[i]
  BY <1>0, SentOne
<1>6. /\ arrived' = arrived /\ input' = input /\ delivered' = delivered /\ extra' = extra
      /\ gone' = gone /\ aborted' = aborted
  BY DEF Send, gone
<1>7. gone \in Nat /\ arrived \in Nat /\ gone <= arrived /\ arrived <= Len(wire)
  BY <1>0, GoneHolds
<1> DEFINE N == Len(sent)
           L == Len(wire)
           m == FrameLen(k)
<1>8. Frames = 1..N /\ Frames' = 1..(N + 1)
  BY <1>5 DEF Frames
<1>9. off[N + 1] = L /\ off \in [1..(N + 1) -> Nat]
  BY <1>2 DEF Laid
<1>10. /\ \A f \in 1..N : new[f] = off[f] /\ new[f + 1] = off[f + 1]
       /\ new[N + 1] = L /\ new[(N + 1) + 1] = L + m
  BY <1>3, <1>5, <1>9
<1>11. ASSUME NEW f \in 1..N
       PROVE  AllGood(f)' <=> AllGood(f)
  <2>1. \A e \in 1..f : e \in 1..N
    BY <1>5
  <2>2. \A e \in 1..N : Good(e)' <=> Good(e)
    BY <1>5 DEF Good
  <2> QED
    BY <2>1, <2>2 DEF AllGood
<1>12. ASSUME NEW x, x.frame \in 1..N
       PROVE  /\ IsHead(x)' <=> IsHead(x)
              /\ HeadAt(x)' = HeadAt(x)
              /\ Handable(off, x) => Handable(new, x)'
              /\ Pos(new, x)' = Pos(off, x)
  <2>1. sent'[x.frame] = sent[x.frame] /\ new[x.frame] = off[x.frame]
    BY <1>5, <1>10, <1>12
  <2>2. (IsHead(x)' <=> IsHead(x)) /\ HeadAt(x)' = HeadAt(x)
    BY <2>1 DEF IsHead, HeadAt
  <2>3. x.frame \in Frames /\ x.frame \in Frames'
    BY <1>5, <1>8, <1>12
  <2>4. Sound(x) => Sound(x)'
    BY <2>2, <2>3 DEF Sound, Small, Fits
  <2>5. AllGood(x.frame)' <=> AllGood(x.frame)
    <3>1. PICK f \in 1..N : f = x.frame
      BY <1>12
    <3> QED
      BY <3>1, <1>11
  <2> QED
    BY <2>1, <2>2, <2>4, <2>5 DEF Handable, Pos
<1>13. /\ delivered \in Seq(Bytes) /\ Len(delivered) \in Nat
       /\ \A i \in 1..Len(delivered) : Handable(off, delivered[i]) /\ Pos(off, delivered[i]) < gone
  BY <1>2 DEF Progress
<1>14. \A i, j \in 1..Len(delivered) : i < j => Pos(off, delivered[i]) < Pos(off, delivered[j])
  BY <1>2 DEF Progress
<1>15. \A f \in 1..N : AllGood(f) => IF Among(f, delivered) THEN off[f + 1] <= gone ELSE gone <= off[f]
  BY <1>2, <1>8 DEF Progress
<1> HIDE DEF N, L, m
<1>n. N \in Nat /\ L \in Nat /\ m \in Nat /\ 0 < m /\ arrived <= L
  BY <1>5, <1>7 DEF N, L, m
<1>d. \A i \in 1..Len(delivered) : delivered[i].frame \in 1..N
  BY <1>8, <1>13 DEF Handable, Sound
<1>16. Progress(new, gone, delivered)'
  <2>1. ASSUME NEW i \in 1..Len(delivered)
        PROVE  /\ Handable(new, delivered[i])' /\ Pos(new, delivered[i])' < gone'
               /\ Pos(new, delivered[i])' = Pos(off, delivered[i])
    <3>1. PICK x : x = delivered[i]
      OBVIOUS
    <3>2. x.frame \in 1..N /\ Handable(off, x) /\ Pos(off, x) < gone /\ x = delivered'[i]
      BY <3>1, <1>6, <1>13, <1>d
    <3>3. Handable(new, x)' /\ Pos(new, x)' = Pos(off, x)
      BY <3>2, <1>12
    <3> QED
      BY <3>1, <3>2, <3>3, <1>6
  <2>3. ASSUME NEW f \in 1..(N + 1), AllGood(f)'
        PROVE  IF Among(f, delivered) THEN new[f + 1] <= gone ELSE gone <= new[f]
    <3>1. CASE f \in 1..N
      BY <3>1, <2>3, <1>10, <1>11, <1>15
    <3>2. CASE f = N + 1
      <4>1. ~Among(f, delivered)
        <5> SUFFICES ASSUME NEW i \in 1..Len(delivered), delivered[i] = [frame |-> f, at |-> 0]
                     PROVE  FALSE
          BY DEF Among
        <5>1. delivered[i].frame = f /\ delivered[i].frame \in 1..N
          BY <1>d
        <5> QED
          BY <5>1, <3>2, <1>n
      <4>2. gone <= new[f]
        BY <3>2, <1>7, <1>10, <1>n
      <4> QED
        BY <4>1, <4>2
    <3> QED
      BY <3>1, <3>2, <1>n
  <2>4. \A f \in 1..(N + 1) : Among(f, delivered)' <=> Among(f, delivered)
    BY <1>6 DEF Among
  <2>5. \A i, j \in 1..Len(delivered) : i < j => Pos(new, delivered[i])' < Pos(new, delivered[j])'
    BY <2>1, <1>14
  <2>6. delivered' \in Seq(Bytes) /\ Len(delivered') = Len(delivered)
    BY <1>6, <1>13
  <2> QED
    BY <2>1, <2>3, <2>4, <2>5, <2>6, <1>6, <1>8 DEF Progress
<1>17. Behind(new, gone, arrived)' = Behind(off, gone, arrived)
  <2>1. ASSUME NEW f \in 1..(N + 1)
        PROVE  (gone <= new[f] /\ new[f + 1] <= arrived)
                   <=> (f \in 1..N /\ gone <= off[f] /\ off[f + 1] <= arrived)
    <3>1. CASE f \in 1..N
      BY <3>1, <1>10
    <3>2. CASE f = N + 1
      BY <3>2, <1>7, <1>10, <1>n
    <3> QED
      BY <3>1, <3>2, <1>n
  <2>2. \A f \in 1..N : f \in 1..(N + 1)
    BY <1>n
  <2>3. Behind(new, gone, arrived)' = {f \in 1..(N + 1) : gone <= new[f] /\ new[f + 1] <= arrived}
    BY <1>6, <1>8 DEF Behind
  <2>4. Behind(off, gone, arrived) = {f \in 1..N : gone <= off[f] /\ off[f + 1] <= arrived}
    BY <1>8 DEF Behind
  <2> QED
    BY <2>1, <2>2, <2>3, <2>4
<1>18. AllGood(Len(sent))' => Cardinality(Behind(new, gone, arrived))' <= extra'
  <2>1. ASSUME AllGood(Len(sent))' PROVE AllGood(Len(sent))
    <3>1. \A e \in 1..(N + 1) : Good(e)'
      BY <2>1, <1>5 DEF AllGood, N
    <3>2. \A e \in 1..N : e \in 1..(N + 1) /\ (Good(e)' <=> Good(e))
      BY <1>n, <1>5 DEF Good, N
    <3> QED
      BY <3>1, <3>2 DEF AllGood, N
  <2> QED
    BY <2>1, <1>2, <1>6, <1>17
<1>19. aborted' => Misfit(gone)'
  <2> SUFFICES ASSUME aborted PROVE Misfit(gone)'
    BY <1>6
  <2>1. /\ gone < arrived /\ IsHead(First(gone)) /\ ~Fits(HeadAt(First(gone)))
        /\ ~AllGood(First(gone).frame)
    BY DEF FrameInv, Misfit
  <2>2. gone + 1 \in 1..Len(wire)
    BY <2>1, <1>5, <1>7
  <2>3. PICK x : x = First(gone)
    OBVIOUS
  <2>4. x.frame \in 1..N
    BY <2>2, <2>3, <1>0 DEF Streams, First, N
  <2>5. x = First(gone)'
    BY <2>2, <2>3, <1>5, <1>6 DEF First
  <2>6. IsHead(x)' /\ ~Fits(HeadAt(x))'
    BY <2>1, <2>3, <2>4, <1>12 DEF Fits
  <2>7. ~AllGood(x.frame)'
    <3>1. PICK f \in 1..N : f = x.frame
      BY <2>4
    <3> QED
      BY <3>1, <2>1, <2>3, <1>11
  <2> QED
    BY <2>1, <2>5, <2>6, <2>7, <1>6 DEF Misfit
<1> QED
  BY <1>0, <1>1, <1>4, <1>6, <1>16, <1>18, <1>19 DEF FrameInv

(* A read of n bytes, which completes the frames C, and the call of         *)
(* on_message behind it.                                                    *)
LEMMA ReadFrames ==
    ASSUME FrameInv, Inv', wire' = wire, sent' = sent, NEW c, NEW n \in Nat,
           arrived' = arrived + n, arrived + n <= Len(wire),
           Holds(c, wire, gone, arrived + n), on_message(c),
           NEW C, C \subseteq Frames,
           \A off : Laid(off) => \A f \in Frames :
               f \in C <=> (arrived < off[f + 1] /\ off[f + 1] <= arrived + n),
           extra' = IF extra + Cardinality(C) = 0 THEN 0 ELSE extra + Cardinality(C) - 1
    PROVE  FrameInv'
<1>0. Inv /\ Streams /\ extra \in Nat
  BY DEF FrameInv, Inv
<1>1. gone \in Nat /\ arrived \in Nat /\ gone <= arrived /\ Len(wire) \in Nat /\ arrived + n \in Nat
  BY <1>0, GoneHolds
<1>2. PICK off : /\ Laid(off) /\ Progress(off, gone, delivered)
                 /\ AllGood(Len(sent)) => Cardinality(Behind(off, gone, arrived)) <= extra
  BY DEF FrameInv
<1>3. PICK lo \in Nat, a \in Nat, hi \in Nat : lo = gone /\ a = arrived /\ hi = arrived + n
  BY <1>1
<1>13. PICK k \in lo..hi : \E got :
           Outcome(lo, hi, k, got, aborted') /\ Holds(input', wire, k, hi) /\ Handed(got)
  <2>1. Holds(c, wire, lo, hi) /\ hi <= Len(wire)
    BY <1>3
  <2> QED
    BY <2>1, <1>0, OnMessage
<1>4. PICK got :
          Outcome(lo, hi, k, got, aborted') /\ Holds(input', wire, k, hi) /\ Handed(got)
  BY <1>13
<1>5. gone' = k
  <2>1. k \in Nat
    OBVIOUS
  <2>2. /\ input'.writer \in Nat /\ input'.reader \in Nat
        /\ input'.writer - input'.reader = hi - k
    BY <2>1, <1>4, HoldsFacts
  <2>3. gone' = arrived' - (input'.writer - input'.reader) /\ arrived' = hi
    BY <1>3 DEF gone
  <2> QED
    BY <2>1, <2>2, <2>3
<1>6. Laid(off)'
  BY <1>2 DEF Laid, Frames
<1>s. Frames' = Frames /\ Len(sent') = Len(sent)
  BY DEF Frames
<1>h. \A x : /\ First(x)' = First(x)
             /\ IsHead(x)' = IsHead(x) /\ HeadAt(x)' = HeadAt(x) /\ AllGood(x)' = AllGood(x)
  BY DEF First, IsHead, HeadAt, AllGood, Good
<1>7. /\ Progress(off, gone, delivered)'
      /\ aborted' => Misfit(gone)'
  <2>1. Progress(off, lo, delivered) /\ hi <= Len(wire)
    BY <1>2, <1>3
  <2>2. /\ Progress(off, k, delivered \o got)
        /\ aborted' => /\ k = lo /\ lo < hi /\ IsHead(First(lo)) /\ ~Fits(HeadAt(First(lo)))
                       /\ ~AllGood(First(lo).frame)
    BY <2>1, <1>0, <1>2, <1>4, ReadProgress
  <2>3. delivered' = delivered \o got
    BY <1>4 DEF Handed
  <2>4. Progress(off, k, delivered')
    BY <2>2, <2>3
  <2>5. Progress(off, gone, delivered)'
    <3>1. \A x : Handable(off, x)' = Handable(off, x) /\ Pos(off, x)' = Pos(off, x)
      BY <1>h, <1>s DEF Handable, Pos, Sound, Small, Fits
    <3> QED
      BY <3>1, <2>4, <1>5, <1>h, <1>s DEF Progress, Among
  <2>6. ASSUME aborted' PROVE Misfit(gone)'
    <3>1. arrived' = hi /\ gone' = lo
      BY <2>2, <2>6, <1>3, <1>5
    <3>2. First(gone)' = First(lo)
      BY <3>1 DEF First
    <3>3. PICK x : x = First(lo)
      OBVIOUS
    <3>4. IsHead(x)' /\ ~Fits(HeadAt(x))' /\ ~AllGood(x.frame)'
      BY <3>3, <2>2, <2>6, <1>h DEF Fits
    <3> QED
      BY <3>1, <3>2, <3>3, <3>4, <2>2, <2>6 DEF Misfit
  <2> QED
    BY <2>5, <2>6
<1>8. extra' \in Nat
  <2>1. Cardinality(C) \in Nat
    BY <1>0, FewFrames
  <2> QED
    BY <2>1, <1>0
<1>9. ASSUME AllGood(Len(sent))' PROVE Cardinality(Behind(off, gone, arrived))' <= extra'
  <2> DEFINE B == Behind(off, lo, a)
             B1 == Behind(off, lo, hi)
             B2 == Behind(off, k, hi)
  <2>0. AllGood(Len(sent))
    BY <1>9 DEF AllGood, Good
  <2>1. IsFiniteSet(B) /\ IsFiniteSet(C)
    <3>1. B \subseteq Frames
      BY DEF Behind
    <3> QED
      BY <3>1, <1>0, FewFrames
  <2>2. B1 \subseteq B \union C
    <3> SUFFICES ASSUME NEW f \in Frames, lo <= off[f], off[f + 1] <= hi, ~(off[f + 1] <= a)
                 PROVE  f \in C
      BY DEF Behind
    <3>1. off[f + 1] \in Nat
      BY <1>0, <1>2, Offsets
    <3>2. arrived < off[f + 1] /\ off[f + 1] <= arrived + n
      BY <3>1, <1>3
    <3> QED
      BY <3>2, <1>2
  <2>3. B2 \subseteq B1 /\ (B1 # {} => \E f \in B1 : f \notin B2)
    <3>1. hi <= Len(wire) /\ Progress(off, lo, delivered)
      BY <1>2, <1>3
    <3> QED
      BY <3>1, <2>0, <1>0, <1>2, <1>4, ReadTakesOne
  <2>4. Behind(off, gone, arrived)' = B2
    <3>1. Frames' = Frames /\ gone' = k /\ arrived' = hi
      BY <1>3, <1>5 DEF Frames
    <3> QED
      BY <3>1 DEF Behind
  <2>5. Cardinality(B) <= extra
    BY <2>0, <1>2, <1>3
  <2>6. Cardinality(Behind(off, gone, arrived))' = Cardinality(B2)
    BY <2>4
  <2> HIDE DEF B, B1, B2
  <2>7. /\ Cardinality(B) \in Nat /\ Cardinality(C) \in Nat
        /\ \/ Cardinality(B2) = 0
           \/ 0 < Cardinality(B) + Cardinality(C) /\ Cardinality(B2) <= Cardinality(B) + Cardinality(C) - 1
    BY <2>1, <2>2, <2>3, CountLeft
  <2>11. Cardinality(B2) \in Nat
    <3>1. B2 \subseteq Frames
      BY DEF Behind, B2
    <3> QED
      BY <3>1, <1>0, FewFrames
  <2>8. PICK b \in Nat, s \in Nat, t \in Nat :
            b = Cardinality(B) /\ s = Cardinality(C) /\ t = Cardinality(B2)
    BY <2>7, <2>11
  <2>9. /\ t = 0 \/ (0 < b + s /\ t <= b + s - 1)
        /\ b <= extra
        /\ extra' = IF extra + s = 0 THEN 0 ELSE extra + s - 1
    BY <2>5, <2>7, <2>8
  <2>10. t <= extra'
    BY <2>9, <1>0, <1>8
  <2> QED
    BY <2>6, <2>8, <2>10
<1> QED
  BY <1>6, <1>7, <1>8, <1>9 DEF FrameInv

(* The invariant is inductive.                                              *)
LEMMA NextFrames == FrameInv /\ [Next]_vars => FrameInv'
<1> SUFFICES ASSUME FrameInv, [Next]_vars PROVE FrameInv'
  OBVIOUS
<1>0. Inv /\ Streams
  BY DEF FrameInv, Inv
<1>1. Inv'
  BY <1>0, NextInv
<1>2. /\ gone \in Nat /\ arrived \in Nat /\ Len(wire) \in Nat /\ gone <= arrived
      /\ arrived <= Len(wire) /\ Holds(input, wire, gone, arrived)
  BY <1>0, GoneHolds
<1>3. ASSUME NEW k \in Kinds, Send(k) PROVE FrameInv'
  BY <1>3, SendFrames
<1>4. ASSUME NEW n \in 1..(Len(wire) - arrived)
      PROVE  /\ Completed(n) \subseteq Frames
             /\ \A off : Laid(off) => \A f \in Frames :
                    f \in Completed(n) <=> (arrived < off[f + 1] /\ off[f + 1] <= arrived + n)
             /\ Piece(Arriving(n), wire, arrived, n)
             /\ n \in Nat /\ arrived + n <= Len(wire)
  <2>1. Completed(n) \subseteq Frames
    BY DEF Completed
  <2>2. \A off : Laid(off) => \A f \in Frames :
            f \in Completed(n) <=> (arrived < off[f + 1] /\ off[f + 1] <= arrived + n)
    BY <1>0, CompletedBy
  <2> QED
    BY <2>1, <2>2, <1>0, ArrivingPiece
<1>5. ASSUME NEW n \in 1..(Len(wire) - arrived), connection_handler_read(n) PROVE FrameInv'
  <2> DEFINE c == buffer_read_fd(input, Arriving(n))
             C == Completed(n)
  <2>1. Holds(c, wire, gone, arrived + n)
    BY <1>2, <1>4, ReadHolds
  <2>2. /\ on_message(c) /\ arrived' = arrived + n /\ wire' = wire /\ sent' = sent
        /\ extra' = IF extra + Cardinality(C) = 0 THEN 0 ELSE extra + Cardinality(C) - 1
    BY <1>5 DEF connection_handler_read, Received, LessOne
  <2> HIDE DEF c, C
  <2>3. /\ C \subseteq Frames
        /\ \A off : Laid(off) => \A f \in Frames :
               f \in C <=> (arrived < off[f + 1] /\ off[f + 1] <= arrived + n)
        /\ n \in Nat /\ arrived + n <= Len(wire)
    BY <1>4 DEF C
  <2> QED
    BY <2>1, <2>2, <2>3, <1>1, ReadFrames
<1>6. ASSUME NEW n \in 1..(Len(wire) - arrived), ssl_handler_read(n) PROVE FrameInv'
  <2> DEFINE c == SslStored(input, Arriving(n))
             C == Completed(n)
  <2>1. /\ on_message(c) /\ arrived' = arrived + n /\ wire' = wire /\ sent' = sent
        /\ extra' = IF extra + Cardinality(C) = 0 THEN 0 ELSE extra + Cardinality(C) - 1
        /\ n <= writable_bytes(input)
    BY <1>6 DEF ssl_handler_read, Received, LessOne
  <2>2. Holds(c, wire, gone, arrived + n)
    BY <2>1, <1>2, <1>4, SslReadHolds
  <2> HIDE DEF c, C
  <2>3. /\ C \subseteq Frames
        /\ \A off : Laid(off) => \A f \in Frames :
               f \in C <=> (arrived < off[f + 1] /\ off[f + 1] <= arrived + n)
        /\ n \in Nat /\ arrived + n <= Len(wire)
    BY <1>4 DEF C
  <2> QED
    BY <2>1, <2>2, <2>3, <1>1, ReadFrames
<1>7. CASE ReadFails
  <2>1. /\ on_message(input) /\ arrived' = arrived /\ wire' = wire /\ sent' = sent
        /\ extra' = IF extra + Cardinality({}) = 0 THEN 0 ELSE extra + Cardinality({}) - 1
    BY <1>7 DEF ReadFails, LessOne
  <2>2. PICK C : C = {}
    OBVIOUS
  <2>3. ASSUME NEW off, Laid(off), NEW f \in Frames
        PROVE  f \in C <=> (arrived < off[f + 1] /\ off[f + 1] <= arrived + 0)
    <3>1. off[f + 1] \in Nat
      BY <2>3, <1>0, Offsets
    <3> QED
      BY <3>1, <2>2, <1>2
  <2>5. /\ arrived' = arrived + 0 /\ arrived + 0 <= Len(wire) /\ C \subseteq Frames /\ 0 \in Nat
        /\ Holds(input, wire, gone, arrived + 0)
        /\ extra' = IF extra + Cardinality(C) = 0 THEN 0 ELSE extra + Cardinality(C) - 1
    <3>1. arrived + 0 = arrived
      BY <1>2
    <3> QED
      BY <3>1, <2>1, <2>2, <1>2
  <2> QED
    BY <2>1, <2>3, <2>5, <1>1, ReadFrames
<1>8. CASE UNCHANGED vars
  <2>1. /\ sent' = sent /\ wire' = wire /\ arrived' = arrived /\ input' = input
        /\ delivered' = delivered /\ extra' = extra /\ aborted' = aborted
    BY <1>8 DEF vars
  <2>2. PICK off : /\ Laid(off) /\ Progress(off, gone, delivered)
                   /\ AllGood(Len(sent)) => Cardinality(Behind(off, gone, arrived)) <= extra
    BY DEF FrameInv
  <2>3. gone' = gone /\ Frames' = Frames
    BY <2>1 DEF gone, Frames
  <2>4. Laid(off)'
    BY <2>1, <2>2 DEF Laid, Frames
  <2>h. \A x : /\ First(x)' = First(x)
               /\ IsHead(x)' = IsHead(x) /\ HeadAt(x)' = HeadAt(x) /\ AllGood(x)' = AllGood(x)
    BY <2>1 DEF First, IsHead, HeadAt, AllGood, Good
  <2>5. Progress(off, gone, delivered)'
    <3>1. \A x : Handable(off, x)' = Handable(off, x) /\ Pos(off, x)' = Pos(off, x)
      BY <2>1, <2>3, <2>h DEF Handable, Pos, Sound, Small, Fits
    <3> QED
      BY <3>1, <2>1, <2>2, <2>3, <2>h DEF Progress, Among
  <2>6. Behind(off, gone, arrived)' = Behind(off, gone, arrived)
    BY <2>1, <2>3 DEF Behind
  <2>7. AllGood(Len(sent))' => Cardinality(Behind(off, gone, arrived))' <= extra'
    BY <2>1, <2>2, <2>6, <2>h
  <2>8. extra' \in Nat
    BY <2>1 DEF FrameInv
  <2>9. aborted' => Misfit(gone)'
    <3>1. aborted => Misfit(gone)
      BY DEF FrameInv
    <3>2. Misfit(gone)' = Misfit(gone)
      BY <2>1, <2>3, <2>h DEF Misfit, Fits
    <3> QED
      BY <3>1, <3>2, <2>1
  <2> QED
    BY <2>4, <2>5, <2>7, <2>8, <2>9, <1>1 DEF FrameInv
<1> QED
  BY <1>3, <1>5, <1>6, <1>7, <1>8 DEF Next

(* The invariant holds throughout.                                          *)
LEMMA SpecFrames == Spec => []FrameInv
<1> QED
  BY InitFrames, NextFrames, PTL DEF Spec

(* What is said of offsets, said of bytes.                                  *)
LEMMA FramesByBytes == FrameInv => FramesExact
<1> SUFFICES ASSUME FrameInv PROVE FramesExact
  OBVIOUS
<1>0. Inv /\ Streams
  BY DEF FrameInv, Inv
<1>1. gone \in Nat /\ Len(wire) \in Nat /\ gone <= Len(wire)
  BY <1>0, GoneHolds
<1>2. PICK off : Laid(off) /\ Progress(off, gone, delivered)
  BY DEF FrameInv
<1>3. /\ Len(delivered) \in Nat
      /\ \A i \in 1..Len(delivered) : Handable(off, delivered[i])
      /\ \A i, j \in 1..Len(delivered) : i < j => Pos(off, delivered[i]) < Pos(off, delivered[j])
  BY <1>2 DEF Progress
<1>4. ASSUME NEW f \in Frames, off[f + 1] <= gone PROVE Gone(f)
  <2> SUFFICES ASSUME NEW i \in (gone + 1)..Len(wire) PROVE wire[i].frame # f
    BY DEF Gone
  <2>1. off[f + 1] \in Nat
    BY <1>0, <1>2, Offsets
  <2>2. i \in 1..Len(wire) /\ ~(i <= off[f + 1])
    BY <2>1, <1>1, <1>4
  <2> QED
    BY <2>2, <1>0, <1>2, Place
<1>5. ASSUME NEW f \in Frames, gone <= off[f] PROVE Untouched(f)
  <2> SUFFICES ASSUME NEW i \in 1..gone PROVE wire[i].frame # f
    BY DEF Untouched
  <2>1. off[f] \in Nat
    BY <1>0, <1>2, Offsets
  <2>2. i \in 1..Len(wire) /\ ~(off[f] < i)
    BY <2>1, <1>1, <1>5
  <2> QED
    BY <2>2, <1>0, <1>2, Place
<1>6. ASSUME NEW f \in Frames, \A e \in 1..f : Good(e)
      PROVE  /\ IF Delivered(f) THEN Gone(f) ELSE Untouched(f)
             /\ \A i \in 1..Len(delivered) : delivered[i].frame = f => delivered[i].at = 0
  <2>1. AllGood(f) /\ (Delivered(f) <=> Among(f, delivered))
    BY <1>6 DEF AllGood, Delivered, Among
  <2>2. IF Among(f, delivered) THEN off[f + 1] <= gone ELSE gone <= off[f]
    BY <2>1, <1>2 DEF Progress
  <2>3. \A i \in 1..Len(delivered) : delivered[i].frame = f => delivered[i].at = 0
    BY <2>1, <1>3 DEF Handable
  <2> QED
    BY <2>1, <2>2, <2>3, <1>4, <1>5
<1>7. ASSUME NEW x, NEW y, Handable(off, x), Handable(off, y), Pos(off, x) < Pos(off, y)
      PROVE  Earlier(x, y)
  <2>1. /\ x.frame \in Frames /\ x.at \in 0..(FrameLen(sent[x.frame]) - 1)
        /\ y.frame \in Frames /\ y.at \in 0..(FrameLen(sent[y.frame]) - 1)
    BY <1>7 DEF Handable, Sound
  <2> DEFINE e == x.frame
             f == y.frame
             m == FrameLen(sent[e])
             n == FrameLen(sent[f])
             p == x.at
             q == y.at
  <2>2. /\ off[e] \in Nat /\ off[f] \in Nat /\ e \in Nat /\ f \in Nat /\ m \in Nat /\ n \in Nat
        /\ off[f + 1] = off[f] + n /\ (f < e => off[f + 1] <= off[e])
    BY <2>1, <1>0, <1>2, Offsets, Ordered, FrameSize
  <2>3. off[e] + p < off[f] + q
    BY <1>7 DEF Pos
  <2>4. p \in 0..(m - 1) /\ q \in 0..(n - 1)
    BY <2>1
  <2> HIDE DEF e, f, m, n, p, q
  <2>5. e < f \/ (e = f /\ p < q)
    BY <2>2, <2>3, <2>4
  <2> QED
    BY <2>5 DEF Earlier, e, f, p, q
<1>8. \A i, j \in 1..Len(delivered) : i < j => Earlier(delivered[i], delivered[j])
  BY <1>3, <1>7
<1>9. \A i \in 1..Len(delivered) : Sound(delivered[i])
  BY <1>3 DEF Handable
<1> QED
  BY <1>6, <1>8, <1>9 DEF FramesExact

(* A frame that is in the buffer as a whole is counted.                     *)
LEMMA BehindByBytes == FrameInv => LeftBehind
<1> SUFFICES ASSUME FrameInv, \A f \in Frames : Good(f)
             PROVE  Cardinality({f \in Frames : InBuffer(f)}) <= extra
  BY DEF LeftBehind
<1>g. AllGood(Len(sent))
  BY DEF AllGood, Frames
<1>0. Inv /\ Streams /\ extra \in Nat
  BY DEF FrameInv, Inv
<1>1. /\ gone \in Nat /\ arrived \in Nat /\ Len(wire) \in Nat
      /\ gone <= arrived /\ arrived <= Len(wire)
  BY <1>0, GoneHolds
<1>2. PICK off : Laid(off) /\ Cardinality(Behind(off, gone, arrived)) <= extra
  BY <1>g DEF FrameInv
<1> DEFINE T == {f \in Frames : InBuffer(f)}
<1>3. ASSUME NEW f \in Frames, InBuffer(f) PROVE gone <= off[f] /\ off[f + 1] <= arrived
  <2>1. /\ off[f] \in Nat /\ off[f + 1] \in Nat /\ off[f] < off[f + 1]
        /\ off[f + 1] <= Len(wire) /\ H \in Nat
    BY <1>0, <1>2, Offsets, FrameSize
  <2>2. /\ \A i \in 1..gone : wire[i].frame # f
        /\ \A i \in (arrived + 1)..Len(wire) : wire[i].frame # f
    BY <1>3 DEF InBuffer, Untouched
  <2>3. off[f] + 1 \in 1..Len(wire) /\ off[f] + 1 <= off[f + 1] /\ off[f] < off[f] + 1
    BY <2>1, <1>1
  <2>4. wire[off[f] + 1].frame = f
    BY <2>3, <1>0, <1>2, Place
  <2>5. off[f + 1] \in 1..Len(wire) /\ off[f] < off[f + 1] /\ off[f + 1] <= off[f + 1]
    BY <2>1, <1>1
  <2>6. wire[off[f + 1]].frame = f
    BY <2>5, <1>0, <1>2, Place
  <2>7. ~(off[f] + 1 \in 1..gone)
    BY <2>2, <2>4
  <2>8. ~(off[f + 1] \in (arrived + 1)..Len(wire))
    BY <2>2, <2>6
  <2> QED
    BY <2>1, <2>7, <2>8, <1>1
<1>4. T \subseteq Behind(off, gone, arrived)
  BY <1>3 DEF Behind
<1>5. IsFiniteSet(Behind(off, gone, arrived)) /\ Cardinality(Behind(off, gone, arrived)) \in Nat
  <2>1. Behind(off, gone, arrived) \subseteq Frames
    BY DEF Behind
  <2> QED
    BY <2>1, <1>0, FewFrames
<1>6. IsFiniteSet(T) /\ Cardinality(T) <= Cardinality(Behind(off, gone, arrived))
  BY <1>4, <1>5, FS_Subset
<1>7. Cardinality(T) \in Nat
  BY <1>6, FS_CardinalityType
<1> HIDE DEF T
<1>8. Cardinality(T) <= extra
  BY <1>0, <1>2, <1>5, <1>6, <1>7
<1> QED
  BY <1>8 DEF T

(* An abort is explained by the byte the buffer begins with.                *)
LEMMA MisfitByBytes == FrameInv => AbortsOnMisfit
<1> SUFFICES ASSUME FrameInv, aborted
             PROVE  /\ ~Fits(HeadAt(Contents(input)[1]))
                    /\ \E e \in 1..(Contents(input)[1].frame) : ~Good(e)
  BY DEF AbortsOnMisfit
<1>0. Inv /\ Streams
  BY DEF FrameInv, Inv
<1>1. gone < arrived /\ ~Fits(HeadAt(First(gone))) /\ ~AllGood(First(gone).frame)
  BY DEF FrameInv, Misfit
<1>2. /\ gone \in Nat /\ arrived \in Nat /\ arrived <= Len(wire)
      /\ Holds(input, wire, gone, arrived)
  BY <1>0, GoneHolds
<1>3. Contents(input)[1] = First(gone)
  BY <1>0, <1>1, <1>2, FirstByte DEF First
<1> QED
  BY <1>1, <1>3 DEF AllGood

(* However reads cut the stream, what the message callback gets comes from  *)
(* sound headers, in the order of the stream, and until the first frame of  *)
(* another sort it is exactly the frames that have left the buffer.         *)
THEOREM FramesCorrect == Spec => []FramesExact
<1> QED
  BY SpecFrames, FramesByBytes, PTL

(* An abort of the server needs a header whose lengths do not agree, behind *)
(* or in a frame that is not one of the messages decode hands out.          *)
THEOREM AbortsExplained == Spec => []AbortsOnMisfit
<1> QED
  BY SpecFrames, MisfitByBytes, PTL

(* A complete frame waits in the input buffer only because a read completed *)
(* more than one: on_message decodes once per call, and each later call     *)
(* takes one of those that wait.                                            *)
THEOREM FewLeftBehind == Spec => []LeftBehind
<1> QED
  BY SpecFrames, BehindByBytes, PTL
=============================================================================
