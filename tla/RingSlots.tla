------------------------------ MODULE RingSlots ------------------------------
(***************************************************************************)
(* Which slot of msgs a position of the ring of gp_ringbuffer.c falls on.  *)
(***************************************************************************)
EXTENDS Integers

(* gp_align32pow2(count + 1): decrement, then smear the highest bit down.   *)
(* The result is the least 2^k - 1 that is at least count (k >= 1): the     *)
(* final increment of the usual round-up is not there.                      *)
AllOnes == {2^k - 1 : k \in 1..30}
SizeFor(count) ==
    CHOOSE s \in AllOnes : s >= count /\ \A r \in AllOnes : r >= count => s <= r

(* pos & mask with mask = size - 1 = 2^k - 2: keeps the bits 1 .. k-1.       *)
Masked(size, pos) == IF size = 1 THEN 0 ELSE (pos % (size + 1)) - (pos % 2)

(* The slot of the i-th object of a batch that starts at pos: both copy     *)
(* branches (contiguous, and wrapping to slot 0 at `size').                 *)
SlotOf(size, pos, i) ==
    LET idx == Masked(size, pos) + i
    IN  IF idx < size THEN idx ELSE idx - size
=============================================================================
