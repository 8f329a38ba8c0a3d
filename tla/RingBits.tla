------------------------------ MODULE RingBits ------------------------------
(***************************************************************************)
(* The bit manipulation of gp_ringbuffer.c, operation by operation, against *)
(* the arithmetic that RingSlots states for it.  TLC evaluates the          *)
(* assumption whenever it runs a module that extends this one.              *)
(***************************************************************************)
EXTENDS RingSlots, Bitwise

Counts == 1..40         \* the counts and the positions that are compared
Positions == 0..70

Smear(x, n) == x | shiftR(x, n)

gp_align32pow2(x) == Smear(Smear(Smear(Smear(Smear(x - 1, 1), 2), 4), 8), 16)

(* idx = head & q->mask, mask = size - 1                                    *)
Index(q, p) == p & (q - 1)

(* The five shifts turn count + 1 into the least all-ones number not below   *)
(* count (gp_align32pow2, as init_gp_ring calls it), and the mask computed   *)
(* from that selects exactly the bits RingSlots says.                       *)
ASSUME BitsAgree ==
    \A count \in Counts :
        LET size == gp_align32pow2(count + 1)
        IN  /\ size = SizeFor(count)
            /\ \A pos \in Positions : Index(size, pos) = Masked(size, pos)
=============================================================================
