-------------------------------- MODULE MCRing --------------------------------
(* Ring with two producers and up to two consumers.                          *)
EXTENDS Ring, RingBits, TLC
CONSTANTS p1, p2, c1, c2
MCProducers == {p1, p2}
MCConsumers == {c1, c2}
Symmetry == Permutations(MCProducers) \union Permutations(MCConsumers)
=============================================================================
