------------------------------ MODULE MCReactor ------------------------------
(* Reactor with one or two descriptors for connections.                      *)
EXTENDS Reactor
CONSTANTS f1, f2
MCFds == {f1, f2}
Symmetry == Permutations(MCFds)
=============================================================================
