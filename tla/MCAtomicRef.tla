----------------------------- MODULE MCAtomicRef -----------------------------
(* AtomicRef with three threads and four references.                         *)
EXTENDS AtomicRef, TLC
CONSTANTS t1, t2, t3, r1, r2, r3, r4
MCThreads == {t1, t2, t3}
MCRefs == {r1, r2, r3, r4}
=============================================================================
