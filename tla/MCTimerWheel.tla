---------------------------- MODULE MCTimerWheel ----------------------------
(* TimerWheel with up to three timers.                                     *)
EXTENDS TimerWheel, TLC
CONSTANTS t1, t2, t3
MCTimers == {t1, t2, t3}
Symmetry == Permutations(MCTimers)
=============================================================================
