--------------------------- MODULE MCThreadManager ---------------------------
(* ThreadManager with two calling threads.                                  *)
EXTENDS ThreadManager, TLC
CONSTANTS c1, c2
MCCallers == {c1, c2}
=============================================================================
