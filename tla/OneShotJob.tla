----------------------------- MODULE OneShotJob -----------------------------
(***************************************************************************)
(* What a gp_thread_manager promises its users, without threads, mutexes   *)
(* or condition variables.                                                 *)
(*                                                                         *)
(* A manager owns one function.  `run' asks for it to be executed, `wait', *)
(* `finish' and `destroy' close the manager.  The function is executed at  *)
(* most once and only if it was asked for; it is skipped only if the       *)
(* manager is closed at a moment when nobody has asked; and a closing call *)
(* returns (`joined') only when the function will never execute a step     *)
(* again.  A manager whose thread could not be created ("none") executes   *)
(* nothing, whatever is asked of it, and its closing calls may return      *)
(* without closing anything.                                               *)
(***************************************************************************)

VARIABLES
    phase,      \* "raw", "none" (no thread), "pending", "running", "returned", "skipped"
    requested,  \* some `run' took effect
    closed,     \* some `wait'/`finish' took effect
    joined      \* some `wait'/`finish' returned

vars == <<phase, requested, closed, joined>>

Init ==
    /\ phase = "raw"
    /\ requested = FALSE
    /\ closed = FALSE
    /\ joined = FALSE

Create ==
    /\ phase = "raw"
    /\ phase' \in {"none", "pending"}
    /\ UNCHANGED <<requested, closed, joined>>

Request ==
    /\ phase # "raw"
    /\ requested' = TRUE
    /\ UNCHANGED <<phase, closed, joined>>

Close ==
    /\ phase # "raw"
    /\ closed' = TRUE
    /\ UNCHANGED <<phase, requested, joined>>

Begin ==
    /\ phase = "pending"
    /\ requested
    /\ phase' = "running"
    /\ UNCHANGED <<requested, closed, joined>>

End ==
    /\ phase = "running"
    /\ phase' = "returned"
    /\ UNCHANGED <<requested, closed, joined>>

Skip ==
    /\ phase = "pending"
    /\ closed
    /\ ~requested
    /\ phase' = "skipped"
    /\ UNCHANGED <<requested, closed, joined>>

Over == phase \in {"none", "returned", "skipped"}

Join ==
    /\ Over
    /\ closed \/ phase = "none"
    /\ joined' = TRUE
    /\ UNCHANGED <<phase, requested, closed>>

Next == Create \/ Request \/ Close \/ Begin \/ End \/ Skip \/ Join

(***************************************************************************)
(* The function is started once it was asked for, and a function that was  *)
(* started ends: the manager adds no delay of its own.                     *)
(***************************************************************************)
Fairness == WF_vars(Begin) /\ WF_vars(End) /\ WF_vars(Skip)

SafeSpec == Init /\ [][Next]_vars
Spec == SafeSpec /\ Fairness
=============================================================================
