--------------------------- MODULE MCTaskProcessor ---------------------------
(* TaskProcessor with two workers and two clients and two tasks, one of      *)
(* which may be run twice.                                                   *)
EXTENDS TaskProcessor, TLC
CONSTANTS w1, w2, c1, c2, t1, t2
MCWorkers == {w1, w2}
MCClients == {c1, c2}
MCTasks == {t1, t2}
(* All threads, one or none; the other one alone is the same pool.           *)
MCTeams == {{}, {w1}, {w1, w2}}
(* Bound: run_task calls per task. *)
MCMaxRuns == (t1 :> 2 @@ t2 :> 1)
=============================================================================
