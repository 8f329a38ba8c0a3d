--------------------------- MODULE ThreadManager ---------------------------
(***************************************************************************)
(* base/gp_thread.c: one gp_thread_manager, the thread it creates and the  *)
(* threads that call its operations.                                       *)
(*                                                                         *)
(* Every access to start, stop and done is made under gp_tmr->mtx, so what *)
(* a thread does between two lock operations is one step; acquiring the    *)
(* mutex, going to sleep on the condition variable, being woken and        *)
(* reacquiring are steps of their own.  pc[t] = "waiting" says that t is   *)
(* asleep in pthread_cond_wait; a broadcast moves every sleeper to         *)
(* "relock".                                                               *)
(***************************************************************************)
EXTENDS Naturals

CONSTANTS
    Callers,        \* threads that call run, wait, finish, destroy
    Worker,         \* the thread gp_thread_main runs on
    None,           \* nobody holds the mutex
    MaxCalls        \* bound: calls made over the manager's life

ASSUME WorkerAssumption == Worker \notin Callers /\ None \notin Callers \union {Worker}
ASSUME BoundAssumption == MaxCalls \in Nat

Threads == Callers \union {Worker}
Ops == {"run", "wait", "finish", "destroy"}
Closing == {"wait", "finish", "destroy"}

VARIABLES
    mtx,        \* holder of gp_tmr->mtx, or None
    start, stop, done, init,    \* the manager's int flags
    syncLive,   \* mtx and cv are initialised and not destroyed
    freed,      \* the manager's memory was freed
    pc,         \* where each thread is
    op,         \* the operation a caller is in
    wstart,     \* gp_tmr_wrap's local `start'
    fn,         \* history: what became of the function
    fnGiven,    \* history: fn # NULL was passed
    runFirst,   \* history: a run took effect before any closing call did
    joined,     \* history: a closing call returned
    calls       \* number of calls made so far

vars == <<mtx, start, stop, done, init, syncLive, freed, pc, op, wstart,
          fn, fnGiven, runFirst, joined, calls>>

flags == <<start, stop, done, init>>
life == <<syncLive, freed>>
history == <<fn, fnGiven, runFirst, joined>>

----------------------------------------------------------------------------
(* malloc leaves the manager's fields as they were: `init' is any value.    *)
Init ==
    /\ mtx = None
    /\ start = FALSE /\ stop = FALSE /\ done = FALSE
    /\ init \in BOOLEAN
    /\ syncLive = FALSE /\ freed = FALSE
    /\ pc = [t \in Threads |-> IF t = Worker THEN "unborn" ELSE "idle"]
    /\ op = [c \in Callers |-> "run"]
    /\ wstart = FALSE
    /\ fn = "raw" /\ fnGiven = FALSE /\ runFirst = FALSE /\ joined = FALSE
    /\ calls = 0

(* init_gp_thr_manager, by outcome: no function, pthread_create failed (the *)
(* mutex and cv are destroyed again and `init' is never assigned), success. *)
InitNoFunction ==
    /\ fn = "raw"
    /\ init' = TRUE /\ done' = TRUE
    /\ syncLive' = TRUE
    /\ fn' = "none" /\ fnGiven' = FALSE
    /\ UNCHANGED <<mtx, start, stop, freed, pc, op, wstart, runFirst, joined, calls>>

InitThreadFails ==
    /\ fn = "raw"
    /\ done' = TRUE
    /\ syncLive' = FALSE
    /\ fn' = "none" /\ fnGiven' = TRUE
    /\ UNCHANGED <<mtx, start, stop, init, freed, pc, op, wstart, runFirst, joined, calls>>

InitSucceeds ==
    /\ fn = "raw"
    /\ init' = TRUE
    /\ syncLive' = TRUE
    /\ pc' = [pc EXCEPT ![Worker] = "lock"]
    /\ fn' = "pending" /\ fnGiven' = TRUE
    /\ UNCHANGED <<mtx, start, stop, done, freed, op, wstart, runFirst, joined, calls>>

----------------------------------------------------------------------------
(* The contract of the callers: no call before creation or after free, no   *)
(* run after finish destroyed the mutex, and finish and destroy are called  *)
(* by a thread that knows the other calls have returned.  Nobody looks at   *)
(* init_gp_thr_manager's result (create_gp_thr_manager does not pass it on, *)
(* init_task_processor drops it), so a failed creation forbids nothing.     *)
CreationFailed == fn = "none" /\ fnGiven

MayCall(c, o) ==
    /\ fn # "raw" /\ ~freed
    /\ o = "run" => syncLive \/ CreationFailed
    /\ \A d \in Callers \ {c} :
          pc[d] # "idle" => o \in {"run", "wait"} /\ op[d] \in {"run", "wait"}

(* The test of `init' that wait and finish make before they touch the mutex *)
Enter(c, o) ==
    /\ pc[c] = "idle" /\ calls < MaxCalls
    /\ MayCall(c, o)
    /\ calls' = calls + 1
    /\ o = "run" \/ init
    /\ pc' = [pc EXCEPT ![c] = "lock"]
    /\ op' = [op EXCEPT ![c] = o]
    /\ UNCHANGED <<mtx, wstart, flags, life, history>>

EarlyReturn(c, o) ==
    /\ pc[c] = "idle" /\ calls < MaxCalls
    /\ MayCall(c, o)
    /\ calls' = calls + 1
    /\ o \in Closing /\ ~init
    /\ joined' = TRUE
    /\ freed' = (o = "destroy")
    /\ UNCHANGED <<mtx, pc, op, wstart, flags, syncLive, fn, fnGiven, runFirst>>

----------------------------------------------------------------------------
BroadcastLost(p) == p   \* mutant: nobody is woken

(* gp_cv_wake: everybody asleep on the cv goes for the mutex again.          *)
Broadcast(p) == [t \in Threads |-> IF p[t] = "waiting" THEN "relock" ELSE p[t]]

(* Where a thread continues once gp_mtx_lock or gp_cv_wait's reacquisition  *)
(* succeeds.                                                                *)
AfterLock(t) ==
    IF t = Worker
    THEN IF pc[t] = "lock2" THEN "finish" ELSE "test"
    ELSE IF pc[t] = "lock" THEN "body" ELSE "check"

(* A destroyed mutex is not acquired: pthread_mutex_lock reports EINVAL,    *)
(* which gp_mtx_lock prints, and the caller goes on without the exclusion.  *)
Lock(t) ==
    /\ pc[t] \in {"lock", "relock", "lock2"}
    /\ syncLive => mtx = None
    /\ mtx' = IF syncLive THEN t ELSE mtx
    /\ pc' = [pc EXCEPT ![t] = AfterLock(t)]
    /\ UNCHANGED <<flags, life, op, wstart, history, calls>>

(* pthread_cond_wait may return without a signal.                           *)
SpuriousWakeup(t) ==
    /\ pc[t] = "waiting"
    /\ pc' = [pc EXCEPT ![t] = "relock"]
    /\ UNCHANGED <<mtx, flags, life, op, wstart, history, calls>>

----------------------------------------------------------------------------
(* gp_thr_manager_run                                                       *)
RunBody(c) ==
    /\ pc[c] = "body" /\ op[c] = "run"
    /\ start' = TRUE
    /\ runFirst' = (runFirst \/ (~stop /\ ~joined))
    /\ mtx' = None
    /\ pc' = [Broadcast(pc) EXCEPT ![c] = "idle"]
    /\ UNCHANGED <<stop, done, init, life, op, wstart, fn, fnGiven, joined, calls>>

(* gp_thr_manager_wait and _finish: stop, wake, and the loop on done        *)
StopBody(c) ==
    /\ pc[c] = "body" /\ op[c] \in Closing
    /\ stop' = TRUE
    /\ pc' = [Broadcast(pc) EXCEPT ![c] = "check"]
    /\ UNCHANGED <<mtx, start, done, init, life, op, wstart, history, calls>>

Sleep(c) ==
    /\ pc[c] = "check" /\ ~done
    /\ mtx' = None
    /\ pc' = [pc EXCEPT ![c] = "waiting"]
    /\ UNCHANGED <<flags, life, op, wstart, history, calls>>

CheckOnce(c) ==      \* mutant: `if' for `while', the caller does not look again
    /\ pc[c] = "check"
    /\ mtx' = None
    /\ pc' = [pc EXCEPT ![c] = IF op[c] = "wait" THEN "idle" ELSE "destroy"]
    /\ joined' = TRUE
    /\ UNCHANGED <<flags, life, op, wstart, fn, fnGiven, runFirst, calls>>

Joined(c) ==
    /\ pc[c] = "check" /\ done
    /\ mtx' = None
    /\ pc' = [pc EXCEPT ![c] = IF op[c] = "wait" THEN "idle" ELSE "destroy"]
    /\ joined' = TRUE
    /\ UNCHANGED <<flags, life, op, wstart, fn, fnGiven, runFirst, calls>>

(* finish destroys the cv and the mutex; destroy also frees the manager     *)
DestroySync(c) ==
    /\ pc[c] = "destroy"
    /\ syncLive' = FALSE
    /\ init' = FALSE
    /\ freed' = (op[c] = "destroy")
    /\ pc' = [pc EXCEPT ![c] = "idle"]
    /\ UNCHANGED <<mtx, start, stop, done, op, wstart, history, calls>>

----------------------------------------------------------------------------
(* gp_tmr_wrap, on the manager's own thread                                 *)
WrapSleep ==
    /\ pc[Worker] = "test"
    /\ ~start /\ ~stop
    /\ wstart' = start
    /\ mtx' = None
    /\ pc' = [pc EXCEPT ![Worker] = "waiting"]
    /\ UNCHANGED <<flags, life, op, history, calls>>

WrapProceedOnStop ==   \* mutant: stop is tested before start
    /\ pc[Worker] = "test"
    /\ start \/ stop
    /\ wstart' = (start /\ ~stop)
    /\ fn' = IF start /\ ~stop THEN fn ELSE "skipped"
    /\ mtx' = None
    /\ pc' = [pc EXCEPT ![Worker] = "branch"]
    /\ UNCHANGED <<flags, life, op, fnGiven, runFirst, joined, calls>>

WrapProceed ==
    /\ pc[Worker] = "test"
    /\ start \/ stop
    /\ wstart' = start
    /\ fn' = IF start THEN fn ELSE "skipped"
    /\ mtx' = None
    /\ pc' = [pc EXCEPT ![Worker] = "branch"]
    /\ UNCHANGED <<flags, life, op, fnGiven, runFirst, joined, calls>>

WrapBranchAlways ==   \* mutant: the function runs whatever `start' was
    /\ pc[Worker] = "branch"
    /\ pc' = [pc EXCEPT ![Worker] = "fn"]
    /\ fn' = "running"
    /\ UNCHANGED <<mtx, flags, life, op, wstart, fnGiven, runFirst, joined, calls>>

WrapBranch ==
    /\ pc[Worker] = "branch"
    /\ pc' = [pc EXCEPT ![Worker] = IF wstart THEN "fn" ELSE "lock2"]
    /\ fn' = IF wstart THEN "running" ELSE fn
    /\ UNCHANGED <<mtx, flags, life, op, wstart, fnGiven, runFirst, joined, calls>>

FnReturns ==
    /\ pc[Worker] = "fn"
    /\ pc' = [pc EXCEPT ![Worker] = "lock2"]
    /\ fn' = "returned"
    /\ UNCHANGED <<mtx, flags, life, op, wstart, fnGiven, runFirst, joined, calls>>

WrapDone ==
    /\ pc[Worker] = "finish"
    /\ done' = TRUE
    /\ mtx' = None
    /\ pc' = [Broadcast(pc) EXCEPT ![Worker] = "exit"]
    /\ UNCHANGED <<start, stop, init, life, op, wstart, history, calls>>

----------------------------------------------------------------------------
WorkerStep == WrapSleep \/ WrapProceed \/ WrapBranch \/ FnReturns \/ WrapDone

CallerStep(c) == RunBody(c) \/ StopBody(c) \/ Sleep(c) \/ Joined(c) \/ DestroySync(c)

(* Nothing is left to do: the manager is destroyed, or was never usable, or *)
(* its users stopped calling it.                                            *)
Quiescent ==
    /\ \A c \in Callers : pc[c] = "idle"
    /\ pc[Worker] \in {"unborn", "exit", "waiting"}
    /\ UNCHANGED vars

Next ==
    \/ InitNoFunction \/ InitThreadFails \/ InitSucceeds
    \/ \E c \in Callers, o \in Ops : Enter(c, o) \/ EarlyReturn(c, o)
    \/ \E t \in Threads : Lock(t) \/ SpuriousWakeup(t)
    \/ WorkerStep
    \/ \E c \in Callers : CallerStep(c)
    \/ Quiescent

(***************************************************************************)
(* The scheduler runs every thread that can run, the function given to the *)
(* manager returns, and a thread that asks for the mutex again and again   *)
(* gets it.  Nobody is obliged to call anything, and no spurious wakeup    *)
(* ever has to happen.                                                     *)
(***************************************************************************)
Fairness ==
    /\ WF_vars(WorkerStep)
    /\ \A c \in Callers : WF_vars(CallerStep(c))
    /\ \A t \in Threads : SF_vars(Lock(t))

SafeSpec == Init /\ [][Next]_vars
Spec == SafeSpec /\ Fairness

----------------------------------------------------------------------------
CallerPlaces == {"idle", "lock", "body", "check", "waiting", "relock", "destroy"}
WorkerPlaces == {"unborn", "lock", "test", "waiting", "relock", "branch",
                 "fn", "lock2", "finish", "exit"}

(* Types of the manager's fields and of the threads' positions.             *)
TypeOK ==
    /\ mtx \in Threads \union {None}
    /\ start \in BOOLEAN /\ stop \in BOOLEAN /\ done \in BOOLEAN /\ init \in BOOLEAN
    /\ syncLive \in BOOLEAN /\ freed \in BOOLEAN
    /\ pc \in [Threads -> CallerPlaces \union WorkerPlaces]
    /\ pc[Worker] \in WorkerPlaces
    /\ \A c \in Callers : pc[c] \in CallerPlaces
    /\ op \in [Callers -> Ops]
    /\ wstart \in BOOLEAN
    /\ fn \in {"raw", "none", "pending", "running", "returned", "skipped"}
    /\ fnGiven \in BOOLEAN /\ runFirst \in BOOLEAN /\ joined \in BOOLEAN
    /\ calls \in 0..MaxCalls

(* When wait, finish or destroy has returned, the function is not running   *)
(* and never will; and if the manager has a thread and a run took effect    *)
(* before anybody closed the manager, the function has run to its end       *)
(* (gp_thr_manager_wait 84-98, gp_tmr_wrap's local copy of `start',         *)
(* test_thread.c's run/wait/destroy).  If the thread could not be created   *)
(* (67-72) the function never runs, and nothing tells the caller.           *)
JoinComplete ==
    joined =>
        /\ fn \in {"none", "returned", "skipped"}
        /\ runFirst /\ fn # "none" => fn = "returned"

UsesSync(t) ==
    pc[t] \in {"lock", "lock2", "relock", "waiting", "body", "check", "test",
               "finish", "destroy"}

(* No thread is at, in or on its way to the mutex or the condition variable *)
(* once finish has destroyed them, and the manager's own thread and its     *)
(* callers have made their last access when the memory is freed             *)
(* (gp_thr_manager_finish 123-127, destroy_gp_thr_manager).  When creation  *)
(* failed the calls do reach the destroyed mutex, but none of them sleeps   *)
(* on the condition variable, whose mutex pointer is NULL by then.          *)
NoUseAfterDestroy ==
    /\ ~syncLive => \A t \in Threads : IF CreationFailed
                                       THEN pc[t] \notin {"waiting", "relock"}
                                       ELSE ~UsesSync(t)
    /\ freed => /\ pc[Worker] \in {"unborn", "exit"}
                /\ \A c \in Callers : pc[c] = "idle"

(* Every wait, finish and destroy returns, provided the function does: the  *)
(* broadcast of gp_tmr_wrap is never missed (94-96, 120-122).               *)
CallsReturn == \A c \in Callers : pc[c] # "idle" ~> pc[c] = "idle"

(* The manager implements the one-shot job its users see.                   *)
Job == INSTANCE OneShotJob
           WITH phase <- fn, requested <- start, closed <- stop, joined <- joined
ImplementsJob == Job!Spec
=============================================================================
