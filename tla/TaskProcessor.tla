--------------------------- MODULE TaskProcessor ---------------------------
(***************************************************************************)
(* base/gp_threadpool.c: a gp_task_processor, its worker threads and the   *)
(* threads that create, run, wait for and destroy tasks.                   *)
(*                                                                         *)
(* The worker threads are run by thread managers.  What the pool needs of  *)
(* a manager is what OneShotJob states, which ThreadManager is shown to    *)
(* implement: after gp_tmr_run the function is executed, and gp_tmr_finish *)
(* returns when it has returned.  Of a manager whose thread could not be   *)
(* created both calls return at once, and nothing is executed: the worker  *)
(* stays "unborn".  init_task_processor does not look at the result (63).  *)
(*                                                                         *)
(* tp_mtx is a variable, because a worker can block on a task's mutex      *)
(* while it holds it (line 13).  A critical section on task_mtx has no     *)
(* blocking step inside and is one step of the model; task_mtx only stays  *)
(* locked when wait_task locks it a second time (line 151).                *)
(* task_tmr is assigned and never read; task_cb = NULL makes run_task      *)
(* return at once and changes nothing.                                     *)
(***************************************************************************)
EXTENDS Naturals, Sequences, FiniteSets

CONSTANTS
    Workers, Clients, Owner,    \* threads; Owner creates and destroys the pool
    Tasks,
    None,       \* nobody
    MaxRuns,    \* bound: run_task calls per task
    Waiters,    \* the clients that call wait_task
    Teams       \* the sets of workers whose threads may be all that could be created

Threads == Workers \union Clients \union {Owner}

ASSUME ThreadAssumption ==
    /\ Workers \intersect Clients = {} /\ Owner \notin Workers \union Clients
    /\ None \notin Threads \union Tasks
    /\ IsFiniteSet(Threads) /\ Workers # {}
ASSUME BoundAssumption == MaxRuns \in [Tasks -> Nat] /\ Waiters \subseteq Clients
ASSUME TeamAssumption == Teams \subseteq SUBSET Workers

VARIABLES
    tpMtx,      \* holder of tp_mtx, or None
    tasks,      \* tp_tasks
    tpRun,      \* tp_run
    started,    \* workers whose manager was told to run
    finished,   \* workers whose gp_tmr_finish returned
    taskMtx,    \* per task: who has task_mtx locked for good, or None
    busy,       \* task_busy
    mem,        \* per task: "raw", "live" or "freed"
    creator,    \* per task: the client that created it
    pc, job,    \* per thread: where it is, and with which task
    runs, execs \* history, per task: appended, executed

vars == <<tpMtx, tasks, tpRun, started, finished, taskMtx, busy, mem, creator,
          pc, job, runs, execs>>
pool == <<tpRun, started, finished>>

Queued == {tasks[i] : i \in 1..Len(tasks)}
Goto(t, place) == pc' = [pc EXCEPT ![t] = place]

Init ==
    /\ tpMtx = None /\ tasks = <<>> /\ tpRun = FALSE
    /\ started = {} /\ finished = {}
    /\ taskMtx = [t \in Tasks |-> None]
    /\ busy = [t \in Tasks |-> 0]
    /\ mem = [t \in Tasks |-> "raw"]
    /\ creator = [t \in Tasks |-> None]
    /\ \E born \in Teams :
           pc = [t \in Threads |-> CASE t \in born -> "parked"
                                    [] t \in Workers \ born -> "unborn"
                                    [] t \in Clients -> "idle"
                                    [] t = Owner -> "init"]
    /\ job = [t \in Threads |-> None]
    /\ runs = [t \in Tasks |-> 0]
    /\ execs = [t \in Tasks |-> 0]

----------------------------------------------------------------------------
(* init_task_processor: the managers exist (parked, or unborn), tp_run is   *)
(* set, then each worker is told to run.                                    *)
SetRunLate ==       \* mutant: tp_run is still 0 when the workers start
    /\ pc[Owner] = "init"
    /\ Goto(Owner, "start")
    /\ UNCHANGED <<tpMtx, tasks, pool, taskMtx, busy, mem, creator, job, runs, execs>>

SetRun ==
    /\ pc[Owner] = "init"
    /\ tpRun' = TRUE
    /\ Goto(Owner, "start")
    /\ UNCHANGED <<tpMtx, tasks, started, finished, taskMtx, busy, mem, creator,
                   job, runs, execs>>

StartWorker(w) ==
    /\ pc[Owner] = "start" /\ w \notin started
    /\ started' = started \union {w}
    /\ Goto(Owner, IF started' = Workers THEN "up" ELSE "start")
    /\ UNCHANGED <<tpMtx, tasks, tpRun, finished, taskMtx, busy, mem, creator,
                   job, runs, execs>>

----------------------------------------------------------------------------
(* gp_task_thread                                                           *)
Enter(w) ==
    /\ pc[w] = "parked" /\ w \in started
    /\ Goto(w, "lock")
    /\ UNCHANGED <<tpMtx, tasks, pool, taskMtx, busy, mem, creator, job, runs, execs>>

LockPool(w) ==
    /\ pc[w] = "lock" /\ tpMtx = None
    /\ tpMtx' = w
    /\ Goto(w, "look")
    /\ UNCHANGED <<tasks, pool, taskMtx, busy, mem, creator, job, runs, execs>>

TakeTask(w) ==
    /\ pc[w] = "look" /\ tasks # <<>>
    /\ taskMtx[Head(tasks)] = None
    /\ job' = [job EXCEPT ![w] = Head(tasks)]
    /\ tasks' = Tail(tasks)
    /\ tpMtx' = None
    /\ Goto(w, "exec")
    /\ UNCHANGED <<pool, taskMtx, busy, mem, creator, runs, execs>>

(* task->task_cb(task->task_arg) returns                                    *)
CallbackReturns(w) ==
    /\ pc[w] = "exec"
    /\ execs' = [execs EXCEPT ![job[w]] = @ + 1]
    /\ Goto(w, "count")
    /\ UNCHANGED <<tpMtx, tasks, pool, taskMtx, busy, mem, creator, job, runs>>

(* gp_cv_wake(&task->task_cv): everyone asleep in destroy_task or wait_task  *)
(* for t goes for task_mtx again.                                           *)
WakeTaskWaiters(p, t) ==
    [th \in Threads |->
        IF job[th] = t /\ p[th] = "dsleep" THEN "dlock"
        ELSE IF job[th] = t /\ p[th] = "wsleep" THEN "wlock"
        ELSE p[th]]

CountDownTwice(w) ==     \* mutant: run_task and the worker both take the count back
    /\ pc[w] = "count" /\ taskMtx[job[w]] = None
    /\ busy' = [busy EXCEPT ![job[w]] = @ - 2]
    /\ pc' = [WakeTaskWaiters(pc, job[w]) EXCEPT ![w] = "lock"]
    /\ job' = [job EXCEPT ![w] = None]
    /\ UNCHANGED <<tpMtx, tasks, pool, taskMtx, mem, creator, runs, execs>>

CountDownNoWake(w) ==    \* mutant: the waiters are not woken
    /\ pc[w] = "count" /\ taskMtx[job[w]] = None
    /\ busy' = [busy EXCEPT ![job[w]] = @ - 1]
    /\ Goto(w, "lock")
    /\ job' = [job EXCEPT ![w] = None]
    /\ UNCHANGED <<tpMtx, tasks, pool, taskMtx, mem, creator, runs, execs>>

CountDown(w) ==
    /\ pc[w] = "count" /\ taskMtx[job[w]] = None
    /\ busy' = [busy EXCEPT ![job[w]] = @ - 1]
    /\ pc' = [(IF busy'[job[w]] = 0 THEN WakeTaskWaiters(pc, job[w]) ELSE pc)
                 EXCEPT ![w] = "lock"]
    /\ job' = [job EXCEPT ![w] = None]
    /\ UNCHANGED <<tpMtx, tasks, pool, taskMtx, mem, creator, runs, execs>>

LeaveEager(w) ==         \* mutant: tp_run is looked at before the list
    /\ pc[w] = "look" /\ ~tpRun
    /\ tpMtx' = None
    /\ Goto(w, "exit")
    /\ UNCHANGED <<tasks, pool, taskMtx, busy, mem, creator, job, runs, execs>>

Leave(w) ==
    /\ pc[w] = "look" /\ tasks = <<>> /\ ~tpRun
    /\ tpMtx' = None
    /\ Goto(w, "exit")
    /\ UNCHANGED <<tasks, pool, taskMtx, busy, mem, creator, job, runs, execs>>

SleepWorker(w) ==
    /\ pc[w] = "look" /\ tasks = <<>> /\ tpRun
    /\ tpMtx' = None
    /\ Goto(w, "sleep")
    /\ UNCHANGED <<tasks, pool, taskMtx, busy, mem, creator, job, runs, execs>>

(* pthread_cond_wait may return without a signal.                           *)
SpuriousWakeup(t) ==
    /\ pc[t] \in {"sleep", "dsleep", "wsleep"}
    /\ Goto(t, CASE pc[t] = "sleep" -> "lock"
                 [] pc[t] = "dsleep" -> "dlock"
                 [] pc[t] = "wsleep" -> "wlock")
    /\ UNCHANGED <<tpMtx, tasks, pool, taskMtx, busy, mem, creator, job, runs, execs>>

----------------------------------------------------------------------------
(* create_task, run_task, destroy_task, wait_task.  The contract of a       *)
(* client: it uses its own tasks, runs a task only while it is not on the   *)
(* list (its callback has started, or it was never run), and runs none      *)
(* once the pool is being destroyed.                                        *)
CreateTask(c, t) ==
    /\ pc[c] = "idle" /\ pc[Owner] = "up" /\ mem[t] = "raw"
    /\ mem' = [mem EXCEPT ![t] = "live"]
    /\ creator' = [creator EXCEPT ![t] = c]
    /\ UNCHANGED <<tpMtx, tasks, pool, taskMtx, busy, pc, job, runs, execs>>

MayUse(c, t) == pc[c] = "idle" /\ mem[t] = "live" /\ creator[t] = c

CountUpForgotten(c, t) ==    \* mutant: run_task does not count the run
    /\ MayUse(c, t) /\ pc[Owner] = "up"
    /\ t \notin Queued /\ runs[t] < MaxRuns[t]
    /\ Goto(c, "append")
    /\ job' = [job EXCEPT ![c] = t]
    /\ UNCHANGED <<tpMtx, tasks, pool, taskMtx, busy, mem, creator, runs, execs>>

(* run_task, first half: busy is counted up under task_mtx                  *)
CountUp(c, t) ==
    /\ MayUse(c, t) /\ pc[Owner] = "up"
    /\ t \notin Queued /\ runs[t] < MaxRuns[t]
    /\ taskMtx[t] = None
    /\ busy' = [busy EXCEPT ![t] = @ + 1]
    /\ Goto(c, "append")
    /\ job' = [job EXCEPT ![c] = t]
    /\ UNCHANGED <<tpMtx, tasks, pool, taskMtx, mem, creator, runs, execs>>

(* gp_cv_signal(&gp_tp->tp_sched_cv): one sleeping worker, if there is any   *)
Signal(p) ==
    LET asleep == {w \in Workers : p[w] = "sleep"}
    IN  IF asleep = {} THEN {p} ELSE {[p EXCEPT ![w] = "lock"] : w \in asleep}

(* run_task, second half: appended and signalled under tp_mtx               *)
AppendTask(c) ==
    /\ pc[c] = "append" /\ tpMtx = None
    /\ tasks' = Append(tasks, job[c])
    /\ runs' = [runs EXCEPT ![job[c]] = @ + 1]
    /\ pc' \in {[p EXCEPT ![c] = "idle"] : p \in Signal(pc)}
    /\ job' = [job EXCEPT ![c] = None]
    /\ UNCHANGED <<tpMtx, pool, taskMtx, busy, mem, creator, execs>>

CallDestroyTask(c, t) ==
    /\ MayUse(c, t)
    /\ Goto(c, "dlock")
    /\ job' = [job EXCEPT ![c] = t]
    /\ UNCHANGED <<tpMtx, tasks, pool, taskMtx, busy, mem, creator, runs, execs>>

DestroyUnwaited(c) ==    \* mutant: destroy_task does not wait for busy = 0
    /\ pc[c] = "dlock" /\ taskMtx[job[c]] = None
    /\ Goto(c, "free")
    /\ UNCHANGED <<tpMtx, tasks, pool, taskMtx, busy, mem, creator, job, runs, execs>>

(* destroy_task: locks, and sleeps on task_cv while the task is busy        *)
DestroyWait(c) ==
    /\ pc[c] = "dlock" /\ taskMtx[job[c]] = None
    /\ Goto(c, IF busy[job[c]] > 0 THEN "dsleep" ELSE "free")
    /\ UNCHANGED <<tpMtx, tasks, pool, taskMtx, busy, mem, creator, job, runs, execs>>

FreeTask(c) ==
    /\ pc[c] = "free"
    /\ mem' = [mem EXCEPT ![job[c]] = "freed"]
    /\ Goto(c, "idle")
    /\ job' = [job EXCEPT ![c] = None]
    /\ UNCHANGED <<tpMtx, tasks, pool, taskMtx, busy, creator, runs, execs>>

CallWaitTask(c, t) ==
    /\ c \in Waiters /\ MayUse(c, t)
    /\ Goto(c, "wlock")
    /\ job' = [job EXCEPT ![c] = t]
    /\ UNCHANGED <<tpMtx, tasks, pool, taskMtx, busy, mem, creator, runs, execs>>

(* wait_task: like destroy_task, but at the end task_mtx is locked again     *)
(* instead of unlocked: the caller stays there, with the mutex locked.      *)
WaitForTask(c) ==
    /\ pc[c] = "wlock" /\ taskMtx[job[c]] = None
    /\ IF busy[job[c]] > 0
       THEN Goto(c, "wsleep") /\ UNCHANGED taskMtx
       ELSE Goto(c, "relock") /\ taskMtx' = [taskMtx EXCEPT ![job[c]] = c]
    /\ UNCHANGED <<tpMtx, tasks, pool, busy, mem, creator, job, runs, execs>>

----------------------------------------------------------------------------
(* destroy_task_processor; every run_task has returned                      *)
CallDestroyPool ==
    /\ pc[Owner] = "up"
    /\ \A c \in Clients : pc[c] # "append"
    /\ Goto(Owner, IF tpRun THEN "stop" ELSE "join")
    /\ UNCHANGED <<tpMtx, tasks, pool, taskMtx, busy, mem, creator, job, runs, execs>>

WakeOneWorker(p) == CHOOSE q \in Signal(p) : TRUE   \* mutant: signal for broadcast

(* gp_cv_wake(&gp_tp->tp_sched_cv)                                          *)
WakeWorkers(p) ==
    [t \in Threads |-> IF t \in Workers /\ p[t] = "sleep" THEN "lock" ELSE p[t]]

StopPool ==
    /\ pc[Owner] = "stop" /\ tpMtx = None
    /\ tpRun' = FALSE
    /\ pc' = [WakeWorkers(pc) EXCEPT ![Owner] = "join"]
    /\ UNCHANGED <<tpMtx, tasks, started, finished, taskMtx, busy, mem, creator,
                   job, runs, execs>>

(* gp_tmr_finish returns when the worker's function has returned; done is   *)
(* set from the start in the manager of a thread that was not created       *)
FinishWorker(w) ==
    /\ pc[Owner] = "join" /\ w \notin finished
    /\ pc[w] \in {"exit", "unborn"}
    /\ finished' = finished \union {w}
    /\ UNCHANGED <<tpMtx, tasks, tpRun, started, taskMtx, busy, mem, creator,
                   pc, job, runs, execs>>

(* the condition variables, the mutex and the pool are gone                 *)
FreePool ==
    /\ pc[Owner] = "join" /\ finished = Workers
    /\ Goto(Owner, "gone")
    /\ UNCHANGED <<tpMtx, tasks, pool, taskMtx, busy, mem, creator, job, runs, execs>>

----------------------------------------------------------------------------
WorkerStep(w) ==
    \/ Enter(w) \/ TakeTask(w) \/ CallbackReturns(w) \/ CountDown(w)
    \/ Leave(w) \/ SleepWorker(w)

ClientStep(c) == DestroyWait(c) \/ FreeTask(c) \/ WaitForTask(c)

ClientCall(c) ==
    \E t \in Tasks :
        CreateTask(c, t) \/ CountUp(c, t) \/ CallDestroyTask(c, t) \/ CallWaitTask(c, t)

OwnerStep ==
    \/ SetRun \/ FreePool
    \/ \E w \in Workers : StartWorker(w) \/ FinishWorker(w)

(* Everybody is at rest: no calls are in progress and the workers sleep or  *)
(* are gone.                                                                *)
Quiescent ==
    /\ tasks = <<>>
    /\ pc[Owner] \in {"up", "gone"}
    /\ \A c \in Clients : pc[c] = "idle"
    /\ \A w \in Workers : pc[w] \in {"sleep", "exit", "unborn"}
    /\ UNCHANGED vars

Next ==
    \/ \E w \in Workers : WorkerStep(w) \/ LockPool(w)
    \/ \E c \in Clients : ClientStep(c) \/ AppendTask(c) \/ ClientCall(c)
    \/ \E t \in Threads : SpuriousWakeup(t)
    \/ OwnerStep \/ StopPool \/ CallDestroyPool
    \/ Quiescent

(***************************************************************************)
(* Threads that can run do run, callbacks return, and whoever asks for     *)
(* tp_mtx over and over gets it.  Nobody has to call anything.             *)
(***************************************************************************)
Fairness ==
    /\ \A w \in Workers : WF_vars(WorkerStep(w)) /\ SF_vars(LockPool(w))
    /\ \A c \in Clients : WF_vars(ClientStep(c)) /\ SF_vars(AppendTask(c))
    /\ WF_vars(OwnerStep) /\ SF_vars(StopPool)

SafeSpec == Init /\ [][Next]_vars
Spec == SafeSpec /\ Fairness

----------------------------------------------------------------------------
(* Types.                                                                   *)
TypeOK ==
    /\ tpMtx \in Workers \union {None}
    /\ tasks \in Seq(Tasks)
    /\ tpRun \in BOOLEAN
    /\ started \subseteq Workers /\ finished \subseteq Workers
    /\ taskMtx \in [Tasks -> Clients \union {None}]
    /\ busy \in [Tasks -> Nat]
    /\ mem \in [Tasks -> {"raw", "live", "freed"}]
    /\ creator \in [Tasks -> Clients \union {None}]
    /\ pc \in [Threads -> {"parked", "lock", "look", "exec", "count", "sleep", "exit",
                           "idle", "append", "dlock", "dsleep", "free",
                           "wlock", "wsleep", "relock",
                           "init", "start", "up", "stop", "join", "gone", "unborn"}]
    /\ job \in [Threads -> Tasks \union {None}]
    /\ runs \in [Tasks -> Nat] /\ execs \in [Tasks -> Nat]

(* task_busy counts exactly the runs of a task that are on their way to the *)
(* list, on it, or in a worker's hands: destroy_task's condition is neither *)
(* early nor late (23-27, 119, 136).                                        *)
BusyExact ==
    \A t \in Tasks :
        busy[t] = Cardinality({i \in 1..Len(tasks) : tasks[i] = t})
                + Cardinality({w \in Workers : pc[w] \in {"exec", "count"} /\ job[w] = t})
                + Cardinality({c \in Clients : pc[c] = "append" /\ job[c] = t})

(* A freed task is on no list and in no thread's hands, and a task is on    *)
(* the list at most once.                                                   *)
NoUseAfterFree ==
    /\ \A t \in Tasks : mem[t] = "freed" =>
          t \notin Queued /\ \A th \in Threads : job[th] # t
    /\ \A i, j \in 1..Len(tasks) : tasks[i] = tasks[j] => i = j

Manned == \E w \in Workers : pc[w] # "unborn"

(* When destroy_task_processor has returned, no worker can touch the pool's *)
(* mutex any more, and every run that was submitted has been executed if    *)
(* as little as one worker thread could be created.                         *)
DrainedAtShutdown ==
    pc[Owner] = "gone" =>
        /\ Manned => tasks = <<>> /\ execs = runs
        /\ tpMtx = None /\ \A w \in Workers : pc[w] \in {"exit", "unborn"}

(* wait_task has locked a mutex a second time instead of unlocking it       *)
(* (151): its caller, and in the end a worker that takes the task, never go *)
(* on.  The three that follow do not exclude this; they say that nothing    *)
(* else stops the pool.                                                     *)
WaiterStuck == \E t \in Tasks : taskMtx[t] # None

(* The runs of a task are all executed in the end, however few worker       *)
(* threads could be created, unless it is none.                             *)
EveryRunExecuted ==
    \A t \in Tasks : Manned /\ execs[t] < runs[t] ~> execs[t] = runs[t] \/ WaiterStuck

(* destroy_task returns: the worker that counts task_busy down to zero      *)
(* wakes it.                                                                *)
DestroyTaskReturns ==
    \A c \in Clients :
        Manned /\ pc[c] \in {"dlock", "dsleep", "free"} ~> pc[c] = "idle" \/ WaiterStuck

(* destroy_task_processor returns, whether or not its workers could be      *)
(* created.                                                                 *)
ShutdownEnds == pc[Owner] = "stop" ~> pc[Owner] = "gone" \/ WaiterStuck
=============================================================================
