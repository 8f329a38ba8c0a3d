------------------------ MODULE TaskProcessorProofs ------------------------
(***************************************************************************)
(* Proofs about TaskProcessor, for any finite set of workers and clients,  *)
(* any tasks and any number of runs: task_busy is exact, no task is used   *)
(* after destroy_task has freed it, and destroy_task_processor returns     *)
(* only when the list is drained.                                          *)
(***************************************************************************)
EXTENDS TaskProcessor, FiniteSetTheorems, SequenceTheorems, TLAPS

WorkerPlaces == {"parked", "lock", "look", "exec", "count", "sleep", "exit", "unborn"}
ClientPlaces == {"idle", "append", "dlock", "dsleep", "free", "wlock", "wsleep", "relock"}
OwnerPlaces == {"init", "start", "up", "stop", "join", "gone"}
Places == WorkerPlaces \union ClientPlaces \union OwnerPlaces

(* Where the counted runs of a task are. *)
Slots(q, t) == {i \in 1..Len(q) : q[i] = t}
Listed(t) == Slots(tasks, t)
Executing(t) == {w \in Workers : pc[w] = "exec" /\ job[w] = t}
Holding(t) == {w \in Workers : pc[w] \in {"exec", "count"} /\ job[w] = t}
Appending(t) == {c \in Clients : pc[c] = "append" /\ job[c] = t}

(* Each kind of thread is in its own code, and has a task in hand exactly   *)
(* inside the functions that work on one.                                   *)
Kinds ==
    /\ \A w \in Workers : pc[w] \in WorkerPlaces
    /\ \A c \in Clients : pc[c] \in ClientPlaces
    /\ pc[Owner] \in OwnerPlaces
    /\ \A w \in Workers : job[w] # None <=> pc[w] \in {"exec", "count"}
    /\ \A c \in Clients : job[c] # None <=> pc[c] # "idle"
    /\ job[Owner] = None

(* tp_mtx is held exactly by the worker that looks at the list.             *)
LockExact == \A w \in Workers : pc[w] = "look" <=> tpMtx = w

(* A call is about a live task of its caller; a busy task is live; and      *)
(* destroy_task goes on to free only what nobody runs any more.             *)
Owned ==
    /\ \A c \in Clients : pc[c] # "idle" => mem[job[c]] = "live" /\ creator[job[c]] = c
    /\ \A t \in Tasks : busy[t] > 0 => mem[t] = "live"
    /\ \A c \in Clients : pc[c] = "free" => busy[job[c]] = 0

(* A task is on the list once, and what is about to be appended is not.     *)
OnceListed ==
    /\ \A i, j \in 1..Len(tasks) : tasks[i] = tasks[j] => i = j
    /\ \A c \in Clients : pc[c] = "append" => \A i \in 1..Len(tasks) : tasks[i] # job[c]

(* How the owner's progress, tp_run, the list and the workers go together.  *)
Lifecycle ==
    /\ pc[Owner] = "init" => started = {}
    /\ \A w \in Workers : pc[w] \notin {"parked", "unborn"} => w \in started
    /\ pc[Owner] \in {"start", "up", "stop"} => tpRun
    /\ pc[Owner] \in {"join", "gone"} => ~tpRun
    /\ pc[Owner] \in {"stop", "join", "gone"} => \A c \in Clients : pc[c] # "append"
    /\ \A w \in Workers : pc[w] = "exit" => tasks = <<>> /\ pc[Owner] \in {"join", "gone"}
    /\ \A w \in finished : pc[w] \in {"exit", "unborn"}
    /\ pc[Owner] = "gone" => finished = Workers

(* Every submitted run is executed, on the list or being executed.          *)
RunsExact ==
    \A t \in Tasks : runs[t] = execs[t] + Cardinality(Listed(t)) + Cardinality(Executing(t))

Base == TypeOK /\ Kinds /\ LockExact
Counts == BusyExact /\ RunsExact
IInv == Base /\ Owned /\ OnceListed /\ Lifecycle /\ Counts

----------------------------------------------------------------------------
(* Putting an element into a finite set counts one up.                      *)
LEMMA OneMore ==
    ASSUME NEW S, NEW T, NEW x, IsFiniteSet(S), x \notin S, T = S \union {x}
    PROVE  Cardinality(T) = Cardinality(S) + 1
  BY FS_AddElement

(* A run that changes its place is counted as before.                       *)
LEMMA OneMoves == \A a, b, c \in Nat : a + (b + 1) + c = a + b + (c + 1)
  OBVIOUS

(* A run that was executed moves to the other side of the sum.              *)
LEMMA OneDone == \A a, b, c \in Nat : a + b + (c + 1) = (a + 1) + b + c
  OBVIOUS

(* Appending a task to a list adds one place for it and none for others.    *)
LEMMA SlotsAppend ==
    ASSUME NEW S, NEW q \in Seq(S), NEW x \in S, NEW t \in S
    PROVE  /\ x = t => Cardinality(Slots(Append(q, x), t)) = Cardinality(Slots(q, t)) + 1
           /\ x # t => Cardinality(Slots(Append(q, x), t)) = Cardinality(Slots(q, t))
<1>1. IsFiniteSet(1..Len(q)) /\ Slots(q, t) \in SUBSET (1..Len(q))
  BY FS_Interval DEF Slots
<1>2. IsFiniteSet(Slots(q, t)) /\ Cardinality(Slots(q, t)) \in Nat
  BY <1>1, FS_Subset, FS_CardinalityType
<1>3. CASE x = t
  <2>1. Slots(Append(q, x), t) = Slots(q, t) \union {Len(q) + 1} /\ Len(q) + 1 \notin Slots(q, t)
    BY <1>3, AppendProperties DEF Slots
  <2>. QED
    BY <1>2, <1>3, <2>1, FS_AddElement
<1>4. CASE x # t
  <2>1. Slots(Append(q, x), t) = Slots(q, t)
    BY <1>4, AppendProperties DEF Slots
  <2>. QED
    BY <1>2, <1>4, <2>1
<1>. QED
  BY <1>3, <1>4

(* Taking the head of a list without duplicates frees the one place of that *)
(* task; every other task keeps its place, one further to the front.        *)
LEMMA SlotsTail ==
    ASSUME NEW S, NEW q \in Seq(S), q # <<>>, NEW t \in S,
           \A i, j \in 1..Len(q) : q[i] = q[j] => i = j
    PROVE  /\ Head(q) = t => Cardinality(Slots(q, t)) = Cardinality(Slots(Tail(q), t)) + 1
           /\ Head(q) # t => Cardinality(Slots(q, t)) = Cardinality(Slots(Tail(q), t))
<1>1. /\ Head(q) = q[1] /\ Len(Tail(q)) = Len(q) - 1 /\ Len(q) \in Nat /\ Len(q) > 0
      /\ \A i \in 1..Len(Tail(q)) : Tail(q)[i] = q[i + 1]
  BY HeadTailProperties
<1>2. CASE Head(q) = t
  <2>1. Slots(q, t) = {1} /\ Slots(Tail(q), t) = {}
    BY <1>1, <1>2 DEF Slots
  <2>. QED
    <3>1. Cardinality({1}) = 1 /\ Cardinality({}) = 0
      BY FS_Singleton, FS_EmptySet, Zenon
    <3>2. Cardinality(Slots(q, t)) = 1 /\ Cardinality(Slots(Tail(q), t)) = 0
      BY <2>1, <3>1, Zenon
    <3>. QED
      BY <1>2, <3>2
<1>3. CASE Head(q) # t /\ \E i \in 1..Len(q) : q[i] = t
  <2>1. PICK k \in 1..Len(q) : q[k] = t
    BY <1>3
  <2>2. k > 1 /\ k - 1 \in 1..Len(Tail(q)) /\ Tail(q)[k - 1] = t
    BY <1>1, <1>3, <2>1
  <2>3. Slots(q, t) = {k}
    BY <2>1 DEF Slots
  <2>4. \A i \in 1..Len(Tail(q)) : Tail(q)[i] = t => i = k - 1
    BY <1>1, <2>1
  <2>5. Slots(Tail(q), t) = {k - 1}
    BY <2>2, <2>4 DEF Slots
  <2>. QED
    <3>1. Cardinality({k}) = 1 /\ Cardinality({k - 1}) = 1
      BY FS_Singleton, Zenon
    <3>. QED
      BY <1>3, <2>3, <2>5, <3>1
<1>4. CASE ~\E i \in 1..Len(q) : q[i] = t
  <2>1. Slots(q, t) = {} /\ Slots(Tail(q), t) = {} /\ Head(q) # t
    BY <1>1, <1>4 DEF Slots
  <2>. QED
    BY <2>1, FS_EmptySet
<1>. QED
  BY <1>2, <1>3, <1>4

(* The four counted sets of a task are finite.                              *)
LEMMA Finite ==
    ASSUME TypeOK, NEW t \in Tasks
    PROVE  /\ IsFiniteSet(Listed(t)) /\ IsFiniteSet(Executing(t))
           /\ IsFiniteSet(Holding(t)) /\ IsFiniteSet(Appending(t))
           /\ Cardinality(Listed(t)) \in Nat /\ Cardinality(Executing(t)) \in Nat
           /\ Cardinality(Holding(t)) \in Nat /\ Cardinality(Appending(t)) \in Nat
<1>1. IsFiniteSet(1..Len(tasks)) /\ Listed(t) \in SUBSET (1..Len(tasks))
  BY FS_Interval DEF TypeOK, Listed, Slots
<1>2. IsFiniteSet(Listed(t))
  BY <1>1, FS_Subset
<1>3. /\ IsFiniteSet(Threads)
      /\ Executing(t) \in SUBSET Threads /\ Holding(t) \in SUBSET Threads
      /\ Appending(t) \in SUBSET Threads
  BY ThreadAssumption DEF Executing, Holding, Appending, Threads
<1>4. IsFiniteSet(Executing(t)) /\ IsFiniteSet(Holding(t)) /\ IsFiniteSet(Appending(t))
  BY <1>3, FS_Subset
<1>. QED
  BY <1>2, <1>4, FS_CardinalityType

(* Their sizes are numbers in the next state too.                           *)
LEMMA FiniteNext ==
    ASSUME TypeOK', NEW t \in Tasks
    PROVE  /\ Cardinality(Listed(t)') \in Nat /\ Cardinality(Executing(t)') \in Nat
           /\ Cardinality(Holding(t)') \in Nat /\ Cardinality(Appending(t)') \in Nat
<1>1. IsFiniteSet(1..Len(tasks')) /\ Listed(t)' \in SUBSET (1..Len(tasks'))
  BY FS_Interval DEF TypeOK, Listed, Slots
<1>2. /\ IsFiniteSet(Threads)
      /\ Executing(t)' \in SUBSET Threads /\ Holding(t)' \in SUBSET Threads
      /\ Appending(t)' \in SUBSET Threads
  BY ThreadAssumption DEF Executing, Holding, Appending, Threads
<1>3. /\ IsFiniteSet(Listed(t)') /\ IsFiniteSet(Executing(t)')
      /\ IsFiniteSet(Holding(t)') /\ IsFiniteSet(Appending(t)')
  BY <1>1, <1>2, FS_Subset
<1>. QED
  BY <1>3, FS_CardinalityType

(* What task_busy is, in terms of the counted sets.                         *)
LEMMA BusySum ==
    BusyExact <=> \A t \in Tasks : busy[t] = Cardinality(Listed(t)) + Cardinality(Holding(t))
                                             + Cardinality(Appending(t))
  BY DEF BusyExact, Listed, Slots, Holding, Appending

(* The same in the next state.                                              *)
LEMMA BusySumNext ==
    BusyExact' <=> \A t \in Tasks : busy'[t] = Cardinality(Listed(t)') + Cardinality(Holding(t)')
                                              + Cardinality(Appending(t)')
  BY DEF BusyExact, Listed, Slots, Holding, Appending

(* A task that is on the list or with a worker, or about to be appended,    *)
(* is busy.                                                                 *)
LEMMA InUse ==
    ASSUME TypeOK, BusyExact, NEW t \in Tasks,
           Listed(t) # {} \/ Holding(t) # {} \/ Appending(t) # {}
    PROVE  busy[t] > 0
<1>1. busy[t] = Cardinality(Listed(t)) + Cardinality(Holding(t)) + Cardinality(Appending(t))
  BY BusySum
<1>2. Listed(t) # {} => Cardinality(Listed(t)) # 0
  BY Finite, FS_EmptySet
<1>3. Holding(t) # {} => Cardinality(Holding(t)) # 0
  BY Finite, FS_EmptySet
<1>4. Appending(t) # {} => Cardinality(Appending(t)) # 0
  BY Finite, FS_EmptySet
<1>. QED
  BY <1>1, <1>2, <1>3, <1>4, Finite

(* A step that moves no run keeps the counts.                               *)
LEMMA CountsKept ==
    ASSUME Counts, UNCHANGED <<tasks, busy, runs, execs>>,
           \A t \in Tasks : Executing(t)' = Executing(t) /\ Holding(t)' = Holding(t)
                            /\ Appending(t)' = Appending(t)
    PROVE  Counts'
<1>1. \A t \in Tasks : Listed(t)' = Listed(t)
  BY DEF Listed
<1>2. BusyExact'
  BY <1>1, BusySum, BusySumNext DEF Counts
<1>3. RunsExact'
  BY <1>1 DEF Counts, RunsExact
<1>. QED
  BY <1>2, <1>3 DEF Counts

----------------------------------------------------------------------------
USE ThreadAssumption, BoundAssumption DEF IInv, Base, Threads, Goto, pool, MayUse

(* SetRun keeps the invariant.                                              *)
LEMMA SetRunStep ==
    ASSUME IInv, SetRun
    PROVE  IInv'
<1> USE DEF SetRun
<1>1. TypeOK'
  BY DEF TypeOK, Kinds
<1>2. Kinds'
  BY DEF TypeOK, Kinds, WorkerPlaces, ClientPlaces, OwnerPlaces
<1>3. LockExact'
  BY DEF TypeOK, Kinds, LockExact, WorkerPlaces, ClientPlaces, OwnerPlaces
<1>4. Owned'
  BY DEF TypeOK, Kinds, Owned, WorkerPlaces, ClientPlaces, OwnerPlaces
<1>5. OnceListed'
  BY DEF TypeOK, Kinds, OnceListed, WorkerPlaces, ClientPlaces, OwnerPlaces
<1>6. Lifecycle'
  BY DEF TypeOK, Kinds, Lifecycle, WorkerPlaces, ClientPlaces, OwnerPlaces
<1>7. \A u \in Tasks : /\ Executing(u)' = Executing(u) /\ Holding(u)' = Holding(u)
                       /\ Appending(u)' = Appending(u)
  BY DEF TypeOK, Kinds, WorkerPlaces, ClientPlaces, OwnerPlaces, Executing, Holding, Appending
<1>8. Counts'
  BY <1>7, CountsKept
<1>. QED
  BY <1>1, <1>2, <1>3, <1>4, <1>5, <1>6, <1>8

(* StartWorker(w) keeps the invariant.                                      *)
LEMMA StartWorkerStep ==
    ASSUME IInv, NEW w \in Workers, StartWorker(w)
    PROVE  IInv'
<1> USE DEF StartWorker
<1>1. TypeOK'
  BY DEF TypeOK, Kinds
<1>2. Kinds'
  BY DEF TypeOK, Kinds, WorkerPlaces, ClientPlaces, OwnerPlaces
<1>3. LockExact'
  BY DEF TypeOK, Kinds, LockExact, WorkerPlaces, ClientPlaces, OwnerPlaces
<1>4. Owned'
  BY DEF TypeOK, Kinds, Owned, WorkerPlaces, ClientPlaces, OwnerPlaces
<1>5. OnceListed'
  BY DEF TypeOK, Kinds, OnceListed, WorkerPlaces, ClientPlaces, OwnerPlaces
<1>6. Lifecycle'
  BY DEF TypeOK, Kinds, Lifecycle, WorkerPlaces, ClientPlaces, OwnerPlaces
<1>7. \A u \in Tasks : /\ Executing(u)' = Executing(u) /\ Holding(u)' = Holding(u)
                       /\ Appending(u)' = Appending(u)
  BY DEF TypeOK, Kinds, WorkerPlaces, ClientPlaces, OwnerPlaces, Executing, Holding, Appending
<1>8. Counts'
  BY <1>7, CountsKept
<1>. QED
  BY <1>1, <1>2, <1>3, <1>4, <1>5, <1>6, <1>8

(* Enter(w) keeps the invariant.                                            *)
LEMMA EnterStep ==
    ASSUME IInv, NEW w \in Workers, Enter(w)
    PROVE  IInv'
<1> USE DEF Enter
<1>1. TypeOK'
  BY DEF TypeOK, Kinds
<1>2. Kinds'
  BY DEF TypeOK, Kinds, WorkerPlaces, ClientPlaces, OwnerPlaces
<1>3. LockExact'
  BY DEF TypeOK, Kinds, LockExact, WorkerPlaces, ClientPlaces, OwnerPlaces
<1>4. Owned'
  BY DEF TypeOK, Kinds, Owned, WorkerPlaces, ClientPlaces, OwnerPlaces
<1>5. OnceListed'
  BY DEF TypeOK, Kinds, OnceListed, WorkerPlaces, ClientPlaces, OwnerPlaces
<1>6. Lifecycle'
  BY DEF TypeOK, Kinds, Lifecycle, WorkerPlaces, ClientPlaces, OwnerPlaces
<1>7. \A u \in Tasks : /\ Executing(u)' = Executing(u) /\ Holding(u)' = Holding(u)
                       /\ Appending(u)' = Appending(u)
  BY DEF TypeOK, Kinds, WorkerPlaces, ClientPlaces, OwnerPlaces, Executing, Holding, Appending
<1>8. Counts'
  BY <1>7, CountsKept
<1>. QED
  BY <1>1, <1>2, <1>3, <1>4, <1>5, <1>6, <1>8

(* LockPool(w) keeps the invariant.                                         *)
LEMMA LockPoolStep ==
    ASSUME IInv, NEW w \in Workers, LockPool(w)
    PROVE  IInv'
<1> USE DEF LockPool
<1>1. TypeOK'
  BY DEF TypeOK, Kinds
<1>2. Kinds'
  BY DEF TypeOK, Kinds, WorkerPlaces, ClientPlaces, OwnerPlaces
<1>3. LockExact'
  BY DEF TypeOK, Kinds, LockExact, WorkerPlaces, ClientPlaces, OwnerPlaces
<1>4. Owned'
  BY DEF TypeOK, Kinds, Owned, WorkerPlaces, ClientPlaces, OwnerPlaces
<1>5. OnceListed'
  BY DEF TypeOK, Kinds, OnceListed, WorkerPlaces, ClientPlaces, OwnerPlaces
<1>6. Lifecycle'
  BY DEF TypeOK, Kinds, Lifecycle, WorkerPlaces, ClientPlaces, OwnerPlaces
<1>7. \A u \in Tasks : /\ Executing(u)' = Executing(u) /\ Holding(u)' = Holding(u)
                       /\ Appending(u)' = Appending(u)
  BY DEF TypeOK, Kinds, WorkerPlaces, ClientPlaces, OwnerPlaces, Executing, Holding, Appending
<1>8. Counts'
  BY <1>7, CountsKept
<1>. QED
  BY <1>1, <1>2, <1>3, <1>4, <1>5, <1>6, <1>8

(* Leave(w) keeps the invariant.                                            *)
LEMMA LeaveStep ==
    ASSUME IInv, NEW w \in Workers, Leave(w)
    PROVE  IInv'
<1> USE DEF Leave
<1>1. TypeOK'
  BY DEF TypeOK, Kinds
<1>2. Kinds'
  BY DEF TypeOK, Kinds, WorkerPlaces, ClientPlaces, OwnerPlaces
<1>3. LockExact'
  BY DEF TypeOK, Kinds, LockExact, WorkerPlaces, ClientPlaces, OwnerPlaces
<1>4. Owned'
  BY DEF TypeOK, Kinds, Owned, WorkerPlaces, ClientPlaces, OwnerPlaces
<1>5. OnceListed'
  BY DEF TypeOK, Kinds, OnceListed, WorkerPlaces, ClientPlaces, OwnerPlaces
<1>6. Lifecycle'
  BY DEF TypeOK, Kinds, Lifecycle, WorkerPlaces, ClientPlaces, OwnerPlaces
<1>7. \A u \in Tasks : /\ Executing(u)' = Executing(u) /\ Holding(u)' = Holding(u)
                       /\ Appending(u)' = Appending(u)
  BY DEF TypeOK, Kinds, WorkerPlaces, ClientPlaces, OwnerPlaces, Executing, Holding, Appending
<1>8. Counts'
  BY <1>7, CountsKept
<1>. QED
  BY <1>1, <1>2, <1>3, <1>4, <1>5, <1>6, <1>8

(* SleepWorker(w) keeps the invariant.                                      *)
LEMMA SleepWorkerStep ==
    ASSUME IInv, NEW w \in Workers, SleepWorker(w)
    PROVE  IInv'
<1> USE DEF SleepWorker
<1>1. TypeOK'
  BY DEF TypeOK, Kinds
<1>2. Kinds'
  BY DEF TypeOK, Kinds, WorkerPlaces, ClientPlaces, OwnerPlaces
<1>3. LockExact'
  BY DEF TypeOK, Kinds, LockExact, WorkerPlaces, ClientPlaces, OwnerPlaces
<1>4. Owned'
  BY DEF TypeOK, Kinds, Owned, WorkerPlaces, ClientPlaces, OwnerPlaces
<1>5. OnceListed'
  BY DEF TypeOK, Kinds, OnceListed, WorkerPlaces, ClientPlaces, OwnerPlaces
<1>6. Lifecycle'
  BY DEF TypeOK, Kinds, Lifecycle, WorkerPlaces, ClientPlaces, OwnerPlaces
<1>7. \A u \in Tasks : /\ Executing(u)' = Executing(u) /\ Holding(u)' = Holding(u)
                       /\ Appending(u)' = Appending(u)
  BY DEF TypeOK, Kinds, WorkerPlaces, ClientPlaces, OwnerPlaces, Executing, Holding, Appending
<1>8. Counts'
  BY <1>7, CountsKept
<1>. QED
  BY <1>1, <1>2, <1>3, <1>4, <1>5, <1>6, <1>8

(* SpuriousWakeup(th) keeps the invariant.                                  *)
LEMMA SpuriousWakeupStep ==
    ASSUME IInv, NEW th \in Threads, SpuriousWakeup(th)
    PROVE  IInv'
<1> USE DEF SpuriousWakeup
<1>1. TypeOK'
  BY DEF TypeOK, Kinds
<1>2. Kinds'
  BY DEF TypeOK, Kinds, WorkerPlaces, ClientPlaces, OwnerPlaces
<1>3. LockExact'
  BY DEF TypeOK, Kinds, LockExact, WorkerPlaces, ClientPlaces, OwnerPlaces
<1>4. Owned'
  BY DEF TypeOK, Kinds, Owned, WorkerPlaces, ClientPlaces, OwnerPlaces
<1>5. OnceListed'
  BY DEF TypeOK, Kinds, OnceListed, WorkerPlaces, ClientPlaces, OwnerPlaces
<1>6. Lifecycle'
  BY DEF TypeOK, Kinds, Lifecycle, WorkerPlaces, ClientPlaces, OwnerPlaces
<1>7. \A u \in Tasks : /\ Executing(u)' = Executing(u) /\ Holding(u)' = Holding(u)
                       /\ Appending(u)' = Appending(u)
  BY DEF TypeOK, Kinds, WorkerPlaces, ClientPlaces, OwnerPlaces, Executing, Holding, Appending
<1>8. Counts'
  BY <1>7, CountsKept
<1>. QED
  BY <1>1, <1>2, <1>3, <1>4, <1>5, <1>6, <1>8

(* CreateTask(c, t) keeps the invariant.                                    *)
LEMMA CreateTaskStep ==
    ASSUME IInv, NEW c \in Clients, NEW t \in Tasks, CreateTask(c, t)
    PROVE  IInv'
<1> USE DEF CreateTask
<1>1. TypeOK'
  BY DEF TypeOK, Kinds
<1>2. Kinds'
  BY DEF TypeOK, Kinds, WorkerPlaces, ClientPlaces, OwnerPlaces
<1>3. LockExact'
  BY DEF TypeOK, Kinds, LockExact, WorkerPlaces, ClientPlaces, OwnerPlaces
<1>4. Owned'
  BY DEF TypeOK, Kinds, Owned, WorkerPlaces, ClientPlaces, OwnerPlaces
<1>5. OnceListed'
  BY DEF TypeOK, Kinds, OnceListed, WorkerPlaces, ClientPlaces, OwnerPlaces
<1>6. Lifecycle'
  BY DEF TypeOK, Kinds, Lifecycle, WorkerPlaces, ClientPlaces, OwnerPlaces
<1>7. \A u \in Tasks : /\ Executing(u)' = Executing(u) /\ Holding(u)' = Holding(u)
                       /\ Appending(u)' = Appending(u)
  BY DEF TypeOK, Kinds, WorkerPlaces, ClientPlaces, OwnerPlaces, Executing, Holding, Appending
<1>8. Counts'
  BY <1>7, CountsKept
<1>. QED
  BY <1>1, <1>2, <1>3, <1>4, <1>5, <1>6, <1>8

(* CallDestroyTask(c, t) keeps the invariant.                               *)
LEMMA CallDestroyTaskStep ==
    ASSUME IInv, NEW c \in Clients, NEW t \in Tasks, CallDestroyTask(c, t)
    PROVE  IInv'
<1> USE DEF CallDestroyTask
<1>1. TypeOK'
  BY DEF TypeOK, Kinds
<1>2. Kinds'
  BY DEF TypeOK, Kinds, WorkerPlaces, ClientPlaces, OwnerPlaces
<1>3. LockExact'
  BY DEF TypeOK, Kinds, LockExact, WorkerPlaces, ClientPlaces, OwnerPlaces
<1>4. Owned'
  BY DEF TypeOK, Kinds, Owned, WorkerPlaces, ClientPlaces, OwnerPlaces
<1>5. OnceListed'
  BY DEF TypeOK, Kinds, OnceListed, WorkerPlaces, ClientPlaces, OwnerPlaces
<1>6. Lifecycle'
  BY DEF TypeOK, Kinds, Lifecycle, WorkerPlaces, ClientPlaces, OwnerPlaces
<1>7. \A u \in Tasks : /\ Executing(u)' = Executing(u) /\ Holding(u)' = Holding(u)
                       /\ Appending(u)' = Appending(u)
  BY DEF TypeOK, Kinds, WorkerPlaces, ClientPlaces, OwnerPlaces, Executing, Holding, Appending
<1>8. Counts'
  BY <1>7, CountsKept
<1>. QED
  BY <1>1, <1>2, <1>3, <1>4, <1>5, <1>6, <1>8

(* DestroyWait(c) keeps the invariant.                                      *)
LEMMA DestroyWaitStep ==
    ASSUME IInv, NEW c \in Clients, DestroyWait(c)
    PROVE  IInv'
<1> USE DEF DestroyWait
<1>1. TypeOK'
  BY DEF TypeOK, Kinds
<1>2. Kinds'
  BY DEF TypeOK, Kinds, WorkerPlaces, ClientPlaces, OwnerPlaces
<1>3. LockExact'
  BY DEF TypeOK, Kinds, LockExact, WorkerPlaces, ClientPlaces, OwnerPlaces
<1>4. Owned'
  BY DEF TypeOK, Kinds, Owned, WorkerPlaces, ClientPlaces, OwnerPlaces
<1>5. OnceListed'
  BY DEF TypeOK, Kinds, OnceListed, WorkerPlaces, ClientPlaces, OwnerPlaces
<1>6. Lifecycle'
  BY DEF TypeOK, Kinds, Lifecycle, WorkerPlaces, ClientPlaces, OwnerPlaces
<1>7. \A u \in Tasks : /\ Executing(u)' = Executing(u) /\ Holding(u)' = Holding(u)
                       /\ Appending(u)' = Appending(u)
  BY DEF TypeOK, Kinds, WorkerPlaces, ClientPlaces, OwnerPlaces, Executing, Holding, Appending
<1>8. Counts'
  BY <1>7, CountsKept
<1>. QED
  BY <1>1, <1>2, <1>3, <1>4, <1>5, <1>6, <1>8

(* FreeTask(c) keeps the invariant.                                         *)
LEMMA FreeTaskStep ==
    ASSUME IInv, NEW c \in Clients, FreeTask(c)
    PROVE  IInv'
<1> USE DEF FreeTask
<1>1. TypeOK'
  BY DEF TypeOK, Kinds
<1>2. Kinds'
  BY DEF TypeOK, Kinds, WorkerPlaces, ClientPlaces, OwnerPlaces
<1>3. LockExact'
  BY DEF TypeOK, Kinds, LockExact, WorkerPlaces, ClientPlaces, OwnerPlaces
<1>4. Owned'
  <2>1. job[c] \in Tasks /\ busy[job[c]] = 0 /\ creator[job[c]] = c
    BY DEF TypeOK, Kinds, Owned
  <2>2. \A d \in Clients \ {c} : pc[d] # "idle" => job[d] \in Tasks /\ job[d] # job[c]
    BY <2>1 DEF TypeOK, Kinds, Owned
  <2>3. \A d \in Clients : pc'[d] # "idle" => d # c /\ pc[d] = pc'[d] /\ job'[d] = job[d]
    BY DEF TypeOK
  <2>4. \A t \in Tasks : t # job[c] => mem'[t] = mem[t]
    BY DEF TypeOK
  <2>. QED
    BY <2>1, <2>2, <2>3, <2>4 DEF TypeOK, Owned
<1>5. OnceListed'
  <2>1. \A d \in Clients : pc'[d] = "append" => pc[d] = "append" /\ job'[d] = job[d]
    BY DEF TypeOK
  <2>. QED
    BY <2>1 DEF OnceListed
<1>6. Lifecycle'
  BY DEF TypeOK, Kinds, Lifecycle, WorkerPlaces, ClientPlaces, OwnerPlaces
<1>7. \A u \in Tasks : /\ Executing(u)' = Executing(u) /\ Holding(u)' = Holding(u)
                       /\ Appending(u)' = Appending(u)
  BY DEF TypeOK, Kinds, WorkerPlaces, ClientPlaces, OwnerPlaces, Executing, Holding, Appending
<1>8. Counts'
  BY <1>7, CountsKept
<1>. QED
  BY <1>1, <1>2, <1>3, <1>4, <1>5, <1>6, <1>8

(* CallWaitTask(c, t) keeps the invariant.                                  *)
LEMMA CallWaitTaskStep ==
    ASSUME IInv, NEW c \in Clients, NEW t \in Tasks, CallWaitTask(c, t)
    PROVE  IInv'
<1> USE DEF CallWaitTask
<1>1. TypeOK'
  BY DEF TypeOK, Kinds
<1>2. Kinds'
  BY DEF TypeOK, Kinds, WorkerPlaces, ClientPlaces, OwnerPlaces
<1>3. LockExact'
  BY DEF TypeOK, Kinds, LockExact, WorkerPlaces, ClientPlaces, OwnerPlaces
<1>4. Owned'
  BY DEF TypeOK, Kinds, Owned, WorkerPlaces, ClientPlaces, OwnerPlaces
<1>5. OnceListed'
  BY DEF TypeOK, Kinds, OnceListed, WorkerPlaces, ClientPlaces, OwnerPlaces
<1>6. Lifecycle'
  BY DEF TypeOK, Kinds, Lifecycle, WorkerPlaces, ClientPlaces, OwnerPlaces
<1>7. \A u \in Tasks : /\ Executing(u)' = Executing(u) /\ Holding(u)' = Holding(u)
                       /\ Appending(u)' = Appending(u)
  BY DEF TypeOK, Kinds, WorkerPlaces, ClientPlaces, OwnerPlaces, Executing, Holding, Appending
<1>8. Counts'
  BY <1>7, CountsKept
<1>. QED
  BY <1>1, <1>2, <1>3, <1>4, <1>5, <1>6, <1>8

(* WaitForTask(c) keeps the invariant.                                      *)
LEMMA WaitForTaskStep ==
    ASSUME IInv, NEW c \in Clients, WaitForTask(c)
    PROVE  IInv'
<1> DEFINE place == IF busy[job[c]] > 0 THEN "wsleep" ELSE "relock"
<1>0. pc[c] = "wlock" /\ pc' = [pc EXCEPT ![c] = place] /\ place \in {"wsleep", "relock"}
  BY DEF WaitForTask
<1>a. UNCHANGED <<tpMtx, tasks, pool, busy, mem, creator, job, runs, execs>>
  BY DEF WaitForTask
<1>b. taskMtx' \in [Tasks -> Clients \union {None}]
  <2>1. job[c] \in Tasks
    BY <1>0 DEF TypeOK, Kinds
  <2>2. taskMtx' = taskMtx \/ taskMtx' = [taskMtx EXCEPT ![job[c]] = c]
    BY DEF WaitForTask
  <2>. QED
    BY <2>1, <2>2 DEF TypeOK
<1> HIDE DEF place
<1>1. TypeOK'
  BY <1>0, <1>a, <1>b DEF TypeOK
<1>2. Kinds'
  BY <1>0, <1>a DEF TypeOK, Kinds, WorkerPlaces, ClientPlaces, OwnerPlaces
<1>3. LockExact'
  BY <1>0, <1>a DEF TypeOK, Kinds, LockExact, WorkerPlaces, ClientPlaces, OwnerPlaces
<1>4. Owned'
  BY <1>0, <1>a DEF TypeOK, Kinds, Owned, WorkerPlaces, ClientPlaces, OwnerPlaces
<1>5. OnceListed'
  BY <1>0, <1>a DEF TypeOK, Kinds, OnceListed, WorkerPlaces, ClientPlaces, OwnerPlaces
<1>6. Lifecycle'
  BY <1>0, <1>a DEF TypeOK, Kinds, Lifecycle, WorkerPlaces, ClientPlaces, OwnerPlaces
<1>7. \A u \in Tasks : /\ Executing(u)' = Executing(u) /\ Holding(u)' = Holding(u)
                       /\ Appending(u)' = Appending(u)
  BY <1>0, <1>a DEF TypeOK, Kinds, WorkerPlaces, ClientPlaces, OwnerPlaces, Executing, Holding, Appending
<1>8. Counts'
  BY <1>a, <1>7, CountsKept
<1>. QED
  BY <1>1, <1>2, <1>3, <1>4, <1>5, <1>6, <1>8

(* CallDestroyPool keeps the invariant.                                     *)
LEMMA CallDestroyPoolStep ==
    ASSUME IInv, CallDestroyPool
    PROVE  IInv'
<1> USE DEF CallDestroyPool
<1>1. TypeOK'
  BY DEF TypeOK, Kinds
<1>2. Kinds'
  BY DEF TypeOK, Kinds, WorkerPlaces, ClientPlaces, OwnerPlaces
<1>3. LockExact'
  BY DEF TypeOK, Kinds, LockExact, WorkerPlaces, ClientPlaces, OwnerPlaces
<1>4. Owned'
  BY DEF TypeOK, Kinds, Owned, WorkerPlaces, ClientPlaces, OwnerPlaces
<1>5. OnceListed'
  BY DEF TypeOK, Kinds, OnceListed, WorkerPlaces, ClientPlaces, OwnerPlaces
<1>6. Lifecycle'
  BY DEF TypeOK, Kinds, Lifecycle, WorkerPlaces, ClientPlaces, OwnerPlaces
<1>7. \A u \in Tasks : /\ Executing(u)' = Executing(u) /\ Holding(u)' = Holding(u)
                       /\ Appending(u)' = Appending(u)
  BY DEF TypeOK, Kinds, WorkerPlaces, ClientPlaces, OwnerPlaces, Executing, Holding, Appending
<1>8. Counts'
  BY <1>7, CountsKept
<1>. QED
  BY <1>1, <1>2, <1>3, <1>4, <1>5, <1>6, <1>8

(* StopPool keeps the invariant.                                            *)
LEMMA StopPoolStep ==
    ASSUME IInv, StopPool
    PROVE  IInv'
<1> USE DEF StopPool, WakeWorkers
<1>1. TypeOK'
  BY DEF TypeOK, Kinds
<1>2. Kinds'
  BY DEF TypeOK, Kinds, WorkerPlaces, ClientPlaces, OwnerPlaces
<1>3. LockExact'
  BY DEF TypeOK, Kinds, LockExact, WorkerPlaces, ClientPlaces, OwnerPlaces
<1>4. Owned'
  BY DEF TypeOK, Kinds, Owned, WorkerPlaces, ClientPlaces, OwnerPlaces
<1>5. OnceListed'
  BY DEF TypeOK, Kinds, OnceListed, WorkerPlaces, ClientPlaces, OwnerPlaces
<1>6. Lifecycle'
  BY DEF TypeOK, Kinds, Lifecycle, WorkerPlaces, ClientPlaces, OwnerPlaces
<1>7. \A u \in Tasks : /\ Executing(u)' = Executing(u) /\ Holding(u)' = Holding(u)
                       /\ Appending(u)' = Appending(u)
  BY DEF TypeOK, Kinds, WorkerPlaces, ClientPlaces, OwnerPlaces, Executing, Holding, Appending
<1>8. Counts'
  BY <1>7, CountsKept
<1>. QED
  BY <1>1, <1>2, <1>3, <1>4, <1>5, <1>6, <1>8

(* FinishWorker(w) keeps the invariant.                                     *)
LEMMA FinishWorkerStep ==
    ASSUME IInv, NEW w \in Workers, FinishWorker(w)
    PROVE  IInv'
<1> USE DEF FinishWorker
<1>1. TypeOK'
  BY DEF TypeOK, Kinds
<1>2. Kinds'
  BY DEF TypeOK, Kinds, WorkerPlaces, ClientPlaces, OwnerPlaces
<1>3. LockExact'
  BY DEF TypeOK, Kinds, LockExact, WorkerPlaces, ClientPlaces, OwnerPlaces
<1>4. Owned'
  BY DEF TypeOK, Kinds, Owned, WorkerPlaces, ClientPlaces, OwnerPlaces
<1>5. OnceListed'
  BY DEF TypeOK, Kinds, OnceListed, WorkerPlaces, ClientPlaces, OwnerPlaces
<1>6. Lifecycle'
  BY DEF TypeOK, Kinds, Lifecycle, WorkerPlaces, ClientPlaces, OwnerPlaces
<1>7. \A u \in Tasks : /\ Executing(u)' = Executing(u) /\ Holding(u)' = Holding(u)
                       /\ Appending(u)' = Appending(u)
  BY DEF TypeOK, Kinds, WorkerPlaces, ClientPlaces, OwnerPlaces, Executing, Holding, Appending
<1>8. Counts'
  BY <1>7, CountsKept
<1>. QED
  BY <1>1, <1>2, <1>3, <1>4, <1>5, <1>6, <1>8

(* FreePool keeps the invariant.                                            *)
LEMMA FreePoolStep ==
    ASSUME IInv, FreePool
    PROVE  IInv'
<1> USE DEF FreePool
<1>1. TypeOK'
  BY DEF TypeOK, Kinds
<1>2. Kinds'
  BY DEF TypeOK, Kinds, WorkerPlaces, ClientPlaces, OwnerPlaces
<1>3. LockExact'
  BY DEF TypeOK, Kinds, LockExact, WorkerPlaces, ClientPlaces, OwnerPlaces
<1>4. Owned'
  BY DEF TypeOK, Kinds, Owned, WorkerPlaces, ClientPlaces, OwnerPlaces
<1>5. OnceListed'
  BY DEF TypeOK, Kinds, OnceListed, WorkerPlaces, ClientPlaces, OwnerPlaces
<1>6. Lifecycle'
  BY DEF TypeOK, Kinds, Lifecycle, WorkerPlaces, ClientPlaces, OwnerPlaces
<1>7. \A u \in Tasks : /\ Executing(u)' = Executing(u) /\ Holding(u)' = Holding(u)
                       /\ Appending(u)' = Appending(u)
  BY DEF TypeOK, Kinds, WorkerPlaces, ClientPlaces, OwnerPlaces, Executing, Holding, Appending
<1>8. Counts'
  BY <1>7, CountsKept
<1>. QED
  BY <1>1, <1>2, <1>3, <1>4, <1>5, <1>6, <1>8

(* run_task, first half: the count goes up with the client that is about    *)
(* to append; nobody else is destroying or appending the task.              *)
LEMMA CountUpStep ==
    ASSUME IInv, NEW c \in Clients, NEW t \in Tasks, CountUp(c, t)
    PROVE  IInv'
<1> USE DEF CountUp
<1>1. TypeOK'
  BY DEF TypeOK, Kinds
<1>2. Kinds'
  BY DEF TypeOK, Kinds, WorkerPlaces, ClientPlaces, OwnerPlaces
<1>3. LockExact'
  BY DEF TypeOK, Kinds, LockExact, WorkerPlaces, ClientPlaces, OwnerPlaces
<1>4. Owned'
  <2>1. \A d \in Clients \ {c} : pc[d] # "idle" => job[d] \in Tasks /\ job[d] # t
    BY DEF TypeOK, Kinds, Owned
  <2>2. \A d \in Clients \ {c} : pc'[d] = pc[d] /\ job'[d] = job[d]
    BY DEF TypeOK
  <2>3. pc'[c] = "append" /\ job'[c] = t
    BY DEF TypeOK
  <2>4. \A u \in Tasks : u # t => busy'[u] = busy[u]
    BY DEF TypeOK
  <2>. QED
    BY <2>1, <2>2, <2>3, <2>4 DEF TypeOK, Owned
<1>5. OnceListed'
  BY DEF TypeOK, Kinds, OnceListed, Queued
<1>6. Lifecycle'
  BY DEF TypeOK, Kinds, Lifecycle, WorkerPlaces, ClientPlaces, OwnerPlaces
<1>7. \A u \in Tasks : /\ Executing(u)' = Executing(u) /\ Holding(u)' = Holding(u)
                       /\ Listed(u)' = Listed(u)
                       /\ u # t => Appending(u)' = Appending(u)
  BY DEF TypeOK, Kinds, Executing, Holding, Appending, Listed
<1>8. c \notin Appending(t) /\ Appending(t)' = Appending(t) \union {c}
  BY DEF TypeOK, Kinds, Appending
<1>9. Cardinality(Appending(t)') = Cardinality(Appending(t)) + 1
  BY <1>8, Finite, OneMore
<1>10. busy'[t] = busy[t] + 1 /\ \A u \in Tasks : u # t => busy'[u] = busy[u]
  BY DEF TypeOK
<1>11. BusyExact'
  <2> SUFFICES ASSUME NEW u \in Tasks
               PROVE  busy'[u] = Cardinality(Listed(u)') + Cardinality(Holding(u)')
                                 + Cardinality(Appending(u)')
    BY BusySumNext
  <2>1. busy[u] = Cardinality(Listed(u)) + Cardinality(Holding(u)) + Cardinality(Appending(u))
    BY BusySum DEF Counts
  <2>. QED
    BY <1>7, <1>9, <1>10, <2>1, Finite
<1>12. RunsExact'
  BY <1>7 DEF Counts, RunsExact
<1>. QED
  BY <1>1, <1>2, <1>3, <1>4, <1>5, <1>6, <1>11, <1>12 DEF Counts

(* A worker takes the head of the list: the run moves from the list to its  *)
(* hands.                                                                   *)
LEMMA TakeTaskStep ==
    ASSUME IInv, NEW w \in Workers, TakeTask(w)
    PROVE  IInv'
<1> USE DEF TakeTask
<1>0. /\ Head(tasks) \in Tasks /\ Tail(tasks) \in Seq(Tasks)
      /\ Len(Tail(tasks)) = Len(tasks) - 1 /\ Len(tasks) \in Nat
      /\ \A i \in 1..Len(Tail(tasks)) : Tail(tasks)[i] = tasks[i + 1]
  BY HeadTailProperties DEF TypeOK
<1>1. TypeOK'
  BY <1>0 DEF TypeOK, Kinds
<1>2. Kinds'
  BY <1>0 DEF TypeOK, Kinds, WorkerPlaces, ClientPlaces, OwnerPlaces
<1>3. LockExact'
  BY DEF TypeOK, Kinds, LockExact, WorkerPlaces, ClientPlaces, OwnerPlaces
<1>4. Owned'
  BY DEF TypeOK, Kinds, Owned, WorkerPlaces, ClientPlaces, OwnerPlaces
<1>5. OnceListed'
  <2>1. \A i, j \in 1..Len(tasks') : tasks'[i] = tasks'[j] => i = j
    BY <1>0 DEF OnceListed
  <2>2. \A c \in Clients : pc'[c] = pc[c] /\ job'[c] = job[c]
    BY DEF TypeOK
  <2>. QED
    BY <1>0, <2>1, <2>2 DEF OnceListed
<1>6. Lifecycle'
  BY DEF TypeOK, Kinds, Lifecycle, WorkerPlaces, ClientPlaces, OwnerPlaces
<1>7. PICK t \in Tasks : t = Head(tasks)
  BY <1>0
<1>8. \A u \in Tasks : /\ Appending(u)' = Appending(u)
                       /\ u # t => Executing(u)' = Executing(u) /\ Holding(u)' = Holding(u)
  BY <1>7 DEF TypeOK, Kinds, Executing, Holding, Appending
<1>9. /\ w \notin Executing(t) /\ w \notin Holding(t)
      /\ Executing(t)' = Executing(t) \union {w} /\ Holding(t)' = Holding(t) \union {w}
  BY <1>7 DEF TypeOK, Kinds, Executing, Holding
<1>10. /\ Cardinality(Executing(t)') = Cardinality(Executing(t)) + 1
       /\ Cardinality(Holding(t)') = Cardinality(Holding(t)) + 1
  BY <1>9, Finite, OneMore
<1>11. /\ Cardinality(Listed(t)) = Cardinality(Listed(t)') + 1
       /\ \A u \in Tasks : u # t => Cardinality(Listed(u)) = Cardinality(Listed(u)')
  BY <1>7, SlotsTail DEF Listed, TypeOK, OnceListed
<1>12. BusyExact'
  <2> SUFFICES ASSUME NEW u \in Tasks
               PROVE  busy'[u] = Cardinality(Listed(u)') + Cardinality(Holding(u)')
                                 + Cardinality(Appending(u)')
    BY BusySumNext
  <2>1. busy[u] = Cardinality(Listed(u)) + Cardinality(Holding(u)) + Cardinality(Appending(u))
    BY BusySum DEF Counts
  <2>3. CASE u = t
    BY <1>1, <1>8, <1>10, <1>11, <2>1, <2>3, Finite, FiniteNext
  <2>4. CASE u # t
    BY <1>8, <1>11, <2>1, <2>4
  <2>. QED
    BY <2>3, <2>4
<1>13. RunsExact'
  <2> SUFFICES ASSUME NEW u \in Tasks
               PROVE  runs'[u] = execs'[u] + Cardinality(Listed(u)') + Cardinality(Executing(u)')
    BY DEF RunsExact
  <2>1. runs[u] = execs[u] + Cardinality(Listed(u)) + Cardinality(Executing(u))
    BY DEF Counts, RunsExact
  <2>2. execs[u] \in Nat
    BY DEF TypeOK
  <2>3. CASE u = t
    <3>1. /\ Cardinality(Listed(t)) \in Nat /\ Cardinality(Executing(t)) \in Nat
          /\ Cardinality(Listed(t)') \in Nat
      BY <1>1, Finite, FiniteNext
    <3>2. runs' = runs /\ execs' = execs
      OBVIOUS
    <3>3. runs[t] = execs[t] + (Cardinality(Listed(t)') + 1) + Cardinality(Executing(t)) /\ execs[t] \in Nat
      BY <1>11, <2>1, <2>2, <2>3
    <3>4. runs[t] = execs[t] + Cardinality(Listed(t)') + (Cardinality(Executing(t)) + 1)
      BY <3>1, <3>3, OneMoves, ZenonT(60)
    <3>. QED
      BY <1>10, <2>3, <3>2, <3>4
  <2>4. CASE u # t
    BY <1>8, <1>11, <2>1, <2>2, <2>4
  <2>. QED
    BY <2>3, <2>4
<1>. QED
  BY <1>1, <1>2, <1>3, <1>4, <1>5, <1>6, <1>12, <1>13 DEF Counts

(* A callback has returned: the run is executed and still counted busy.     *)
LEMMA CallbackReturnsStep ==
    ASSUME IInv, NEW w \in Workers, CallbackReturns(w)
    PROVE  IInv'
<1> USE DEF CallbackReturns
<1>0. PICK t \in Tasks : t = job[w]
  BY DEF TypeOK, Kinds
<1>1. TypeOK'
  BY <1>0 DEF TypeOK, Kinds
<1>2. Kinds'
  BY DEF TypeOK, Kinds, WorkerPlaces, ClientPlaces, OwnerPlaces
<1>3. LockExact'
  BY DEF TypeOK, Kinds, LockExact, WorkerPlaces, ClientPlaces, OwnerPlaces
<1>4. Owned'
  BY DEF TypeOK, Kinds, Owned, WorkerPlaces, ClientPlaces, OwnerPlaces
<1>5. OnceListed'
  BY DEF TypeOK, Kinds, OnceListed, WorkerPlaces, ClientPlaces, OwnerPlaces
<1>6. Lifecycle'
  BY DEF TypeOK, Kinds, Lifecycle, WorkerPlaces, ClientPlaces, OwnerPlaces
<1>7. \A u \in Tasks : /\ Appending(u)' = Appending(u) /\ Holding(u)' = Holding(u)
                       /\ Listed(u)' = Listed(u)
                       /\ u # t => Executing(u)' = Executing(u)
  BY <1>0 DEF TypeOK, Kinds, Executing, Holding, Appending, Listed
<1>8. w \in Executing(t) /\ Executing(t)' = Executing(t) \ {w}
  BY <1>0 DEF TypeOK, Kinds, Executing
<1>9. w \notin Executing(t)' /\ Executing(t) = Executing(t)' \union {w} /\ IsFiniteSet(Executing(t)')
  BY <1>8, Finite, FS_RemoveElement
<1>10. Cardinality(Executing(t)) = Cardinality(Executing(t)') + 1
  BY <1>9, OneMore
<1>11. BusyExact'
  BY <1>7, BusySum, BusySumNext DEF Counts
<1>12. RunsExact'
  <2> SUFFICES ASSUME NEW u \in Tasks
               PROVE  runs'[u] = execs'[u] + Cardinality(Listed(u)') + Cardinality(Executing(u)')
    BY DEF RunsExact
  <2>1. runs[u] = execs[u] + Cardinality(Listed(u)) + Cardinality(Executing(u))
    BY DEF Counts, RunsExact
  <2>2. CASE u = t
    <3>1. execs'[t] = execs[t] + 1 /\ execs[t] \in Nat /\ runs'[t] = runs[t]
      BY <1>0 DEF TypeOK
    <3>2. Cardinality(Listed(t)) \in Nat /\ Cardinality(Executing(t)') \in Nat
      BY <1>1, Finite, FiniteNext
    <3>3. runs[t] = execs[t] + Cardinality(Listed(t)) + (Cardinality(Executing(t)') + 1)
      BY <1>10, <2>1, <2>2
    <3>4. runs[t] = (execs[t] + 1) + Cardinality(Listed(t)) + Cardinality(Executing(t)')
      BY <3>1, <3>2, <3>3, OneDone, ZenonT(60)
    <3>. QED
      BY <1>7, <2>2, <3>1, <3>4
  <2>3. CASE u # t
    <3>1. execs'[u] = execs[u] /\ runs'[u] = runs[u]
      BY <1>0, <2>3 DEF TypeOK
    <3>. QED
      BY <1>7, <2>1, <2>3, <3>1
  <2>. QED
    BY <2>2, <2>3
<1>. QED
  BY <1>1, <1>2, <1>3, <1>4, <1>5, <1>6, <1>11, <1>12 DEF Counts

(* The worker takes its run off the count and wakes who waits for the task. *)
LEMMA CountDownStep ==
    ASSUME IInv, NEW w \in Workers, CountDown(w)
    PROVE  IInv'
<1>1. PICK t \in Tasks : t = job[w]
  BY DEF TypeOK, Kinds, CountDown
<1>2. /\ pc[w] = "count" /\ job' = [job EXCEPT ![w] = None]
      /\ busy' = [busy EXCEPT ![t] = @ - 1]
      /\ UNCHANGED <<tpMtx, tasks, pool, taskMtx, mem, creator, runs, execs>>
  BY <1>1 DEF CountDown
<1>3. busy[t] > 0
  <2>1. w \in Holding(t)
    BY <1>1, <1>2 DEF Holding
  <2>. QED
    BY <2>1, InUse DEF Counts
<1>4. DOMAIN pc' = Threads /\ pc'[w] = "lock"
  BY DEF CountDown, WakeTaskWaiters, TypeOK
<1>5. \A th \in Threads \ {w} : \/ pc'[th] = pc[th]
                                \/ pc[th] = "dsleep" /\ pc'[th] = "dlock"
                                \/ pc[th] = "wsleep" /\ pc'[th] = "wlock"
  BY DEF CountDown, WakeTaskWaiters, TypeOK
<1>6. /\ pc' \in [Threads -> {pc'[th] : th \in Threads}]
      /\ \A v \in Workers \ {w} : pc'[v] = pc[v] /\ job'[v] = job[v]
      /\ pc'[Owner] = pc[Owner] /\ job'[Owner] = job[Owner]
      /\ job'[w] = None /\ \A c \in Clients : job'[c] = job[c]
  <2>1. pc' \in [Threads -> {pc'[th] : th \in Threads}]
    BY DEF CountDown, WakeTaskWaiters, TypeOK
  <2>2. /\ \A v \in Workers \ {w} : pc'[v] = pc[v] /\ job'[v] = job[v]
        /\ pc'[Owner] = pc[Owner] /\ job'[Owner] = job[Owner]
    BY <1>2, <1>5 DEF TypeOK, Kinds, WorkerPlaces, OwnerPlaces
  <2>3. job'[w] = None /\ \A c \in Clients : job'[c] = job[c]
    BY <1>2 DEF TypeOK
  <2>. QED
    BY <2>1, <2>2, <2>3
<1>7. TypeOK'
  <2>1. busy' \in [Tasks -> Nat] /\ job' \in [Threads -> Tasks \union {None}]
    BY <1>2, <1>3 DEF TypeOK
  <2>2. \A th \in Threads : pc'[th] \in Places
    BY <1>4, <1>5, <1>6 DEF Kinds, Places, WorkerPlaces, ClientPlaces, OwnerPlaces
  <2>3. pc' \in [Threads -> Places]
    BY <1>6, <2>2
  <2>. QED
    BY <1>2, <2>1, <2>3 DEF TypeOK, Places, WorkerPlaces, ClientPlaces, OwnerPlaces
<1>8. Kinds'
  <2>1. \A c \in Clients : pc'[c] \in ClientPlaces /\ (pc'[c] = "idle" <=> pc[c] = "idle")
    BY <1>5 DEF Kinds, ClientPlaces
  <2>2. \A v \in Workers : /\ pc'[v] \in WorkerPlaces
                           /\ job'[v] # None <=> pc'[v] \in {"exec", "count"}
    BY <1>4, <1>6 DEF Kinds, WorkerPlaces
  <2>. QED
    BY <1>6, <2>1, <2>2 DEF Kinds
<1>9. LockExact'
  BY <1>2, <1>4, <1>6 DEF LockExact
<1>10. Owned'
  <2>1. \A c \in Clients : /\ job'[c] = job[c] /\ (pc'[c] = "idle" <=> pc[c] = "idle")
                           /\ (pc'[c] = "free" <=> pc[c] = "free")
    BY <1>2, <1>5 DEF TypeOK
  <2>2. \A c \in Clients : pc[c] = "free" => job[c] \in Tasks /\ job[c] # t
    BY <1>3 DEF TypeOK, Kinds, Owned
  <2>3. \A u \in Tasks : (u # t => busy'[u] = busy[u]) /\ (busy'[u] > 0 => busy[u] > 0)
    BY <1>2, <1>3 DEF TypeOK
  <2>. QED
    BY <1>2, <2>1, <2>2, <2>3 DEF Owned
<1>11. OnceListed'
  BY <1>2, <1>5 DEF TypeOK, OnceListed
<1>12. Lifecycle'
  <2>1. /\ UNCHANGED <<tasks, tpRun, started, finished>>
        /\ pc[w] = "count" /\ pc'[w] = "lock" /\ pc'[Owner] = pc[Owner]
        /\ \A v \in Workers \ {w} : pc'[v] = pc[v]
        /\ finished \subseteq Workers
    BY <1>2, <1>4, <1>6 DEF TypeOK, CountDown, pool
  <2>2. \A c \in Clients : pc'[c] = "append" => pc[c] = "append"
    BY <1>5
  <2>3. \A v \in Workers : /\ pc'[v] \notin {"parked", "unborn"} => v \in started'
                           /\ pc'[v] = "exit" => tasks' = <<>> /\ pc'[Owner] \in {"join", "gone"}
    BY <2>1 DEF Lifecycle
  <2>4. \A v \in finished' : pc'[v] \in {"exit", "unborn"}
    BY <2>1 DEF Lifecycle
  <2>. QED
    BY <2>1, <2>2, <2>3, <2>4 DEF Lifecycle
<1>13. \A u \in Tasks : /\ Appending(u)' = Appending(u) /\ Executing(u)' = Executing(u)
                        /\ Listed(u)' = Listed(u)
                        /\ u # t => Holding(u)' = Holding(u)
  BY <1>1, <1>2, <1>4, <1>5, <1>6 DEF Executing, Holding, Appending, Listed
<1>14. w \in Holding(t) /\ Holding(t)' = Holding(t) \ {w}
  BY <1>1, <1>2, <1>4, <1>6 DEF Holding
<1>15. w \notin Holding(t)' /\ Holding(t) = Holding(t)' \union {w} /\ IsFiniteSet(Holding(t)')
  BY <1>14, Finite, FS_RemoveElement
<1>16. Cardinality(Holding(t)) = Cardinality(Holding(t)') + 1
  BY <1>15, OneMore
<1>17. BusyExact'
  <2> SUFFICES ASSUME NEW u \in Tasks
               PROVE  busy'[u] = Cardinality(Listed(u)') + Cardinality(Holding(u)')
                                 + Cardinality(Appending(u)')
    BY BusySumNext
  <2>1. busy[u] = Cardinality(Listed(u)) + Cardinality(Holding(u)) + Cardinality(Appending(u))
    BY BusySum DEF Counts
  <2>2. CASE u = t
    <3>1. busy'[t] = busy[t] - 1
      BY <1>2 DEF TypeOK
    <3>2. /\ Cardinality(Listed(t)') \in Nat /\ Cardinality(Holding(t)') \in Nat
          /\ Cardinality(Appending(t)') \in Nat
      BY <1>7, FiniteNext
    <3>. QED
      BY <1>13, <1>16, <2>1, <2>2, <3>1, <3>2
  <2>3. CASE u # t
    <3>1. busy'[u] = busy[u]
      BY <1>2, <2>3 DEF TypeOK
    <3>. QED
      BY <1>13, <2>1, <2>3, <3>1
  <2>. QED
    BY <2>2, <2>3
<1>18. RunsExact'
  BY <1>2, <1>13 DEF Counts, RunsExact
<1>. QED
  BY <1>7, <1>8, <1>9, <1>10, <1>11, <1>12, <1>17, <1>18 DEF Counts

(* run_task, second half: the run moves from the client to the list, and at *)
(* most one sleeping worker goes for the mutex.                             *)
LEMMA AppendTaskStep ==
    ASSUME IInv, NEW c \in Clients, AppendTask(c)
    PROVE  IInv'
<1>1. PICK t \in Tasks : t = job[c]
  BY DEF TypeOK, Kinds, AppendTask
<1>2. /\ pc[c] = "append" /\ job' = [job EXCEPT ![c] = None]
      /\ tasks' = Append(tasks, t) /\ runs' = [runs EXCEPT ![t] = @ + 1]
      /\ UNCHANGED <<tpMtx, pool, taskMtx, busy, mem, creator, execs>>
  BY <1>1 DEF AppendTask
<1>3. PICK p \in Signal(pc) : pc' = [p EXCEPT ![c] = "idle"]
  BY DEF AppendTask
<1>4. /\ p \in [Threads -> Places]
      /\ \A d \in Clients : p[d] = pc[d]
      /\ p[Owner] = pc[Owner]
      /\ \A w \in Workers : p[w] = pc[w] \/ (pc[w] = "sleep" /\ p[w] = "lock")
  <2>0. "lock" \in Places /\ pc \in [Threads -> Places]
    <3>1. \A th \in Threads : pc[th] \in Places
      BY DEF Kinds, Places
    <3>2. pc = [th \in Threads |-> pc[th]]
      BY DEF TypeOK
    <3>3. "lock" \in Places
      BY DEF WorkerPlaces, Places
    <3>. QED
      BY <3>1, <3>2, <3>3
  <2>1. CASE p = pc
    BY <2>0, <2>1
  <2>2. ASSUME NEW w \in Workers, pc[w] = "sleep", p = [pc EXCEPT ![w] = "lock"]
        PROVE  <1>4!:
    BY <2>0, <2>2
  <2>3. p = pc \/ \E w \in Workers : pc[w] = "sleep" /\ p = [pc EXCEPT ![w] = "lock"]
    BY <1>3 DEF Signal
  <2>. QED
    BY <2>1, <2>2, <2>3
<1>5. /\ pc' \in [Threads -> Places]
      /\ pc'[c] = "idle" /\ pc'[Owner] = pc[Owner]
      /\ \A d \in Clients \ {c} : pc'[d] = pc[d]
      /\ \A w \in Workers : pc'[w] = pc[w] \/ (pc[w] = "sleep" /\ pc'[w] = "lock")
  BY <1>3, <1>4 DEF Places, ClientPlaces
<1>6. /\ job'[c] = None /\ job'[Owner] = job[Owner]
      /\ \A d \in Clients \ {c} : job'[d] = job[d]
      /\ \A w \in Workers : job'[w] = job[w]
  BY <1>2 DEF TypeOK
<1>7. /\ tasks' \in Seq(Tasks) /\ Len(tasks') = Len(tasks) + 1 /\ Len(tasks) \in Nat
      /\ \A i \in 1..Len(tasks) : tasks'[i] = tasks[i]
      /\ tasks'[Len(tasks) + 1] = t
  BY <1>2, AppendProperties DEF TypeOK
<1>8. TypeOK'
  <2>1. runs' \in [Tasks -> Nat] /\ job' \in [Threads -> Tasks \union {None}]
    BY <1>2 DEF TypeOK
  <2>. QED
    BY <1>2, <1>5, <1>7, <2>1 DEF TypeOK, Places, WorkerPlaces, ClientPlaces, OwnerPlaces
<1>9. Kinds'
  <2>1. \A d \in Clients : pc'[d] \in ClientPlaces /\ (job'[d] # None <=> pc'[d] # "idle")
    BY <1>5, <1>6 DEF Kinds, ClientPlaces
  <2>2. \A w \in Workers : /\ pc'[w] \in WorkerPlaces
                           /\ job'[w] # None <=> pc'[w] \in {"exec", "count"}
    BY <1>5, <1>6 DEF Kinds, WorkerPlaces
  <2>. QED
    BY <1>5, <1>6, <2>1, <2>2 DEF Kinds
<1>10. LockExact'
  BY <1>2, <1>5 DEF LockExact
<1>11. Owned'
  BY <1>2, <1>5, <1>6 DEF Owned
<1>12. OnceListed'
  <2>1. \A i \in 1..Len(tasks) : tasks[i] # t
    BY <1>1, <1>2 DEF OnceListed
  <2>2. \A i, j \in 1..Len(tasks') : tasks'[i] = tasks'[j] => i = j
    BY <1>7, <2>1 DEF OnceListed
  <2>3. \A d \in Clients \ {c} : pc[d] = "append" => job[d] # t
    BY <1>1, <1>2 DEF Owned
  <2>4. \A d \in Clients : pc'[d] = "append" => d # c /\ pc[d] = "append" /\ job'[d] = job[d]
    BY <1>5, <1>6
  <2>5. \A d \in Clients : pc'[d] = "append" =>
                              \A i \in 1..Len(tasks') : tasks'[i] # job'[d]
    BY <1>7, <2>3, <2>4 DEF OnceListed
  <2>. QED
    BY <2>2, <2>5 DEF OnceListed
<1>13. Lifecycle'
  <2>1. pc[Owner] \notin {"stop", "join", "gone"}
    BY <1>2 DEF Lifecycle
  <2>2. \A w \in Workers : pc[w] # "exit" /\ pc'[w] # "exit"
    BY <1>5, <2>1 DEF Lifecycle
  <2>3. \A w \in finished' : pc'[w] \in {"exit", "unborn"}
    BY <1>2, <1>5 DEF Lifecycle, TypeOK
  <2>4. \A w \in Workers : pc'[w] \notin {"parked", "unborn"} => w \in started'
    BY <1>2, <1>5 DEF Lifecycle
  <2>. QED
    BY <1>2, <1>5, <2>1, <2>2, <2>3, <2>4 DEF Lifecycle
<1>14. \A u \in Tasks : /\ Executing(u)' = Executing(u) /\ Holding(u)' = Holding(u)
                        /\ u # t => Appending(u)' = Appending(u)
  BY <1>1, <1>5, <1>6 DEF Executing, Holding, Appending
<1>15. c \in Appending(t) /\ Appending(t)' = Appending(t) \ {c}
  BY <1>1, <1>2, <1>5, <1>6 DEF Appending
<1>16. c \notin Appending(t)' /\ Appending(t) = Appending(t)' \union {c} /\ IsFiniteSet(Appending(t)')
  BY <1>15, Finite, FS_RemoveElement
<1>17. Cardinality(Appending(t)) = Cardinality(Appending(t)') + 1
  BY <1>16, OneMore
<1>18. /\ Cardinality(Listed(t)') = Cardinality(Listed(t)) + 1
       /\ \A u \in Tasks : u # t => Cardinality(Listed(u)') = Cardinality(Listed(u))
  BY <1>2, SlotsAppend DEF Listed, TypeOK
<1>19. BusyExact'
  <2> SUFFICES ASSUME NEW u \in Tasks
               PROVE  busy'[u] = Cardinality(Listed(u)') + Cardinality(Holding(u)')
                                 + Cardinality(Appending(u)')
    BY BusySumNext
  <2>1. busy[u] = Cardinality(Listed(u)) + Cardinality(Holding(u)) + Cardinality(Appending(u))
    BY BusySum DEF Counts
  <2>2. busy' = busy
    BY <1>2
  <2>3. CASE u = t
    BY <1>8, <1>14, <1>17, <1>18, <2>1, <2>2, <2>3, Finite, FiniteNext
  <2>4. CASE u # t
    BY <1>14, <1>18, <2>1, <2>2, <2>4
  <2>. QED
    BY <2>3, <2>4
<1>20. RunsExact'
  <2> SUFFICES ASSUME NEW u \in Tasks
               PROVE  runs'[u] = execs'[u] + Cardinality(Listed(u)') + Cardinality(Executing(u)')
    BY DEF RunsExact
  <2>1. runs[u] = execs[u] + Cardinality(Listed(u)) + Cardinality(Executing(u))
    BY DEF Counts, RunsExact
  <2>2. CASE u = t
    <3>1. execs'[t] = execs[t] /\ execs[t] \in Nat /\ runs'[t] = runs[t] + 1
      BY <1>2 DEF TypeOK
    <3>. QED
      BY <1>14, <1>18, <2>1, <2>2, <3>1, Finite
  <2>3. CASE u # t
    <3>1. execs'[u] = execs[u] /\ runs'[u] = runs[u]
      BY <1>2, <2>3 DEF TypeOK
    <3>. QED
      BY <1>14, <1>18, <2>1, <2>3, <3>1
  <2>. QED
    BY <2>2, <2>3
<1>. QED
  BY <1>8, <1>9, <1>10, <1>11, <1>12, <1>13, <1>19, <1>20 DEF Counts

(* Before the pool exists nothing runs and nothing is counted.              *)
LEMMA InitIInv == Init => IInv
<1> SUFFICES ASSUME Init PROVE IInv
  OBVIOUS
<1> USE DEF Init
<1>0. PICK born \in SUBSET Workers :
          pc = [t \in Threads |-> CASE t \in born -> "parked"
                                   [] t \in Workers \ born -> "unborn"
                                   [] t \in Clients -> "idle"
                                   [] t = Owner -> "init"]
  BY TeamAssumption
<1>1. /\ \A w \in Workers : pc[w] \in {"parked", "unborn"}
      /\ \A c \in Clients : pc[c] = "idle"
      /\ pc[Owner] = "init"
      /\ \A th \in Threads : job[th] = None
      /\ tasks = <<>>
  BY <1>0
<1>2. TypeOK
  <2>1. pc \in [Threads -> {"parked", "unborn", "idle", "init"}]
    BY <1>0
  <2>2. pc \in [Threads -> {"parked", "lock", "look", "exec", "count", "sleep", "exit",
                           "idle", "append", "dlock", "dsleep", "free",
                           "wlock", "wsleep", "relock",
                           "init", "start", "up", "stop", "join", "gone", "unborn"}]
    BY <2>1
  <2>3. /\ mem \in [Tasks -> {"raw", "live", "freed"}] /\ busy \in [Tasks -> Nat]
        /\ runs \in [Tasks -> Nat] /\ execs \in [Tasks -> Nat]
    OBVIOUS
  <2>4. /\ tpMtx \in Workers \union {None} /\ tasks \in Seq(Tasks)
        /\ started \subseteq Workers /\ finished \subseteq Workers
    <3>1. tasks \in Seq(Tasks)
      BY <1>1
    <3>. QED
      BY <3>1
  <2>6. tpRun \in BOOLEAN
    BY Zenon
  <2>5. /\ taskMtx \in [Tasks -> Clients \union {None}] /\ creator \in [Tasks -> Clients \union {None}]
        /\ job \in [Threads -> Tasks \union {None}]
    OBVIOUS
  <2> HIDE DEF Init
  <2>. QED
    BY <2>2, <2>3, <2>4, <2>5, <2>6 DEF TypeOK
<1>3. Kinds /\ LockExact /\ Owned /\ OnceListed /\ Lifecycle
  BY <1>1 DEF Kinds, LockExact, Owned, OnceListed, Lifecycle, WorkerPlaces, ClientPlaces,
              OwnerPlaces
<1>4. \A t \in Tasks : Listed(t) = {} /\ Executing(t) = {} /\ Holding(t) = {} /\ Appending(t) = {}
  BY <1>1 DEF Listed, Slots, Executing, Holding, Appending
<1>5. \A t \in Tasks : /\ Cardinality(Listed(t)) = 0 /\ Cardinality(Executing(t)) = 0
                       /\ Cardinality(Holding(t)) = 0 /\ Cardinality(Appending(t)) = 0
  BY <1>4, FS_EmptySet, Zenon
<1>6. BusyExact
  BY <1>5, BusySum
<1>7. RunsExact
  BY <1>5 DEF RunsExact
<1>. QED
  BY <1>2, <1>3, <1>6, <1>7 DEF Counts

(* A step that changes nothing keeps the invariant.                         *)
LEMMA StutterStep == IInv /\ UNCHANGED vars => IInv'
<1> SUFFICES ASSUME IInv, UNCHANGED vars PROVE IInv'
  OBVIOUS
<1> USE DEF vars
<1>1. TypeOK' /\ Kinds' /\ LockExact'
  BY DEF TypeOK, Kinds, LockExact
<1>2. Owned' /\ OnceListed' /\ Lifecycle'
  BY DEF Owned, OnceListed, Lifecycle
<1>3. \A u \in Tasks : /\ Executing(u)' = Executing(u) /\ Holding(u)' = Holding(u)
                       /\ Appending(u)' = Appending(u)
  BY DEF Executing, Holding, Appending
<1>4. Counts'
  BY <1>3, CountsKept
<1>. QED
  BY <1>1, <1>2, <1>4

(* Every step keeps the invariant.                                          *)
LEMMA NextIInv == IInv /\ [Next]_vars => IInv'
<1> SUFFICES ASSUME IInv, [Next]_vars PROVE IInv'
  OBVIOUS
<1> HIDE DEF IInv
<1>1. ASSUME NEW w \in Workers, WorkerStep(w) \/ LockPool(w) PROVE IInv'
  BY <1>1, EnterStep, TakeTaskStep, CallbackReturnsStep, CountDownStep, LeaveStep,
     SleepWorkerStep, LockPoolStep DEF WorkerStep
<1>2. ASSUME NEW c \in Clients, ClientStep(c) \/ AppendTask(c) PROVE IInv'
  BY <1>2, DestroyWaitStep, FreeTaskStep, WaitForTaskStep, AppendTaskStep DEF ClientStep
<1>3. ASSUME NEW c \in Clients, ClientCall(c) PROVE IInv'
  BY <1>3, CreateTaskStep, CountUpStep, CallDestroyTaskStep, CallWaitTaskStep DEF ClientCall
<1>4. ASSUME NEW th \in Threads, SpuriousWakeup(th) PROVE IInv'
  BY <1>4, SpuriousWakeupStep
<1>5. CASE OwnerStep \/ StopPool \/ CallDestroyPool
  BY <1>5, SetRunStep, FreePoolStep, StartWorkerStep, FinishWorkerStep, StopPoolStep,
     CallDestroyPoolStep DEF OwnerStep
<1>6. CASE Quiescent \/ UNCHANGED vars
  BY <1>6, StutterStep DEF Quiescent
<1>. QED
  BY <1>1, <1>2, <1>3, <1>4, <1>5, <1>6 DEF Next

----------------------------------------------------------------------------
(* The invariant holds in every state of every execution.                   *)
LEMMA Invariance == Spec => []IInv
<1> HIDE DEF IInv
<1>. QED
  BY InitIInv, NextIInv, PTL DEF Spec, SafeSpec

(* Types: every variable of the pool stays in its range; in particular      *)
(* task_busy never goes below zero when a worker counts down (23).          *)
THEOREM TypeCorrect == Spec => []TypeOK
<1>1. IInv => TypeOK
  OBVIOUS
<1>. QED
  BY <1>1, Invariance, PTL

(* task_busy is the number of runs of the task that are about to be         *)
(* appended, on the list or in a worker's hands (23-27, 119, 136).          *)
THEOREM BusyIsExact == Spec => []BusyExact
<1>1. IInv => BusyExact
  BY DEF Counts
<1>. QED
  BY <1>1, Invariance, PTL

(* No task is on the list or in any thread's hands once destroy_task has    *)
(* freed it, and none is on the list twice.                                 *)
THEOREM NoTaskUsedAfterFree == Spec => []NoUseAfterFree
<1>1. IInv => NoUseAfterFree
  <2> SUFFICES ASSUME IInv PROVE NoUseAfterFree
    OBVIOUS
  <2>1. ASSUME NEW t \in Tasks, mem[t] = "freed"
        PROVE  t \notin Queued /\ \A th \in Threads : job[th] # t
    <3>1. ~(busy[t] > 0)
      BY <2>1 DEF Owned
    <3>2. Listed(t) = {} /\ Holding(t) = {}
      BY <3>1, InUse DEF Counts
    <3>3. t \notin Queued
      BY <3>2 DEF Listed, Slots, Queued
    <3>4. \A w \in Workers : job[w] # t
      BY <3>2 DEF Holding, Kinds
    <3>5. \A c \in Clients : job[c] # t
      BY <2>1 DEF Owned, Kinds
    <3>. QED
      BY <3>3, <3>4, <3>5 DEF Kinds
  <2>. QED
    BY <2>1 DEF NoUseAfterFree, OnceListed
<1>. QED
  BY <1>1, Invariance, PTL

(* When destroy_task_processor has returned every worker has left, and if   *)
(* there was one the list is empty and every submitted run was executed.    *)
THEOREM DrainsBeforeReturning == Spec => []DrainedAtShutdown
<1>1. IInv => DrainedAtShutdown
  <2> SUFFICES ASSUME IInv, pc[Owner] = "gone"
               PROVE  /\ Manned => tasks = <<>> /\ execs = runs
                      /\ tpMtx = None /\ \A w \in Workers : pc[w] \in {"exit", "unborn"}
    BY DEF DrainedAtShutdown
  <2>1. \A w \in Workers : pc[w] \in {"exit", "unborn"}
    BY DEF Lifecycle
  <2>2. Manned => tasks = <<>>
    BY <2>1 DEF Lifecycle, Manned
  <2>3. tpMtx = None
    BY <2>1 DEF LockExact, TypeOK
  <2>4. ASSUME Manned PROVE \A t \in Tasks : Listed(t) = {} /\ Executing(t) = {}
    BY <2>1, <2>2, <2>4 DEF Listed, Slots, Executing
  <2>5. ASSUME Manned PROVE \A t \in Tasks : runs[t] = execs[t]
    <3>1. \A t \in Tasks : Cardinality(Listed(t)) = 0 /\ Cardinality(Executing(t)) = 0
      BY <2>4, <2>5, FS_EmptySet, Zenon
    <3>. QED
      BY <3>1 DEF Counts, RunsExact, TypeOK
  <2>6. Manned => execs = runs
    BY <2>5 DEF TypeOK
  <2>. QED
    BY <2>1, <2>2, <2>3, <2>6
<1>. QED
  BY <1>1, Invariance, PTL
=============================================================================
