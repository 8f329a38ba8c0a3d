------------------------ MODULE ThreadManagerProofs ------------------------
(***************************************************************************)
(* Proofs about ThreadManager, for any set of callers and any number of    *)
(* calls.                                                                  *)
(***************************************************************************)
EXTENDS ThreadManager, TLAPS

(* As long as there is a mutex, it is held exactly by the thread that is   *)
(* inside a critical section.                                              *)
MutexInv ==
    \A t \in Threads :
        mtx = t <=> syncLive /\ pc[t] \in {"body", "check", "test", "finish"}

(* How far the manager's thread has come, what became of the function, and *)
(* what `done' says about it.                                              *)
WorkerInv ==
    /\ fn \in {"raw", "none"} <=> pc[Worker] = "unborn"
    /\ fn = "pending" <=> \/ pc[Worker] \in {"lock", "test", "waiting", "relock"}
                          \/ pc[Worker] = "branch" /\ wstart
    /\ fn = "running" <=> pc[Worker] = "fn"
    /\ pc[Worker] = "branch" /\ wstart => start
    /\ pc[Worker] \in {"test", "waiting", "relock", "lock"} => fn = "pending"
    /\ done <=> (pc[Worker] = "exit" \/ fn = "none")
    /\ fn = "skipped" => stop /\ ~runFirst
    /\ runFirst => start

(* Before creation nothing has happened; a closing call that returned saw  *)
(* `done' and set `stop', unless it found a manager without a thread.      *)
JoinInv ==
    /\ fn = "raw" => /\ ~start /\ ~stop /\ ~joined /\ ~freed /\ ~syncLive
                     /\ \A c \in Callers : pc[c] = "idle"
    /\ fn \in {"pending", "running", "returned", "skipped"} => fnGiven
    /\ joined => done /\ (stop \/ fn = "none")
    /\ \A c \in Callers : pc[c] \in {"check", "waiting", "relock", "destroy"} => stop
    /\ \A c \in Callers : pc[c] = "destroy" => done /\ joined

(* finish and destroy run alone, and only they and a failed creation       *)
(* destroy the mutex; after a failed creation nobody sleeps on the cv.     *)
SyncInv ==
    /\ \A c, d \in Callers :
          c # d /\ pc[c] # "idle" /\ pc[d] # "idle" => op[c] \in {"run", "wait"}
    /\ \A c \in Callers : pc[c] = "destroy" => op[c] \in {"finish", "destroy"}
    /\ \A c \in Callers :
          /\ pc[c] \in {"check", "waiting", "relock"} => op[c] \in Closing
    /\ fn # "raw" /\ ~CreationFailed => (init <=> syncLive)
    /\ CreationFailed => /\ ~syncLive
                         /\ \A c \in Callers : pc[c] \notin {"waiting", "relock"}
    /\ ~syncLive /\ fn # "raw" => done
    /\ ~syncLive /\ ~CreationFailed => \A c \in Callers : pc[c] = "idle"
    /\ ~syncLive /\ fn # "raw" /\ ~CreationFailed => joined
    /\ freed => ~syncLive /\ \A c \in Callers : pc[c] = "idle"

IInv == TypeOK /\ MutexInv /\ WorkerInv /\ JoinInv /\ SyncInv

----------------------------------------------------------------------------
USE DEF Threads, Ops, Closing

(* The invariant holds before the manager is created.                       *)
LEMMA InitIInv == Init => IInv
<1> SUFFICES ASSUME Init PROVE IInv
  OBVIOUS
<1> USE WorkerAssumption, BoundAssumption DEF Init
<1>1. TypeOK
  <2>1. pc \in [Threads -> CallerPlaces \union WorkerPlaces]
    BY DEF CallerPlaces, WorkerPlaces
  <2>2. pc[Worker] \in WorkerPlaces /\ \A c \in Callers : pc[c] \in CallerPlaces
    BY DEF CallerPlaces, WorkerPlaces
  <2>3. op \in [Callers -> Ops] /\ calls \in 0..MaxCalls /\ mtx \in Threads \union {None}
    OBVIOUS
  <2>4. QED  BY <2>1, <2>2, <2>3 DEF TypeOK
<1>2. MutexInv
  BY DEF MutexInv
<1>3. WorkerInv
  BY DEF WorkerInv
<1>4. JoinInv
  BY DEF JoinInv
<1>5. SyncInv
  BY DEF SyncInv, CreationFailed
<1>6. QED  BY <1>1, <1>2, <1>3, <1>4, <1>5 DEF IInv

(* Every step of init_gp_thr_manager, of the callers and of gp_tmr_wrap      *)
(* preserves it, whether or not the thread could be created.                 *)
LEMMA NextIInv ==
    ASSUME IInv, [Next]_vars
    PROVE  IInv'
<1> USE WorkerAssumption, BoundAssumption
<1>1. CASE InitNoFunction
  <2> USE <1>1 DEF InitNoFunction, flags, life, history
  <2>1. TypeOK'
    BY DEF IInv, TypeOK
  <2>2. MutexInv'
    BY DEF IInv, TypeOK, MutexInv, WorkerInv, JoinInv
  <2>3. WorkerInv'
    BY DEF IInv, TypeOK, MutexInv, WorkerInv, JoinInv
  <2>4. JoinInv'
    BY DEF IInv, TypeOK, MutexInv, WorkerInv, JoinInv, SyncInv, CreationFailed
  <2>5. SyncInv'
    BY DEF IInv, TypeOK, MutexInv, WorkerInv, JoinInv, SyncInv, CreationFailed
  <2>6. QED  BY <2>1, <2>2, <2>3, <2>4, <2>5 DEF IInv
<1>2. CASE InitThreadFails
  <2> USE <1>2 DEF InitThreadFails, flags, life, history
  <2>1. TypeOK'
    BY DEF IInv, TypeOK
  <2>2. MutexInv'
    BY DEF IInv, TypeOK, MutexInv, WorkerInv, JoinInv
  <2>3. WorkerInv'
    BY DEF IInv, TypeOK, MutexInv, WorkerInv, JoinInv
  <2>4. JoinInv'
    BY DEF IInv, TypeOK, MutexInv, WorkerInv, JoinInv, SyncInv, CreationFailed
  <2>5. SyncInv'
    BY DEF IInv, TypeOK, MutexInv, WorkerInv, JoinInv, SyncInv, CreationFailed
  <2>6. QED  BY <2>1, <2>2, <2>3, <2>4, <2>5 DEF IInv
<1>3. CASE InitSucceeds
  <2> USE <1>3 DEF InitSucceeds, flags, life, history
  <2>1. TypeOK'
    BY DEF IInv, TypeOK, CallerPlaces, WorkerPlaces
  <2>2. MutexInv'
    BY DEF IInv, TypeOK, MutexInv, WorkerInv, JoinInv
  <2>3. WorkerInv'
    BY DEF IInv, TypeOK, MutexInv, WorkerInv, JoinInv
  <2>4. JoinInv'
    BY DEF IInv, TypeOK, MutexInv, WorkerInv, JoinInv, SyncInv, CreationFailed
  <2>5. SyncInv'
    BY DEF IInv, TypeOK, MutexInv, WorkerInv, JoinInv, SyncInv, CreationFailed
  <2>6. QED  BY <2>1, <2>2, <2>3, <2>4, <2>5 DEF IInv
<1>4. ASSUME NEW c \in Callers, NEW o \in Ops, Enter(c, o) PROVE IInv'
  <2> USE <1>4 DEF Enter, MayCall, CreationFailed, flags, life, history
  <2>1. TypeOK'
    BY DEF IInv, TypeOK, CallerPlaces, WorkerPlaces
  <2>2. MutexInv'
    BY DEF IInv, TypeOK, MutexInv
  <2>3. WorkerInv'
    BY DEF IInv, TypeOK, MutexInv, WorkerInv, JoinInv
  <2>4. JoinInv'
    BY DEF IInv, TypeOK, MutexInv, WorkerInv, JoinInv, SyncInv, CreationFailed
  <2>5. SyncInv'
    BY DEF IInv, TypeOK, MutexInv, WorkerInv, JoinInv, SyncInv, CreationFailed
  <2>6. QED  BY <2>1, <2>2, <2>3, <2>4, <2>5 DEF IInv
<1>5. ASSUME NEW c \in Callers, NEW o \in Ops, EarlyReturn(c, o) PROVE IInv'
  <2> USE <1>5 DEF EarlyReturn, MayCall, CreationFailed, flags, life, history
  <2>1. TypeOK'
    BY DEF IInv, TypeOK
  <2>2. MutexInv'
    BY DEF IInv, TypeOK, MutexInv
  <2>3. WorkerInv'
    BY DEF IInv, TypeOK, MutexInv, WorkerInv, JoinInv
  <2>4. JoinInv'
    BY DEF IInv, TypeOK, MutexInv, WorkerInv, JoinInv, SyncInv, CreationFailed
  <2>5. SyncInv'
    BY DEF IInv, TypeOK, MutexInv, WorkerInv, JoinInv, SyncInv, CreationFailed
  <2>6. QED  BY <2>1, <2>2, <2>3, <2>4, <2>5 DEF IInv
<1>6. ASSUME NEW t \in Threads, Lock(t) PROVE IInv'
  <2> USE <1>6 DEF Lock, AfterLock, flags, life, history
  <2>1. TypeOK'
    BY DEF IInv, TypeOK, CallerPlaces, WorkerPlaces
  <2>2. MutexInv'
    BY DEF IInv, TypeOK, MutexInv
  <2>3. WorkerInv'
    BY DEF IInv, TypeOK, MutexInv, WorkerInv, JoinInv
  <2>4. JoinInv'
    BY DEF IInv, TypeOK, MutexInv, WorkerInv, JoinInv, SyncInv, CreationFailed,
           CallerPlaces
  <2>5. SyncInv'
    BY DEF IInv, TypeOK, MutexInv, WorkerInv, JoinInv, SyncInv, CreationFailed,
           CallerPlaces
  <2>6. QED  BY <2>1, <2>2, <2>3, <2>4, <2>5 DEF IInv
<1>7. ASSUME NEW t \in Threads, SpuriousWakeup(t) PROVE IInv'
  <2> USE <1>7 DEF SpuriousWakeup, flags, life, history
  <2>1. TypeOK'
    BY DEF IInv, TypeOK, CallerPlaces, WorkerPlaces
  <2>2. MutexInv'
    BY DEF IInv, TypeOK, MutexInv
  <2>3. WorkerInv'
    BY DEF IInv, TypeOK, MutexInv, WorkerInv, JoinInv
  <2>4. JoinInv'
    BY DEF IInv, TypeOK, MutexInv, WorkerInv, JoinInv, SyncInv, CreationFailed
  <2>5. SyncInv'
    BY DEF IInv, TypeOK, MutexInv, WorkerInv, JoinInv, SyncInv, CreationFailed
  <2>6. QED  BY <2>1, <2>2, <2>3, <2>4, <2>5 DEF IInv
<1>8. CASE WrapSleep
  <2> USE <1>8 DEF WrapSleep, flags, life, history
  <2>1. TypeOK'
    BY DEF IInv, TypeOK, CallerPlaces, WorkerPlaces
  <2>2. MutexInv'
    BY DEF IInv, TypeOK, MutexInv
  <2>3. WorkerInv'
    BY DEF IInv, TypeOK, MutexInv, WorkerInv, JoinInv
  <2>4. JoinInv'
    BY DEF IInv, TypeOK, MutexInv, WorkerInv, JoinInv, SyncInv, CreationFailed
  <2>5. SyncInv'
    BY DEF IInv, TypeOK, MutexInv, WorkerInv, JoinInv, SyncInv, CreationFailed
  <2>6. QED  BY <2>1, <2>2, <2>3, <2>4, <2>5 DEF IInv
<1>9. CASE WrapProceed
  <2> USE <1>9 DEF WrapProceed, flags, life, history
  <2>1. TypeOK'
    BY DEF IInv, TypeOK, CallerPlaces, WorkerPlaces
  <2>2. MutexInv'
    BY DEF IInv, TypeOK, MutexInv
  <2>3. WorkerInv'
    BY DEF IInv, TypeOK, MutexInv, WorkerInv, JoinInv
  <2>4. JoinInv'
    BY DEF IInv, TypeOK, MutexInv, WorkerInv, JoinInv, SyncInv, CreationFailed
  <2>5. SyncInv'
    BY DEF IInv, TypeOK, MutexInv, WorkerInv, JoinInv, SyncInv, CreationFailed
  <2>6. QED  BY <2>1, <2>2, <2>3, <2>4, <2>5 DEF IInv
<1>10. CASE WrapBranch
  <2> USE <1>10 DEF WrapBranch, flags, life, history
  <2>1. TypeOK'
    BY DEF IInv, TypeOK, CallerPlaces, WorkerPlaces
  <2>2. MutexInv'
    BY DEF IInv, TypeOK, MutexInv
  <2>3. WorkerInv'
    BY DEF IInv, TypeOK, MutexInv, WorkerInv, JoinInv
  <2>4. JoinInv'
    BY DEF IInv, TypeOK, MutexInv, WorkerInv, JoinInv, SyncInv, CreationFailed
  <2>5. SyncInv'
    BY DEF IInv, TypeOK, MutexInv, WorkerInv, JoinInv, SyncInv, CreationFailed
  <2>6. QED  BY <2>1, <2>2, <2>3, <2>4, <2>5 DEF IInv
<1>11. CASE FnReturns
  <2> USE <1>11 DEF FnReturns, flags, life, history
  <2>1. TypeOK'
    BY DEF IInv, TypeOK, CallerPlaces, WorkerPlaces
  <2>2. MutexInv'
    BY DEF IInv, TypeOK, MutexInv
  <2>3. WorkerInv'
    BY DEF IInv, TypeOK, MutexInv, WorkerInv, JoinInv
  <2>4. JoinInv'
    BY DEF IInv, TypeOK, MutexInv, WorkerInv, JoinInv, SyncInv, CreationFailed
  <2>5. SyncInv'
    BY DEF IInv, TypeOK, MutexInv, WorkerInv, JoinInv, SyncInv, CreationFailed
  <2>6. QED  BY <2>1, <2>2, <2>3, <2>4, <2>5 DEF IInv
<1>12. CASE WrapDone
  <2> USE <1>12 DEF WrapDone, Broadcast, flags, life, history
  <2>1. TypeOK'
    BY DEF IInv, TypeOK, CallerPlaces, WorkerPlaces
  <2>2. MutexInv'
    BY DEF IInv, TypeOK, MutexInv
  <2>3. WorkerInv'
    BY DEF IInv, TypeOK, MutexInv, WorkerInv, JoinInv
  <2>4. JoinInv'
    BY DEF IInv, TypeOK, MutexInv, WorkerInv, JoinInv, SyncInv, CreationFailed
  <2>5. SyncInv'
    BY DEF IInv, TypeOK, MutexInv, WorkerInv, JoinInv, SyncInv, CreationFailed
  <2>6. QED  BY <2>1, <2>2, <2>3, <2>4, <2>5 DEF IInv
<1>13. ASSUME NEW c \in Callers, RunBody(c) PROVE IInv'
  <2> USE <1>13 DEF RunBody, Broadcast, flags, life, history
  <2>1. TypeOK'
    BY DEF IInv, TypeOK, CallerPlaces, WorkerPlaces
  <2>2. MutexInv'
    BY DEF IInv, TypeOK, MutexInv
  <2>3. WorkerInv'
    BY DEF IInv, TypeOK, MutexInv, WorkerInv, JoinInv
  <2>4. JoinInv'
    BY DEF IInv, TypeOK, MutexInv, WorkerInv, JoinInv, SyncInv, CreationFailed
  <2>5. SyncInv'
    BY DEF IInv, TypeOK, MutexInv, WorkerInv, JoinInv, SyncInv, CreationFailed
  <2>6. QED  BY <2>1, <2>2, <2>3, <2>4, <2>5 DEF IInv
<1>14. ASSUME NEW c \in Callers, StopBody(c) PROVE IInv'
  <2> USE <1>14 DEF StopBody, Broadcast, flags, life, history
  <2>1. TypeOK'
    BY DEF IInv, TypeOK, CallerPlaces, WorkerPlaces
  <2>2. MutexInv'
    BY DEF IInv, TypeOK, MutexInv
  <2>3. WorkerInv'
    BY DEF IInv, TypeOK, MutexInv, WorkerInv, JoinInv
  <2>4. JoinInv'
    BY DEF IInv, TypeOK, MutexInv, WorkerInv, JoinInv, SyncInv, CreationFailed
  <2>5. SyncInv'
    BY DEF IInv, TypeOK, MutexInv, WorkerInv, JoinInv, SyncInv, CreationFailed
  <2>6. QED  BY <2>1, <2>2, <2>3, <2>4, <2>5 DEF IInv
<1>15. ASSUME NEW c \in Callers, Sleep(c) PROVE IInv'
  <2> USE <1>15 DEF Sleep, flags, life, history
  <2>1. TypeOK'
    BY DEF IInv, TypeOK, CallerPlaces, WorkerPlaces
  <2>2. MutexInv'
    BY DEF IInv, TypeOK, MutexInv
  <2>3. WorkerInv'
    BY DEF IInv, TypeOK, MutexInv, WorkerInv, JoinInv
  <2>4. JoinInv'
    BY DEF IInv, TypeOK, MutexInv, WorkerInv, JoinInv, SyncInv, CreationFailed
  <2>5. SyncInv'
    BY DEF IInv, TypeOK, MutexInv, WorkerInv, JoinInv, SyncInv, CreationFailed
  <2>6. QED  BY <2>1, <2>2, <2>3, <2>4, <2>5 DEF IInv
<1>16. ASSUME NEW c \in Callers, Joined(c) PROVE IInv'
  <2> USE <1>16 DEF Joined, flags, life, history
  <2>1. TypeOK'
    BY DEF IInv, TypeOK, CallerPlaces, WorkerPlaces
  <2>2. MutexInv'
    BY DEF IInv, TypeOK, MutexInv
  <2>3. WorkerInv'
    BY DEF IInv, TypeOK, MutexInv, WorkerInv, JoinInv
  <2>4. JoinInv'
    BY DEF IInv, TypeOK, MutexInv, WorkerInv, JoinInv, SyncInv, CreationFailed
  <2>5. SyncInv'
    BY DEF IInv, TypeOK, MutexInv, WorkerInv, JoinInv, SyncInv, CreationFailed
  <2>6. QED  BY <2>1, <2>2, <2>3, <2>4, <2>5 DEF IInv
<1>17. ASSUME NEW c \in Callers, DestroySync(c) PROVE IInv'
  <2> USE <1>17 DEF DestroySync, flags, life, history
  <2>1. TypeOK'
    <3>1. pc' \in [Threads -> CallerPlaces \union WorkerPlaces]
      BY DEF IInv, TypeOK, CallerPlaces
    <3>2. pc'[Worker] \in WorkerPlaces
      BY DEF IInv, TypeOK, Threads
    <3>3. \A d \in Callers : pc'[d] \in CallerPlaces
      BY DEF IInv, TypeOK, Threads, CallerPlaces
    <3>4. init' \in BOOLEAN /\ syncLive' \in BOOLEAN /\ freed' \in BOOLEAN
      OBVIOUS
    <3>5. UNCHANGED <<mtx, start, stop, done, op, wstart, fn, fnGiven, runFirst, joined, calls>>
      OBVIOUS
    <3>6. TypeOK
      BY DEF IInv
    <3> HIDE <1>17 DEF DestroySync
    <3>7. QED  BY <3>1, <3>2, <3>3, <3>4, <3>5, <3>6 DEF TypeOK
  <2>2. MutexInv'
    BY DEF IInv, TypeOK, MutexInv, WorkerInv, JoinInv, SyncInv
  <2>3. WorkerInv'
    BY DEF IInv, TypeOK, MutexInv, WorkerInv, JoinInv
  <2>4. JoinInv'
    BY DEF IInv, TypeOK, MutexInv, WorkerInv, JoinInv, SyncInv, CreationFailed
  <2>5. SyncInv'
    BY DEF IInv, TypeOK, MutexInv, WorkerInv, JoinInv, SyncInv, CreationFailed
  <2>6. QED  BY <2>1, <2>2, <2>3, <2>4, <2>5 DEF IInv
<1>18. CASE UNCHANGED vars
  BY <1>18 DEF vars, IInv, TypeOK, MutexInv, WorkerInv, JoinInv, SyncInv, CreationFailed
<1>19. QED
  BY <1>1, <1>2, <1>3, <1>4, <1>5, <1>6, <1>7, <1>8, <1>9, <1>10, <1>11, <1>12, <1>13, <1>14, <1>15, <1>16, <1>17, <1>18
     DEF Next, WorkerStep, CallerStep, Quiescent

(* The flags, the mutex and the threads' positions keep their types.        *)
THEOREM TypeCorrect ==
    SafeSpec => []TypeOK
<1>1. IInv => TypeOK
  BY DEF IInv
<1>2. IInv /\ [Next]_vars => IInv'
  BY NextIInv
<1>3. QED
  BY InitIInv, <1>1, <1>2, PTL DEF SafeSpec

(* For any number of threads calling run, wait, finish and destroy: when a   *)
(* closing call has returned, the function is over, and it was executed if a *)
(* run came first and the thread could be created.                           *)
THEOREM JoinCorrect ==
    SafeSpec => []JoinComplete
<1>1. IInv => JoinComplete
  BY DEF IInv, TypeOK, WorkerInv, JoinInv, SyncInv, JoinComplete, CreationFailed, WorkerPlaces
<1>2. IInv /\ [Next]_vars => IInv'
  BY NextIInv
<1>3. QED
  BY InitIInv, <1>1, <1>2, PTL DEF SafeSpec

(* finish never destroys the mutex or the cv under a thread that still uses  *)
(* them, destroy never frees the manager under its own thread or a caller,   *)
(* and no call on a manager whose creation failed sleeps.                    *)
THEOREM DestroySafe ==
    SafeSpec => []NoUseAfterDestroy
<1>1. IInv => NoUseAfterDestroy
  BY DEF IInv, TypeOK, WorkerInv, JoinInv, SyncInv, NoUseAfterDestroy, UsesSync,
         WorkerPlaces, CreationFailed
<1>2. IInv /\ [Next]_vars => IInv'
  BY NextIInv
<1>3. QED
  BY InitIInv, <1>1, <1>2, PTL DEF SafeSpec

----------------------------------------------------------------------------
(* Each step of the manager is a step of the job its users see, or changes   *)
(* nothing they can see.                                                     *)
LEMMA StepIsJobStep ==
    ASSUME IInv, [Next]_vars
    PROVE  [Job!Next]_(Job!vars)
<1> USE WorkerAssumption DEF Job!Next, Job!vars, flags, life, history
<1>1. CASE InitNoFunction \/ InitThreadFails \/ InitSucceeds
  BY <1>1 DEF InitNoFunction, InitThreadFails, InitSucceeds, Job!Create
<1>2. ASSUME NEW c \in Callers, NEW o \in Ops, Enter(c, o) PROVE [Job!Next]_(Job!vars)
  BY <1>2 DEF Enter
<1>3. ASSUME NEW c \in Callers, NEW o \in Ops, EarlyReturn(c, o) PROVE [Job!Next]_(Job!vars)
  <2>1. joined \/ fn = "none"
    BY <1>3 DEF EarlyReturn, MayCall, CreationFailed, IInv, TypeOK, SyncInv
  <2>2. QED  BY <1>3, <2>1 DEF EarlyReturn, IInv, TypeOK, Job!Join, Job!Over
<1>4. ASSUME NEW t \in Threads, Lock(t) \/ SpuriousWakeup(t) PROVE [Job!Next]_(Job!vars)
  BY <1>4 DEF Lock, SpuriousWakeup
<1>5. CASE WrapSleep
  BY <1>5 DEF WrapSleep
<1>6. CASE WrapProceed
  BY <1>6 DEF WrapProceed, IInv, TypeOK, WorkerInv, Job!Skip
<1>7. CASE WrapBranch
  BY <1>7 DEF WrapBranch, IInv, TypeOK, WorkerInv, Job!Begin
<1>8. CASE FnReturns
  BY <1>8 DEF FnReturns, IInv, WorkerInv, Job!End
<1>9. CASE WrapDone
  BY <1>9 DEF WrapDone
<1>10. ASSUME NEW c \in Callers, RunBody(c) PROVE [Job!Next]_(Job!vars)
  BY <1>10 DEF RunBody, IInv, JoinInv, Job!Request
<1>11. ASSUME NEW c \in Callers, StopBody(c) PROVE [Job!Next]_(Job!vars)
  BY <1>11 DEF StopBody, IInv, JoinInv, Job!Close
<1>12. ASSUME NEW c \in Callers, Sleep(c) \/ DestroySync(c) PROVE [Job!Next]_(Job!vars)
  BY <1>12 DEF Sleep, DestroySync
<1>13. ASSUME NEW c \in Callers, Joined(c) PROVE [Job!Next]_(Job!vars)
  BY <1>13 DEF Joined, IInv, TypeOK, WorkerInv, JoinInv, WorkerPlaces, Job!Join, Job!Over
<1>14. CASE UNCHANGED vars
  BY <1>14 DEF vars
<1>15. QED
  BY <1>1, <1>2, <1>3, <1>4, <1>5, <1>6, <1>7, <1>8, <1>9, <1>10, <1>11, <1>12, <1>13, <1>14
     DEF Next, WorkerStep, CallerStep, Quiescent

(* gp_thread.c implements the one-shot job, for any set of callers.          *)
THEOREM RefinesJob ==
    SafeSpec => Job!SafeSpec
<1>1. Init => Job!Init
  BY DEF Init, Job!Init
<1>2. IInv /\ [Next]_vars => IInv'
  BY NextIInv
<1>3. IInv /\ [Next]_vars => [Job!Next]_(Job!vars)
  BY StepIsJobStep
<1>4. QED
  BY InitIInv, <1>1, <1>2, <1>3, PTL DEF SafeSpec, Job!SafeSpec
=============================================================================
