--------------------------- MODULE ReactorProofs ---------------------------
(***************************************************************************)
(* Proofs about Reactor, for any set of descriptors and any bounds: the    *)
(* reference count of a connection is exact between handlers, nothing that *)
(* was freed is touched, callbacks come in their order, waiting output is  *)
(* watched and written in the order of the calls, and the loop does not go *)
(* to sleep on queued work.                                                *)
(***************************************************************************)
EXTENDS Reactor, FiniteSetTheorems, FunctionTheorems, SequenceTheorems,
        WellFoundedInduction, TLAPS

Fields == {"mem", "state", "ref", "ev", "index", "epoll", "dict", "out", "shut",
           "bad", "cb", "holds", "calls", "wrote"}
States == {"connecting", "connected", "disconnecting", "disconnected"}
UpStates == {"connected", "disconnecting"}
TaskSet == [kind : Kinds, fd : Fds, data : Seq(Bytes)]

(* One connection by itself: types, nothing freed was touched, the index    *)
(* says whether the kernel knows the handler, and while the connection is   *)
(* up it is watched for reading, its output for writing, and nothing is     *)
(* waiting or watched after SHUT_WR.                                        *)
IsConn(k) ==
    /\ DOMAIN k = Fields
    /\ k.mem \in {"free", "live"} /\ k.state \in States
    /\ k.ref \in Nat /\ k.holds \in Nat /\ k.calls \in Nat
    /\ k.ev \subseteq {"r", "w"} /\ k.index \in {"new", "added", "deleted"}
    /\ k.epoll \in BOOLEAN /\ k.dict \in BOOLEAN /\ k.shut \in BOOLEAN
    /\ k.out \in Seq(Bytes)
    /\ k.bad = FALSE
    /\ k.epoll <=> k.index = "added"
    /\ k.state \in UpStates =>
          /\ "r" \in k.ev /\ k.index = "added"
          /\ k.out # <<>> => "w" \in k.ev
          /\ k.shut => "w" \notin k.ev

(* The entries of q that are in S.                                          *)
Marks(q, S) == {i \in 1..Len(q) : q[i] \in S}
Of(c) == {t \in TaskSet : t.fd = c}
DestroyOf(c) == {t \in TaskSet : t.fd = c /\ t.kind = "destroy"}
NT(q, c) == Cardinality(Marks(q, Of(c)))
ND(q, c) == Cardinality(Marks(q, DestroyOf(c)))

(* The count of a connection with nt queued tasks when the handlers that    *)
(* are in progress hold n references.                                       *)
Counted(k, nt, n) ==
    /\ k.mem = "live" => /\ k.ref > 0
                         /\ k.dict => k.ref = nt + k.holds + n + 1
                         /\ ~k.dict => k.ref = nt + k.holds + n
    /\ k.mem = "free" => nt = 0 /\ n = 0 /\ k.holds = 0 /\ ~k.dict /\ ~k.epoll

(* Between handlers: the dictionary lists what is up, a connection that     *)
(* went down is on its way to connection_destroyed at most once, and a      *)
(* handler the kernel knows is not beyond that.                             *)
Settled(k, nd) ==
    k.mem = "live" =>
        /\ k.dict <=> k.state \in UpStates
        /\ k.dict => nd = 0 /\ k.cb = "up"
        /\ ~k.dict => nd <= 1 /\ k.state = "disconnected" /\ k.cb = "down"
        /\ k.epoll => k.dict \/ nd > 0

(* A reported handler belongs to a connection that is up.                   *)
ActiveOK ==
    /\ phase # "events" => active = <<>>
    /\ \A i \in 1..Len(active) : active[i].h \in Fds =>
          conn[active[i].h].mem = "live" /\ conn[active[i].h].dict
    /\ \A i, j \in 1..Len(active) : active[i].h = active[j].h => i = j

(* Work that is left when the loop is about to poll has woken it.           *)
Woken ==
    /\ phase \in {"stopped", "test", "timers", "poll"} /\ pending # <<>> =>
          wake \/ (silent /\ phase \in {"timers", "poll"})
    /\ phase \in {"timers", "poll"} /\ quit => wake \/ silent

Types ==
    /\ conn = [c \in Fds |-> conn[c]]
    /\ pending \in Seq(TaskSet)
    /\ wake \in BOOLEAN /\ quit \in BOOLEAN /\ listening \in BOOLEAN
    /\ phase \in {"stopped", "test", "timers", "poll", "events", "functors"}
    /\ active \in Seq([h : Fds \union {WakeupFd, ListenFd},
                       revents : SUBSET {"in", "out", "hup"}])

ConnsOK ==
    \A c \in Fds : /\ IsConn(conn[c])
                   /\ Counted(conn[c], NT(pending, c), 0)
                   /\ Settled(conn[c], ND(pending, c))

(* Outside the handling of events the kernel knows only connections that    *)
(* are listed: one that write events brought back after it went down is     *)
(* destroyed before the loop looks at its condition again.                  *)
Quiet ==
    phase \in {"stopped", "test", "timers", "poll"} =>
        \A c \in Fds : conn[c].epoll => conn[c].dict

IInv == Types /\ ConnsOK /\ ActiveOK /\ Woken /\ Quiet

----------------------------------------------------------------------------
(* What nearly every function leaves alone: whose connection it is and what *)
(* the user has seen of it.                                                 *)
Same(k, v) ==
    /\ IsConn(v)
    /\ v.mem = k.mem /\ v.state = k.state /\ v.dict = k.dict /\ v.holds = k.holds
    /\ v.cb = k.cb

(* The memory is given back.                                                *)
Dead(v) ==
    IsConn(v) /\ v.mem = "free" /\ ~v.dict /\ v.holds = 0 /\ ~v.epoll

(* The smaller of two numbers.                                              *)
LEMMA MinOfTwo ==
    ASSUME NEW a \in Int, NEW b \in Int
    PROVE  Min({a, b}) = IF a <= b THEN a ELSE b
<1>1. \A x \in {a, b} : (\A y \in {a, b} : x <= y) <=> x = IF a <= b THEN a ELSE b
  OBVIOUS
<1>2. (IF a <= b THEN a ELSE b) \in {a, b}
  OBVIOUS
<1>. QED
  BY <1>1, <1>2 DEF Min

(* Touching a live connection changes nothing.                              *)
LEMMA TouchKeeps ==
    ASSUME NEW k, IsConn(k), k.mem = "live"
    PROVE  /\ Same(k, Touch(k)) /\ Touch(k).ref = k.ref /\ Touch(k).epoll = k.epoll
           /\ Touch(k).ev = k.ev /\ Touch(k).index = k.index /\ Touch(k).out = k.out
           /\ Touch(k).shut = k.shut /\ Touch(k).calls = k.calls
  BY DEF IsConn, Same, Touch, Fields, States, UpStates

(* Setting the count leaves the rest alone.                                 *)
LEMMA SetRef ==
    ASSUME NEW k, IsConn(k), NEW n \in Nat
    PROVE  /\ Same(k, [k EXCEPT !.ref = n]) /\ [k EXCEPT !.ref = n].ref = n
           /\ [k EXCEPT !.ref = n].epoll = k.epoll
  BY DEF IsConn, Same, Fields, States, UpStates

(* One reference more.                                                      *)
LEMMA RefInc ==
    ASSUME NEW k, IsConn(k), k.mem = "live"
    PROVE  /\ Same(k, conn_ref_inc(k)) /\ conn_ref_inc(k).ref = k.ref + 1
           /\ conn_ref_inc(k).epoll = k.epoll
<1>1. /\ Same(k, Touch(k)) /\ IsConn(Touch(k)) /\ Touch(k).ref = k.ref
      /\ Touch(k).epoll = k.epoll
  BY TouchKeeps DEF Same
<1>2. conn_ref_inc(k) = [Touch(k) EXCEPT !.ref = k.ref + 1]
  BY <1>1 DEF conn_ref_inc
<1>3. k.ref + 1 \in Nat
  BY DEF IsConn
<1>4. /\ Same(Touch(k), conn_ref_inc(k)) /\ conn_ref_inc(k).ref = k.ref + 1
      /\ conn_ref_inc(k).epoll = Touch(k).epoll
  BY <1>1, <1>2, <1>3, SetRef
<1>. QED
  BY <1>1, <1>4 DEF Same

(* One reference less, while there are others.                              *)
LEMMA RefDec ==
    ASSUME NEW k, IsConn(k), k.mem = "live", k.ref > 1
    PROVE  /\ Same(k, conn_ref_dec(k)) /\ conn_ref_dec(k).ref = k.ref - 1
           /\ conn_ref_dec(k).epoll = k.epoll
<1>1. /\ Same(k, Touch(k)) /\ IsConn(Touch(k)) /\ Touch(k).ref = k.ref
      /\ Touch(k).epoll = k.epoll
  BY TouchKeeps DEF Same
<1>2. conn_ref_dec(k) = [Touch(k) EXCEPT !.ref = k.ref - 1]
  BY <1>1 DEF conn_ref_dec
<1>3. k.ref - 1 \in Nat
  BY DEF IsConn
<1>4. /\ Same(Touch(k), conn_ref_dec(k)) /\ conn_ref_dec(k).ref = k.ref - 1
      /\ conn_ref_dec(k).epoll = Touch(k).epoll
  BY <1>1, <1>2, <1>3, SetRef
<1>. QED
  BY <1>1, <1>4 DEF Same

(* The last reference: the connection is destructed.                        *)
LEMMA RefLast ==
    ASSUME NEW k, IsConn(k), k.mem = "live", k.ref = 1
    PROVE  Dead(conn_ref_dec(k))
<1>1. handler_remove(k).bad = FALSE
  BY DEF IsConn, handler_remove, Touch, Fields
<1>. QED
  BY <1>1 DEF IsConn, Dead, conn_ref_dec, destruct_gp_connection, Blank, Fields, States, UpStates

(* epoll's view of a handler may change, the connection's state does not.   *)
LEMMA UpdateKeeps ==
    ASSUME NEW k, IsConn(k)
    PROVE  Same(k, update(k)) /\ update(k).ref = k.ref
  BY DEF IsConn, Same, update, Fields, States, UpStates

(* handler_remove, of a connection that is down.                            *)
LEMMA RemoveKeeps ==
    ASSUME NEW k, IsConn(k), k.mem = "live", k.state = "disconnected"
    PROVE  /\ Same(k, handler_remove(k)) /\ handler_remove(k).ref = k.ref
           /\ ~handler_remove(k).epoll
  BY DEF IsConn, Same, handler_remove, Touch, Fields, States, UpStates

(* No more write events; nothing may be waiting while the connection is up. *)
LEMMA DisableWriting ==
    ASSUME NEW k, IsConn(k), k.mem = "live", k.out = <<>>
    PROVE  /\ Same(k, disable_writing(k)) /\ disable_writing(k).ref = k.ref
           /\ disable_writing(k).out = k.out /\ "w" \notin disable_writing(k).ev
  BY DEF IsConn, Same, disable_writing, update, Touch, Fields, States, UpStates

(* handler_close first takes the handler out of epoll.                      *)
LEMMA GoDownKeeps ==
    ASSUME NEW k, IsConn(k), k.mem = "live", k.state \in UpStates
    PROVE  /\ IsConn(GoDown(k)) /\ GoDown(k).state = "disconnected" /\ ~GoDown(k).epoll
           /\ GoDown(k).mem = "live" /\ GoDown(k).ref = k.ref /\ GoDown(k).dict = k.dict
           /\ GoDown(k).holds = k.holds /\ GoDown(k).cb = k.cb
  BY DEF IsConn, GoDown, disable_all, update, Touch, Fields, States, UpStates

(* Bytes written to the socket are history only.                            *)
LEMMA DeliverKeeps ==
    ASSUME NEW k, IsConn(k), NEW bytes
    PROVE  /\ Same(k, Deliver(k, bytes)) /\ Deliver(k, bytes).ref = k.ref
           /\ Deliver(k, bytes).epoll = k.epoll /\ Deliver(k, bytes).ev = k.ev
           /\ Deliver(k, bytes).index = k.index /\ Deliver(k, bytes).out = k.out
           /\ Deliver(k, bytes).shut = k.shut /\ Deliver(k, bytes).calls = k.calls
  BY DEF IsConn, Same, Deliver, Fields, States, UpStates

(* What is left of a sequence behind its first n entries.                   *)
LEMMA RestOf ==
    ASSUME NEW q \in Seq(Bytes), NEW n \in 0..Len(q)
    PROVE  SubSeq(q, n + 1, Len(q)) \in Seq(Bytes) /\ (q = <<>> => SubSeq(q, n + 1, Len(q)) = <<>>)
  OBVIOUS

(* conn_send_in_loop keeps what it does not write in the output buffer and  *)
(* asks for write events then; the connection stays what it was.            *)
LEMMA SendInLoop ==
    ASSUME NEW k, IsConn(k), k.mem = "live", NEW msg \in Seq(Bytes), NEW res \in Int, res >= -1
    PROVE  /\ Same(k, conn_send_in_loop(k, msg, res))
           /\ conn_send_in_loop(k, msg, res).ref = k.ref
           /\ conn_send_in_loop(k, msg, res).epoll => k.epoll \/ k.state # "disconnected"
<1> DEFINE direct == ~is_writing(k) /\ k.out = <<>>
           faultError == direct /\ (res = -1 \/ k.shut)
           nwrote == IF direct /\ ~faultError THEN Min({res, Len(msg)}) ELSE 0
           rest == SubSeq(msg, nwrote + 1, Len(msg))
           v == Deliver(Touch(k), SubSeq(msg, 1, nwrote))
           a == [v EXCEPT !.out = @ \o rest]
           r == conn_send_in_loop(k, msg, res)
<1> SUFFICES /\ Same(k, r) /\ r.ref = k.ref
             /\ r.epoll => k.epoll \/ k.state # "disconnected"
  OBVIOUS
<1>1. r = IF k.state = "disconnected" THEN Touch(k)
          ELSE IF faultError \/ rest = <<>> THEN v
          ELSE IF is_writing(a) THEN a ELSE enable_writing(a)
  BY DEF conn_send_in_loop
<1>2. nwrote \in 0..Len(msg)
  <2>1. direct /\ ~faultError => res \in Nat
    OBVIOUS
  <2>. QED
    BY <2>1, MinOfTwo
<1>3. rest \in Seq(Bytes)
  BY <1>2, RestOf
<1>4. /\ Same(k, v) /\ v.ref = k.ref /\ v.epoll = k.epoll /\ v.ev = k.ev
      /\ v.index = k.index /\ v.out = k.out /\ v.shut = k.shut
  <2>1. /\ Same(k, Touch(k)) /\ Touch(k).ref = k.ref /\ Touch(k).epoll = k.epoll
        /\ Touch(k).ev = k.ev /\ Touch(k).index = k.index /\ Touch(k).out = k.out
        /\ Touch(k).shut = k.shut /\ IsConn(Touch(k))
    BY TouchKeeps DEF Same
  <2>. QED
    BY <2>1, DeliverKeeps DEF Same
<1> HIDE DEF nwrote, rest, v, r
<1>5. CASE k.state = "disconnected"
  BY <1>1, <1>5, TouchKeeps
<1>6. CASE k.state # "disconnected" /\ (faultError \/ rest = <<>>)
  BY <1>1, <1>4, <1>6
<1>7. CASE k.state # "disconnected" /\ ~faultError /\ rest # <<>>
  <2>1. v.out \o rest \in Seq(Bytes)
    BY <1>3, <1>4 DEF IsConn
  <2>2. CASE is_writing(a)
    <3>1. r = a
      BY <1>1, <1>7, <2>2
    <3>2. "w" \in v.ev
      BY <1>4, <2>2 DEF is_writing, IsConn, Same, Fields
    <3>3. Same(v, a) /\ a.ref = v.ref /\ a.epoll = v.epoll
      BY <1>4, <2>1, <3>2 DEF IsConn, Same, Fields, States, UpStates
    <3>. QED
      BY <1>4, <3>1, <3>3 DEF Same
  <2>3. CASE ~is_writing(a)
    <3>1. r = enable_writing(a)
      BY <1>1, <1>7, <2>3
    <3>2. "w" \notin v.ev
      BY <1>4, <2>3 DEF is_writing, IsConn, Same, Fields
    <3>3. v.state \in UpStates => ~v.shut
      BY <1>4, <1>7, <3>2 DEF is_writing, IsConn, Same
    <3>4. Same(v, enable_writing(a)) /\ enable_writing(a).ref = v.ref
      BY <1>4, <2>1, <3>3 DEF IsConn, Same, enable_writing, update, Touch, Fields, States, UpStates
    <3>. QED
      BY <1>4, <1>7, <3>1, <3>4 DEF Same
  <2>. QED
    BY <2>2, <2>3
<1>. QED
  BY <1>5, <1>6, <1>7

(* SHUT_WR waits for the output.                                            *)
LEMMA ShutdownKeeps ==
    ASSUME NEW k, IsConn(k), k.mem = "live"
    PROVE  /\ Same(k, run_in_loop_shutdown(k)) /\ run_in_loop_shutdown(k).ref = k.ref
           /\ run_in_loop_shutdown(k).epoll = k.epoll
  BY DEF IsConn, Same, run_in_loop_shutdown, is_writing, Touch, Fields, States, UpStates

(* A write event takes bytes out of the buffer; when it is empty the write  *)
(* interest goes, and then SHUT_WR may come.                                *)
LEMMA WriteKeeps ==
    ASSUME NEW k, IsConn(k), k.mem = "live", NEW res \in Int, res >= -1
    PROVE  /\ Same(k, connection_handler_write(k, res))
           /\ connection_handler_write(k, res).ref = k.ref
<1> DEFINE n == IF res = -1 THEN Len(k.out) ELSE Min({res, Len(k.out)})
           rest == SubSeq(k.out, n + 1, Len(k.out))
           v == [Touch(k) EXCEPT !.out = rest]
           d == IF res = -1 THEN v ELSE Deliver(v, SubSeq(k.out, 1, n))
           r == connection_handler_write(k, res)
           e == [disable_writing(d) EXCEPT !.shut = @ \/ k.state = "disconnecting"]
<1>1. /\ Same(k, Touch(k)) /\ Touch(k).ref = k.ref /\ Touch(k).epoll = k.epoll
      /\ Touch(k).ev = k.ev /\ Touch(k).index = k.index /\ Touch(k).out = k.out
      /\ Touch(k).shut = k.shut /\ IsConn(Touch(k))
  BY TouchKeeps DEF Same
<1>2. r = IF (res # -1 /\ n = 0) \/ d.out # <<>> THEN d ELSE e
  BY <1>1 DEF connection_handler_write
<1>3. k.out \in Seq(Bytes) /\ Len(k.out) \in Nat
  BY DEF IsConn
<1>4. n \in 0..Len(k.out)
  BY <1>3, MinOfTwo
<1>5. rest \in Seq(Bytes) /\ (k.out = <<>> => rest = <<>>)
  BY <1>3, <1>4, RestOf
<1> HIDE DEF n, rest, r
<1>6. /\ Same(k, v) /\ v.ref = k.ref /\ v.out = rest
  BY <1>1, <1>5 DEF IsConn, Same, Fields, States, UpStates
<1>7. Same(k, d) /\ d.ref = k.ref /\ d.out = rest
  <2>1. IsConn(v)
    BY <1>6 DEF Same
  <2>2. Same(v, Deliver(v, SubSeq(k.out, 1, n))) /\ Deliver(v, SubSeq(k.out, 1, n)).ref = v.ref
        /\ Deliver(v, SubSeq(k.out, 1, n)).out = v.out
    BY <2>1, DeliverKeeps
  <2> HIDE DEF v
  <2>. QED
    BY <1>6, <2>2 DEF Same
<1> HIDE DEF v, d
<1>8. CASE (res # -1 /\ n = 0) \/ d.out # <<>>
  BY <1>2, <1>7, <1>8 DEF r
<1>9. CASE ~((res # -1 /\ n = 0) \/ d.out # <<>>)
  <2>1. /\ Same(d, disable_writing(d)) /\ disable_writing(d).ref = d.ref
        /\ "w" \notin disable_writing(d).ev
    BY <1>7, <1>9, DisableWriting DEF Same
  <2>2. Same(disable_writing(d), e) /\ e.ref = disable_writing(d).ref
    BY <2>1 DEF IsConn, Same, Fields, States, UpStates
  <2>. QED
    BY <1>2, <1>7, <1>9, <2>1, <2>2 DEF Same, r
<1>. QED
  BY <1>8, <1>9

----------------------------------------------------------------------------
(* Counting tasks on the pending list.                                      *)

(* Marked places are finitely many.                                         *)
LEMMA MarksFinite ==
    ASSUME NEW T, NEW q \in Seq(T), NEW S
    PROVE  IsFiniteSet(Marks(q, S)) /\ Cardinality(Marks(q, S)) \in Nat
<1>1. IsFiniteSet(1..Len(q)) /\ Marks(q, S) \in SUBSET (1..Len(q))
  BY FS_Interval DEF Marks
<1>. QED
  BY <1>1, FS_Subset, FS_CardinalityType

(* An entry put at the end.                                                 *)
LEMMA MarksAppend ==
    ASSUME NEW T, NEW q \in Seq(T), NEW t \in T, NEW S
    PROVE  /\ t \in S => Cardinality(Marks(Append(q, t), S)) = Cardinality(Marks(q, S)) + 1
           /\ t \notin S => Cardinality(Marks(Append(q, t), S)) = Cardinality(Marks(q, S))
<1>1. CASE t \in S
  <2>1. Marks(Append(q, t), S) = Marks(q, S) \union {Len(q) + 1} /\ Len(q) + 1 \notin Marks(q, S)
    BY <1>1, AppendProperties DEF Marks
  <2>. QED
    BY <1>1, <2>1, MarksFinite, FS_AddElement
<1>2. CASE t \notin S
  <2>1. Marks(Append(q, t), S) = Marks(q, S)
    BY <1>2, AppendProperties DEF Marks
  <2>. QED
    BY <1>2, <2>1
<1>. QED
  BY <1>1, <1>2

(* The first entry taken off.                                               *)
LEMMA MarksTail ==
    ASSUME NEW T, NEW q \in Seq(T), q # <<>>, NEW S
    PROVE  /\ Head(q) \in S => Cardinality(Marks(q, S)) = Cardinality(Marks(Tail(q), S)) + 1
           /\ Head(q) \notin S => Cardinality(Marks(q, S)) = Cardinality(Marks(Tail(q), S))
<1> DEFINE A == Marks(Tail(q), S)
           B == Marks(q, S) \ {1}
           f == [i \in A |-> i + 1]
<1>1. /\ Tail(q) \in Seq(T) /\ Head(q) = q[1]
      /\ Len(Tail(q)) = Len(q) - 1 /\ Len(q) \in Nat /\ Len(q) > 0
      /\ \A i \in 1..Len(Tail(q)) : Tail(q)[i] = q[i + 1]
  BY HeadTailProperties
<1>2. f \in [A -> B] /\ \A a, b \in A : f[a] = f[b] => a = b
  BY <1>1 DEF Marks
<1>3. \A t \in B : \E s \in A : f[s] = t
  <2> SUFFICES ASSUME NEW t \in B PROVE \E s \in A : f[s] = t
    OBVIOUS
  <2>1. t - 1 \in A /\ f[t - 1] = t
    BY <1>1 DEF Marks
  <2>. QED
    BY <2>1
<1>4. ExistsBijection(A, B)
  BY <1>2, <1>3, Fun_IsBij, Fun_ExistsBij
<1>5. IsFiniteSet(A) /\ IsFiniteSet(Marks(q, S))
  BY <1>1, MarksFinite
<1>6. Cardinality(B) = Cardinality(A)
  BY <1>4, <1>5, FS_Bijection
<1>7. CASE Head(q) \in S
  <2>1. 1 \in Marks(q, S)
    BY <1>1, <1>7 DEF Marks
  <2>2. Cardinality(B) = Cardinality(Marks(q, S)) - 1
    BY <1>5, <2>1, FS_RemoveElement
  <2>3. Cardinality(Marks(q, S)) \in Nat
    BY MarksFinite
  <2>. QED
    BY <1>6, <1>7, <2>2, <2>3
<1>8. CASE Head(q) \notin S
  <2>1. B = Marks(q, S)
    BY <1>1, <1>8 DEF Marks
  <2>. QED
    BY <1>6, <1>8, <2>1
<1>. QED
  BY <1>7, <1>8

(* The counts are numbers, and the tasks on their way to destroy a          *)
(* connection are tasks of it.                                              *)
LEMMA CountsAreNat ==
    ASSUME NEW q \in Seq(TaskSet), NEW c \in Fds
    PROVE  NT(q, c) \in Nat /\ ND(q, c) \in Nat /\ ND(q, c) <= NT(q, c)
<1>1. /\ IsFiniteSet(Marks(q, Of(c))) /\ Cardinality(Marks(q, Of(c))) \in Nat
      /\ Cardinality(Marks(q, DestroyOf(c))) \in Nat
  BY MarksFinite
<1>2. Marks(q, DestroyOf(c)) \in SUBSET Marks(q, Of(c))
  BY DEF Marks, Of, DestroyOf
<1>3. Cardinality(Marks(q, DestroyOf(c))) <= Cardinality(Marks(q, Of(c)))
  BY <1>1, <1>2, FS_Subset
<1>. QED
  BY <1>1, <1>3 DEF NT, ND

(* No task of c is counted exactly when there is none.                      *)
LEMMA NoTasks ==
    ASSUME NEW q \in Seq(TaskSet), NEW c \in Fds
    PROVE  NT(q, c) = 0 <=> \A i \in 1..Len(q) : q[i].fd # c
<1>1. IsFiniteSet(Marks(q, Of(c)))
  BY MarksFinite
<1>2. NT(q, c) = 0 <=> Marks(q, Of(c)) = {}
  BY <1>1, FS_EmptySet DEF NT
<1>3. \A i \in 1..Len(q) : q[i] \in TaskSet
  OBVIOUS
<1>. QED
  BY <1>2, <1>3 DEF Marks, Of

(* There is none on an empty list.                                          *)
LEMMA EmptyCounts ==
    ASSUME NEW c \in Fds
    PROVE  NT(<<>>, c) = 0 /\ ND(<<>>, c) = 0
<1>1. <<>> \in Seq(TaskSet) /\ \A i \in 1..Len(<<>>) : <<>>[i].fd # c
  OBVIOUS
<1>2. NT(<<>>, c) = 0
  BY <1>1, NoTasks
<1>3. ND(<<>>, c) \in Nat /\ ND(<<>>, c) <= NT(<<>>, c)
  BY <1>1, CountsAreNat
<1>. QED
  BY <1>2, <1>3

(* Queueing a task of c.                                                    *)
LEMMA QueueCounts ==
    ASSUME NEW q \in Seq(TaskSet), NEW t \in TaskSet
    PROVE  /\ NT(Append(q, t), t.fd) = NT(q, t.fd) + 1
           /\ t.kind = "destroy" => ND(Append(q, t), t.fd) = ND(q, t.fd) + 1
           /\ t.kind # "destroy" => ND(Append(q, t), t.fd) = ND(q, t.fd)
           /\ \A d \in Fds : d # t.fd => NT(Append(q, t), d) = NT(q, d) /\ ND(Append(q, t), d) = ND(q, d)
  BY MarksAppend DEF NT, ND, Of, DestroyOf

(* Queueing the destruction of c.                                           *)
LEMMA QueueDestroy ==
    ASSUME NEW q \in Seq(TaskSet), NEW c \in Fds, ND(q, c) = 0
    PROVE  ND(Append(q, Task("destroy", c, <<>>)), c) = 1
<1> DEFINE t == Task("destroy", c, <<>>)
<1>1. t \in TaskSet /\ t.fd = c /\ t.kind = "destroy"
  BY DEF Task, TaskSet, Kinds
<1> HIDE DEF t
<1>2. ND(Append(q, t), c) = 0 + 1
  BY <1>1, QueueCounts
<1>. QED
  BY <1>2 DEF t

(* Taking the first task.                                                   *)
LEMMA TakeCounts ==
    ASSUME NEW q \in Seq(TaskSet), q # <<>>, NEW t, t = Head(q)
    PROVE  /\ NT(q, t.fd) = NT(Tail(q), t.fd) + 1
           /\ t.kind = "destroy" => ND(q, t.fd) = ND(Tail(q), t.fd) + 1
           /\ t.kind # "destroy" => ND(q, t.fd) = ND(Tail(q), t.fd)
           /\ \A d \in Fds : d # t.fd => NT(q, d) = NT(Tail(q), d) /\ ND(q, d) = ND(Tail(q), d)
<1>1. Head(q) \in TaskSet
  BY HeadTailProperties
<1>. QED
  BY <1>1, MarksTail DEF NT, ND, Of, DestroyOf

----------------------------------------------------------------------------
(* Worlds.  While a handler runs, it and the functions it calls hold n      *)
(* references to one connection, and none to the others.                    *)
IsWorld(w) ==
    /\ DOMAIN w = {"conn", "pending", "wake", "quit"}
    /\ w.conn = [c \in Fds |-> w.conn[c]]
    /\ w.pending \in Seq(TaskSet)
    /\ w.wake \in BOOLEAN /\ w.quit \in BOOLEAN

Holds(w, c, n) == IsConn(w.conn[c]) /\ Counted(w.conn[c], NT(w.pending, c), n)

(* Everything but c is as between handlers.                                 *)
Others(w, c) ==
    /\ IsWorld(w)
    /\ \A d \in Fds \ {c} : Holds(w, d, 0) /\ Settled(w.conn[d], ND(w.pending, d))

(* Only connection c has changed, to k.                                     *)
Changed(w, v, c, k) ==
    /\ IsWorld(v) /\ v.conn[c] = k
    /\ \A d \in Fds \ {c} : v.conn[d] = w.conn[d]
    /\ v.pending = w.pending /\ v.wake = w.wake /\ v.quit = w.quit

(* What a step does to the rest of the loop: it wakes and quits, it takes   *)
(* neither back, and what it queues during do_pending_functors wakes.       *)
Onward(w, v) ==
    /\ w.wake => v.wake
    /\ v.pending = w.pending \/ (v.pending # <<>> /\ (phase = "functors" => v.wake))

(* A step about c leaves the other connections and their tasks alone.       *)
Alone(w, v, c) ==
    /\ IsWorld(v) /\ Onward(w, v)
    /\ \A d \in Fds \ {c} :
          /\ v.conn[d] = w.conn[d]
          /\ NT(v.pending, d) = NT(w.pending, d) /\ ND(v.pending, d) = ND(w.pending, d)

(* A step about c, the user's calls in it included, leaves the others as    *)
(* between handlers, and none of them leaves the dictionary.                *)
Through(w, v, c) ==
    /\ Others(v, c) /\ Onward(w, v)
    /\ \A d \in Fds \ {c} :
          /\ w.conn[d].mem = "live" /\ w.conn[d].dict => v.conn[d].mem = "live" /\ v.conn[d].dict
          /\ ND(v.pending, d) = ND(w.pending, d)

(* Setting one connection.                                                  *)
LEMMA SetConn ==
    ASSUME NEW w, IsWorld(w), NEW c \in Fds, NEW k
    PROVE  Changed(w, [w EXCEPT !.conn[c] = k], c, k)
<1> DEFINE v == [w EXCEPT !.conn[c] = k]
<1>1. /\ DOMAIN v = DOMAIN w /\ v.conn = [w.conn EXCEPT ![c] = k]
      /\ v.pending = w.pending /\ v.wake = w.wake /\ v.quit = w.quit
  BY DEF IsWorld
<1>2. /\ v.conn = [d \in Fds |-> v.conn[d]] /\ v.conn[c] = k
      /\ \A d \in Fds \ {c} : v.conn[d] = w.conn[d]
  BY <1>1 DEF IsWorld
<1> HIDE DEF v
<1>3. IsWorld(v)
  BY <1>1, <1>2 DEF IsWorld
<1>4. Changed(w, v, c, k)
  BY <1>1, <1>2, <1>3 DEF Changed
<1>. QED
  BY <1>4 DEF v

(* The others do not notice.                                                *)
LEMMA ChangedAlone ==
    ASSUME NEW w, NEW v, NEW c \in Fds, NEW k, Changed(w, v, c, k)
    PROVE  Alone(w, v, c)
  BY DEF Alone, Changed, Onward

(* They stay as between handlers.                                           *)
LEMMA AloneThrough ==
    ASSUME NEW w, NEW v, NEW c \in Fds, Others(w, c), Alone(w, v, c)
    PROVE  Through(w, v, c)
  BY DEF Others, Alone, Holds, Through

(* Steps compose.                                                           *)
LEMMA OnwardTrans ==
    ASSUME NEW w, NEW v, NEW x, Onward(w, v), Onward(v, x)
    PROVE  Onward(w, x)
  BY DEF Onward

(* Steps about c compose.                                                   *)
LEMMA AloneTrans ==
    ASSUME NEW w, NEW v, NEW x, NEW c \in Fds, Alone(w, v, c), Alone(v, x, c)
    PROVE  Alone(w, x, c)
  BY OnwardTrans DEF Alone

(* So do those with calls of the user.                                      *)
LEMMA ThroughTrans ==
    ASSUME NEW w, NEW v, NEW x, NEW c \in Fds, Through(w, v, c), Through(v, x, c)
    PROVE  Through(w, x, c)
  BY OnwardTrans DEF Through

(* The sum moves with its parts: a reference, a task or a keeper more.      *)
LEMMA SumMoves ==
    ASSUME NEW r \in Nat, NEW s \in Nat, NEW a \in Nat, NEW b \in Nat,
           NEW h \in Nat, NEW g \in Nat, NEW n \in Nat, NEW m \in Nat,
           s + a + h + n = r + b + g + m
    PROVE  /\ r = a + h + n + 1 => s = b + g + m + 1
           /\ r = a + h + n => s = b + g + m
  OBVIOUS

(* A live connection stays counted when its count moves as its keepers do.  *)
LEMMA CountedMoves ==
    ASSUME NEW k, NEW e, NEW a \in Nat, NEW b \in Nat, NEW n \in Nat, NEW m \in Nat,
           IsConn(k), IsConn(e), k.mem = "live", e.mem = "live", e.dict = k.dict,
           Counted(k, a, n), e.ref > 0,
           e.ref + a + k.holds + n = k.ref + b + e.holds + m
    PROVE  Counted(e, b, m)
<1>1. k.ref \in Nat /\ e.ref \in Nat /\ k.holds \in Nat /\ e.holds \in Nat
  BY DEF IsConn
<1>2. /\ k.ref = a + k.holds + n + 1 => e.ref = b + e.holds + m + 1
      /\ k.ref = a + k.holds + n => e.ref = b + e.holds + m
  BY <1>1, SumMoves
<1>. QED
  BY <1>2 DEF Counted

(* One reference more is held.                                              *)
LEMMA IncCounted ==
    ASSUME NEW k, IsConn(k), k.mem = "live", NEW a \in Nat, NEW n \in Nat, Counted(k, a, n)
    PROVE  /\ Counted(conn_ref_inc(k), a, n + 1) /\ Same(k, conn_ref_inc(k))
           /\ conn_ref_inc(k).epoll = k.epoll /\ conn_ref_inc(k).ref > 1
<1> DEFINE e == conn_ref_inc(k)
<1>1. Same(k, e) /\ e.ref = k.ref + 1 /\ e.epoll = k.epoll
  BY RefInc
<1>2. k.ref \in Nat /\ k.ref > 0 /\ k.holds \in Nat
  BY DEF IsConn, Counted
<1>3. IsConn(e) /\ e.mem = "live" /\ e.dict = k.dict /\ e.holds = k.holds
  BY <1>1 DEF Same
<1> HIDE DEF e
<1>4. /\ e.ref + a + k.holds + n = k.ref + a + e.holds + (n + 1) /\ e.ref > 1 /\ e.ref > 0
      /\ n + 1 \in Nat
  BY <1>1, <1>2, <1>3
<1>5. Counted(e, a, n + 1)
  BY <1>3, <1>4, CountedMoves, ZenonT(30)
<1>. QED
  BY <1>1, <1>4, <1>5 DEF e

(* One reference less is held: the connection stays, or nobody else held    *)
(* it and it is destructed.                                                 *)
LEMMA DecCounted ==
    ASSUME NEW k, IsConn(k), NEW a \in Nat, NEW n \in Nat, Counted(k, a, n + 1)
    PROVE  /\ Counted(conn_ref_dec(k), a, n)
           /\ \/ Same(k, conn_ref_dec(k)) /\ conn_ref_dec(k).epoll = k.epoll
              \/ Dead(conn_ref_dec(k)) /\ a = 0 /\ n = 0 /\ k.holds = 0 /\ ~k.dict
           /\ k.mem = "live"
<1> DEFINE e == conn_ref_dec(k)
<1>1. k.mem = "live" /\ k.ref \in Nat /\ k.ref > 0 /\ k.holds \in Nat
  BY DEF IsConn, Counted
<1>2. CASE k.ref = 1
  <2>1. Dead(e)
    BY <1>1, <1>2, RefLast
  <2>2. a = 0 /\ n = 0 /\ k.holds = 0 /\ ~k.dict
    BY <1>1, <1>2 DEF Counted
  <2>3. Counted(e, a, n)
    BY <2>1, <2>2 DEF Counted, Dead
  <2>. QED
    BY <1>1, <2>1, <2>2, <2>3
<1>3. CASE k.ref > 1
  <2>1. Same(k, e) /\ e.ref = k.ref - 1 /\ e.epoll = k.epoll
    BY <1>1, <1>3, RefDec
  <2>2. IsConn(e) /\ e.mem = "live" /\ e.dict = k.dict /\ e.holds = k.holds
    BY <1>1, <2>1 DEF Same
  <2> HIDE DEF e
  <2>3. /\ e.ref + a + k.holds + (n + 1) = k.ref + a + e.holds + n /\ e.ref > 0
        /\ n + 1 \in Nat
    BY <1>1, <1>3, <2>1, <2>2
  <2>4. Counted(e, a, n)
    BY <1>1, <2>2, <2>3, CountedMoves, ZenonT(30)
  <2>. QED
    BY <1>1, <2>1, <2>4 DEF e
<1>. QED
  BY <1>1, <1>2, <1>3

(* Queueing a task of c: the task holds the new reference.                  *)
LEMMA QueueHolds ==
    ASSUME NEW w, IsWorld(w), NEW t \in TaskSet, NEW by, NEW n \in Nat, Holds(w, t.fd, n),
           w.conn[t.fd].mem = "live"
    PROVE  /\ Alone(w, gp_queue_in_loop(w, t, by), t.fd)
           /\ Holds(gp_queue_in_loop(w, t, by), t.fd, n)
           /\ Same(w.conn[t.fd], gp_queue_in_loop(w, t, by).conn[t.fd])
           /\ gp_queue_in_loop(w, t, by).conn[t.fd].epoll = w.conn[t.fd].epoll
           /\ gp_queue_in_loop(w, t, by).pending = Append(w.pending, t)
<1> DEFINE c == t.fd
           k == w.conn[c]
           e == conn_ref_inc(k)
           v == gp_queue_in_loop(w, t, by)
           a == NT(w.pending, c)
<1> SUFFICES /\ Alone(w, v, c) /\ Holds(v, c, n) /\ Same(k, v.conn[c])
             /\ v.conn[c].epoll = k.epoll /\ v.pending = Append(w.pending, t)
  OBVIOUS
<1>1. c \in Fds
  BY DEF TaskSet
<1>2. /\ DOMAIN v = DOMAIN w /\ v.conn = [w.conn EXCEPT ![c] = e]
      /\ v.pending = Append(w.pending, t) /\ v.quit = w.quit
      /\ v.wake = (w.wake \/ by = "other" \/ phase = "functors")
  BY DEF IsWorld, gp_queue_in_loop
<1>3. /\ v.conn = [d \in Fds |-> v.conn[d]] /\ v.conn[c] = e
      /\ \A d \in Fds \ {c} : v.conn[d] = w.conn[d]
  BY <1>1, <1>2 DEF IsWorld
<1>4. v.pending \in Seq(TaskSet) /\ v.pending # <<>> /\ w.pending \in Seq(TaskSet)
  BY <1>2 DEF IsWorld
<1>5. /\ NT(v.pending, c) = a + 1
      /\ \A d \in Fds \ {c} : NT(v.pending, d) = NT(w.pending, d) /\ ND(v.pending, d) = ND(w.pending, d)
  BY <1>2, <1>4, QueueCounts
<1>6. a \in Nat /\ IsConn(k) /\ Counted(k, a, n) /\ k.mem = "live"
  BY <1>1, <1>4, CountsAreNat DEF Holds
<1> HIDE DEF a, k, v, c
<1>7. Counted(e, a, n + 1) /\ Same(k, e) /\ e.epoll = k.epoll
  BY <1>6, IncCounted
<1> HIDE DEF e
<1>8. Counted(e, a + 1, n)
  <2>1. IsConn(e) /\ e.mem = "live" /\ e.ref > 0 /\ e.ref \in Nat /\ e.holds \in Nat
    BY <1>6, <1>7 DEF Same, Counted, IsConn
  <2>2. e.ref + a + e.holds + (n + 1) = e.ref + (a + 1) + e.holds + n
    BY <1>6, <2>1
  <2>3. a + 1 \in Nat /\ n + 1 \in Nat
    BY <1>6
  <2>. QED
    BY <1>6, <1>7, <2>1, <2>2, <2>3, CountedMoves, ZenonT(30)
<1>9. IsWorld(v)
  BY <1>2, <1>3, <1>4 DEF IsWorld
<1>10. Onward(w, v)
  BY <1>2, <1>4 DEF Onward
<1>11. Alone(w, v, c)
  BY <1>3, <1>5, <1>9, <1>10 DEF Alone
<1>12. Holds(v, c, n)
  BY <1>3, <1>5, <1>7, <1>8 DEF Holds, Same
<1>. QED
  BY <1>2, <1>3, <1>7, <1>11, <1>12

----------------------------------------------------------------------------
(* What a call of the user may do to a connection: begin its shutdown, or   *)
(* give back the last reference to one that the dictionary does not list.   *)
Mild(k, e) ==
    /\ IsConn(e)
    /\ \/ /\ e.mem = k.mem /\ e.dict = k.dict /\ e.cb = k.cb
          /\ e.state = k.state \/ (e.state \in UpStates /\ k.state \in UpStates)
          /\ e.epoll => k.epoll
       \/ Dead(e) /\ k.mem = "live" /\ ~k.dict

(* A call about c.                                                          *)
UserStep(w, v, c, n) ==
    /\ Alone(w, v, c) /\ Holds(v, c, n) /\ Mild(w.conn[c], v.conn[c])
    /\ ND(v.pending, c) = ND(w.pending, c)

(* A call that only changes the connection.                                 *)
LEMMA SetMild ==
    ASSUME NEW w, IsWorld(w), NEW c \in Fds, NEW n, NEW e, Mild(w.conn[c], e),
           Counted(e, NT(w.pending, c), n)
    PROVE  UserStep(w, [w EXCEPT !.conn[c] = e], c, n)
<1> DEFINE v == [w EXCEPT !.conn[c] = e]
<1>1. Changed(w, v, c, e)
  BY SetConn
<1> HIDE DEF v
<1>2. UserStep(w, v, c, n)
  BY <1>1, ChangedAlone DEF UserStep, Changed, Holds, Mild
<1>. QED
  BY <1>2 DEF v

(* A call that changes the connection and queues a task.                    *)
LEMMA QueueMild ==
    ASSUME NEW w, IsWorld(w), NEW c \in Fds, NEW n \in Nat, NEW e, Mild(w.conn[c], e),
           e.mem = "live", Counted(e, NT(w.pending, c), n),
           NEW t \in TaskSet, t.fd = c, t.kind # "destroy", NEW by
    PROVE  UserStep(w, gp_queue_in_loop([w EXCEPT !.conn[c] = e], t, by), c, n)
<1> DEFINE v == [w EXCEPT !.conn[c] = e]
           x == gp_queue_in_loop(v, t, by)
<1>1. Changed(w, v, c, e) /\ UserStep(w, v, c, n)
  BY SetConn, SetMild
<1> HIDE DEF v
<1>2. IsWorld(v) /\ v.conn[c] = e /\ Holds(v, c, n) /\ v.pending = w.pending /\ Alone(w, v, c)
  BY <1>1 DEF Changed, UserStep
<1>3. /\ Alone(v, x, c) /\ Holds(x, c, n) /\ Same(e, x.conn[c]) /\ x.conn[c].epoll = e.epoll
      /\ x.pending = Append(v.pending, t)
  BY <1>2, QueueHolds
<1>4. ND(x.pending, c) = ND(w.pending, c)
  BY <1>2, <1>3, QueueCounts DEF IsWorld
<1> HIDE DEF x
<1>5. Alone(w, x, c)
  BY <1>2, <1>3, AloneTrans
<1>6. Mild(w.conn[c], x.conn[c])
  BY <1>3 DEF Mild, Same, Dead
<1>7. UserStep(w, x, c, n)
  BY <1>3, <1>4, <1>5, <1>6 DEF UserStep
<1>. QED
  BY <1>7 DEF v, x

(* Nothing done.                                                            *)
LEMMA NothingDone ==
    ASSUME NEW w, IsWorld(w), NEW c \in Fds, NEW n, Holds(w, c, n)
    PROVE  UserStep(w, w, c, n)
  BY DEF UserStep, Alone, Onward, Holds, Mild, IsConn

(* A connection that may be used is live.                                   *)
LEMMA UsedIsLive ==
    ASSUME NEW k, IsConn(k), NEW a, NEW n, Counted(k, a, n), MayUse(k)
    PROVE  k.mem = "live"
  BY DEF MayUse, Counted, IsConn

(* conn_send, of bytes of the caller's side.                                *)
LEMMA SendCall ==
    ASSUME NEW w, IsWorld(w), NEW c \in Fds, NEW n \in Nat, Holds(w, c, n),
           w.conn[c].mem = "live", NEW by \in Sides, NEW res \in Int, res >= -1
    PROVE  UserStep(w, conn_send(w, c, by, res), c, n)
<1> DEFINE k == w.conn[c]
           i == k.calls
           msg == <<<<by, 2 * i + 1>>, <<by, 2 * i + 2>>>>
           e == [k EXCEPT !.calls = i + 1]
           v == [w EXCEPT !.conn[c] = e]
<1>1. IsConn(k) /\ i \in Nat /\ k.mem = "live" /\ Counted(k, NT(w.pending, c), n)
  BY DEF Holds, IsConn
<1>2. msg \in Seq(Bytes)
  BY <1>1 DEF Bytes
<1>3. Same(k, e) /\ e.ref = k.ref /\ e.epoll = k.epoll
  BY <1>1 DEF IsConn, Same, Fields, States, UpStates
<1>4. [w EXCEPT !.conn[c].calls = @ + 1] = v
  BY DEF IsWorld
<1>5. conn_send(w, c, by, res) =
        IF k.state # "connected" THEN w
        ELSE IF by = "loop" THEN [v EXCEPT !.conn[c] = conn_send_in_loop(@, msg, res)]
        ELSE gp_queue_in_loop(v, Task("send", c, msg), by)
  BY <1>4 DEF conn_send
<1>6. Changed(w, v, c, e)
  BY SetConn
<1> HIDE DEF e, msg
<1>7. CASE k.state # "connected"
  BY <1>5, <1>7, NothingDone
<1>8. CASE k.state = "connected" /\ by = "loop"
  <2> DEFINE g == conn_send_in_loop(e, msg, res)
  <2>1. IsConn(e) /\ e.mem = "live" /\ e.state = "connected"
    BY <1>1, <1>3, <1>8 DEF Same
  <2>2. Same(e, g) /\ g.ref = e.ref
    BY <1>2, <2>1, SendInLoop
  <2>3. [v EXCEPT !.conn[c] = conn_send_in_loop(@, msg, res)] = [w EXCEPT !.conn[c] = g]
    BY DEF IsWorld
  <2> HIDE DEF g
  <2>4. k.epoll
    BY <1>1, <1>8 DEF IsConn, UpStates
  <2>5. Mild(k, g)
    BY <1>3, <2>2, <2>4 DEF Mild, Same
  <2>6. Counted(g, NT(w.pending, c), n)
    BY <1>1, <1>3, <2>2 DEF Counted, Same
  <2>. QED
    BY <1>5, <1>8, <2>3, <2>5, <2>6, SetMild
<1>9. CASE k.state = "connected" /\ by # "loop"
  <2>1. Task("send", c, msg) \in TaskSet /\ Task("send", c, msg).fd = c
        /\ Task("send", c, msg).kind # "destroy"
    BY <1>2 DEF Task, TaskSet, Kinds
  <2>2. Mild(k, e) /\ e.mem = "live" /\ Counted(e, NT(w.pending, c), n)
    BY <1>1, <1>3 DEF Mild, Same, Counted
  <2>. QED
    BY <1>5, <1>9, <2>1, <2>2, QueueMild
<1>. QED
  BY <1>7, <1>8, <1>9

(* Beginning the shutdown of a connection that is up.                       *)
LEMMA Disconnecting ==
    ASSUME NEW k, IsConn(k), k.state \in UpStates
    PROVE  /\ IsConn([k EXCEPT !.state = "disconnecting"])
           /\ [k EXCEPT !.state = "disconnecting"].state \in UpStates
           /\ \A f \in {"mem", "ref", "dict", "holds", "cb", "epoll"} :
                  [k EXCEPT !.state = "disconnecting"][f] = k[f]
  BY DEF IsConn, Fields, States, UpStates

(* conn_shutdown; on the loop's thread the reference taken for it is never  *)
(* the last one.                                                            *)
LEMMA ShutdownCall ==
    ASSUME NEW w, IsWorld(w), NEW c \in Fds, NEW n \in Nat, Holds(w, c, n),
           w.conn[c].mem = "live", NEW by
    PROVE  UserStep(w, conn_shutdown(w, c, by), c, n)
<1> DEFINE k == w.conn[c]
           e == [k EXCEPT !.state = "disconnecting"]
           v == [w EXCEPT !.conn[c] = e]
           a == NT(w.pending, c)
<1>1. IsConn(k) /\ k.mem = "live" /\ Counted(k, a, n) /\ a \in Nat
  BY CountsAreNat DEF Holds, IsWorld
<1>2. conn_shutdown(w, c, by) =
        IF k.state # "connected" THEN w
        ELSE IF by = "loop"
        THEN GiveRef([TakeRef(v, c) EXCEPT !.conn[c] = run_in_loop_shutdown(@)], c)
        ELSE gp_queue_in_loop(v, Task("shutdown", c, <<>>), by)
  BY DEF conn_shutdown, IsWorld
<1>3. CASE k.state # "connected"
  BY <1>2, <1>3, NothingDone
<1>4. ASSUME k.state = "connected"
      PROVE  /\ IsConn(e) /\ e.mem = "live" /\ Counted(e, a, n) /\ e.state \in UpStates
             /\ e.dict = k.dict /\ e.cb = k.cb /\ e.epoll = k.epoll
  BY <1>1, <1>4, Disconnecting DEF Counted, UpStates
<1> HIDE DEF e, a
<1>5. CASE k.state = "connected" /\ by = "loop"
  <2> DEFINE i == conn_ref_inc(e)
             s == run_in_loop_shutdown(i)
             d == conn_ref_dec(s)
  <2>1. GiveRef([TakeRef(v, c) EXCEPT !.conn[c] = run_in_loop_shutdown(@)], c)
          = [w EXCEPT !.conn[c] = d]
    BY DEF IsWorld, TakeRef, GiveRef
  <2>2. IsConn(i) /\ i.mem = "live" /\ Counted(i, a, n + 1) /\ Same(e, i) /\ i.epoll = e.epoll
    BY <1>1, <1>4, <1>5, IncCounted DEF Same
  <2> HIDE DEF i
  <2>3. Same(i, s) /\ s.ref = i.ref /\ s.epoll = i.epoll
    BY <2>2, ShutdownKeeps
  <2> HIDE DEF s
  <2>4. IsConn(s) /\ Counted(s, a, n + 1) /\ s.mem = "live" /\ s.ref > 1
    <3>1. i.ref > 1
      BY <1>1, <1>4, <1>5, IncCounted DEF i
    <3>. QED
      BY <2>2, <2>3, <3>1 DEF Same, Counted
  <2>5. Counted(d, a, n)
    BY <1>1, <2>4, DecCounted
  <2>6. Same(s, d) /\ d.epoll = s.epoll
    BY <2>4, RefDec
  <2> HIDE DEF d
  <2>7. Mild(k, d)
    BY <1>1, <1>4, <1>5, <2>2, <2>3, <2>6 DEF Mild, Same, UpStates
  <2>8. UserStep(w, [w EXCEPT !.conn[c] = d], c, n)
    BY <2>5, <2>7, SetMild DEF a
  <2>. QED
    BY <1>2, <1>5, <2>1, <2>8
<1>6. CASE k.state = "connected" /\ by # "loop"
  <2>1. Task("shutdown", c, <<>>) \in TaskSet /\ Task("shutdown", c, <<>>).fd = c
        /\ Task("shutdown", c, <<>>).kind # "destroy"
    BY DEF Task, TaskSet, Kinds
  <2>2. Mild(k, e) /\ e.mem = "live" /\ Counted(e, NT(w.pending, c), n)
    BY <1>1, <1>4, <1>6 DEF Mild, UpStates, a
  <2> DEFINE t == Task("shutdown", c, <<>>)
  <2> HIDE DEF t
  <2>3. UserStep(w, gp_queue_in_loop(v, t, by), c, n)
    BY <2>1, <2>2, QueueMild DEF t
  <2>. QED
    BY <1>2, <1>6, <2>3 DEF t
<1>. QED
  BY <1>3, <1>5, <1>6

(* conn_force_close.                                                        *)
LEMMA ForceCloseCall ==
    ASSUME NEW w, IsWorld(w), NEW c \in Fds, NEW n \in Nat, Holds(w, c, n),
           w.conn[c].mem = "live", NEW by
    PROVE  UserStep(w, conn_force_close(w, c, by), c, n)
<1> DEFINE k == w.conn[c]
           e == [k EXCEPT !.state = "disconnecting"]
           v == [w EXCEPT !.conn[c] = e]
<1>1. IsConn(k) /\ k.mem = "live" /\ Counted(k, NT(w.pending, c), n)
  BY DEF Holds
<1>2. conn_force_close(w, c, by) =
        IF k.state \notin UpStates THEN w ELSE gp_queue_in_loop(v, Task("close", c, <<>>), by)
  BY DEF conn_force_close, IsWorld, UpStates
<1>3. CASE k.state \notin UpStates
  BY <1>2, <1>3, NothingDone
<1>4. CASE k.state \in UpStates
  <2>1. Task("close", c, <<>>) \in TaskSet /\ Task("close", c, <<>>).fd = c
        /\ Task("close", c, <<>>).kind # "destroy"
    BY DEF Task, TaskSet, Kinds
  <2>2. /\ IsConn(e) /\ e.mem = "live" /\ Counted(e, NT(w.pending, c), n)
        /\ e.dict = k.dict /\ e.cb = k.cb /\ e.epoll = k.epoll /\ e.state \in UpStates
    BY <1>1, <1>4, Disconnecting DEF Counted
  <2>3. Mild(k, e)
    BY <1>1, <1>4, <2>2 DEF Mild
  <2> HIDE DEF e
  <2>. QED
    BY <1>2, <1>4, <2>1, <2>2, <2>3, QueueMild
<1>. QED
  BY <1>3, <1>4

(* A user keeps a reference.                                                *)
LEMMA HoldCall ==
    ASSUME NEW w, IsWorld(w), NEW c \in Fds, NEW n \in Nat, Holds(w, c, n),
           w.conn[c].mem = "live"
    PROVE  UserStep(w, [w EXCEPT !.conn[c] = Keep(@)], c, n)
<1> DEFINE k == w.conn[c]
           a == NT(w.pending, c)
           i == conn_ref_inc(k)
           e == [i EXCEPT !.holds = @ + 1]
<1>1. IsConn(k) /\ k.mem = "live" /\ Counted(k, a, n) /\ a \in Nat
  BY CountsAreNat DEF Holds, IsWorld
<1>2. Counted(i, a, n + 1) /\ Same(k, i) /\ i.epoll = k.epoll
  BY <1>1, IncCounted
<1> HIDE DEF i, a
<1>3. /\ IsConn(e) /\ e.mem = "live" /\ e.dict = k.dict /\ e.cb = k.cb /\ e.state = k.state
      /\ e.epoll = k.epoll /\ e.ref = i.ref /\ e.holds = i.holds + 1 /\ e.dict = i.dict
      /\ i.mem = "live" /\ IsConn(i) /\ i.ref \in Nat /\ i.ref > 0 /\ i.holds \in Nat
  <2>1. /\ i.mem = "live" /\ IsConn(i) /\ i.ref \in Nat /\ i.ref > 0 /\ i.holds \in Nat
        /\ i.dict = k.dict /\ i.cb = k.cb /\ i.state = k.state
    BY <1>1, <1>2 DEF Same, Counted, IsConn
  <2>2. /\ IsConn(e) /\ e.mem = i.mem /\ e.dict = i.dict /\ e.cb = i.cb /\ e.state = i.state
        /\ e.epoll = i.epoll /\ e.ref = i.ref /\ e.holds = i.holds + 1
    BY <2>1 DEF IsConn, Fields, States, UpStates
  <2>. QED
    BY <1>2, <2>1, <2>2
<1> HIDE DEF e
<1>4. e.ref + a + i.holds + (n + 1) = i.ref + a + e.holds + n /\ e.ref > 0 /\ n + 1 \in Nat
  BY <1>1, <1>3
<1>5. Counted(e, a, n)
  BY <1>1, <1>2, <1>3, <1>4, CountedMoves, ZenonT(30)
<1>6. Mild(k, e)
  BY <1>1, <1>3 DEF Mild
<1>7. UserStep(w, [w EXCEPT !.conn[c] = e], c, n)
  BY <1>5, <1>6, SetMild DEF a
<1>. QED
  BY <1>7 DEF e, i, Keep

(* A user gives a reference back.                                           *)
LEMMA DropCall ==
    ASSUME NEW w, IsWorld(w), NEW c \in Fds, NEW n \in Nat, Holds(w, c, n),
           w.conn[c].holds # 0
    PROVE  UserStep(w, [w EXCEPT !.conn[c] = Drop(@)], c, n)
<1> DEFINE k == w.conn[c]
           a == NT(w.pending, c)
           i == [k EXCEPT !.holds = @ - 1]
           e == conn_ref_dec(i)
<1>1. IsConn(k) /\ Counted(k, a, n) /\ a \in Nat /\ k.holds # 0
  BY CountsAreNat DEF Holds, IsWorld
<1>2. k.mem = "live" /\ k.ref > 0 /\ k.ref \in Nat /\ k.holds \in Nat
  BY <1>1 DEF Counted, IsConn
<1>3. /\ IsConn(i) /\ i.mem = "live" /\ i.dict = k.dict /\ i.cb = k.cb /\ i.state = k.state
      /\ i.epoll = k.epoll /\ i.ref = k.ref /\ i.holds = k.holds - 1
  BY <1>1, <1>2 DEF IsConn, Fields, States, UpStates
<1> HIDE DEF i, a
<1>4. i.ref + a + k.holds + n = k.ref + a + i.holds + (n + 1) /\ i.ref > 0 /\ n + 1 \in Nat
  BY <1>1, <1>2, <1>3
<1>5. Counted(i, a, n + 1)
  BY <1>1, <1>2, <1>3, <1>4, CountedMoves, ZenonT(30)
<1>6. /\ Counted(e, a, n)
      /\ (Same(i, e) /\ e.epoll = i.epoll) \/ (Dead(e) /\ ~i.dict)
  BY <1>1, <1>3, <1>5, DecCounted
<1> HIDE DEF e
<1>7. Mild(k, e)
  BY <1>2, <1>3, <1>6 DEF Mild, Same, Dead
<1>8. UserStep(w, [w EXCEPT !.conn[c] = e], c, n)
  BY <1>6, <1>7, SetMild DEF a
<1>. QED
  BY <1>8 DEF e, i, Drop

(* A user's call is about no connection, or about one.                      *)
LEMMA UserCallKinds ==
    ASSUME NEW u \in UserCalls
    PROVE  /\ u.by \in Sides /\ u.res \in Int /\ u.res >= -1
           /\ \/ u.fd \notin Fds /\ u.op \in {"none", "quit"}
              \/ u.fd \in Fds /\ u.op \in {"send", "shutdown", "close", "hold", "drop"}
  BY FdAssumption DEF UserCalls, NoCall, Sides

(* One that is about no connection.                                         *)
LEMMA UserCallNone ==
    ASSUME NEW w, IsWorld(w), NEW u \in UserCalls, u.fd \notin Fds
    PROVE  /\ IsWorld(UserCall(w, u)) /\ Onward(w, UserCall(w, u))
           /\ UserCall(w, u).conn = w.conn /\ UserCall(w, u).pending = w.pending
<1>1. CASE u.op = "none"
  <2>1. UserCall(w, u) = w
    BY <1>1 DEF UserCall
  <2>. QED
    BY <2>1 DEF Onward
<1>2. CASE u.op = "quit"
  <2>1. UserCall(w, u) = [w EXCEPT !.quit = TRUE, !.wake = @ \/ u.by = "other"]
    BY <1>2 DEF UserCall, gp_loop_quit
  <2> DEFINE v == [w EXCEPT !.quit = TRUE, !.wake = @ \/ u.by = "other"]
  <2>2. /\ DOMAIN v = DOMAIN w /\ v.conn = w.conn /\ v.pending = w.pending
        /\ v.quit = TRUE /\ v.wake = (w.wake \/ u.by = "other")
    BY DEF IsWorld
  <2> HIDE DEF v
  <2>3. IsWorld(v) /\ Onward(w, v)
    BY <2>2 DEF IsWorld, Onward
  <2>. QED
    BY <2>1, <2>2, <2>3 DEF v
<1>. QED
  BY <1>1, <1>2, UserCallKinds

(* One that is about a connection.                                          *)
LEMMA UserCallOne ==
    ASSUME NEW w, IsWorld(w), NEW u \in UserCalls, u.fd \in Fds, NEW n \in Nat, Holds(w, u.fd, n)
    PROVE  UserStep(w, UserCall(w, u), u.fd, n)
<1> DEFINE c == u.fd
           k == w.conn[c]
<1>1. /\ u.by \in Sides /\ u.res \in Int /\ u.res >= -1
      /\ u.op \in {"send", "shutdown", "close", "hold", "drop"}
  BY UserCallKinds
<1>2. CASE u.op = "drop"
  <2>1. UserCall(w, u) = IF k.holds = 0 THEN w ELSE [w EXCEPT !.conn[c] = Drop(@)]
    BY <1>2 DEF UserCall
  <2>. QED
    BY <2>1, NothingDone, DropCall
<1>3. CASE u.op # "drop" /\ (~MayUse(k) \/ ~Bounded(w, u))
  <2>1. UserCall(w, u) = w
    BY <1>1, <1>3 DEF UserCall
  <2>. QED
    BY <2>1, NothingDone
<1>4. CASE u.op # "drop" /\ MayUse(k) /\ Bounded(w, u)
  <2>1. k.mem = "live"
    BY <1>4, UsedIsLive DEF Holds
  <2>2. CASE u.op = "send"
    <3>1. UserCall(w, u) = conn_send(w, c, u.by, u.res)
      BY <1>4, <2>2 DEF UserCall
    <3>. QED
      BY <1>1, <2>1, <3>1, SendCall
  <2>3. CASE u.op = "shutdown"
    <3>1. UserCall(w, u) = conn_shutdown(w, c, u.by)
      BY <1>4, <2>3 DEF UserCall
    <3>. QED
      BY <2>1, <3>1, ShutdownCall
  <2>4. CASE u.op = "close"
    <3>1. UserCall(w, u) = conn_force_close(w, c, u.by)
      BY <1>4, <2>4 DEF UserCall
    <3>. QED
      BY <2>1, <3>1, ForceCloseCall
  <2>5. CASE u.op = "hold"
    <3>1. UserCall(w, u) = [w EXCEPT !.conn[c] = Keep(@)]
      BY <1>4, <2>5 DEF UserCall
    <3>. QED
      BY <2>1, <3>1, HoldCall
  <2>. QED
    BY <1>1, <1>4, <2>2, <2>3, <2>4, <2>5
<1>. QED
  BY <1>2, <1>3, <1>4

(* Such a call leaves a connection settled.                                 *)
LEMMA MildSettled ==
    ASSUME NEW k, NEW e, IsConn(k), Mild(k, e), NEW nd, Settled(k, nd)
    PROVE  Settled(e, nd)
  BY DEF Mild, Settled, Dead, IsConn, UpStates, States

(* A user's call in the midst of a step about c.                            *)
LEMMA UserCallAmid ==
    ASSUME NEW w, NEW c \in Fds, Others(w, c), NEW n \in Nat, Holds(w, c, n), NEW u \in UserCalls
    PROVE  /\ Through(w, UserCall(w, u), c) /\ Holds(UserCall(w, u), c, n)
           /\ Mild(w.conn[c], UserCall(w, u).conn[c])
           /\ ND(UserCall(w, u).pending, c) = ND(w.pending, c)
<1> DEFINE v == UserCall(w, u)
<1> SUFFICES /\ Through(w, v, c) /\ Holds(v, c, n) /\ Mild(w.conn[c], v.conn[c])
             /\ ND(v.pending, c) = ND(w.pending, c)
  OBVIOUS
<1>1. IsWorld(w)
  BY DEF Others
<1>2. CASE u.fd \notin Fds
  <2>1. IsWorld(v) /\ Onward(w, v) /\ v.conn = w.conn /\ v.pending = w.pending
    BY <1>1, <1>2, UserCallNone
  <2> HIDE DEF v
  <2>. QED
    BY <2>1 DEF Through, Others, Holds, Mild
<1>3. CASE u.fd = c
  <2>1. UserStep(w, v, c, n)
    BY <1>1, <1>3, UserCallOne
  <2> HIDE DEF v
  <2>. QED
    BY <2>1, AloneThrough DEF UserStep
<1>4. CASE u.fd \in Fds \ {c}
  <2> DEFINE d == u.fd
  <2>1. Holds(w, d, 0) /\ Settled(w.conn[d], ND(w.pending, d)) /\ d \in Fds \ {c}
    BY <1>4 DEF Others
  <2>2. UserStep(w, v, d, 0)
    BY <1>1, <1>4, <2>1, UserCallOne
  <2> HIDE DEF v, d
  <2>3. Alone(w, v, d) /\ Holds(v, d, 0) /\ Mild(w.conn[d], v.conn[d]) /\ ND(v.pending, d) = ND(w.pending, d)
    BY <2>2 DEF UserStep
  <2>4. Settled(v.conn[d], ND(v.pending, d))
    BY <2>1, <2>3, MildSettled DEF Holds
  <2>5. w.conn[d].mem = "live" /\ w.conn[d].dict => v.conn[d].mem = "live" /\ v.conn[d].dict
    BY <2>3 DEF Mild
  <2>6. v.conn[c] = w.conn[c] /\ NT(v.pending, c) = NT(w.pending, c) /\ ND(v.pending, c) = ND(w.pending, c)
    BY <2>1, <2>3 DEF Alone
  <2>7. Others(v, c)
    <3>1. IsWorld(v)
      BY <2>3 DEF Alone
    <3>2. ASSUME NEW b \in Fds \ {c} PROVE Holds(v, b, 0) /\ Settled(v.conn[b], ND(v.pending, b))
      <4>1. CASE b = d
        BY <2>3, <2>4, <4>1
      <4>2. CASE b # d
        BY <2>3, <4>2 DEF Alone, Others, Holds
      <4>. QED
        BY <4>1, <4>2
    <3>. QED
      BY <3>1, <3>2 DEF Others
  <2>8. Through(w, v, c)
    <3>1. ASSUME NEW b \in Fds \ {c}, w.conn[b].mem = "live" /\ w.conn[b].dict
          PROVE  v.conn[b].mem = "live" /\ v.conn[b].dict
      BY <2>3, <2>5, <3>1 DEF Alone
    <3>2. ASSUME NEW b \in Fds \ {c} PROVE ND(v.pending, b) = ND(w.pending, b)
      BY <2>3 DEF Alone
    <3>. QED
      BY <2>3, <2>7, <3>1, <3>2 DEF Through, Alone
  <2>. QED
    BY <2>6, <2>8 DEF Holds, Mild
<1>. QED
  BY <1>2, <1>3, <1>4

----------------------------------------------------------------------------
(* The steps of a handler about c, one after the other.                     *)

(* c is set.                                                                *)
LEMMA SetAmid ==
    ASSUME NEW w, NEW c \in Fds, Others(w, c), NEW n, NEW e, IsConn(e),
           Counted(e, NT(w.pending, c), n)
    PROVE  /\ Through(w, [w EXCEPT !.conn[c] = e], c) /\ Holds([w EXCEPT !.conn[c] = e], c, n)
           /\ [w EXCEPT !.conn[c] = e].conn[c] = e
           /\ [w EXCEPT !.conn[c] = e].pending = w.pending
<1> DEFINE v == [w EXCEPT !.conn[c] = e]
<1>1. Changed(w, v, c, e)
  BY SetConn DEF Others
<1> HIDE DEF v
<1>2. Through(w, v, c) /\ Holds(v, c, n) /\ v.conn[c] = e /\ v.pending = w.pending
  BY <1>1, ChangedAlone, AloneThrough DEF Holds, Changed
<1>. QED
  BY <1>2 DEF v

(* A reference is taken.                                                    *)
LEMMA TakeRefAmid ==
    ASSUME NEW w, NEW c \in Fds, Others(w, c), NEW n \in Nat, Holds(w, c, n),
           w.conn[c].mem = "live"
    PROVE  /\ Through(w, TakeRef(w, c), c) /\ Holds(TakeRef(w, c), c, n + 1)
           /\ Same(w.conn[c], TakeRef(w, c).conn[c])
           /\ TakeRef(w, c).conn[c].epoll = w.conn[c].epoll
           /\ TakeRef(w, c).pending = w.pending
<1> DEFINE k == w.conn[c]
           e == conn_ref_inc(k)
<1>1. NT(w.pending, c) \in Nat
  BY CountsAreNat DEF Others, IsWorld
<1>2. Counted(e, NT(w.pending, c), n + 1) /\ Same(k, e) /\ e.epoll = k.epoll /\ IsConn(e)
  BY <1>1, IncCounted DEF Holds, Same
<1>3. TakeRef(w, c) = [w EXCEPT !.conn[c] = e]
  BY DEF TakeRef
<1> HIDE DEF e
<1>. QED
  BY <1>2, <1>3, SetAmid

(* A reference is given back.                                               *)
LEMMA GiveRefAmid ==
    ASSUME NEW w, NEW c \in Fds, Others(w, c), NEW n \in Nat, Holds(w, c, n + 1)
    PROVE  /\ Through(w, GiveRef(w, c), c) /\ Holds(GiveRef(w, c), c, n)
           /\ \/ /\ Same(w.conn[c], GiveRef(w, c).conn[c])
                 /\ GiveRef(w, c).conn[c].epoll = w.conn[c].epoll
              \/ /\ Dead(GiveRef(w, c).conn[c]) /\ NT(w.pending, c) = 0 /\ n = 0
                 /\ ~w.conn[c].dict
           /\ GiveRef(w, c).pending = w.pending /\ w.conn[c].mem = "live"
<1> DEFINE k == w.conn[c]
           e == conn_ref_dec(k)
<1>1. NT(w.pending, c) \in Nat
  BY CountsAreNat DEF Others, IsWorld
<1>2. /\ Counted(e, NT(w.pending, c), n) /\ k.mem = "live" /\ IsConn(e)
      /\ \/ Same(k, e) /\ e.epoll = k.epoll
         \/ Dead(e) /\ NT(w.pending, c) = 0 /\ n = 0 /\ ~k.dict
  BY <1>1, DecCounted DEF Holds, Same, Dead
<1>3. GiveRef(w, c) = [w EXCEPT !.conn[c] = e]
  BY DEF GiveRef
<1> HIDE DEF e
<1>. QED
  BY <1>2, <1>3, SetAmid

(* c has gone down and is no longer listed; nd tasks will destroy it.       *)
Down(w, c, n, nd) ==
    /\ Others(w, c) /\ Holds(w, c, n) /\ ND(w.pending, c) = nd
    /\ w.conn[c].mem = "live" /\ ~w.conn[c].dict
    /\ w.conn[c].state = "disconnected" /\ w.conn[c].cb = "down"

(* References come and go.                                                  *)
LEMMA DownTakes ==
    ASSUME NEW w, NEW c \in Fds, NEW n \in Nat, NEW nd, Down(w, c, n, nd)
    PROVE  /\ Through(w, TakeRef(w, c), c) /\ Down(TakeRef(w, c), c, n + 1, nd)
           /\ TakeRef(w, c).conn[c].epoll = w.conn[c].epoll
  BY TakeRefAmid DEF Down, Same, Through

(* Not the last one: another is held, or a queued task has one.             *)
LEMMA DownGives ==
    ASSUME NEW w, NEW c \in Fds, NEW n \in Nat, NEW nd \in Nat, Down(w, c, n + 1, nd),
           n > 0 \/ nd > 0
    PROVE  /\ Through(w, GiveRef(w, c), c) /\ Down(GiveRef(w, c), c, n, nd)
           /\ GiveRef(w, c).conn[c].epoll = w.conn[c].epoll
<1>1. Others(w, c) /\ Holds(w, c, n + 1) /\ ND(w.pending, c) = nd
  BY DEF Down
<1>2. NT(w.pending, c) = 0 => nd = 0
  BY <1>1, CountsAreNat DEF Others, IsWorld
<1>3. /\ Through(w, GiveRef(w, c), c) /\ Holds(GiveRef(w, c), c, n)
      /\ Same(w.conn[c], GiveRef(w, c).conn[c])
      /\ GiveRef(w, c).conn[c].epoll = w.conn[c].epoll
      /\ GiveRef(w, c).pending = w.pending
  BY <1>1, <1>2, GiveRefAmid
<1>. QED
  BY <1>1, <1>3 DEF Down, Same, Through

(* remove_conn takes c out of the dictionary and queues its destruction.    *)
LEMMA RemoveConn ==
    ASSUME NEW w, NEW c \in Fds, Others(w, c), NEW n \in Nat, Holds(w, c, n + 1),
           w.conn[c].mem = "live", w.conn[c].dict, w.conn[c].state = "disconnected",
           w.conn[c].cb = "down", ND(w.pending, c) = 0, ~w.conn[c].epoll
    PROVE  /\ Through(w, remove_conn(w, c), c) /\ Down(remove_conn(w, c), c, n + 1, 1)
           /\ ~remove_conn(w, c).conn[c].epoll
<1> DEFINE k == w.conn[c]
           e == [Touch(k) EXCEPT !.dict = FALSE]
           a == NT(w.pending, c)
           w1 == [w EXCEPT !.conn[c] = e]
           w2 == GiveRef(w1, c)
           w3 == TakeRef(w2, c)
           t == Task("destroy", c, <<>>)
           w4 == gp_queue_in_loop(w3, t, "loop")
           w5 == GiveRef(w4, c)
           m == n + 2
<1>0. m \in Nat /\ n + 1 \in Nat /\ m = (n + 1) + 1 /\ n + 1 > 0
  OBVIOUS
<1>1. remove_conn(w, c) = w5
  BY DEF remove_conn, run_in_loop_remove_conn
<1>2. a \in Nat /\ IsConn(k) /\ Counted(k, a, n + 1) /\ k.ref \in Nat /\ k.holds \in Nat
  BY CountsAreNat DEF Others, IsWorld, Holds, IsConn
<1>3. /\ IsConn(e) /\ e.mem = "live" /\ e.dict = FALSE /\ e.state = "disconnected"
      /\ e.cb = "down" /\ e.ref = k.ref /\ e.holds = k.holds /\ ~e.epoll
  BY <1>2 DEF IsConn, Touch, Fields, States, UpStates
<1>4. Counted(e, a, m)
  <2>1. k.ref = a + k.holds + (n + 1) + 1 /\ k.ref > 0
    BY <1>2 DEF Counted
  <2> HIDE DEF e, k, a
  <2>2. e.ref = a + e.holds + (m) /\ e.ref > 0
    BY <1>2, <1>3, <2>1
  <2>. QED
    BY <1>3, <2>2 DEF Counted
<1> HIDE DEF e, m
<1>5. Through(w, w1, c) /\ Down(w1, c, m, 0) /\ ~w1.conn[c].epoll
  <2>1. Through(w, w1, c) /\ Holds(w1, c, m) /\ w1.conn[c] = e /\ w1.pending = w.pending
    <3>1. IsConn(e) /\ Counted(e, NT(w.pending, c), m) /\ w1 = [w EXCEPT !.conn[c] = e]
      BY <1>3, <1>4
    <3> HIDE DEF w1
    <3>. QED
      BY <3>1, SetAmid
  <2> HIDE DEF w1
  <2>. QED
    BY <1>3, <2>1 DEF Down, Through
<1> HIDE DEF w1
<1>6. Through(w1, w2, c) /\ Down(w2, c, n + 1, 0) /\ ~w2.conn[c].epoll
  <2>. QED
    BY <1>0, <1>5, DownGives
<1> HIDE DEF w2
<1>7. Through(w2, w3, c) /\ Down(w3, c, m, 0) /\ ~w3.conn[c].epoll
  <2>. QED
    BY <1>0, <1>6, DownTakes
<1> HIDE DEF w3
<1>8. Through(w3, w4, c) /\ Down(w4, c, m, 1) /\ ~w4.conn[c].epoll
  <2>1. t \in TaskSet /\ t.fd = c /\ t.kind = "destroy"
    BY DEF Task, TaskSet, Kinds
  <2>2. Others(w3, c) /\ IsWorld(w3) /\ Holds(w3, c, m) /\ w3.conn[c].mem = "live" /\ m \in Nat
        /\ w3.pending \in Seq(TaskSet) /\ ND(w3.pending, c) = 0
    BY <1>0, <1>7 DEF Down, Others, IsWorld
  <2> HIDE DEF t
  <2>3. /\ Alone(w3, w4, c) /\ Holds(w4, c, m) /\ Same(w3.conn[c], w4.conn[c])
        /\ w4.conn[c].epoll = w3.conn[c].epoll
        /\ w4.pending = Append(w3.pending, t)
    BY <2>1, <2>2, QueueHolds
  <2>4. ND(w4.pending, c) = 1
    BY <2>2, <2>3, QueueDestroy DEF t
  <2> HIDE DEF w4
  <2>5. Through(w3, w4, c)
    BY <2>2, <2>3, AloneThrough
  <2>. QED
    BY <1>7, <2>3, <2>4, <2>5 DEF Down, Same, Through
<1> HIDE DEF w4
<1>9. Through(w4, w5, c) /\ Down(w5, c, n + 1, 1) /\ ~w5.conn[c].epoll
  <2>. QED
    BY <1>0, <1>8, DownGives
<1> HIDE DEF w5
<1>10. Through(w, w5, c)
  BY <1>5, <1>6, <1>7, <1>8, <1>9, ThroughTrans
<1>. QED
  BY <1>1, <1>9, <1>10

(* c is up, and listed.                                                     *)
Open(w, c, n) ==
    /\ Others(w, c) /\ Holds(w, c, n) /\ ND(w.pending, c) = 0
    /\ w.conn[c].mem = "live" /\ w.conn[c].dict
    /\ w.conn[c].state \in UpStates /\ w.conn[c].cb = "up"

(* Noting a callback of a live connection.                                  *)
LEMMA NotedKeeps ==
    ASSUME NEW k, IsConn(k), k.mem = "live", NEW what
    PROVE  /\ IsConn(Noted(k, what))
           /\ Noted(k, what).mem = k.mem /\ Noted(k, what).state = k.state
           /\ Noted(k, what).dict = k.dict /\ Noted(k, what).holds = k.holds
           /\ Noted(k, what).ref = k.ref /\ Noted(k, what).epoll = k.epoll
           /\ k.cb = "none" /\ what = "up" => Noted(k, what).cb = "up"
           /\ k.cb = "up" /\ what = "msg" => Noted(k, what).cb = "up"
           /\ k.cb = "up" /\ what = "down" => Noted(k, what).cb = "down"
<1> DEFINE m == Noted(k, what).cb
           e == Noted(k, what)
<1>1. e = [Touch(k) EXCEPT !.cb = m] /\ IsConn(Touch(k)) /\ Touch(k).cb = k.cb
  BY TouchKeeps DEF Noted, Same, IsConn, Touch, Fields
<1>2. /\ k.cb = "none" /\ what = "up" => m = "up"
      /\ k.cb = "up" /\ what = "msg" => m = "up"
      /\ k.cb = "up" /\ what = "down" => m = "down"
  BY <1>1 DEF Noted, IsConn, Fields
<1> HIDE DEF m, e
<1>3. /\ IsConn(e)
      /\ e.mem = k.mem /\ e.state = k.state /\ e.dict = k.dict /\ e.holds = k.holds
      /\ e.ref = k.ref /\ e.epoll = k.epoll
  <2> DEFINE j == Touch(k)
  <2>1. IsConn(j) /\ Same(k, j) /\ j.ref = k.ref /\ j.epoll = k.epoll
    BY TouchKeeps DEF Same
  <2>2. e = [j EXCEPT !.cb = m]
    BY <1>1
  <2> HIDE DEF j
  <2>3. /\ IsConn(e) /\ e.mem = j.mem /\ e.state = j.state /\ e.dict = j.dict
        /\ e.holds = j.holds /\ e.ref = j.ref /\ e.epoll = j.epoll
    BY <2>1, <2>2 DEF IsConn, Fields, States, UpStates
  <2>. QED
    BY <2>1, <2>3 DEF Same
<1>. QED
  BY <1>2, <1>3 DEF m, e

(* connection_handler_close, of a connection that is up: the user hears of  *)
(* it once, and the destruction is queued once.                             *)
LEMMA CloseHandler ==
    ASSUME NEW w, NEW c \in Fds, NEW n \in Nat, Open(w, c, n), NEW u \in UserCalls
    PROVE  /\ Through(w, connection_handler_close(w, c, u), c)
           /\ Down(connection_handler_close(w, c, u), c, n, 1)
           /\ ~connection_handler_close(w, c, u).conn[c].epoll
<1> DEFINE k == w.conn[c]
           i == conn_ref_inc(k)
           g == GoDown(i)
           e == Noted(g, "down")
           a == NT(w.pending, c)
           w1 == [w EXCEPT !.conn[c] = e]
           w2 == UserCall(w1, u)
           w3 == remove_conn(w2, c)
           w4 == GiveRef(w3, c)
<1>1. connection_handler_close(w, c, u) = w4
  <2>1. [[w EXCEPT !.conn[c] = GoDown(conn_ref_inc(@))] EXCEPT !.conn[c] = Noted(@, "down")] = w1
    BY DEF Open, Others, IsWorld
  <2>. QED
    BY <2>1 DEF connection_handler_close, Callback
<1>2. /\ a \in Nat /\ IsConn(k) /\ Counted(k, a, n) /\ k.mem = "live" /\ k.dict
      /\ k.state \in UpStates /\ k.cb = "up"
  BY CountsAreNat DEF Open, Others, IsWorld, Holds
<1> HIDE DEF k, a
<1>3. Counted(i, a, n + 1) /\ Same(k, i)
  BY <1>2, IncCounted
<1> HIDE DEF i
<1>4. /\ IsConn(g) /\ g.state = "disconnected" /\ ~g.epoll /\ g.mem = "live" /\ g.ref = i.ref
      /\ g.dict = i.dict /\ g.holds = i.holds /\ g.cb = i.cb /\ i.mem = "live"
  BY <1>2, <1>3, GoDownKeeps DEF Same
<1> HIDE DEF g
<1>5. /\ IsConn(e) /\ e.state = "disconnected" /\ ~e.epoll /\ e.mem = "live" /\ e.ref = i.ref
      /\ e.dict = i.dict /\ e.dict /\ e.holds = i.holds /\ e.cb = "down"
  BY <1>2, <1>3, <1>4, NotedKeeps DEF Same
<1> HIDE DEF e
<1>6. Counted(e, a, n + 1)
  BY <1>3, <1>4, <1>5 DEF Counted
<1>7. /\ Through(w, w1, c) /\ Holds(w1, c, n + 1) /\ w1.conn[c] = e /\ w1.pending = w.pending
      /\ Others(w1, c)
  <2>1. w1 = [w EXCEPT !.conn[c] = e] /\ Others(w, c) /\ Counted(e, NT(w.pending, c), n + 1)
    BY <1>6 DEF Open, a
  <2> HIDE DEF w1
  <2>2. Through(w, w1, c) /\ Holds(w1, c, n + 1) /\ w1.conn[c] = e /\ w1.pending = w.pending
    BY <1>5, <2>1, SetAmid
  <2>. QED
    BY <2>2 DEF Through
<1> HIDE DEF w1
<1>8. n + 1 \in Nat
  OBVIOUS
<1>9. /\ Through(w1, w2, c) /\ Holds(w2, c, n + 1) /\ Mild(e, w2.conn[c])
      /\ ND(w2.pending, c) = ND(w.pending, c)
  BY <1>7, <1>8, UserCallAmid
<1> HIDE DEF w2
<1>10. /\ Others(w2, c) /\ w2.conn[c].mem = "live" /\ w2.conn[c].dict
       /\ w2.conn[c].state = "disconnected" /\ w2.conn[c].cb = "down" /\ ND(w2.pending, c) = 0
       /\ ~w2.conn[c].epoll
  BY <1>5, <1>9 DEF Mild, UpStates, Through, Open
<1>11. Through(w2, w3, c) /\ Down(w3, c, n + 1, 1) /\ ~w3.conn[c].epoll
  BY <1>9, <1>10, RemoveConn
<1> HIDE DEF w3
<1>12. Through(w3, w4, c) /\ Down(w4, c, n, 1) /\ ~w4.conn[c].epoll
  BY <1>11, DownGives
<1> HIDE DEF w4
<1>13. Through(w, w4, c)
  BY <1>7, <1>9, <1>11, <1>12, ThroughTrans
<1>. QED
  BY <1>1, <1>12, <1>13

(* What a handler leaves of c: up and listed, down and on its way to be     *)
(* destroyed, or freed.                                                     *)
Left(w, c, n) ==
    /\ Others(w, c) /\ Holds(w, c, n)
    /\ Settled(w.conn[c], ND(w.pending, c))

(* A message is delivered between two references.                           *)
LEMMA ReadHandler ==
    ASSUME NEW w, NEW c \in Fds, NEW n \in Nat, Open(w, c, n), NEW eof, NEW u \in UserCalls
    PROVE  /\ Through(w, connection_handler_read(w, c, eof, u), c)
           /\ \/ Open(connection_handler_read(w, c, eof, u), c, n)
              \/ Down(connection_handler_read(w, c, eof, u), c, n, 1)
<1>1. CASE eof
  <2>1. connection_handler_read(w, c, eof, u) = connection_handler_close(w, c, u)
    BY <1>1 DEF connection_handler_read
  <2>. QED
    BY <2>1, CloseHandler
<1>2. CASE ~eof
  <2> DEFINE w1 == TakeRef(w, c)
             e == Noted(w1.conn[c], "msg")
             w2 == [w1 EXCEPT !.conn[c] = e]
             w3 == UserCall(w2, u)
             w4 == GiveRef(w3, c)
  <2>1. connection_handler_read(w, c, eof, u) = w4
    BY <1>2 DEF connection_handler_read, Callback
  <2>2. /\ Through(w, w1, c) /\ Holds(w1, c, n + 1) /\ Same(w.conn[c], w1.conn[c])
        /\ w1.pending = w.pending
    BY TakeRefAmid DEF Open
  <2> HIDE DEF w1
  <2>3. /\ Others(w1, c) /\ IsConn(w1.conn[c]) /\ w1.conn[c].mem = "live" /\ w1.conn[c].dict
        /\ w1.conn[c].state \in UpStates /\ w1.conn[c].cb = "up" /\ ND(w1.pending, c) = 0
    BY <2>2 DEF Open, Same, Through
  <2>4. /\ IsConn(e) /\ e.mem = "live" /\ e.dict /\ e.state \in UpStates /\ e.cb = "up"
        /\ Counted(e, NT(w1.pending, c), n + 1)
    <3>1. /\ IsConn(e) /\ e.cb = "up"
          /\ e.mem = w1.conn[c].mem /\ e.state = w1.conn[c].state /\ e.dict = w1.conn[c].dict
          /\ e.holds = w1.conn[c].holds /\ e.ref = w1.conn[c].ref
      <4> DEFINE j == w1.conn[c]
      <4>1. IsConn(j) /\ j.mem = "live" /\ j.cb = "up" /\ e = Noted(j, "msg")
        BY <2>3
      <4> HIDE DEF j, e
      <4>2. /\ IsConn(e) /\ e.cb = "up" /\ e.mem = j.mem /\ e.state = j.state
            /\ e.dict = j.dict /\ e.holds = j.holds /\ e.ref = j.ref
        BY <4>1, NotedKeeps
      <4>. QED
        BY <4>2 DEF j
    <3> DEFINE k == w1.conn[c]
    <3>2. Counted(k, NT(w1.pending, c), n + 1) /\ k.mem = "live"
      BY <2>2, <2>3 DEF Holds
    <3>3. IsConn(e) /\ e.mem = k.mem /\ e.dict = k.dict /\ e.holds = k.holds /\ e.ref = k.ref
      BY <3>1
    <3> HIDE DEF e, k
    <3>4. Counted(e, NT(w1.pending, c), n + 1)
      BY <3>2, <3>3 DEF Counted
    <3>. QED
      BY <2>3, <3>1, <3>4
  <2> HIDE DEF e
  <2>5. /\ Through(w1, w2, c) /\ Holds(w2, c, n + 1) /\ w2.conn[c] = e /\ w2.pending = w1.pending
        /\ Others(w2, c)
    <3>1. w2 = [w1 EXCEPT !.conn[c] = e]
      OBVIOUS
    <3> HIDE DEF w2
    <3>2. Through(w1, w2, c) /\ Holds(w2, c, n + 1) /\ w2.conn[c] = e /\ w2.pending = w1.pending
      BY <2>3, <2>4, <3>1, SetAmid
    <3>. QED
      BY <3>2 DEF Through
  <2> HIDE DEF w2
  <2>6. /\ Through(w2, w3, c) /\ Holds(w3, c, n + 1) /\ Mild(e, w3.conn[c])
        /\ ND(w3.pending, c) = ND(w2.pending, c)
    <3>1. n + 1 \in Nat
      OBVIOUS
    <3>. QED
      BY <2>5, <3>1, UserCallAmid
  <2> HIDE DEF w3
  <2>7. /\ Others(w3, c) /\ w3.conn[c].mem = "live" /\ w3.conn[c].dict /\ ND(w3.pending, c) = 0
        /\ w3.conn[c].state \in UpStates /\ w3.conn[c].cb = "up"
    BY <2>3, <2>4, <2>5, <2>6 DEF Mild, Through
  <2>8. /\ Through(w3, w4, c) /\ Holds(w4, c, n) /\ Same(w3.conn[c], w4.conn[c])
        /\ w4.pending = w3.pending
    BY <2>6, <2>7, GiveRefAmid
  <2> HIDE DEF w4
  <2>9. Open(w4, c, n)
    BY <2>7, <2>8 DEF Open, Same, Through
  <2>10. Through(w, w4, c)
    BY <2>2, <2>5, <2>6, <2>8, ThroughTrans
  <2>. QED
    BY <2>1, <2>9, <2>10
<1>. QED
  BY <1>1, <1>2

(* What is up, or down with its destruction queued, is settled.             *)
LEMMA OpenLeft ==
    ASSUME NEW w, NEW c \in Fds, NEW n, Open(w, c, n) \/ Down(w, c, n, 1)
    PROVE  Left(w, c, n)
  BY DEF Open, Down, Left, Settled, UpStates

(* A function that changes only what is between c and the kernel.           *)
LEMMA SameAmid ==
    ASSUME NEW w, NEW c \in Fds, NEW n, Others(w, c), Holds(w, c, n), w.conn[c].mem = "live",
           NEW e, Same(w.conn[c], e), e.ref = w.conn[c].ref
    PROVE  /\ Through(w, [w EXCEPT !.conn[c] = e], c) /\ Holds([w EXCEPT !.conn[c] = e], c, n)
           /\ [w EXCEPT !.conn[c] = e].conn[c] = e
           /\ [w EXCEPT !.conn[c] = e].pending = w.pending
<1>1. IsConn(e)
  BY DEF Same
<1>2. Counted(e, NT(w.pending, c), n)
  <2> DEFINE k == w.conn[c]
  <2>1. Counted(k, NT(w.pending, c), n) /\ Same(k, e) /\ e.ref = k.ref /\ k.mem = "live"
    BY DEF Holds
  <2> HIDE DEF k
  <2>. QED
    BY <2>1 DEF Counted, Same
<1>. QED
  BY <1>1, <1>2, SetAmid

(* The write handler, of a connection that is up or still to be destroyed.  *)
LEMMA WriteHandler ==
    ASSUME NEW w, NEW c \in Fds, NEW n, Open(w, c, n) \/ Down(w, c, n, 1),
           NEW res \in Int, res >= -1
    PROVE  /\ Through(w, [w EXCEPT !.conn[c] = connection_handler_write(@, res)], c)
           /\ Left([w EXCEPT !.conn[c] = connection_handler_write(@, res)], c, n)
<1> DEFINE k == w.conn[c]
           e == connection_handler_write(k, res)
           v == [w EXCEPT !.conn[c] = e]
<1>1. Others(w, c) /\ Holds(w, c, n) /\ k.mem = "live" /\ IsConn(k)
  BY DEF Open, Down, Holds
<1>2. Same(k, e) /\ e.ref = k.ref
  BY <1>1, WriteKeeps
<1> HIDE DEF e
<1>3. Through(w, v, c) /\ Holds(v, c, n) /\ v.conn[c] = e /\ v.pending = w.pending
  <2>1. v = [w EXCEPT !.conn[c] = e]
    OBVIOUS
  <2> HIDE DEF v
  <2>. QED
    BY <1>1, <1>2, <2>1, SameAmid
<1> HIDE DEF v
<1>4. Open(v, c, n) \/ Down(v, c, n, 1)
  BY <1>2, <1>3 DEF Open, Down, Same, Through
<1>5. Left(v, c, n)
  BY <1>4, OpenLeft
<1>. QED
  BY <1>3, <1>5 DEF v, e

(* All a reported handler does: the connection may close under it, but is   *)
(* not freed.                                                               *)
LEMMA EventHandler ==
    ASSUME NEW w, NEW c \in Fds, Open(w, c, 0), NEW revents, NEW eof, NEW res \in Int, res >= -1,
           NEW u \in UserCalls
    PROVE  /\ Through(w, handle_event(w, c, revents, eof, res, u), c)
           /\ Left(handle_event(w, c, revents, eof, res, u), c, 0)
<1> DEFINE w1 == IF "hup" \in revents /\ "in" \notin revents
                 THEN connection_handler_close(w, c, u) ELSE w
           w2 == IF "in" \in revents THEN connection_handler_read(w1, c, eof, u) ELSE w1
           w3 == [w2 EXCEPT !.conn[c] = connection_handler_write(@, res)]
<1>1. handle_event(w, c, revents, eof, res, u) = IF "out" \in revents THEN w3 ELSE w2
  BY DEF handle_event
<1>2. Through(w, w, c)
  BY DEF Open, Through, Onward
<1>3. Through(w, w1, c) /\ (Open(w1, c, 0) \/ Down(w1, c, 0, 1)) /\ ("in" \in revents => w1 = w)
  BY <1>2, CloseHandler
<1> HIDE DEF w1
<1>4. Through(w, w2, c) /\ (Open(w2, c, 0) \/ Down(w2, c, 0, 1))
  BY <1>3, ReadHandler
<1> HIDE DEF w2
<1>5. Left(w2, c, 0)
  BY <1>4, OpenLeft
<1>6. Through(w2, w3, c) /\ Left(w3, c, 0)
  BY <1>4, WriteHandler
<1> HIDE DEF w3
<1>7. Through(w, w3, c)
  BY <1>4, <1>6, ThroughTrans
<1>. QED
  BY <1>1, <1>4, <1>5, <1>6, <1>7

(* The loop gives back the reference of a task it has run.                  *)
LEMMA TaskGives ==
    ASSUME NEW w, NEW c \in Fds, Left(w, c, 1)
    PROVE  /\ Through(w, GiveRef(w, c), c) /\ Left(GiveRef(w, c), c, 0)
           /\ GiveRef(w, c).pending = w.pending
           /\ GiveRef(w, c).conn[c].epoll => w.conn[c].epoll
<1> DEFINE v == GiveRef(w, c)
           k == w.conn[c]
<1>1. Others(w, c) /\ Holds(w, c, 0 + 1) /\ Settled(k, ND(w.pending, c))
  BY DEF Left
<1>2. /\ Through(w, v, c) /\ Holds(v, c, 0) /\ v.pending = w.pending
      /\ (Same(k, v.conn[c]) /\ v.conn[c].epoll = k.epoll) \/ Dead(v.conn[c])
  BY <1>1, GiveRefAmid
<1> HIDE DEF v
<1>3. Settled(v.conn[c], ND(v.pending, c))
  BY <1>1, <1>2 DEF Settled, Same, Dead
<1>4. Through(w, v, c) /\ Left(v, c, 0)
  BY <1>2, <1>3 DEF Left, Through
<1>5. v.pending = w.pending /\ (v.conn[c].epoll => k.epoll)
  BY <1>2 DEF Dead
<1>. QED
  BY <1>4, <1>5 DEF v

(* A task that changes only what is between c and the kernel.               *)
LEMMA SameTask ==
    ASSUME NEW w, NEW c \in Fds, Left(w, c, 1), w.conn[c].mem = "live",
           NEW e, Same(w.conn[c], e), e.ref = w.conn[c].ref,
           e.epoll => w.conn[c].epoll \/ w.conn[c].state # "disconnected"
    PROVE  /\ Through(w, [w EXCEPT !.conn[c] = e], c) /\ Left([w EXCEPT !.conn[c] = e], c, 1)
           /\ [w EXCEPT !.conn[c] = e].pending = w.pending
<1> DEFINE v == [w EXCEPT !.conn[c] = e]
           k == w.conn[c]
<1>1. Others(w, c) /\ Holds(w, c, 1) /\ Settled(k, ND(w.pending, c))
  BY DEF Left
<1>2. Through(w, v, c) /\ Holds(v, c, 1) /\ v.conn[c] = e /\ v.pending = w.pending
  <2>1. v = [w EXCEPT !.conn[c] = e]
    OBVIOUS
  <2> HIDE DEF v
  <2>. QED
    BY <1>1, <2>1, SameAmid
<1> HIDE DEF v
<1>3. Settled(e, ND(w.pending, c))
  <2>1. Same(k, e) /\ k.mem = "live" /\ (e.epoll => k.epoll \/ k.state # "disconnected")
    OBVIOUS
  <2> HIDE DEF k
  <2>. QED
    BY <1>1, <2>1 DEF Settled, Same
<1>4. Through(w, v, c) /\ Left(v, c, 1) /\ v.pending = w.pending
  BY <1>2, <1>3 DEF Left, Through
<1>. QED
  BY <1>4 DEF v

(* queue_in_loop_force_close looks at the state again: it may have closed   *)
(* since the task was queued.                                               *)
LEMMA CloseTask ==
    ASSUME NEW w, NEW c \in Fds, Left(w, c, 1), w.conn[c].mem = "live", NEW u \in UserCalls
    PROVE  /\ Through(w, queue_in_loop_force_close(w, c, u), c)
           /\ Left(queue_in_loop_force_close(w, c, u), c, 1)
           /\ \/ queue_in_loop_force_close(w, c, u).pending = w.pending
              \/ ~queue_in_loop_force_close(w, c, u).conn[c].epoll
<1> DEFINE k == w.conn[c]
<1>1. CASE k.state \in UpStates
  <2>1. queue_in_loop_force_close(w, c, u) = connection_handler_close(w, c, u)
    BY <1>1 DEF queue_in_loop_force_close, UpStates
  <2>2. Open(w, c, 1)
    BY <1>1 DEF Left, Settled, Open
  <2>. QED
    BY <2>1, <2>2, CloseHandler, OpenLeft
<1>2. CASE k.state \notin UpStates
  <2>1. queue_in_loop_force_close(w, c, u) = [w EXCEPT !.conn[c] = Touch(k)]
    BY <1>2 DEF queue_in_loop_force_close, UpStates
  <2>2. Same(k, Touch(k)) /\ Touch(k).ref = k.ref /\ Touch(k).epoll = k.epoll
    BY TouchKeeps DEF Left, Holds
  <2>. QED
    BY <2>1, <2>2, SameTask
<1>. QED
  BY <1>1, <1>2

(* connection_destroyed finds a connection that went down already and takes *)
(* its handler out of epoll.                                                *)
LEMMA DestroyTask ==
    ASSUME NEW w, NEW c \in Fds, Down(w, c, 1, 0), NEW u
    PROVE  /\ Through(w, connection_destroyed(w, c, u), c)
           /\ Left(connection_destroyed(w, c, u), c, 1)
           /\ connection_destroyed(w, c, u).pending = w.pending
<1> DEFINE k == w.conn[c]
           e == handler_remove(k)
           v == [w EXCEPT !.conn[c] = e]
<1>1. connection_destroyed(w, c, u) = v
  BY DEF connection_destroyed, Down
<1>2. Others(w, c) /\ Holds(w, c, 1) /\ k.mem = "live" /\ IsConn(k) /\ k.state = "disconnected"
  BY DEF Down, Holds
<1>3. Same(k, e) /\ e.ref = k.ref /\ ~e.epoll
  BY <1>2, RemoveKeeps
<1> HIDE DEF e
<1>4. Through(w, v, c) /\ Holds(v, c, 1) /\ v.conn[c] = e /\ v.pending = w.pending
  <2>1. v = [w EXCEPT !.conn[c] = e]
    OBVIOUS
  <2> HIDE DEF v
  <2>. QED
    BY <1>2, <1>3, <2>1, SameAmid
<1> HIDE DEF v
<1>5. Left(v, c, 1)
  BY <1>3, <1>4 DEF Left, Settled, Down, Same, Through, UpStates
<1>. QED
  BY <1>1, <1>4, <1>5

(* A new connection, with the dictionary's reference and the caller's.      *)
LEMMA NewConnection ==
    ASSUME NEW new, new = [Blank EXCEPT !.mem = "live", !.ref = 1, !.dict = TRUE]
    PROVE  /\ IsConn(conn_ref_inc(new)) /\ conn_ref_inc(new).mem = "live"
           /\ conn_ref_inc(new).dict /\ conn_ref_inc(new).cb = "none"
           /\ Counted(conn_ref_inc(new), 0, 1)
<1>1. /\ IsConn(new) /\ new.mem = "live" /\ new.ref = 1 /\ new.dict /\ new.cb = "none"
      /\ new.holds = 0
  BY DEF IsConn, Blank, Fields, States, UpStates
<1>2. Counted(new, 0, 0)
  BY <1>1 DEF Counted
<1> DEFINE e == conn_ref_inc(new)
<1>3. Counted(e, 0, 0 + 1) /\ Same(new, e)
  BY <1>1, <1>2, IncCounted
<1> HIDE DEF e
<1>4. Counted(e, 0, 1)
  BY <1>3, 0 + 1 = 1
<1>5. IsConn(e) /\ e.mem = "live" /\ e.dict /\ e.cb = "none"
  BY <1>1, <1>3 DEF Same
<1>. QED
  BY <1>4, <1>5 DEF e

(* connection_established: from here on the connection is watched.          *)
LEMMA EstablishedKeeps ==
    ASSUME NEW k, IsConn(k), k.mem = "live", k.out = <<>>, ~k.shut, k.index = "new"
    PROVE  LET e == enable_reading([k EXCEPT !.state = "connected"]) IN
           /\ IsConn(e) /\ e.mem = "live" /\ e.state = "connected" /\ e.dict = k.dict
           /\ e.holds = k.holds /\ e.ref = k.ref /\ e.cb = k.cb
  BY DEF IsConn, enable_reading, update, Touch, Fields, States, UpStates

(* new_connection_callback leaves a connection that is up and listed.       *)
LEMMA AcceptHandler ==
    ASSUME NEW w, NEW c \in Fds, Others(w, c), Holds(w, c, 0), w.conn[c].mem = "free",
           NEW u \in UserCalls
    PROVE  /\ Through(w, new_connection_callback(w, c, u), c)
           /\ Open(new_connection_callback(w, c, u), c, 0)
<1> DEFINE new == [Blank EXCEPT !.mem = "live", !.ref = 1, !.dict = TRUE]
           i == conn_ref_inc(new)
           j == conn_ref_inc(i)
           g == enable_reading([j EXCEPT !.state = "connected"])
           e == Noted(g, "up")
           w1 == [w EXCEPT !.conn[c] = e]
           w2 == UserCall(w1, u)
           w3 == GiveRef(w2, c)
           w4 == GiveRef(w3, c)
<1>1. new_connection_callback(w, c, u) = w4
  <2> DEFINE v1 == [w EXCEPT !.conn[c] = i]
             v2 == TakeRef(v1, c)
             v3 == [v2 EXCEPT !.conn[c] = enable_reading([@ EXCEPT !.state = "connected"])]
             v4 == [v3 EXCEPT !.conn[c] = Noted(@, "up")]
  <2>1. new_connection_callback(w, c, u) = GiveRef(GiveRef(UserCall(v4, u), c), c)
    BY DEF new_connection_callback, connection_established, Callback
  <2> HIDE DEF i
  <2>2. v2 = [w EXCEPT !.conn[c] = j]
    BY DEF Others, IsWorld, TakeRef
  <2>3. v3 = [w EXCEPT !.conn[c] = g]
    <3> HIDE DEF v2
    <3>1. v2.conn[c] = j
      BY <2>2 DEF Others, IsWorld
    <3>2. v3 = [v2 EXCEPT !.conn[c] = g]
      BY <3>1
    <3> HIDE DEF g
    <3>. QED
      BY <2>2, <3>2 DEF Others, IsWorld
  <2>4. v4 = w1
    <3> HIDE DEF v3
    <3>1. v3.conn[c] = g
      BY <2>3 DEF Others, IsWorld
    <3>2. v4 = [v3 EXCEPT !.conn[c] = e]
      BY <3>1
    <3> HIDE DEF e
    <3>. QED
      BY <2>3, <3>2 DEF Others, IsWorld
  <2>. QED
    BY <2>1, <2>4
<1>2. NT(w.pending, c) = 0 /\ ND(w.pending, c) = 0
  <2>1. NT(w.pending, c) = 0
    BY DEF Holds, Counted
  <2>. QED
    BY <2>1, CountsAreNat DEF Others, IsWorld
<1>3. /\ IsConn(i) /\ i.mem = "live" /\ i.dict /\ i.cb = "none" /\ Counted(i, 0, 1)
      /\ i.out = <<>> /\ ~i.shut /\ i.index = "new"
  <2>1. i.out = <<>> /\ ~i.shut /\ i.index = "new"
    BY DEF conn_ref_inc, Touch, Blank
  <2>. QED
    BY <2>1, NewConnection
<1> HIDE DEF i
<1>4. /\ IsConn(j) /\ j.mem = "live" /\ j.dict /\ j.cb = "none" /\ Counted(j, 0, 2)
      /\ j.out = <<>> /\ ~j.shut /\ j.index = "new"
  <2>1. j.out = i.out /\ j.shut = i.shut /\ j.index = i.index
    BY <1>3 DEF conn_ref_inc, Touch, IsConn, Fields
  <2>2. Counted(j, 0, 1 + 1) /\ Same(i, j)
    BY <1>3, IncCounted
  <2>. QED
    BY <1>3, <2>1, <2>2 DEF Same
<1> HIDE DEF j
<1>5. /\ IsConn(g) /\ g.mem = "live" /\ g.state = "connected" /\ g.dict /\ g.cb = "none"
      /\ g.ref = j.ref /\ g.holds = j.holds
  BY <1>4, EstablishedKeeps
<1> HIDE DEF g
<1>6. /\ IsConn(e) /\ e.mem = "live" /\ e.state = "connected" /\ e.dict /\ e.cb = "up"
      /\ e.ref = j.ref /\ e.holds = j.holds
  BY <1>5, NotedKeeps
<1> HIDE DEF e
<1>7. Counted(e, NT(w.pending, c), 2)
  BY <1>2, <1>4, <1>6 DEF Counted
<1>8. /\ Through(w, w1, c) /\ Holds(w1, c, 2) /\ w1.conn[c] = e /\ w1.pending = w.pending
      /\ Open(w1, c, 2)
  <2>1. w1 = [w EXCEPT !.conn[c] = e]
    OBVIOUS
  <2> HIDE DEF w1
  <2>2. Through(w, w1, c) /\ Holds(w1, c, 2) /\ w1.conn[c] = e /\ w1.pending = w.pending
    BY <1>6, <1>7, <2>1, SetAmid
  <2>. QED
    BY <1>2, <1>6, <2>2 DEF Through, Open, UpStates
<1> HIDE DEF w1
<1>9. Through(w1, w2, c) /\ Open(w2, c, 2)
  <2>1. /\ Through(w1, w2, c) /\ Holds(w2, c, 2) /\ Mild(e, w2.conn[c])
        /\ ND(w2.pending, c) = ND(w1.pending, c)
    BY <1>8, UserCallAmid DEF Open
  <2> HIDE DEF w2
  <2>. QED
    BY <1>6, <1>8, <2>1 DEF Open, Mild, Through, UpStates
<1> HIDE DEF w2
<1>10. ASSUME NEW x, NEW n \in Nat, Open(x, c, n + 1)
       PROVE  Through(x, GiveRef(x, c), c) /\ Open(GiveRef(x, c), c, n)
  <2> DEFINE y == GiveRef(x, c)
  <2>1. Through(x, y, c) /\ Holds(y, c, n) /\ Same(x.conn[c], y.conn[c]) /\ y.pending = x.pending
    BY <1>10, GiveRefAmid DEF Open
  <2> HIDE DEF y
  <2>2. Through(x, y, c) /\ Open(y, c, n)
    BY <1>10, <2>1 DEF Open, Same, Through
  <2>. QED
    BY <2>2 DEF y
<1>11. Through(w2, w3, c) /\ Open(w3, c, 1)
  BY <1>9, <1>10, 2 = 1 + 1
<1> HIDE DEF w3
<1>12. Through(w3, w4, c) /\ Open(w4, c, 0)
  BY <1>10, <1>11, 1 = 0 + 1
<1> HIDE DEF w4
<1>13. Through(w, w4, c)
  BY <1>8, <1>9, <1>11, <1>12, ThroughTrans
<1>. QED
  BY <1>1, <1>12, <1>13

----------------------------------------------------------------------------
(* The actions.                                                             *)

(* Between handlers nobody but the listed keepers holds a reference.        *)
LEMMA WorldOK ==
    ASSUME IInv
    PROVE  /\ IsWorld(World)
           /\ \A c \in Fds : Left(World, c, 0)
<1>1. /\ DOMAIN World = {"conn", "pending", "wake", "quit"}
      /\ World.conn = conn /\ World.pending = pending /\ World.wake = wake /\ World.quit = quit
  BY DEF World
<1>2. IsWorld(World)
  BY <1>1 DEF IInv, Types, IsWorld
<1>3. \A c \in Fds : Holds(World, c, 0) /\ Settled(World.conn[c], ND(World.pending, c))
  BY <1>1 DEF IInv, ConnsOK, Holds
<1>. QED
  BY <1>2, <1>3 DEF Left, Others

(* A handler that leaves c settled leaves everything settled.               *)
LEMMA BecomeOK ==
    ASSUME NEW STATE v, NEW c \in Fds, Left(v, c, 0), Become(v)
    PROVE  /\ conn' = [d \in Fds |-> conn'[d]] /\ pending' \in Seq(TaskSet)
           /\ wake' \in BOOLEAN /\ quit' \in BOOLEAN
           /\ ConnsOK'
<1>1. conn' = v.conn /\ pending' = v.pending /\ wake' = v.wake /\ quit' = v.quit
  BY DEF Become
<1>2. IsWorld(v) /\ \A d \in Fds : Holds(v, d, 0) /\ Settled(v.conn[d], ND(v.pending, d))
  BY DEF Left, Others
<1>3. ConnsOK'
  BY <1>1, <1>2 DEF ConnsOK, Holds
<1>. QED
  BY <1>1, <1>2, <1>3 DEF IsWorld

(* The rest of the batch after its first handler.                           *)
LEMMA ActiveTail ==
    ASSUME IInv, active # <<>>
    PROVE  /\ Head(active) \in [h : Fds \union {WakeupFd, ListenFd},
                                revents : SUBSET {"in", "out", "hup"}]
           /\ Tail(active) \in Seq([h : Fds \union {WakeupFd, ListenFd},
                                    revents : SUBSET {"in", "out", "hup"}])
           /\ Head(active).h \in Fds => conn[Head(active).h].mem = "live" /\ conn[Head(active).h].dict
           /\ \A i \in 1..Len(Tail(active)) :
                 /\ Tail(active)[i].h # Head(active).h
                 /\ Tail(active)[i].h \in Fds => conn[Tail(active)[i].h].mem = "live"
                                                 /\ conn[Tail(active)[i].h].dict
           /\ \A i, j \in 1..Len(Tail(active)) : Tail(active)[i].h = Tail(active)[j].h => i = j
<1> DEFINE H == [h : Fds \union {WakeupFd, ListenFd}, revents : SUBSET {"in", "out", "hup"}]
<1>1. active \in Seq(H) /\ ActiveOK
  BY DEF IInv, Types
<1> HIDE DEF H
<1>2. /\ Head(active) \in H /\ Tail(active) \in Seq(H) /\ Head(active) = active[1]
      /\ Len(active) \in Nat /\ Len(active) > 0 /\ Len(Tail(active)) = Len(active) - 1
      /\ \A i \in 1..Len(Tail(active)) : Tail(active)[i] = active[i + 1]
  BY <1>1, HeadTailProperties
<1>3. \A i \in 1..Len(Tail(active)) : i + 1 \in 1..Len(active) /\ i + 1 # 1
  BY <1>2
<1>4. 1 \in 1..Len(active)
  BY <1>2
<1>5. /\ \A i \in 1..Len(active) : active[i].h \in Fds =>
            conn[active[i].h].mem = "live" /\ conn[active[i].h].dict
      /\ \A i, j \in 1..Len(active) : active[i].h = active[j].h => i = j
  BY <1>1 DEF ActiveOK
<1>6. Head(active).h \in Fds => conn[Head(active).h].mem = "live" /\ conn[Head(active).h].dict
  BY <1>2, <1>4, <1>5
<1>7. ASSUME NEW i \in 1..Len(Tail(active))
      PROVE  /\ Tail(active)[i].h # Head(active).h
             /\ Tail(active)[i].h \in Fds => conn[Tail(active)[i].h].mem = "live"
                                             /\ conn[Tail(active)[i].h].dict
  BY <1>2, <1>3, <1>4, <1>5
<1>8. ASSUME NEW i \in 1..Len(Tail(active)), NEW j \in 1..Len(Tail(active)),
             Tail(active)[i].h = Tail(active)[j].h
      PROVE  i = j
  <2>1. i + 1 = j + 1
    BY <1>2, <1>3, <1>5, <1>8
  <2>. QED
    BY <2>1
<1>. QED
  BY <1>2, <1>6, <1>7, <1>8 DEF H

(* An event of connection c: what is left of the batch is about others.     *)
LEMMA BatchOK ==
    ASSUME IInv, NEW STATE v, NEW c \in Fds, Left(v, c, 0), Become(v), Through(World, v, c),
           phase = "events", active # <<>>, UNCHANGED <<phase, listening>>,
           active' = Tail(active), \A i \in 1..Len(Tail(active)) : Tail(active)[i].h # c
    PROVE  IInv'
<1>1. /\ conn' = [d \in Fds |-> conn'[d]] /\ pending' \in Seq(TaskSet)
      /\ wake' \in BOOLEAN /\ quit' \in BOOLEAN /\ ConnsOK'
  BY BecomeOK
<1>2. Types'
  BY <1>1, ActiveTail DEF Types, IInv
<1>3. ActiveOK'
  <2>1. ASSUME NEW i \in 1..Len(Tail(active)), Tail(active)[i].h \in Fds
        PROVE  conn'[Tail(active)[i].h].mem = "live" /\ conn'[Tail(active)[i].h].dict
    <3> DEFINE d == Tail(active)[i].h
    <3>1. d \in Fds \ {c} /\ conn[d].mem = "live" /\ conn[d].dict
      BY <2>1, ActiveTail
    <3>2. World.conn = conn /\ conn' = v.conn
      BY DEF World, Become
    <3> HIDE DEF d
    <3>3. conn'[d].mem = "live" /\ conn'[d].dict
      BY <3>1, <3>2 DEF Through
    <3>. QED
      BY <3>3 DEF d
  <2>2. phase' = "events" /\ active' = Tail(active)
    OBVIOUS
  <2>3. \A i, j \in 1..Len(Tail(active)) : Tail(active)[i].h = Tail(active)[j].h => i = j
    BY ActiveTail
  <2>. QED
    BY <2>1, <2>2, <2>3 DEF ActiveOK
<1>4. Woken' /\ Quiet'
  BY DEF Woken, Quiet
<1>. QED
  BY <1>1, <1>2, <1>3, <1>4 DEF IInv

(* A connection's event.                                                    *)
LEMMA ConnEventOK ==
    ASSUME IInv, NEW c \in Fds, NEW eof \in BOOLEAN, NEW res \in Results, NEW u \in UserCalls,
           ConnEvent(c, eof, res, u)
    PROVE  IInv'
<1> DEFINE r == Head(active).revents
           v == handle_event(World, c, r, eof, res, u)
<1>1. /\ phase = "events" /\ active # <<>> /\ Head(active).h = c /\ Become(v)
      /\ active' = Tail(active) /\ UNCHANGED <<phase, listening>>
  BY DEF ConnEvent, NextEvent
<1>2. conn[c].mem = "live" /\ conn[c].dict
  BY <1>1, ActiveTail
<1>3. Open(World, c, 0)
  <2>1. Left(World, c, 0) /\ World.conn = conn
    BY WorldOK DEF World
  <2>. QED
    BY <1>2, <2>1 DEF Left, Settled, Open
<1>4. res \in Int /\ res >= -1
  BY DEF Results
<1>5. Through(World, v, c) /\ Left(v, c, 0)
  BY <1>3, <1>4, EventHandler
<1> HIDE DEF v
<1>6. \A i \in 1..Len(Tail(active)) : Tail(active)[i].h # c
  BY <1>1, ActiveTail
<1>. QED
  BY <1>1, <1>5, <1>6, BatchOK

(* A connection is accepted.                                                *)
LEMMA AcceptOK ==
    ASSUME IInv, NEW c \in Fds, NEW u \in UserCalls, Accept(c, u)
    PROVE  IInv'
<1> DEFINE v == new_connection_callback(World, c, u)
<1>1. /\ phase = "events" /\ active # <<>> /\ conn[c].mem = "free" /\ Become(v)
      /\ active' = Tail(active) /\ UNCHANGED <<phase, listening>>
  BY DEF Accept, NextEvent
<1>2. Through(World, v, c) /\ Left(v, c, 0)
  <2>1. Others(World, c) /\ Holds(World, c, 0) /\ World.conn[c].mem = "free"
    BY <1>1, WorldOK DEF Left, World
  <2>. QED
    BY <2>1, AcceptHandler, OpenLeft
<1> HIDE DEF v
<1>3. \A i \in 1..Len(Tail(active)) : Tail(active)[i].h # c
  BY <1>1, ActiveTail
<1>. QED
  BY <1>1, <1>2, <1>3, BatchOK

(* A task taken off the list: the loop holds its reference now.             *)
LEMMA TaskTaken ==
    ASSUME IInv, pending # <<>>, NEW t, t = Head(pending), NEW w,
           w = [World EXCEPT !.pending = Tail(@)]
    PROVE  /\ t \in TaskSet /\ IsWorld(w) /\ w.conn = conn /\ w.pending = Tail(pending)
           /\ w.wake = wake
           /\ conn[t.fd].mem = "live"
           /\ t.kind # "destroy" => Left(w, t.fd, 1)
           /\ t.kind = "destroy" => Down(w, t.fd, 1, 0)
<1> DEFINE c == t.fd
           k == conn[c]
           a == NT(w.pending, c)
<1>1. /\ DOMAIN w = {"conn", "pending", "wake", "quit"}
      /\ w.conn = conn /\ w.pending = Tail(pending) /\ w.wake = wake /\ w.quit = quit
  BY DEF World
<1>2. pending \in Seq(TaskSet) /\ t \in TaskSet /\ Tail(pending) \in Seq(TaskSet)
  BY HeadTailProperties DEF IInv, Types
<1>3. IsWorld(w)
  BY <1>1, <1>2 DEF IInv, Types, IsWorld
<1>4. c \in Fds
  BY <1>2 DEF TaskSet
<1>5. /\ NT(pending, c) = a + 1
      /\ t.kind = "destroy" => ND(pending, c) = ND(w.pending, c) + 1
      /\ t.kind # "destroy" => ND(pending, c) = ND(w.pending, c)
      /\ \A d \in Fds : d # c => NT(pending, d) = NT(w.pending, d) /\ ND(pending, d) = ND(w.pending, d)
  <2> DEFINE q == Tail(pending)
  <2>1. /\ NT(pending, t.fd) = NT(q, t.fd) + 1
        /\ t.kind = "destroy" => ND(pending, t.fd) = ND(q, t.fd) + 1
        /\ t.kind # "destroy" => ND(pending, t.fd) = ND(q, t.fd)
        /\ \A d \in Fds : d # t.fd => NT(pending, d) = NT(q, d) /\ ND(pending, d) = ND(q, d)
    BY <1>2, TakeCounts
  <2>2. w.pending = q
    BY <1>1
  <2> HIDE DEF q
  <2>. QED
    BY <2>1, <2>2
<1>6. a \in Nat /\ ND(w.pending, c) \in Nat
  BY <1>1, <1>2, <1>4, CountsAreNat
<1>7. IsConn(k) /\ Counted(k, a + 1, 0) /\ Settled(k, ND(pending, c))
  BY <1>4, <1>5 DEF IInv, ConnsOK
<1> HIDE DEF a, k, c
<1>8. k.mem = "live"
  BY <1>6, <1>7 DEF Counted, IsConn
<1>9. Counted(k, a, 1)
  <2>1. k.ref \in Nat /\ k.holds \in Nat /\ k.ref > 0
    BY <1>7, <1>8 DEF Counted, IsConn
  <2>2. k.ref + (a + 1) + k.holds + 0 = k.ref + a + k.holds + 1 /\ a + 1 \in Nat /\ 0 \in Nat /\ 1 \in Nat
    BY <1>6, <2>1
  <2>. QED
    BY <1>6, <1>7, <1>8, <2>1, <2>2, CountedMoves, ZenonT(30)
<1>10. Others(w, c)
  <2>1. ASSUME NEW d \in Fds \ {c} PROVE Holds(w, d, 0) /\ Settled(w.conn[d], ND(w.pending, d))
    BY <1>1, <1>5 DEF IInv, ConnsOK, Holds
  <2>. QED
    BY <1>3, <2>1 DEF Others
<1>11. Holds(w, c, 1)
  BY <1>1, <1>7, <1>9 DEF Holds, a, k
<1>12. CASE t.kind # "destroy"
  <2>1. Left(w, c, 1)
    BY <1>1, <1>5, <1>7, <1>10, <1>11, <1>12 DEF Left, k
  <2>. QED
    BY <1>1, <1>2, <1>3, <1>8, <1>12, <2>1 DEF c, k
<1>13. CASE t.kind = "destroy"
  <2>1. ND(pending, c) = ND(w.pending, c) + 1
    BY <1>5, <1>13
  <2>2. /\ ~k.dict /\ k.state = "disconnected" /\ k.cb = "down" /\ ND(w.pending, c) = 0
    BY <1>6, <1>7, <1>8, <2>1 DEF Settled, IsConn
  <2>3. Down(w, c, 1, 0)
    BY <1>1, <1>8, <1>10, <1>11, <2>2 DEF Down, k
  <2>. QED
    BY <1>1, <1>2, <1>3, <1>8, <1>13, <2>3 DEF c, k
<1>. QED
  BY <1>12, <1>13

(* A pending task is run.  What the last one queues has woken the loop.     *)
LEMMA RunPendingTaskOK ==
    ASSUME IInv, NEW res \in Results, NEW u \in UserCalls, RunPendingTask(res, u)
    PROVE  IInv'
<1> DEFINE t == Head(pending)
           c == t.fd
           w == [World EXCEPT !.pending = Tail(@)]
           done == CASE t.kind = "send" ->
                            [w EXCEPT !.conn[c] = conn_send_in_loop(@, t.data, res)]
                     [] t.kind = "shutdown" -> [w EXCEPT !.conn[c] = run_in_loop_shutdown(@)]
                     [] t.kind = "close" -> queue_in_loop_force_close(w, c, u)
                     [] t.kind = "destroy" -> connection_destroyed(w, c, u)
           v == GiveRef(done, c)
<1>1. /\ phase = "functors" /\ pending # <<>> /\ Become(v)
      /\ phase' = IF Len(pending) > 1 THEN "functors" ELSE "test"
      /\ UNCHANGED <<active, listening, silent>>
  BY DEF RunPendingTask
<1>2. /\ t \in TaskSet /\ IsWorld(w) /\ w.conn = conn /\ w.pending = Tail(pending)
      /\ w.wake = wake
      /\ conn[c].mem = "live"
      /\ t.kind # "destroy" => Left(w, c, 1)
      /\ t.kind = "destroy" => Down(w, c, 1, 0)
  BY <1>1, TaskTaken
<1>3. c \in Fds /\ t.data \in Seq(Bytes) /\ t.kind \in Kinds
  BY <1>2 DEF TaskSet
<1>4. res \in Int /\ res >= -1
  BY DEF Results
<1>5. IsConn(conn[c])
  BY <1>3 DEF IInv, ConnsOK
<1> HIDE DEF t, w, c
<1>6. /\ Through(w, done, c) /\ Left(done, c, 1)
      /\ done.pending = w.pending \/ ~done.conn[c].epoll
  <2>1. CASE t.kind = "send"
    <3> DEFINE e == conn_send_in_loop(conn[c], t.data, res)
    <3>1. done = [w EXCEPT !.conn[c] = e]
      BY <1>2, <2>1
    <3>2. /\ Same(conn[c], e) /\ e.ref = conn[c].ref
          /\ e.epoll => conn[c].epoll \/ conn[c].state # "disconnected"
      BY <1>2, <1>3, <1>4, <1>5, SendInLoop
    <3> HIDE DEF e, done
    <3>. QED
      BY <1>2, <1>3, <2>1, <3>1, <3>2, SameTask
  <2>2. CASE t.kind = "shutdown"
    <3> DEFINE e == run_in_loop_shutdown(conn[c])
    <3>1. done = [w EXCEPT !.conn[c] = e]
      BY <1>2, <2>2
    <3>2. Same(conn[c], e) /\ e.ref = conn[c].ref /\ e.epoll = conn[c].epoll
      BY <1>2, <1>5, ShutdownKeeps
    <3> HIDE DEF e, done
    <3>. QED
      BY <1>2, <1>3, <2>2, <3>1, <3>2, SameTask
  <2>3. CASE t.kind = "close"
    <3>1. done = queue_in_loop_force_close(w, c, u)
      BY <2>3
    <3> HIDE DEF done
    <3>. QED
      BY <1>2, <1>3, <2>3, <3>1, CloseTask
  <2>4. CASE t.kind = "destroy"
    <3>1. done = connection_destroyed(w, c, u)
      BY <2>4
    <3> HIDE DEF done
    <3>. QED
      BY <1>2, <1>3, <2>4, <3>1, DestroyTask
  <2>. QED
    BY <1>3, <2>1, <2>2, <2>3, <2>4 DEF Kinds
<1> HIDE DEF done
<1>7. /\ Through(done, v, c) /\ Left(v, c, 0)
      /\ v.pending = done.pending /\ (v.conn[c].epoll => done.conn[c].epoll)
  BY <1>3, <1>6, TaskGives
<1> HIDE DEF v
<1>8. Through(w, v, c)
  BY <1>3, <1>6, <1>7, ThroughTrans
<1>9. /\ conn' = [d \in Fds |-> conn'[d]] /\ pending' \in Seq(TaskSet)
      /\ wake' \in BOOLEAN /\ quit' \in BOOLEAN /\ ConnsOK'
  BY <1>1, <1>3, <1>7, BecomeOK
<1>10. Types'
  BY <1>1, <1>9 DEF Types, IInv
<1>11. ActiveOK'
  <2>1. active = <<>> /\ active' = active
    BY <1>1 DEF IInv, ActiveOK
  <2>. QED
    BY <2>1 DEF ActiveOK
<1>12. Woken'
  <2>1. CASE Len(pending) > 1
    BY <1>1, <2>1 DEF Woken
  <2>2. CASE ~(Len(pending) > 1)
    <3>1. Tail(pending) = <<>>
      BY <1>1, <2>2 DEF IInv, Types
    <3>2. pending' # <<>> => wake'
      BY <1>1, <1>2, <1>8, <3>1 DEF Through, Onward, Become
    <3>3. phase' = "test"
      BY <1>1, <2>2
    <3>. QED
      BY <3>2, <3>3 DEF Woken
  <2>. QED
    BY <2>1, <2>2
<1>13. Quiet'
  <2> SUFFICES ASSUME phase' = "test", NEW d \in Fds, conn'[d].epoll PROVE conn'[d].dict
    BY <1>1 DEF Quiet
  <2>1. Tail(pending) = <<>> /\ w.pending = <<>>
    BY <1>1, <1>2 DEF IInv, Types
  <2>2. ND(<<>>, d) = 0
    BY EmptyCounts
  <2>3. conn' = v.conn
    BY <1>1 DEF Become
  <2>4. ND(v.pending, d) = 0
    <3>1. CASE d = c
      <4>1. v.pending = w.pending
        BY <1>6, <1>7, <2>3, <3>1
      <4>. QED
        BY <2>1, <2>2, <4>1
    <3>2. CASE d # c
      BY <1>8, <2>1, <2>2, <3>2 DEF Through
    <3>. QED
      BY <3>1, <3>2
  <2>5. Holds(v, d, 0) /\ Settled(v.conn[d], ND(v.pending, d))
    BY <1>7 DEF Left, Others
  <2>6. v.conn[d].mem = "live"
    BY <2>3, <2>5 DEF Holds, Counted, IsConn
  <2>. QED
    BY <2>3, <2>4, <2>5, <2>6 DEF Settled
<1>. QED
  BY <1>9, <1>10, <1>11, <1>12, <1>13 DEF IInv

(* A timer callback: what it queues does not wake, but is noted.            *)
LEMMA TimerCallbackOK ==
    ASSUME IInv, NEW u \in UserCalls, TimerCallback(u)
    PROVE  IInv'
<1> DEFINE v == UserCall(World, u)
<1>1. /\ phase = "timers" /\ phase' = phase /\ active' = active /\ listening' = listening
      /\ Become(v) /\ silent' = (silent \/ pending' # pending \/ quit' # quit)
  BY DEF TimerCallback
<1>2. IsWorld(World) /\ World.conn = conn /\ World.pending = pending /\ World.wake = wake
  BY WorldOK DEF World
<1>3. /\ conn' = [d \in Fds |-> conn'[d]] /\ pending' \in Seq(TaskSet)
      /\ wake' \in BOOLEAN /\ quit' \in BOOLEAN /\ ConnsOK'
      /\ Onward(World, v) /\ \A c \in Fds : conn'[c].epoll => conn'[c].dict
  <2>1. CASE u.fd \notin Fds
    <3>1. IsWorld(v) /\ Onward(World, v) /\ v.conn = World.conn /\ v.pending = World.pending
      BY <1>2, <2>1, UserCallNone
    <3> HIDE DEF v
    <3>2. conn' = conn /\ pending' = pending
      BY <1>1, <1>2, <3>1 DEF Become
    <3>3. wake' \in BOOLEAN /\ quit' \in BOOLEAN
      BY <1>1, <3>1 DEF Become, IsWorld
    <3>4. ConnsOK' /\ \A c \in Fds : conn'[c].epoll => conn'[c].dict
      BY <1>1, <3>2 DEF IInv, ConnsOK, Quiet
    <3>. QED
      BY <3>1, <3>2, <3>3, <3>4 DEF IInv, Types
  <2>2. CASE u.fd \in Fds
    <3> DEFINE c == u.fd
    <3>1. Others(World, c) /\ Holds(World, c, 0) /\ Settled(World.conn[c], ND(World.pending, c))
      BY <2>2, WorldOK DEF Left
    <3>2. UserStep(World, v, c, 0)
      BY <1>2, <2>2, <3>1, UserCallOne
    <3> HIDE DEF v, c
    <3>3. /\ Alone(World, v, c) /\ Holds(v, c, 0) /\ Mild(World.conn[c], v.conn[c])
          /\ ND(v.pending, c) = ND(World.pending, c)
      BY <3>2 DEF UserStep
    <3>4. Settled(v.conn[c], ND(v.pending, c))
      BY <3>1, <3>3, MildSettled DEF Holds
    <3>5. Left(v, c, 0)
      BY <2>2, <3>1, <3>3, <3>4, AloneThrough DEF Left, Through, c
    <3>6. /\ conn' = [d \in Fds |-> conn'[d]] /\ pending' \in Seq(TaskSet)
          /\ wake' \in BOOLEAN /\ quit' \in BOOLEAN /\ ConnsOK'
      BY <1>1, <2>2, <3>5, BecomeOK DEF c
    <3>7. ASSUME NEW d \in Fds, conn'[d].epoll PROVE conn'[d].dict
      <4>1. conn' = v.conn
        BY <1>1 DEF Become
      <4>2. conn[d].epoll => conn[d].dict
        BY <1>1 DEF IInv, Quiet
      <4>3. CASE d = c
        BY <1>2, <3>3, <3>7, <4>1, <4>2, <4>3 DEF Mild, Dead
      <4>4. CASE d # c
        BY <1>2, <3>3, <3>7, <4>1, <4>2, <4>4 DEF Alone
      <4>. QED
        BY <4>3, <4>4
    <3>. QED
      BY <3>3, <3>6, <3>7 DEF Alone
  <2>. QED
    BY <2>1, <2>2
<1> HIDE DEF v
<1>4. Types'
  BY <1>1, <1>3 DEF Types, IInv
<1>5. ActiveOK'
  <2>1. active = <<>> /\ active' = active
    BY <1>1 DEF IInv, ActiveOK
  <2>. QED
    BY <2>1 DEF ActiveOK
<1>6. Woken'
  <2>1. wake => wake'
    BY <1>1, <1>2, <1>3 DEF Onward, Become
  <2>2. (pending # <<>> => wake \/ silent) /\ (quit => wake \/ silent)
    BY <1>1 DEF IInv, Woken
  <2>3. pending' # <<>> => wake' \/ silent'
    BY <1>1, <2>1, <2>2
  <2>4. quit' => wake' \/ silent'
    BY <1>1, <2>1, <2>2
  <2>. QED
    BY <1>1, <2>3, <2>4 DEF Woken
<1>7. Quiet'
  BY <1>3 DEF Quiet
<1>. QED
  BY <1>3, <1>4, <1>5, <1>6, <1>7 DEF IInv

(* epoll_wait returns: every reported connection is up.                     *)
LEMMA PollOK ==
    ASSUME IInv, NEW ready \in SUBSET Polled, Poll(ready)
    PROVE  IInv'
<1> DEFINE R == SUBSET {"in", "out", "hup"}
           All == Fds \union {WakeupFd, ListenFd}
           H == [h : All, revents : R]
<1>1. /\ phase = "poll" /\ phase' = "events" /\ silent' = FALSE
      /\ conn' = [c \in Fds |-> IF c \in ready THEN update(conn[c]) ELSE conn[c]]
      /\ UNCHANGED <<pending, wake, quit, listening>>
  BY DEF Poll
<1>2. PICK order \in SetToSeqs(ready), r \in [ready -> R] :
        active' = [i \in 1..Len(order) |-> [h |-> order[i], revents |-> r[order[i]]]]
  BY DEF Poll
<1>3. ready \subseteq All /\ \A c \in ready : c \in Fds => conn[c].epoll
  BY FdAssumption DEF Polled
<1>4. IsFiniteSet(ready) /\ Cardinality(ready) \in Nat
  <2>1. IsFiniteSet({WakeupFd, ListenFd})
    <3>1. IsFiniteSet({WakeupFd}) /\ IsFiniteSet({ListenFd})
      BY FS_Singleton
    <3>2. IsFiniteSet({WakeupFd} \union {ListenFd})
      BY <3>1, FS_Union
    <3>3. {WakeupFd, ListenFd} = {WakeupFd} \union {ListenFd}
      OBVIOUS
    <3>. QED
      BY <3>2, <3>3, Zenon
  <2>2. IsFiniteSet(All)
    BY <2>1, FdAssumption, FS_Union
  <2>. QED
    BY <1>3, <2>2, FS_Subset, FS_CardinalityType
<1>5. /\ order \in [1..Cardinality(ready) -> ready] /\ Len(order) = Cardinality(ready)
      /\ \A i, j \in 1..Len(order) : i # j => order[i] # order[j]
  <2>1. /\ order \in [1..Cardinality(ready) -> ready]
        /\ \A i, j \in 1..Cardinality(ready) : i # j => order[i] # order[j]
    BY DEF SetToSeqs
  <2>2. Len(order) = Cardinality(ready)
    BY <1>4, <2>1
  <2>. QED
    BY <2>1, <2>2
<1>6. /\ active' \in Seq(H) /\ Len(active') = Len(order)
      /\ \A i \in 1..Len(order) : active'[i].h = order[i] /\ order[i] \in ready
  <2> DEFINE n == Len(order)
             f == [i \in 1..n |-> [h |-> order[i], revents |-> r[order[i]]]]
  <2>1. n \in Nat /\ active' = f
    BY <1>2, <1>4, <1>5
  <2>2. \A i \in 1..n : order[i] \in ready /\ r[order[i]] \in R
    BY <1>5
  <2>3. \A i \in 1..n : [h |-> order[i], revents |-> r[order[i]]] \in H
    BY <1>3, <2>2
  <2> HIDE DEF n, H
  <2>4. f \in Seq(H) /\ Len(f) = n
    BY <2>1, <2>3
  <2>. QED
    BY <2>1, <2>2, <2>4 DEF n
<1>7. ASSUME NEW c \in Fds
      PROVE  /\ IsConn(conn'[c]) /\ Counted(conn'[c], NT(pending, c), 0)
             /\ Settled(conn'[c], ND(pending, c))
             /\ c \in ready => conn'[c].mem = "live" /\ conn'[c].dict
  <2> DEFINE k == conn[c]
             e == update(k)
  <2>1. IsConn(k) /\ Counted(k, NT(pending, c), 0) /\ Settled(k, ND(pending, c))
    BY DEF IInv, ConnsOK
  <2>2. CASE c \notin ready
    BY <1>1, <2>1, <2>2
  <2>3. CASE c \in ready
    <3>1. conn'[c] = e
      BY <1>1, <2>3
    <3>2. k.epoll /\ k.dict /\ k.mem = "live"
      <4>1. k.epoll
        BY <1>3, <2>3
      <4>2. k.dict
        BY <1>1, <4>1 DEF IInv, Quiet
      <4>. QED
        BY <2>1, <4>1, <4>2 DEF Counted, IsConn
    <3>3. Same(k, e) /\ e.ref = k.ref
      BY <2>1, UpdateKeeps
    <3> HIDE DEF k, e
    <3>4. Counted(e, NT(pending, c), 0) /\ Settled(e, ND(pending, c))
      BY <2>1, <3>2, <3>3 DEF Counted, Settled, Same
    <3>. QED
      BY <3>1, <3>2, <3>3, <3>4 DEF Same
  <2>. QED
    BY <2>2, <2>3
<1>8. ConnsOK'
  BY <1>1, <1>7 DEF ConnsOK
<1>9. Types'
  <2>1. conn' = [c \in Fds |-> conn'[c]]
    BY <1>1
  <2>. QED
    BY <1>1, <1>6, <2>1 DEF Types, IInv
<1>10. ActiveOK'
  <2>1. \A i \in 1..Len(active') : active'[i].h \in Fds =>
           conn'[active'[i].h].mem = "live" /\ conn'[active'[i].h].dict
    BY <1>6, <1>7
  <2>2. \A i, j \in 1..Len(active') : active'[i].h = active'[j].h => i = j
    BY <1>5, <1>6
  <2>. QED
    BY <1>1, <2>1, <2>2 DEF ActiveOK
<1>11. Woken' /\ Quiet'
  BY <1>1 DEF Woken, Quiet
<1>. QED
  BY <1>8, <1>9, <1>10, <1>11 DEF IInv

(* The loop's own steps.                                                    *)
LEMMA LoopStepsOK ==
    ASSUME IInv,
           \/ RunLoop \/ WhileTest \/ TimersDone \/ PollTimeout \/ EventsDone \/ NoPendingTask
           \/ UNCHANGED vars
    PROVE  IInv'
<1>1. conn' = conn /\ pending' = pending /\ active' = active /\ listening' = listening /\ wake' = wake
  BY DEF RunLoop, WhileTest, TimersDone, PollTimeout, EventsDone, NoPendingTask, vars
<1>2. /\ phase' \in {"stopped", "test", "timers", "poll", "events", "functors"}
      /\ quit' \in BOOLEAN
  BY DEF RunLoop, WhileTest, TimersDone, PollTimeout, EventsDone, NoPendingTask, vars, IInv, Types
<1>3. Types' /\ ConnsOK'
  BY <1>1, <1>2 DEF IInv, Types, ConnsOK
<1>4. active # <<>> => phase' = "events"
  BY DEF RunLoop, WhileTest, TimersDone, PollTimeout, EventsDone, NoPendingTask, vars, IInv, ActiveOK
<1>5. ActiveOK'
  BY <1>1, <1>4 DEF IInv, ActiveOK
<1>6. Woken'
  <2>1. CASE UNCHANGED vars
    BY <2>1 DEF vars, IInv, Woken
  <2>2. CASE RunLoop \/ WhileTest \/ TimersDone
    BY <2>2 DEF RunLoop, WhileTest, TimersDone, IInv, Woken
  <2>3. CASE PollTimeout \/ EventsDone \/ NoPendingTask
    BY <2>3 DEF PollTimeout, EventsDone, NoPendingTask, IInv, Woken
  <2>. QED
    BY <2>1, <2>2, <2>3
<1>7. Quiet'
  <2>1. CASE UNCHANGED vars
    BY <2>1 DEF vars, IInv, Quiet
  <2>2. CASE RunLoop \/ WhileTest \/ TimersDone \/ PollTimeout \/ EventsDone
    BY <2>2 DEF RunLoop, WhileTest, TimersDone, PollTimeout, EventsDone, IInv, Quiet
  <2>3. CASE NoPendingTask
    <3> SUFFICES ASSUME NEW c \in Fds, conn[c].epoll PROVE conn[c].dict
      BY <1>1 DEF Quiet
    <3>3. ND(pending, c) = 0
      BY <2>3, EmptyCounts DEF NoPendingTask
    <3>4. IsConn(conn[c]) /\ Counted(conn[c], NT(pending, c), 0) /\ Settled(conn[c], ND(pending, c))
      BY DEF IInv, ConnsOK
    <3>. QED
      BY <3>3, <3>4 DEF Counted, Settled, IsConn
  <2>. QED
    BY <2>1, <2>2, <2>3
<1>. QED
  BY <1>3, <1>5, <1>6, <1>7 DEF IInv

(* The other handlers of a batch.                                           *)
LEMMA ServiceEventsOK ==
    ASSUME IInv, WakeupRead \/ AcceptFails
    PROVE  IInv'
<1>1. /\ phase = "events" /\ active # <<>> /\ active' = Tail(active) /\ phase' = phase
      /\ conn' = conn /\ pending' = pending /\ quit' = quit
      /\ wake' \in BOOLEAN /\ listening' \in BOOLEAN
  BY DEF WakeupRead, AcceptFails, NextEvent, IInv, Types
<1>2. Types' /\ ConnsOK'
  BY <1>1, ActiveTail DEF IInv, Types, ConnsOK
<1>3. ActiveOK'
  BY <1>1, ActiveTail DEF ActiveOK
<1>4. Woken' /\ Quiet'
  BY <1>1 DEF Woken, Quiet
<1>. QED
  BY <1>2, <1>3, <1>4 DEF IInv

(* gp_loop_quit by another thread wakes the loop.                           *)
LEMMA OtherQuitsOK ==
    ASSUME IInv, OtherQuits
    PROVE  IInv'
<1>1. /\ conn' = conn /\ pending' = pending /\ active' = active /\ listening' = listening
      /\ phase' = phase /\ quit' = TRUE /\ wake' = TRUE
  BY DEF OtherQuits, Become, gp_loop_quit, World
<1>. QED
  BY <1>1 DEF IInv, Types, ConnsOK, ActiveOK, Woken, Quiet

(* Every step keeps the invariant.                                          *)
LEMMA StepOK ==
    ASSUME IInv, [Next]_vars
    PROVE  IInv'
<1>1. CASE RunLoop \/ PollTimeout \/ UNCHANGED vars
  BY <1>1, LoopStepsOK
<1>2. CASE LoopStep
  <2>1. CASE WhileTest \/ TimersDone \/ EventsDone \/ NoPendingTask
    BY <2>1, LoopStepsOK
  <2>2. CASE HandleEvents
    <3>1. CASE WakeupRead \/ AcceptFails
      BY <3>1, ServiceEventsOK
    <3>2. ASSUME NEW c \in Fds, NEW u \in UserCalls, Accept(c, u) PROVE IInv'
      BY <3>2, AcceptOK
    <3>3. ASSUME NEW c \in Fds, NEW u \in UserCalls, NEW eof \in BOOLEAN, NEW res \in Results,
                 ConnEvent(c, eof, res, u)
          PROVE  IInv'
      BY <3>3, ConnEventOK
    <3>. QED
      BY <2>2, <3>1, <3>2, <3>3 DEF HandleEvents
  <2>3. ASSUME NEW res \in Results, NEW u \in UserCalls, RunPendingTask(res, u) PROVE IInv'
    BY <2>3, RunPendingTaskOK
  <2>. QED
    BY <1>2, <2>1, <2>2, <2>3 DEF LoopStep
<1>3. CASE Polls
  BY <1>3, PollOK DEF Polls
<1>4. CASE OtherQuits
  BY <1>4, OtherQuitsOK
<1>5. ASSUME NEW u \in UserCalls, TimerCallback(u) PROVE IInv'
  BY <1>5, TimerCallbackOK
<1>. QED
  BY <1>1, <1>2, <1>3, <1>4, <1>5 DEF Next

(* It holds when the server has started.                                    *)
LEMMA InitOK ==
    ASSUME Init
    PROVE  IInv
<1>1. pending = <<>> /\ active = <<>> /\ conn = [c \in Fds |-> Blank] /\ phase = "stopped"
      /\ quit = FALSE
  BY DEF Init
<1>2. Types
  <2>1. conn = [c \in Fds |-> conn[c]]
    BY <1>1
  <2>2. pending \in Seq(TaskSet)
    BY <1>1
  <2>3. active \in Seq([h : Fds \union {WakeupFd, ListenFd},
                       revents : SUBSET {"in", "out", "hup"}])
    BY <1>1
  <2>4. /\ wake \in BOOLEAN /\ quit \in BOOLEAN /\ listening \in BOOLEAN
        /\ phase \in {"stopped", "test", "timers", "poll", "events", "functors"}
    BY DEF Init
  <2>. QED
    BY <2>1, <2>2, <2>3, <2>4 DEF Types
<1>3. IsConn(Blank) /\ Blank.mem = "free" /\ Blank.holds = 0 /\ ~Blank.dict /\ ~Blank.epoll
  BY DEF IsConn, Blank, Fields, States, UpStates
<1>4. \A c \in Fds : NT(pending, c) = 0
  BY <1>1, EmptyCounts, Zenon
<1>5. ConnsOK
  <2>1. ASSUME NEW c \in Fds PROVE conn[c] = Blank
    BY <1>1
  <2>2. ASSUME NEW nd PROVE Counted(Blank, 0, 0) /\ Settled(Blank, nd)
    BY <1>3 DEF Counted, Settled
  <2>. QED
    BY <1>3, <1>4, <2>1, <2>2 DEF ConnsOK
<1>6. ActiveOK /\ Woken /\ Quiet
  BY <1>1, <1>3 DEF ActiveOK, Woken, Quiet
<1>. QED
  BY <1>2, <1>5, <1>6 DEF IInv

(* The invariant of the loop.                                               *)
THEOREM Invariance == SafeSpec => []IInv
<1>1. Init => IInv
  BY InitOK
<1>2. IInv /\ [Next]_vars => IInv'
  BY StepOK
<1>. QED
  BY <1>1, <1>2, PTL DEF SafeSpec

----------------------------------------------------------------------------
(* What the properties count is what the invariant counts.                  *)
LEMMA CountIs ==
    ASSUME NEW c \in Fds, pending \in Seq(TaskSet)
    PROVE  Count(c, Kinds) = NT(pending, c) /\ Count(c, {"destroy"}) = ND(pending, c)
<1>1. \A i \in 1..Len(pending) : pending[i] \in TaskSet
  OBVIOUS
<1>2. \A t \in TaskSet : t.kind \in Kinds
  BY DEF TaskSet
<1>3. \A i \in 1..Len(pending) :
         /\ pending[i] \in Of(c) <=> pending[i].fd = c /\ pending[i].kind \in Kinds
         /\ pending[i] \in DestroyOf(c) <=> pending[i].fd = c /\ pending[i].kind \in {"destroy"}
  BY <1>1, <1>2 DEF Of, DestroyOf
<1>4. {i \in 1..Len(pending) : pending[i].fd = c /\ pending[i].kind \in Kinds}
        = Marks(pending, Of(c))
  BY <1>3 DEF Marks
<1>5. {i \in 1..Len(pending) : pending[i].fd = c /\ pending[i].kind \in {"destroy"}}
        = Marks(pending, DestroyOf(c))
  BY <1>3 DEF Marks
<1>. QED
  BY <1>4, <1>5 DEF Count, NT, ND

(* Type correctness, whatever the callbacks do and the kernel reports.      *)
THEOREM TypeCorrect == SafeSpec => []TypeOK
<1>1. IInv => TypeOK
  BY DEF IInv, Types, ConnsOK, IsConn, TypeOK, States, TaskSet
<1>. QED
  BY <1>1, Invariance, PTL

(* No handler, task or callback touches a freed connection, and no task or  *)
(* reported event of one is left: every function that may free it runs      *)
(* between references that others hold (conn_ref_inc, conn_ref_dec).        *)
THEOREM NothingFreedIsUsed == SafeSpec => []NoUseAfterFree
<1>1. ASSUME IInv PROVE NoUseAfterFree
  <2>1. \A c \in Fds : ~conn[c].bad
    BY <1>1 DEF IInv, ConnsOK, IsConn
  <2>2. ASSUME NEW c \in Fds, conn[c].mem = "free"
        PROVE  Count(c, Kinds) = 0 /\ \A i \in 1..Len(active) : active[i].h # c
    <3>1. NT(pending, c) = 0
      BY <1>1, <2>2 DEF IInv, ConnsOK, Counted
    <3>2. Count(c, Kinds) = 0
      BY <1>1, <3>1, CountIs DEF IInv, Types
    <3>3. \A i \in 1..Len(active) : active[i].h # c
      BY <1>1, <2>2 DEF IInv, ActiveOK
    <3>. QED
      BY <3>2, <3>3
  <2>. QED
    BY <2>1, <2>2 DEF NoUseAfterFree
<1>2. IInv => NoUseAfterFree
  BY <1>1
<1>. QED
  BY <1>2, Invariance, PTL

(* Between handlers a connection's count is the number of its keepers, and  *)
(* its destruction is queued at most once (remove_conn, gp_queue_in_loop,   *)
(* do_pending_functors).                                                    *)
THEOREM CountIsExact == SafeSpec => []RefExact
<1>1. ASSUME IInv, NEW c \in Fds, conn[c].mem = "live"
      PROVE  /\ conn[c].ref = (IF conn[c].dict THEN 1 ELSE 0) + Count(c, Kinds) + conn[c].holds
             /\ conn[c].dict <=> conn[c].state # "disconnected"
             /\ Count(c, {"destroy"}) <= (IF conn[c].dict THEN 0 ELSE 1)
  <2> DEFINE k == conn[c]
             a == Count(c, Kinds)
             b == Count(c, {"destroy"})
  <2>1. pending \in Seq(TaskSet)
    BY <1>1 DEF IInv, Types
  <2>2. a = NT(pending, c) /\ b = ND(pending, c) /\ a \in Nat /\ b \in Nat
    BY <2>1, CountIs, CountsAreNat
  <2>3. IsConn(k) /\ Counted(k, a, 0) /\ Settled(k, b) /\ k.mem = "live"
    BY <1>1, <2>2 DEF IInv, ConnsOK
  <2> HIDE DEF k, a, b
  <2>4. k.ref \in Nat /\ k.holds \in Nat /\ k.dict \in BOOLEAN
    BY <2>3 DEF IsConn
  <2>5. k.dict <=> k.state # "disconnected"
    BY <2>3 DEF Settled, UpStates
  <2>6. CASE k.dict
    <3>1. k.ref = a + k.holds + 0 + 1 /\ b = 0
      BY <2>3, <2>6 DEF Counted, Settled
    <3>2. k.ref = 1 + a + k.holds /\ b <= 0
      BY <2>2, <2>4, <3>1
    <3>. QED
      BY <2>5, <2>6, <3>2 DEF k, a, b
  <2>7. CASE ~k.dict
    <3>1. k.ref = a + k.holds + 0 /\ b <= 1
      BY <2>3, <2>7 DEF Counted, Settled
    <3>2. k.ref = 0 + a + k.holds
      BY <2>2, <2>4, <3>1
    <3>. QED
      BY <2>5, <2>7, <3>1, <3>2 DEF k, a, b
  <2>. QED
    BY <2>6, <2>7
<1>2. IInv => RefExact
  BY <1>1 DEF RefExact
<1>. QED
  BY <1>2, Invariance, PTL

(* The user sees a connection go up once and down once, with its messages   *)
(* in between (connection_established, connection_handler_close).           *)
THEOREM CallbacksInOrder == SafeSpec => []CallbackProtocol
<1>1. IInv => CallbackProtocol
  BY DEF IInv, ConnsOK, Settled, CallbackProtocol, UpStates
<1>. QED
  BY <1>1, Invariance, PTL

(* The loop sleeps only with nothing left to do, but for what a timer       *)
(* callback asked for in this very round (gp_queue_in_loop, gp_loop_quit).  *)
THEOREM SleepsOnlyIdle == SafeSpec => []IdlePoll
<1>1. IInv => IdlePoll
  BY DEF IInv, Woken, IdlePoll
<1>. QED
  BY <1>1, Invariance, PTL

(* Waiting output is watched for, and SHUT_WR comes behind all of it        *)
(* (conn_send_in_loop, connection_handler_write, run_in_loop_shutdown).     *)
THEOREM OutputIsWatched == SafeSpec => []OutputWatched
<1>1. ASSUME IInv, NEW c \in Fds, conn[c].mem = "live"
      PROVE  /\ conn[c].out # <<>> /\ conn[c].state # "disconnected" =>
                   conn[c].epoll /\ "w" \in conn[c].ev
             /\ conn[c].shut => conn[c].out = <<>> \/ conn[c].state = "disconnected"
  <2>1. IsConn(conn[c]) /\ Settled(conn[c], ND(pending, c))
    BY <1>1 DEF IInv, ConnsOK
  <2>2. conn[c].state # "disconnected" => conn[c].state \in UpStates
    BY <1>1, <2>1 DEF Settled
  <2>. QED
    BY <2>1, <2>2 DEF IsConn
<1>2. IInv => OutputWatched
  BY <1>1 DEF OutputWatched
<1>. QED
  BY <1>2, Invariance, PTL

----------------------------------------------------------------------------
(* The order of output.  Bytes are numbered by the calls of conn_send, so   *)
(* a new message is after everything its side has sent; and only messages   *)
(* of other threads go through the pending list.                            *)

(* A message that may be written behind everything of k: in order, after    *)
(* what was written, and numbered by a call that has been made.             *)
Numbered(s, wrote, n) ==
    /\ s \in Seq(Bytes) /\ Rising(s, wrote)
    /\ \A j \in 1..Len(s) : s[j][2] <= 2 * n

IsOutput(k) ==
    /\ DOMAIN k = Fields /\ k.mem \in {"free", "live"} /\ k.calls \in Nat
    /\ k.wrote \in [Sides -> Nat]
    /\ \A s \in Sides : k.wrote[s] <= 2 * k.calls
    /\ Numbered(k.out, k.wrote, k.calls)

(* The output of connection k, which owns c, and of the tasks in q.         *)
InTurn(k, c, q) ==
    /\ IsOutput(k)
    /\ k.mem = "live" => \A p \in 1..Len(q) : q[p].fd = c =>
          /\ Numbered(q[p].data, k.wrote, k.calls)
          /\ \A j \in 1..Len(q[p].data) : q[p].data[j][1] = "other"
          /\ Precedes(k.out, q[p].data)
          /\ \A r \in 1..(p - 1) : q[r].fd = c => Precedes(q[r].data, q[p].data)

AllInTurn(w) == IsWorld(w) /\ \A c \in Fds : InTurn(w.conn[c], c, w.pending)

(* A function that writes nothing, or gives the memory back.                *)
Still(k, v) ==
    /\ IsOutput(v)
    /\ v.mem = "live" => /\ k.mem = "live" /\ v.out = k.out
                         /\ v.wrote = k.wrote /\ v.calls = k.calls

(* It disturbs no order.                                                    *)
LEMMA StillInTurn ==
    ASSUME NEW k, NEW v, NEW c, NEW q, InTurn(k, c, q), Still(k, v)
    PROVE  InTurn(v, c, q)
  BY DEF InTurn, Still

(* One after the other.                                                     *)
LEMMA StillTrans ==
    ASSUME NEW k, NEW v, NEW x, Still(k, v), Still(v, x)
    PROVE  Still(k, x)
  BY DEF Still

(* A connection with nothing to write.                                      *)
LEMMA NothingWaits ==
    ASSUME NEW k, DOMAIN k = Fields, k.mem \in {"free", "live"}, k.calls = 0,
           k.wrote = [s \in Sides |-> 0], k.out = <<>>
    PROVE  IsOutput(k)
<1>1. k.out \in Seq(Bytes) /\ Len(k.out) = 0 /\ 1..0 = {}
  OBVIOUS
<1>2. Numbered(k.out, k.wrote, k.calls)
  BY <1>1 DEF Numbered, Rising
<1>3. k.wrote \in [Sides -> Nat] /\ \A s \in Sides : k.wrote[s] <= 2 * k.calls
  OBVIOUS
<1>. QED
  BY <1>2, <1>3 DEF IsOutput

(* The functions on a connection that write nothing.                        *)
LEMMA FieldsStill ==
    ASSUME NEW k, IsOutput(k), NEW v, DOMAIN v = Fields, v.mem = k.mem, v.out = k.out,
           v.wrote = k.wrote, v.calls = k.calls
    PROVE  Still(k, v)
  BY DEF IsOutput, Still

(* Noting a touch, and what epoll is told.                                  *)
LEMMA TouchStill == ASSUME NEW k, IsOutput(k) PROVE Still(k, Touch(k))
<1>1. /\ DOMAIN Touch(k) = Fields /\ Touch(k).mem = k.mem /\ Touch(k).out = k.out
      /\ Touch(k).wrote = k.wrote /\ Touch(k).calls = k.calls
  BY DEF IsOutput, Touch, Fields
<1>. QED
  BY <1>1, FieldsStill

(* epoll_ctl.                                                               *)
LEMMA UpdateStill == ASSUME NEW k, IsOutput(k) PROVE Still(k, update(k))
<1>1. /\ DOMAIN update(k) = Fields /\ update(k).mem = k.mem /\ update(k).out = k.out
      /\ update(k).wrote = k.wrote /\ update(k).calls = k.calls
  BY DEF IsOutput, update, Fields
<1>. QED
  BY <1>1, FieldsStill

(* gp_handler.c: a change of the interest set.                              *)
LEMMA InterestStill ==
    ASSUME NEW k, IsOutput(k), NEW ev
    PROVE  Still(k, update([Touch(k) EXCEPT !.ev = ev]))
<1> DEFINE a == [Touch(k) EXCEPT !.ev = ev]
<1>1. IsOutput(Touch(k)) /\ Still(k, Touch(k))
  BY TouchStill DEF Still
<1>2. /\ DOMAIN a = Fields /\ a.mem = Touch(k).mem /\ a.out = Touch(k).out
      /\ a.wrote = Touch(k).wrote /\ a.calls = Touch(k).calls
  BY <1>1 DEF IsOutput, Fields
<1> HIDE DEF a
<1>3. Still(Touch(k), a) /\ IsOutput(a)
  BY <1>1, <1>2, FieldsStill DEF Still
<1>4. Still(a, update(a))
  BY <1>3, UpdateStill
<1>5. Still(k, update(a))
  BY <1>1, <1>3, <1>4, StillTrans
<1>. QED
  BY <1>5 DEF a

(* Its four callers.                                                        *)
LEMMA EnableStill ==
    ASSUME NEW k, IsOutput(k)
    PROVE  /\ Still(k, enable_reading(k)) /\ Still(k, enable_writing(k))
           /\ Still(k, disable_writing(k)) /\ Still(k, disable_all(k))
  BY InterestStill DEF enable_reading, enable_writing, disable_writing, disable_all

(* handler_close goes out of epoll.                                         *)
LEMMA StateStill ==
    ASSUME NEW k, IsOutput(k), NEW s
    PROVE  Still(k, [k EXCEPT !.state = s])
<1> DEFINE v == [k EXCEPT !.state = s]
<1>1. /\ DOMAIN v = Fields /\ v.mem = k.mem /\ v.out = k.out
      /\ v.wrote = k.wrote /\ v.calls = k.calls
  BY DEF IsOutput, Fields
<1> HIDE DEF v
<1>2. Still(k, v)
  BY <1>1, FieldsStill
<1>. QED
  BY <1>2 DEF v

(* handler_close first takes the handler out of epoll.                      *)
LEMMA GoDownStill == ASSUME NEW k, IsOutput(k) PROVE Still(k, GoDown(k))
<1> DEFINE v == [k EXCEPT !.state = "disconnected"]
<1>1. Still(k, v) /\ IsOutput(v)
  BY StateStill DEF Still
<1> HIDE DEF v
<1>2. Still(k, disable_all(v))
  BY <1>1, EnableStill, StillTrans
<1>. QED
  BY <1>2 DEF v, GoDown

(* handler_remove.                                                          *)
LEMMA RemoveStill == ASSUME NEW k, IsOutput(k) PROVE Still(k, handler_remove(k))
<1> DEFINE v == handler_remove(k)
<1>1. /\ DOMAIN v = Fields /\ v.mem = k.mem /\ v.out = k.out
      /\ v.wrote = k.wrote /\ v.calls = k.calls
  BY DEF IsOutput, Fields, handler_remove, Touch
<1> HIDE DEF v
<1>2. Still(k, v)
  BY <1>1, FieldsStill
<1>. QED
  BY <1>2 DEF v

(* References: the last one frees the connection.                           *)
LEMMA IncStill == ASSUME NEW k, IsOutput(k) PROVE Still(k, conn_ref_inc(k))
<1> DEFINE v == conn_ref_inc(k)
<1>1. /\ DOMAIN v = Fields /\ v.mem = k.mem /\ v.out = k.out
      /\ v.wrote = k.wrote /\ v.calls = k.calls
  BY DEF IsOutput, Fields, conn_ref_inc, Touch
<1> HIDE DEF v
<1>2. Still(k, v)
  BY <1>1, FieldsStill
<1>. QED
  BY <1>2 DEF v

(* conn_ref_dec.                                                            *)
LEMMA DecStill == ASSUME NEW k, IsOutput(k) PROVE Still(k, conn_ref_dec(k))
<1> DEFINE v == conn_ref_dec(k)
<1>1. CASE k.ref = 1
  <2>1. v = [Blank EXCEPT !.bad = handler_remove(k).bad]
    BY <1>1 DEF conn_ref_dec, destruct_gp_connection
  <2>2. /\ DOMAIN v = Fields /\ v.mem = "free" /\ v.out = <<>>
        /\ v.wrote = [s \in Sides |-> 0] /\ v.calls = 0
    BY <2>1 DEF Blank, Fields
  <2> HIDE DEF v
  <2>3. IsOutput(v)
    BY <2>2, NothingWaits
  <2>4. Still(k, v)
    BY <2>2, <2>3 DEF Still
  <2>. QED
    BY <2>4 DEF v
<1>2. CASE k.ref # 1
  <2>1. /\ DOMAIN v = Fields /\ v.mem = k.mem /\ v.out = k.out
        /\ v.wrote = k.wrote /\ v.calls = k.calls
    BY <1>2 DEF IsOutput, Fields, conn_ref_dec, Touch
  <2> HIDE DEF v
  <2>2. Still(k, v)
    BY <2>1, FieldsStill
  <2>. QED
    BY <2>2 DEF v
<1>. QED
  BY <1>1, <1>2

(* SHUT_WR.                                                                 *)
LEMMA ShutStill == ASSUME NEW k, IsOutput(k) PROVE Still(k, run_in_loop_shutdown(k))
<1> DEFINE v == run_in_loop_shutdown(k)
<1>1. /\ DOMAIN v = Fields /\ v.mem = k.mem /\ v.out = k.out
      /\ v.wrote = k.wrote /\ v.calls = k.calls
  BY DEF IsOutput, Fields, run_in_loop_shutdown, Touch
<1> HIDE DEF v
<1>2. Still(k, v)
  BY <1>1, FieldsStill
<1>. QED
  BY <1>2 DEF v

(* The user's reference.                                                    *)
LEMMA HoldsStill ==
    ASSUME NEW k, IsOutput(k), NEW n
    PROVE  Still(k, [k EXCEPT !.holds = n])
<1> DEFINE v == [k EXCEPT !.holds = n]
<1>1. /\ DOMAIN v = Fields /\ v.mem = k.mem /\ v.out = k.out
      /\ v.wrote = k.wrote /\ v.calls = k.calls
  BY DEF IsOutput, Fields
<1> HIDE DEF v
<1>2. Still(k, v)
  BY <1>1, FieldsStill
<1>. QED
  BY <1>2 DEF v

(* Taken and given back.                                                    *)
LEMMA KeepStill ==
    ASSUME NEW k, IsOutput(k)
    PROVE  Still(k, Keep(k)) /\ Still(k, Drop(k))
<1> DEFINE a == conn_ref_inc(k)
           b == [k EXCEPT !.holds = @ - 1]
<1>1. Still(k, a) /\ Still(k, b) /\ IsOutput(a) /\ IsOutput(b)
  BY IncStill, HoldsStill DEF Still
<1>2. Keep(k) = [a EXCEPT !.holds = a.holds + 1] /\ Drop(k) = conn_ref_dec(b)
  BY DEF Keep, Drop
<1> HIDE DEF a, b
<1>3. Still(a, Keep(k)) /\ Still(b, Drop(k))
  BY <1>1, <1>2, HoldsStill, DecStill
<1>. QED
  BY <1>1, <1>3, StillTrans

(* The callback is noted.                                                   *)
LEMMA NotedStill == ASSUME NEW k, IsOutput(k), NEW what PROVE Still(k, Noted(k, what))
<1> DEFINE v == Noted(k, what)
<1>1. /\ DOMAIN v = Fields /\ v.mem = k.mem /\ v.out = k.out
      /\ v.wrote = k.wrote /\ v.calls = k.calls
  BY DEF IsOutput, Fields, Noted, Touch
<1> HIDE DEF v
<1>2. Still(k, v)
  BY <1>1, FieldsStill
<1>. QED
  BY <1>2 DEF v

(* The dictionary forgets the connection.                                   *)
LEMMA ForgetStill ==
    ASSUME NEW k, IsOutput(k)
    PROVE  Still(k, [Touch(k) EXCEPT !.dict = FALSE])
<1> DEFINE v == [Touch(k) EXCEPT !.dict = FALSE]
<1>1. /\ DOMAIN v = Fields /\ v.mem = k.mem /\ v.out = k.out
      /\ v.wrote = k.wrote /\ v.calls = k.calls
  BY DEF IsOutput, Fields, Touch
<1> HIDE DEF v
<1>2. Still(k, v)
  BY <1>1, FieldsStill
<1>. QED
  BY <1>2 DEF v

(* A set of places in a sequence has a last one.                            *)
LEMMA LastPlace ==
    ASSUME NEW n \in Nat, NEW S \in SUBSET (1..n), S # {}
    PROVE  Max(S) \in S
<1> DEFINE T == {m \in Nat : \A x \in S : x <= m}
           rel == {ss \in Nat \X Nat : ss[1] < ss[2]}
<1>1. n \in T
  OBVIOUS
<1>2. IsWellFoundedOn(OpToRel(<, Nat), Nat)
  BY NatLessThanWellFounded, Zenon
<1>3. rel = OpToRel(<, Nat)
  BY DEF OpToRel
<1>4. IsWellFoundedOn(rel, Nat)
  BY <1>2, <1>3, Zenon
<1>5. T \subseteq Nat /\ T # {}
  BY <1>1
<1>6. PICK m \in T : \A y \in T : ~(<<y, m>> \in rel)
  <2> HIDE DEF T, rel
  <2>. QED
    BY <1>4, <1>5, WFMin
<1>7. \A y \in T : ~(y < m)
  BY <1>6
<1>8. m \in S
  <2> SUFFICES ASSUME m \notin S PROVE FALSE
    OBVIOUS
  <2>1. \A x \in S : x \in Nat /\ x >= 1 /\ x < m
    OBVIOUS
  <2>2. m - 1 \in Nat /\ \A x \in S : x <= m - 1
    <3>1. PICK x \in S : TRUE
      OBVIOUS
    <3>2. m \in Nat /\ x < m /\ x \in Nat
      BY <2>1
    <3>. QED
      BY <2>1, <3>2
  <2>3. m - 1 \in T
    BY <2>2
  <2>. QED
    BY <1>7, <2>2, <2>3
<1>9. \E x \in S : \A y \in S : x >= y
  BY <1>8
<1>. QED
  BY <1>9 DEF Max

(* What was last written of a side is as it was, or one of the first n      *)
(* bytes of s.                                                              *)
Advanced(s, n, old, new) ==
    \A a \in Sides : new[a] = old[a] \/ \E i \in 1..n : s[i][1] = a /\ new[a] = s[i][2]

(* All of t are bytes of s.                                                 *)
Within(t, s) == \A i \in 1..Len(t) : \E j \in 1..Len(s) : t[i] = s[j]

(* Writing to the socket.                                                   *)
LEMMA Delivered ==
    ASSUME NEW k, DOMAIN k = Fields, k.wrote \in [Sides -> Nat], NEW bytes \in Seq(Bytes)
    PROVE  /\ DOMAIN Deliver(k, bytes) = Fields /\ Deliver(k, bytes).mem = k.mem
           /\ Deliver(k, bytes).out = k.out /\ Deliver(k, bytes).calls = k.calls
           /\ Deliver(k, bytes).wrote \in [Sides -> Nat]
           /\ Advanced(bytes, Len(bytes), k.wrote, Deliver(k, bytes).wrote)
<1> DEFINE d == Deliver(k, bytes)
           mine(s) == {i \in 1..Len(bytes) : bytes[i][1] = s}
<1>1. /\ DOMAIN d = Fields /\ d.mem = k.mem /\ d.out = k.out /\ d.calls = k.calls
  BY DEF Deliver, Fields
<1>2. d.wrote = [s \in Sides |-> IF mine(s) = {} THEN k.wrote[s] ELSE bytes[Max(mine(s))][2]]
  BY DEF Deliver, Fields
<1>3. ASSUME NEW s \in Sides, mine(s) # {}
      PROVE  Max(mine(s)) \in 1..Len(bytes) /\ bytes[Max(mine(s))][1] = s
  <2>1. mine(s) \in SUBSET (1..Len(bytes)) /\ Len(bytes) \in Nat
    OBVIOUS
  <2>2. Max(mine(s)) \in mine(s)
    <3> HIDE DEF mine
    <3>. QED
      BY <1>3, <2>1, LastPlace
  <2> DEFINE m == Max(mine(s))
  <2>3. m \in mine(s)
    BY <2>2
  <2> HIDE DEF m
  <2>4. m \in 1..Len(bytes) /\ bytes[m][1] = s
    BY <2>3
  <2>. QED
    BY <2>4 DEF m
<1>4. \A i \in 1..Len(bytes) : bytes[i][2] \in Nat
  <2>1. ASSUME NEW i \in 1..Len(bytes) PROVE bytes[i] \in Bytes
    BY ElementOfSeq
  <2>. QED
    BY <2>1 DEF Bytes
<1> HIDE DEF d, mine
<1>5. \A s \in Sides : IF mine(s) = {} THEN d.wrote[s] = k.wrote[s]
                       ELSE d.wrote[s] = bytes[Max(mine(s))][2]
  BY <1>2
<1>6. d.wrote \in [Sides -> Nat]
  BY <1>2, <1>3, <1>4
<1>7. Advanced(bytes, Len(bytes), k.wrote, d.wrote)
  BY <1>3, <1>5 DEF Advanced
<1>. QED
  BY <1>1, <1>6, <1>7 DEF d

(* What is left behind the first n bytes is in order after them.            *)
LEMMA RestRises ==
    ASSUME NEW s \in Seq(Bytes), NEW m, NEW wrote, NEW n \in 0..Len(s), Numbered(s, wrote, m),
           NEW new, Advanced(s, n, wrote, new), NEW rest, rest = SubSeq(s, n + 1, Len(s))
    PROVE  Numbered(rest, new, m) /\ Within(rest, s)
<1>1. /\ rest \in Seq(Bytes) /\ Len(rest) = Len(s) - n /\ Len(s) \in Nat
      /\ \A i \in 1..Len(rest) : n + i \in 1..Len(s) /\ rest[i] = s[n + i]
  OBVIOUS
<1>2. \A i \in 1..Len(s) : s[i][1] \in Sides /\ s[i][2] \in Nat
  <2>1. ASSUME NEW i \in 1..Len(s) PROVE s[i] \in Bytes
    BY ElementOfSeq
  <2>. QED
    BY <2>1 DEF Bytes
<1>3. /\ \A j \in 1..Len(s) : s[j][2] > wrote[s[j][1]]
      /\ \A j \in 1..Len(s) : \A i \in 1..(j - 1) : s[i][1] = s[j][1] => s[i][2] < s[j][2]
      /\ \A j \in 1..Len(s) : s[j][2] <= 2 * m
  BY DEF Numbered, Rising
<1>4. ASSUME NEW j \in 1..Len(rest)
      PROVE  /\ rest[j][2] > new[rest[j][1]] /\ rest[j][2] <= 2 * m
             /\ \A i \in 1..(j - 1) : rest[i][1] = rest[j][1] => rest[i][2] < rest[j][2]
  <2>1. n + j \in 1..Len(s) /\ rest[j] = s[n + j] /\ n \in Nat /\ j \in Nat
    BY <1>1
  <2> DEFINE a == s[n + j][1]
  <2>2. a \in Sides
    BY <1>2, <2>1
  <2>5. s[n + j][2] > new[a]
    <3>1. CASE new[a] = wrote[a]
      BY <1>3, <2>1, <3>1
    <3>2. CASE \E i \in 1..n : s[i][1] = a /\ new[a] = s[i][2]
      <4>1. PICK i \in 1..n : s[i][1] = a /\ new[a] = s[i][2]
        BY <3>2
      <4>2. i \in 1..(n + j - 1) /\ i \in 1..Len(s)
        BY <1>1, <2>1
      <4>3. s[i][2] < s[n + j][2]
        BY <1>3, <2>1, <4>1, <4>2
      <4>4. s[i][2] \in Nat /\ s[n + j][2] \in Nat
        BY <1>2, <2>1, <4>2
      <4>. QED
        BY <4>1, <4>3, <4>4
    <3>. QED
      BY <2>2, <3>1, <3>2 DEF Advanced
  <2>6. ASSUME NEW i \in 1..(j - 1), rest[i][1] = rest[j][1] PROVE rest[i][2] < rest[j][2]
    <3>1. i \in 1..Len(rest) /\ n + i \in 1..(n + j - 1) /\ rest[i] = s[n + i]
      BY <1>1
    <3>2. s[n + i][1] = s[n + j][1]
      BY <2>1, <2>6, <3>1
    <3>3. s[n + i][2] < s[n + j][2]
      <4> DEFINE x == n + i
                 y == n + j
      <4>1. x \in 1..(y - 1) /\ y \in 1..Len(s) /\ s[x][1] = s[y][1]
        BY <2>1, <3>1, <3>2
      <4> HIDE DEF x, y
      <4>2. s[x][2] < s[y][2]
        BY <1>3, <4>1
      <4>. QED
        BY <4>2 DEF x, y
    <3>. QED
      BY <2>1, <3>1, <3>3
  <2>. QED
    BY <1>3, <2>1, <2>5, <2>6
<1>5. Numbered(rest, new, m)
  BY <1>1, <1>4 DEF Numbered, Rising
<1>. QED
  BY <1>1, <1>5 DEF Within

(* b is a byte of s or of t.                                                *)
Among(b, s, t) == (\E j \in 1..Len(s) : b = s[j]) \/ (\E j \in 1..Len(t) : b = t[j])

(* Two messages in order, the first before the second.                      *)
LEMMA JoinRises ==
    ASSUME NEW s, NEW t, NEW m, NEW wrote, Numbered(s, wrote, m), Numbered(t, wrote, m),
           Precedes(s, t), NEW z, z = s \o t
    PROVE  Numbered(z, wrote, m) /\ \A i \in 1..Len(z) : Among(z[i], s, t)
<1>1. s \in Seq(Bytes) /\ t \in Seq(Bytes) /\ Len(s) \in Nat /\ Len(t) \in Nat
  BY DEF Numbered
<1>2. /\ z \in Seq(Bytes) /\ Len(z) = Len(s) + Len(t)
      /\ \A i \in 1..Len(s) : z[i] = s[i]
      /\ \A i \in 1..Len(t) : z[Len(s) + i] = t[i]
  BY <1>1, ConcatProperties
<1>3. \A i \in 1..Len(z) : i \in 1..Len(s) \/ (i - Len(s) \in 1..Len(t) /\ z[i] = t[i - Len(s)])
  <2>1. ASSUME NEW i \in 1..Len(z), ~(i \in 1..Len(s))
        PROVE  i - Len(s) \in 1..Len(t) /\ Len(s) + (i - Len(s)) = i
    BY <1>1, <1>2, <2>1
  <2>. QED
    BY <1>2, <2>1
<1>4. /\ \A j \in 1..Len(s) : s[j][2] > wrote[s[j][1]] /\ s[j][2] <= 2 * m
      /\ \A j \in 1..Len(s) : \A i \in 1..(j - 1) : s[i][1] = s[j][1] => s[i][2] < s[j][2]
      /\ \A j \in 1..Len(t) : t[j][2] > wrote[t[j][1]] /\ t[j][2] <= 2 * m
      /\ \A j \in 1..Len(t) : \A i \in 1..(j - 1) : t[i][1] = t[j][1] => t[i][2] < t[j][2]
  BY DEF Numbered, Rising
<1>5. ASSUME NEW j \in 1..Len(z)
      PROVE  /\ z[j][2] > wrote[z[j][1]] /\ z[j][2] <= 2 * m
             /\ \A i \in 1..(j - 1) : z[i][1] = z[j][1] => z[i][2] < z[j][2]
  <2>1. CASE j \in 1..Len(s)
    <3>1. \A i \in 1..(j - 1) : z[i] = s[i]
      BY <1>1, <1>2, <2>1
    <3>. QED
      BY <1>2, <1>4, <2>1, <3>1
  <2>2. CASE j - Len(s) \in 1..Len(t) /\ z[j] = t[j - Len(s)]
    <3>1. ASSUME NEW i \in 1..(j - 1), z[i][1] = z[j][1] PROVE z[i][2] < z[j][2]
      <4>1. i \in 1..Len(z)
        BY <1>1, <1>2
      <4>2. CASE i \in 1..Len(s)
        BY <1>2, <2>2, <3>1, <4>2 DEF Precedes
      <4>3. CASE i - Len(s) \in 1..Len(t) /\ z[i] = t[i - Len(s)]
        <5>1. i - Len(s) \in 1..((j - Len(s)) - 1)
          BY <1>1, <2>2, <4>3
        <5>. QED
          BY <1>4, <2>2, <3>1, <4>3, <5>1
      <4>. QED
        BY <1>3, <4>1, <4>2, <4>3
    <3>2. z[j][2] > wrote[z[j][1]] /\ z[j][2] <= 2 * m
      BY <1>4, <2>2
    <3>. QED
      BY <3>1, <3>2
  <2>. QED
    BY <1>3, <2>1, <2>2
<1>6. Numbered(z, wrote, m)
  BY <1>2, <1>5 DEF Numbered, Rising
<1>. QED
  BY <1>2, <1>3, <1>6 DEF Among

(* A function that writes bytes of the buffer or of msg, and keeps others   *)
(* of them in the buffer.                                                   *)
Writes(k, r, msg) ==
    /\ IsOutput(r) /\ r.mem = k.mem /\ r.calls = k.calls
    /\ \A i \in 1..Len(r.out) : Among(r.out[i], k.out, msg)
    /\ \A s \in Sides : r.wrote[s] = k.wrote[s] \/ Among(<<s, r.wrote[s]>>, k.out, msg)

(* It disturbs no order, if msg comes before the tasks.                     *)
LEMMA WritesInTurn ==
    ASSUME NEW k, NEW r, NEW c, NEW q, NEW msg \in Seq(Bytes), InTurn(k, c, q), Writes(k, r, msg),
           k.mem = "live" => \A p \in 1..Len(q) : q[p].fd = c => Precedes(msg, q[p].data)
    PROVE  InTurn(r, c, q)
<1> SUFFICES ASSUME r.mem = "live", NEW p \in 1..Len(q), q[p].fd = c
             PROVE  /\ Numbered(q[p].data, r.wrote, r.calls) /\ Precedes(r.out, q[p].data)
  BY DEF InTurn, Writes
<1> DEFINE d == q[p].data
<1>1. /\ Numbered(d, k.wrote, k.calls) /\ Precedes(k.out, d) /\ Precedes(msg, d)
      /\ k.out \in Seq(Bytes) /\ d \in Seq(Bytes) /\ k.calls = r.calls
  BY DEF InTurn, Writes, IsOutput, Numbered
<1>2. ASSUME NEW b, Among(b, k.out, msg), NEW j \in 1..Len(d), b[1] = d[j][1]
      PROVE  b[2] < d[j][2]
  BY <1>1, <1>2 DEF Among, Precedes
<1>3. \A j \in 1..Len(d) : d[j][1] \in Sides /\ d[j][2] \in Nat
  <2>1. ASSUME NEW j \in 1..Len(d) PROVE d[j] \in Bytes
    BY <1>1, ElementOfSeq
  <2>. QED
    BY <2>1 DEF Bytes
<1> HIDE DEF d
<1>4. Precedes(r.out, d)
  BY <1>2 DEF Precedes, Writes
<1>5. ASSUME NEW j \in 1..Len(d) PROVE d[j][2] > r.wrote[d[j][1]]
  <2> DEFINE s == d[j][1]
  <2>1. s \in Sides
    BY <1>3
  <2>2. CASE r.wrote[s] = k.wrote[s]
    BY <1>1, <2>2 DEF Numbered, Rising
  <2>3. CASE Among(<<s, r.wrote[s]>>, k.out, msg)
    <3>1. <<s, r.wrote[s]>>[1] = d[j][1] /\ <<s, r.wrote[s]>>[2] = r.wrote[s]
      OBVIOUS
    <3>2. r.wrote[s] < d[j][2]
      BY <1>2, <2>3, <3>1
    <3>3. r.wrote[s] \in Nat
      BY <2>1 DEF Writes, IsOutput
    <3>. QED
      BY <1>3, <3>2, <3>3
  <2>. QED
    BY <2>1, <2>2, <2>3 DEF Writes
<1>6. Numbered(d, r.wrote, r.calls)
  BY <1>1, <1>5 DEF Numbered, Rising
<1>. QED
  BY <1>4, <1>6 DEF d

(* conn_send_in_loop writes the message behind what is waiting.             *)
LEMMA SendWrites ==
    ASSUME NEW k, IsOutput(k), NEW msg, Numbered(msg, k.wrote, k.calls), Precedes(k.out, msg),
           NEW res \in Int, res >= -1
    PROVE  Writes(k, conn_send_in_loop(k, msg, res), msg)
<1> DEFINE direct == ~is_writing(k) /\ k.out = <<>>
           faultError == direct /\ (res = -1 \/ k.shut)
           nwrote == IF direct /\ ~faultError THEN Min({res, Len(msg)}) ELSE 0
           rest == SubSeq(msg, nwrote + 1, Len(msg))
           part == SubSeq(msg, 1, nwrote)
           v == Deliver(Touch(k), part)
           a == [v EXCEPT !.out = @ \o rest]
           r == conn_send_in_loop(k, msg, res)
<1>1. r = IF k.state = "disconnected" THEN Touch(k)
          ELSE IF faultError \/ rest = <<>> THEN v
          ELSE IF is_writing(a) THEN a ELSE enable_writing(a)
  BY DEF conn_send_in_loop
<1>2. msg \in Seq(Bytes) /\ Len(msg) \in Nat
  BY DEF Numbered
<1>3. nwrote \in 0..Len(msg)
  <2>1. direct /\ ~faultError => res \in Nat
    OBVIOUS
  <2>. QED
    BY <1>2, <2>1, MinOfTwo
<1>4. k.out = <<>> \/ nwrote = 0
  OBVIOUS
<1> HIDE DEF direct, faultError, nwrote
<1>5. /\ part \in Seq(Bytes) /\ Len(part) = nwrote
      /\ \A i \in 1..nwrote : part[i] = msg[i] /\ i \in 1..Len(msg)
  BY <1>2, <1>3
<1>6. /\ Still(k, Touch(k)) /\ IsOutput(Touch(k)) /\ DOMAIN Touch(k) = Fields
      /\ Touch(k).mem = k.mem /\ Touch(k).out = k.out
      /\ Touch(k).wrote = k.wrote /\ Touch(k).calls = k.calls
  <2>1. Still(k, Touch(k))
    BY TouchStill
  <2>2. /\ DOMAIN Touch(k) = Fields /\ Touch(k).mem = k.mem /\ Touch(k).out = k.out
        /\ Touch(k).wrote = k.wrote /\ Touch(k).calls = k.calls
    BY DEF IsOutput, Touch, Fields
  <2>. QED
    BY <2>1, <2>2 DEF Still
<1> HIDE DEF part
<1>7. /\ DOMAIN v = Fields /\ v.mem = k.mem /\ v.out = k.out /\ v.calls = k.calls
      /\ v.wrote \in [Sides -> Nat]
      /\ Advanced(msg, nwrote, k.wrote, v.wrote)
  <2> DEFINE x == Touch(k)
  <2>0. DOMAIN x = Fields /\ x.wrote \in [Sides -> Nat]
    BY <1>6 DEF IsOutput
  <2> HIDE DEF x
  <2>1. /\ DOMAIN Deliver(x, part) = Fields /\ Deliver(x, part).mem = x.mem
        /\ Deliver(x, part).out = x.out /\ Deliver(x, part).calls = x.calls
        /\ Deliver(x, part).wrote \in [Sides -> Nat]
        /\ Advanced(part, Len(part), x.wrote, Deliver(x, part).wrote)
    BY <1>5, <2>0, Delivered
  <2>. QED
    BY <1>5, <1>6, <2>1 DEF x, Advanced
<1> HIDE DEF v
<1>8. Numbered(rest, v.wrote, k.calls) /\ Within(rest, msg)
  BY <1>2, <1>3, <1>7, RestRises
<1>9. \A i \in 1..Len(msg) : msg[i] = <<msg[i][1], msg[i][2]>> /\ msg[i][2] <= 2 * k.calls
                             /\ msg[i][2] \in Nat
  <2>1. ASSUME NEW i \in 1..Len(msg) PROVE msg[i] \in Bytes
    BY <1>2, ElementOfSeq
  <2>. QED
    BY <2>1 DEF Bytes, Numbered
<1>10. ASSUME NEW s \in Sides
       PROVE  /\ v.wrote[s] <= 2 * k.calls
              /\ v.wrote[s] = k.wrote[s] \/ Among(<<s, v.wrote[s]>>, k.out, msg)
  <2>1. CASE v.wrote[s] = k.wrote[s]
    BY <2>1 DEF IsOutput
  <2>2. CASE \E i \in 1..nwrote : msg[i][1] = s /\ v.wrote[s] = msg[i][2]
    <3>1. PICK i \in 1..nwrote : msg[i][1] = s /\ v.wrote[s] = msg[i][2]
      BY <2>2
    <3>2. i \in 1..Len(msg)
      BY <1>5
    <3>. QED
      BY <1>9, <3>1, <3>2 DEF Among
  <2>. QED
    BY <1>7, <2>1, <2>2 DEF Advanced
<1>11. IsOutput(v) /\ Numbered(v.out, v.wrote, k.calls) /\ Precedes(k.out, rest)
  <2>1. Numbered(v.out, v.wrote, k.calls)
    <3>1. CASE k.out = <<>>
      <4>1. Len(v.out) = 0 /\ v.out \in Seq(Bytes) /\ 1..0 = {}
        BY <1>7, <3>1
      <4>. QED
        BY <4>1 DEF Numbered, Rising
    <3>2. CASE nwrote = 0
      <4>1. \A s \in Sides : v.wrote[s] = k.wrote[s]
        BY <1>7, <3>2 DEF Advanced
      <4>2. \A i \in 1..Len(k.out) : k.out[i][1] \in Sides
        <5>1. ASSUME NEW i \in 1..Len(k.out) PROVE k.out[i] \in Bytes
          BY ElementOfSeq DEF IsOutput, Numbered
        <5>. QED
          BY <5>1 DEF Bytes
      <4>. QED
        BY <1>7, <4>1, <4>2 DEF Numbered, Rising, IsOutput
    <3>. QED
      BY <1>4, <3>1, <3>2
  <2>2. IsOutput(v)
    BY <1>7, <1>10, <2>1 DEF IsOutput
  <2>3. Precedes(k.out, rest)
    BY <1>8 DEF Precedes, Within
  <2>. QED
    BY <2>1, <2>2, <2>3
<1> HIDE DEF rest
<1>12. CASE k.state = "disconnected"
  BY <1>1, <1>6, <1>12 DEF Writes, Among
<1>13. CASE k.state # "disconnected" /\ (faultError \/ rest = <<>>)
  BY <1>1, <1>7, <1>10, <1>11, <1>13 DEF Writes, Among
<1>14. CASE k.state # "disconnected" /\ ~(faultError \/ rest = <<>>)
  <2> DEFINE z == k.out \o rest
  <2>1. Numbered(z, v.wrote, k.calls) /\ \A i \in 1..Len(z) : Among(z[i], k.out, rest)
    BY <1>7, <1>8, <1>11, JoinRises
  <2>2. \A i \in 1..Len(z) : Among(z[i], k.out, msg)
    <3> HIDE DEF z
    <3>. QED
      BY <1>8, <2>1 DEF Among, Within
  <2>3. /\ DOMAIN a = Fields /\ a.mem = k.mem /\ a.out = z /\ a.wrote = v.wrote
        /\ a.calls = k.calls
    BY <1>7 DEF Fields
  <2> HIDE DEF z, a
  <2>4. IsOutput(a)
    BY <1>7, <1>10, <2>1, <2>3 DEF IsOutput
  <2>5. /\ IsOutput(enable_writing(a)) /\ enable_writing(a).mem = a.mem
        /\ enable_writing(a).out = a.out /\ enable_writing(a).wrote = a.wrote
        /\ enable_writing(a).calls = a.calls
    <3>1. IsOutput(enable_writing(a))
      BY <2>4, EnableStill DEF Still
    <3>. QED
      BY <2>3, <3>1 DEF enable_writing, update, Touch, Fields
  <2>6. /\ IsOutput(r) /\ r.mem = k.mem /\ r.out = z /\ r.wrote = v.wrote /\ r.calls = k.calls
    BY <1>1, <1>14, <2>3, <2>4, <2>5
  <2>. QED
    BY <1>10, <2>2, <2>6 DEF Writes
<1>. QED
  BY <1>12, <1>13, <1>14

(* A write event writes the front of the buffer, or gives it up.            *)
LEMMA HandlerWrites ==
    ASSUME NEW k, IsOutput(k), NEW res \in Int, res >= -1
    PROVE  Writes(k, connection_handler_write(k, res), <<>>)
<1> DEFINE n == IF res = -1 THEN Len(k.out) ELSE Min({res, Len(k.out)})
           rest == SubSeq(k.out, n + 1, Len(k.out))
           part == SubSeq(k.out, 1, n)
           v == [Touch(k) EXCEPT !.out = rest]
           d == IF res = -1 THEN v ELSE Deliver(v, part)
           r == connection_handler_write(k, res)
           e == [disable_writing(d) EXCEPT !.shut = @ \/ k.state = "disconnecting"]
<1>1. /\ DOMAIN Touch(k) = Fields
      /\ Touch(k).mem = k.mem /\ Touch(k).out = k.out
      /\ Touch(k).wrote = k.wrote /\ Touch(k).calls = k.calls
  BY DEF IsOutput, Touch, Fields
<1>2. r = IF (res # -1 /\ n = 0) \/ d.out # <<>> THEN d ELSE e
  BY <1>1 DEF connection_handler_write
<1>3. k.out \in Seq(Bytes) /\ Len(k.out) \in Nat /\ Numbered(k.out, k.wrote, k.calls)
  BY DEF IsOutput, Numbered
<1>4. n \in 0..Len(k.out)
  BY <1>3, MinOfTwo
<1> HIDE DEF n
<1>5. /\ part \in Seq(Bytes) /\ Len(part) = n /\ rest \in Seq(Bytes)
      /\ \A i \in 1..n : part[i] = k.out[i] /\ i \in 1..Len(k.out)
  BY <1>3, <1>4
<1>6. /\ DOMAIN v = Fields /\ v.mem = k.mem /\ v.out = rest /\ v.calls = k.calls
      /\ v.wrote = k.wrote
  BY <1>1 DEF Fields
<1> HIDE DEF part, v
<1>7. /\ DOMAIN d = Fields /\ d.mem = k.mem /\ d.out = rest /\ d.calls = k.calls
      /\ d.wrote \in [Sides -> Nat]
      /\ Advanced(k.out, n, k.wrote, d.wrote)
  <2>1. DOMAIN v = Fields /\ v.wrote \in [Sides -> Nat]
    BY <1>6 DEF IsOutput
  <2>2. /\ DOMAIN Deliver(v, part) = Fields /\ Deliver(v, part).mem = v.mem
        /\ Deliver(v, part).out = v.out /\ Deliver(v, part).calls = v.calls
        /\ Deliver(v, part).wrote \in [Sides -> Nat]
        /\ Advanced(part, Len(part), v.wrote, Deliver(v, part).wrote)
    BY <1>5, <2>1, Delivered
  <2> DEFINE y == Deliver(v, part)
  <2>3. d = v \/ d = y
    OBVIOUS
  <2> HIDE DEF y, d
  <2>4. CASE d = v
    BY <1>6, <2>1, <2>4 DEF Advanced
  <2>5. CASE d = y
    BY <1>5, <1>6, <2>2, <2>5 DEF y, Advanced
  <2>. QED
    BY <2>3, <2>4, <2>5
<1> HIDE DEF d
<1>8. Numbered(rest, d.wrote, k.calls) /\ Within(rest, k.out)
  BY <1>3, <1>4, <1>7, RestRises
<1> HIDE DEF rest
<1>9. \A i \in 1..Len(k.out) : k.out[i] = <<k.out[i][1], k.out[i][2]>>
                               /\ k.out[i][2] <= 2 * k.calls
  <2>1. ASSUME NEW i \in 1..Len(k.out) PROVE k.out[i] \in Bytes
    BY <1>3, ElementOfSeq
  <2>. QED
    BY <1>3, <2>1 DEF Bytes, Numbered
<1>10. ASSUME NEW s \in Sides
       PROVE  /\ d.wrote[s] <= 2 * k.calls
              /\ d.wrote[s] = k.wrote[s] \/ Among(<<s, d.wrote[s]>>, k.out, <<>>)
  <2>1. CASE d.wrote[s] = k.wrote[s]
    BY <2>1 DEF IsOutput
  <2>2. CASE \E i \in 1..n : k.out[i][1] = s /\ d.wrote[s] = k.out[i][2]
    <3>1. PICK i \in 1..n : k.out[i][1] = s /\ d.wrote[s] = k.out[i][2]
      BY <2>2
    <3>2. i \in 1..Len(k.out)
      BY <1>5
    <3>. QED
      BY <1>9, <3>1, <3>2 DEF Among
  <2>. QED
    BY <1>7, <2>1, <2>2 DEF Advanced
<1>11. IsOutput(d)
  BY <1>7, <1>8, <1>10 DEF IsOutput
<1>12. /\ IsOutput(r) /\ r.mem = k.mem /\ r.out = d.out /\ r.wrote = d.wrote /\ r.calls = k.calls
  <2>1. CASE r = d
    BY <1>7, <1>11, <2>1
  <2>2. CASE r = e
    <3> DEFINE y == disable_writing(d)
    <3>1. DOMAIN y = Fields /\ y.mem = d.mem /\ y.out = d.out /\ y.wrote = d.wrote
          /\ y.calls = d.calls
      BY <1>7 DEF disable_writing, update, Touch, Fields
    <3>2. IsOutput(y)
      BY <1>11, EnableStill DEF Still
    <3>3. e = [y EXCEPT !.shut = @ \/ k.state = "disconnecting"]
      OBVIOUS
    <3> HIDE DEF y
    <3>4. DOMAIN e = Fields /\ e.mem = d.mem /\ e.out = d.out /\ e.wrote = d.wrote
          /\ e.calls = d.calls
      BY <3>1, <3>3 DEF Fields
    <3>5. IsOutput(e)
      BY <1>11, <3>4 DEF IsOutput
    <3>. QED
      BY <1>7, <2>2, <3>4, <3>5
  <2>. QED
    BY <1>2, <2>1, <2>2
<1>. QED
  <2>1. \A i \in 1..Len(r.out) : Among(r.out[i], k.out, <<>>)
    <3>1. r.out = rest
      BY <1>7, <1>12
    <3>. QED
      BY <1>8, <3>1 DEF Among, Within
  <2> HIDE DEF r
  <2>2. Writes(k, r, <<>>)
    BY <1>10, <1>12, <2>1 DEF Writes
  <2>. QED
    BY <2>2 DEF r

----------------------------------------------------------------------------
(* Worlds in which all output is in order.                                  *)

(* One connection is set.                                                   *)
LEMMA SetInTurn ==
    ASSUME NEW w, AllInTurn(w), NEW c \in Fds, NEW e, InTurn(e, c, w.pending),
           NEW v, v = [w EXCEPT !.conn[c] = e]
    PROVE  AllInTurn(v)
<1>1. Changed(w, v, c, e)
  BY SetConn DEF AllInTurn
<1>2. ASSUME NEW d \in Fds PROVE InTurn(v.conn[d], d, v.pending)
  <2>1. CASE d = c
    BY <1>1, <2>1 DEF Changed
  <2>2. CASE d # c
    BY <1>1, <2>2 DEF Changed, AllInTurn
  <2>. QED
    BY <2>1, <2>2
<1>. QED
  BY <1>1, <1>2 DEF AllInTurn, Changed

(* It writes nothing.                                                       *)
LEMMA SetStill ==
    ASSUME NEW w, AllInTurn(w), NEW c \in Fds, NEW e, Still(w.conn[c], e),
           NEW v, v = [w EXCEPT !.conn[c] = e]
    PROVE  AllInTurn(v)
<1>1. InTurn(w.conn[c], c, w.pending)
  BY DEF AllInTurn
<1>2. InTurn(e, c, w.pending)
  BY <1>1, StillInTurn
<1>. QED
  BY <1>2, SetInTurn

(* The connections of such a world.                                         *)
LEMMA AnyOutput ==
    ASSUME NEW w, AllInTurn(w), NEW c \in Fds
    PROVE  IsOutput(w.conn[c])
  BY DEF AllInTurn, InTurn

(* References.                                                              *)
LEMMA RefsInTurn ==
    ASSUME NEW w, AllInTurn(w), NEW c \in Fds
    PROVE  AllInTurn(TakeRef(w, c)) /\ AllInTurn(GiveRef(w, c))
<1>1. IsOutput(w.conn[c])
  BY AnyOutput
<1>2. /\ TakeRef(w, c) = [w EXCEPT !.conn[c] = conn_ref_inc(w.conn[c])]
      /\ GiveRef(w, c) = [w EXCEPT !.conn[c] = conn_ref_dec(w.conn[c])]
  BY DEF TakeRef, GiveRef
<1>. QED
  BY <1>1, <1>2, SetStill, IncStill, DecStill

(* The data of a task that may be queued for connection k.                  *)
Behind(k, q, t) ==
    k.mem = "live" =>
        /\ Numbered(t.data, k.wrote, k.calls)
        /\ \A j \in 1..Len(t.data) : t.data[j][1] = "other"
        /\ Precedes(k.out, t.data)
        /\ \A r \in 1..Len(q) : q[r].fd = t.fd => Precedes(q[r].data, t.data)

(* gp_queue_in_loop appends it.                                             *)
LEMMA QueueInTurn ==
    ASSUME NEW w, AllInTurn(w), NEW t \in TaskSet, Behind(w.conn[t.fd], w.pending, t), NEW by
    PROVE  AllInTurn(gp_queue_in_loop(w, t, by))
<1> DEFINE c == t.fd
           k == w.conn[c]
           e == conn_ref_inc(k)
           v == gp_queue_in_loop(w, t, by)
           q == w.pending
<1>0. IsWorld(w) /\ q \in Seq(TaskSet) /\ Len(q) \in Nat
  BY DEF AllInTurn, IsWorld
<1>1. c \in Fds
  BY DEF TaskSet
<1>2. /\ DOMAIN v = DOMAIN w /\ v.conn = [w.conn EXCEPT ![c] = e]
      /\ v.pending = Append(q, t) /\ v.quit = w.quit
      /\ v.wake = (w.wake \/ by = "other" \/ phase = "functors")
  BY <1>0 DEF IsWorld, gp_queue_in_loop
<1>3. /\ v.conn = [d \in Fds |-> v.conn[d]] /\ v.conn[c] = e
      /\ \A d \in Fds \ {c} : v.conn[d] = w.conn[d]
  BY <1>0, <1>1, <1>2 DEF IsWorld
<1>4. v.pending \in Seq(TaskSet)
  BY <1>0, <1>2
<1>5. IsWorld(v)
  BY <1>0, <1>2, <1>3, <1>4 DEF IsWorld
<1>6. Still(k, e) /\ InTurn(k, c, q)
  BY <1>1, IncStill, AnyOutput DEF AllInTurn
<1> DEFINE z == v.pending
<1>7. /\ Len(z) = Len(q) + 1 /\ z[Len(q) + 1] = t
      /\ \A p \in 1..Len(q) : z[p] = q[p]
  BY <1>0, <1>2, AppendProperties
<1> HIDE DEF v, e, z
<1>8. ASSUME NEW d \in Fds, d # c PROVE InTurn(v.conn[d], d, z)
  <2>1. InTurn(w.conn[d], d, q) /\ v.conn[d] = w.conn[d]
    BY <1>3, <1>8 DEF AllInTurn
  <2>2. ASSUME NEW p \in 1..Len(z), z[p].fd = d
        PROVE  p \in 1..Len(q) /\ z[p] = q[p] /\ \A r \in 1..(p - 1) : r \in 1..Len(q) /\ z[r] = q[r]
    BY <1>0, <1>7, <1>8, <2>2
  <2>. QED
    BY <2>1, <2>2 DEF InTurn
<1>9. InTurn(e, c, z)
  <2>1. IsOutput(e)
    BY <1>6 DEF Still
  <2>2. ASSUME e.mem = "live", NEW p \in 1..Len(z), z[p].fd = c
        PROVE  /\ Numbered(z[p].data, e.wrote, e.calls)
               /\ \A j \in 1..Len(z[p].data) : z[p].data[j][1] = "other"
               /\ Precedes(e.out, z[p].data)
               /\ \A r \in 1..(p - 1) : z[r].fd = c => Precedes(z[r].data, z[p].data)
    <3>1. k.mem = "live" /\ e.out = k.out /\ e.wrote = k.wrote /\ e.calls = k.calls
      BY <1>6, <2>2 DEF Still
    <3>2. CASE p \in 1..Len(q)
      <4>1. z[p] = q[p] /\ \A r \in 1..(p - 1) : z[r] = q[r]
        BY <1>0, <1>7, <3>2
      <4>. QED
        BY <1>6, <2>2, <3>1, <3>2, <4>1 DEF InTurn
    <3>3. CASE p = Len(q) + 1
      <4>1. z[p] = t /\ \A r \in 1..(p - 1) : r \in 1..Len(q) /\ z[r] = q[r]
        BY <1>0, <1>7, <3>3
      <4>. QED
        BY <3>1, <4>1 DEF Behind
    <3>. QED
      BY <1>0, <1>7, <3>2, <3>3
  <2>. QED
    BY <2>1, <2>2 DEF InTurn
<1>10. \A d \in Fds : InTurn(v.conn[d], d, v.pending)
  BY <1>3, <1>8, <1>9 DEF z
<1>11. AllInTurn(v)
  BY <1>5, <1>10 DEF AllInTurn
<1>. QED
  BY <1>11 DEF v

(* A task without data.                                                     *)
LEMMA QueueEmpty ==
    ASSUME NEW w, AllInTurn(w), NEW c \in Fds, NEW kind \in Kinds, NEW by
    PROVE  AllInTurn(gp_queue_in_loop(w, Task(kind, c, <<>>), by))
<1> DEFINE t == Task(kind, c, <<>>)
<1>1. t \in TaskSet /\ t.fd = c /\ t.data = <<>> /\ <<>> \in Seq(Bytes) /\ Len(<<>>) = 0 /\ 1..0 = {}
  BY DEF Task, TaskSet
<1> HIDE DEF t
<1>2. Behind(w.conn[c], w.pending, t)
  BY <1>1 DEF Behind, Numbered, Rising, Precedes
<1>3. AllInTurn(gp_queue_in_loop(w, t, by))
  BY <1>1, <1>2, QueueInTurn
<1>. QED
  BY <1>3 DEF t

(* k with one more call, of a message that is after everything of k.        *)
Called(k, e, msg, by) ==
    /\ IsOutput(e) /\ e.mem = k.mem /\ e.out = k.out /\ e.wrote = k.wrote
    /\ Numbered(msg, e.wrote, e.calls)
    /\ \A j \in 1..Len(msg) : msg[j][1] = by
    /\ Precedes(e.out, msg)
    /\ \A d : Numbered(d, k.wrote, k.calls) =>
          Precedes(d, msg) /\ Numbered(d, e.wrote, e.calls)

(* Messages are numbered by the calls.                                      *)
LEMMA NewMessage ==
    ASSUME NEW k, IsOutput(k), NEW by \in Sides, NEW e, e = [k EXCEPT !.calls = k.calls + 1],
           NEW msg, msg = <<<<by, 2 * k.calls + 1>>, <<by, 2 * k.calls + 2>>>>
    PROVE  Called(k, e, msg, by)
<1>1. /\ DOMAIN e = Fields /\ e.mem = k.mem /\ e.out = k.out /\ e.wrote = k.wrote
      /\ e.calls = k.calls + 1 /\ k.calls \in Nat /\ e.calls \in Nat
  BY DEF IsOutput, Fields
<1> DEFINE n == k.calls
<1>2. k.wrote \in [Sides -> Nat] /\ \A s \in Sides : k.wrote[s] <= 2 * n
  BY DEF IsOutput
<1>3. n \in Nat
  BY <1>1
<1> HIDE DEF n
<1>4. msg = <<<<by, 2 * n + 1>>, <<by, 2 * n + 2>>>>
  BY DEF n
<1>5. /\ msg \in Seq(Bytes) /\ Len(msg) = 2
      /\ \A j \in 1..Len(msg) : msg[j][1] = by /\ msg[j][2] = 2 * n + j
  BY <1>3, <1>4 DEF Bytes
<1>6. Numbered(msg, e.wrote, e.calls)
  <2>1. k.wrote[by] \in Nat /\ k.wrote[by] <= 2 * n
    BY <1>2
  <2>2. \A j \in 1..Len(msg) : msg[j][2] > k.wrote[msg[j][1]] /\ msg[j][2] <= 2 * (n + 1)
    BY <1>3, <1>5, <2>1
  <2>3. \A j \in 1..Len(msg) : \A i \in 1..(j - 1) : i \in 1..Len(msg) /\ msg[i][2] < msg[j][2]
    BY <1>3, <1>5
  <2>. QED
    BY <1>1, <1>5, <2>2, <2>3 DEF Numbered, Rising, n
<1>7. ASSUME NEW d, Numbered(d, k.wrote, k.calls)
      PROVE  Precedes(d, msg) /\ Numbered(d, e.wrote, e.calls)
  <2>1. d \in Seq(Bytes) /\ Rising(d, k.wrote) /\ \A j \in 1..Len(d) : d[j][2] <= 2 * n
    BY <1>7 DEF Numbered, n
  <2>2. ASSUME NEW j \in 1..Len(d) PROVE d[j][2] \in Nat
    <3>1. d[j] \in Bytes
      BY <2>1, ElementOfSeq
    <3>. QED
      BY <3>1 DEF Bytes
  <2>3. ASSUME NEW j \in 1..Len(d)
        PROVE  d[j][2] <= 2 * (n + 1) /\ \A i \in 1..Len(msg) : d[j][2] < 2 * n + i
    BY <1>3, <1>5, <2>1, <2>2
  <2>. QED
    BY <1>1, <1>5, <2>1, <2>3 DEF Numbered, Precedes, n
<1>8. IsOutput(e)
  <2>1. Numbered(k.out, k.wrote, k.calls)
    BY DEF IsOutput
  <2>2. \A s \in Sides : k.wrote[s] <= 2 * (n + 1)
    BY <1>2, <1>3
  <2>3. Numbered(e.out, e.wrote, e.calls)
    BY <1>1, <1>7, <2>1
  <2>. QED
    BY <1>1, <1>2, <2>2, <2>3 DEF IsOutput, n
<1>9. Precedes(e.out, msg)
  BY <1>1, <1>7 DEF IsOutput
<1>. QED
  BY <1>1, <1>5, <1>6, <1>7, <1>8, <1>9 DEF Called

(* conn_send: from the loop's thread at once, which overtakes only tasks of *)
(* the other side; from another thread behind all tasks.                    *)
LEMMA SendInTurn ==
    ASSUME NEW w, AllInTurn(w), NEW c \in Fds, NEW by \in Sides, NEW res \in Int, res >= -1
    PROVE  AllInTurn(conn_send(w, c, by, res))
<1> DEFINE k == w.conn[c]
           msg == <<<<by, 2 * k.calls + 1>>, <<by, 2 * k.calls + 2>>>>
           e == [k EXCEPT !.calls = k.calls + 1]
           v == [w EXCEPT !.conn[c] = e]
           q == w.pending
<1>0. IsWorld(w) /\ IsOutput(k) /\ InTurn(k, c, q)
  BY AnyOutput DEF AllInTurn
<1>1. [w EXCEPT !.conn[c].calls = @ + 1] = v
  BY <1>0 DEF IsWorld
<1>2. conn_send(w, c, by, res) =
        IF k.state # "connected" THEN w
        ELSE IF by = "loop" THEN [v EXCEPT !.conn[c] = conn_send_in_loop(@, msg, res)]
        ELSE gp_queue_in_loop(v, Task("send", c, msg), by)
  BY <1>1 DEF conn_send
<1>3. Changed(w, v, c, e)
  BY <1>0, SetConn
<1>4. e = [k EXCEPT !.calls = k.calls + 1] /\ v = [w EXCEPT !.conn[c] = e]
      /\ msg = <<<<by, 2 * k.calls + 1>>, <<by, 2 * k.calls + 2>>>>
  OBVIOUS
<1> HIDE DEF k, e, msg, v
<1>5. /\ IsOutput(e) /\ e.mem = k.mem /\ e.out = k.out /\ e.wrote = k.wrote
      /\ Numbered(msg, e.wrote, e.calls)
      /\ \A j \in 1..Len(msg) : msg[j][1] = by
      /\ Precedes(e.out, msg)
      /\ \A d : Numbered(d, k.wrote, k.calls) =>
            Precedes(d, msg) /\ Numbered(d, e.wrote, e.calls)
  <2>1. Called(k, e, msg, by)
    BY <1>0, <1>4, NewMessage
  <2>. QED
    BY <2>1 DEF Called
<1>6. InTurn(e, c, q)
  BY <1>0, <1>5 DEF InTurn
<1>7. AllInTurn(v)
  BY <1>4, <1>6, SetInTurn
<1>8. v.conn[c] = e /\ v.pending = q
  BY <1>3 DEF Changed
<1>9. CASE k.state # "connected"
  BY <1>2, <1>9
<1>10. CASE k.state = "connected" /\ by = "loop"
  <2> DEFINE r == conn_send_in_loop(e, msg, res)
  <2>1. Writes(e, r, msg)
    BY <1>5, SendWrites
  <2> HIDE DEF r
  <2>2. \A p \in 1..Len(q) : e.mem = "live" /\ q[p].fd = c => Precedes(msg, q[p].data)
    BY <1>5, <1>6, <1>10 DEF InTurn, Precedes
  <2>3. msg \in Seq(Bytes)
    BY <1>5 DEF Numbered
  <2>4. InTurn(r, c, q)
    BY <1>6, <2>1, <2>2, <2>3, WritesInTurn
  <2>5. conn_send(w, c, by, res) = [v EXCEPT !.conn[c] = r]
    BY <1>2, <1>8, <1>10 DEF r
  <2>. QED
    BY <1>7, <1>8, <2>4, <2>5, SetInTurn
<1>11. CASE k.state = "connected" /\ by = "other"
  <2> DEFINE t == Task("send", c, msg)
  <2>1. t \in TaskSet /\ t.fd = c /\ t.data = msg
    BY <1>5 DEF Numbered, Task, TaskSet, Kinds
  <2>2. conn_send(w, c, by, res) = gp_queue_in_loop(v, t, by)
    BY <1>2, <1>11
  <2> HIDE DEF t
  <2>3. \A p \in 1..Len(q) : k.mem = "live" /\ q[p].fd = c => Precedes(q[p].data, msg)
    BY <1>0, <1>5 DEF InTurn
  <2>4. Behind(v.conn[t.fd], v.pending, t)
    BY <1>5, <1>8, <1>11, <2>1, <2>3 DEF Behind
  <2>. QED
    BY <1>7, <2>1, <2>2, <2>4, QueueInTurn
<1>. QED
  BY <1>9, <1>10, <1>11 DEF Sides

(* conn_shutdown.                                                           *)
LEMMA ShutdownInTurn ==
    ASSUME NEW w, AllInTurn(w), NEW c \in Fds, NEW by
    PROVE  AllInTurn(conn_shutdown(w, c, by))
<1> DEFINE e == [w.conn[c] EXCEPT !.state = "disconnecting"]
           v == [w EXCEPT !.conn[c] = e]
<1>1. [w EXCEPT !.conn[c].state = "disconnecting"] = v
  BY DEF AllInTurn, IsWorld
<1>2. conn_shutdown(w, c, by) =
        IF w.conn[c].state # "connected" THEN w
        ELSE IF by = "loop"
        THEN GiveRef([TakeRef(v, c) EXCEPT !.conn[c] = run_in_loop_shutdown(@)], c)
        ELSE gp_queue_in_loop(v, Task("shutdown", c, <<>>), by)
  BY <1>1 DEF conn_shutdown
<1>3. Still(w.conn[c], e)
  BY AnyOutput, StateStill
<1>4. v = [w EXCEPT !.conn[c] = e]
  OBVIOUS
<1> HIDE DEF v, e
<1>5. AllInTurn(v)
  BY <1>3, <1>4, SetStill
<1> DEFINE x == TakeRef(v, c)
           y == [x EXCEPT !.conn[c] = run_in_loop_shutdown(x.conn[c])]
<1>6. AllInTurn(x)
  BY <1>5, RefsInTurn
<1> HIDE DEF x
<1>7. AllInTurn(y)
  BY <1>6, AnyOutput, ShutStill, SetStill
<1>8. [x EXCEPT !.conn[c] = run_in_loop_shutdown(@)] = y
  OBVIOUS
<1> HIDE DEF y
<1>9. AllInTurn(GiveRef(y, c))
  BY <1>7, RefsInTurn
<1>10. AllInTurn(gp_queue_in_loop(v, Task("shutdown", c, <<>>), by))
  BY <1>5, QueueEmpty DEF Kinds
<1>. QED
  BY <1>2, <1>8, <1>9, <1>10 DEF x

(* conn_force_close.                                                        *)
LEMMA ForceCloseInTurn ==
    ASSUME NEW w, AllInTurn(w), NEW c \in Fds, NEW by
    PROVE  AllInTurn(conn_force_close(w, c, by))
<1> DEFINE e == [w.conn[c] EXCEPT !.state = "disconnecting"]
           v == [w EXCEPT !.conn[c] = e]
<1>1. [w EXCEPT !.conn[c].state = "disconnecting"] = v
  BY DEF AllInTurn, IsWorld
<1>2. conn_force_close(w, c, by) =
        IF w.conn[c].state \notin {"connected", "disconnecting"} THEN w
        ELSE gp_queue_in_loop(v, Task("close", c, <<>>), by)
  BY <1>1 DEF conn_force_close
<1>3. Still(w.conn[c], e)
  BY AnyOutput, StateStill
<1>4. v = [w EXCEPT !.conn[c] = e]
  OBVIOUS
<1> HIDE DEF v, e
<1>5. AllInTurn(v)
  BY <1>3, <1>4, SetStill
<1>6. AllInTurn(gp_queue_in_loop(v, Task("close", c, <<>>), by))
  BY <1>5, QueueEmpty DEF Kinds
<1>. QED
  BY <1>2, <1>6

(* Whatever a user callback calls.                                          *)
LEMMA UserCallInTurn ==
    ASSUME NEW w, AllInTurn(w), NEW u \in UserCalls
    PROVE  AllInTurn(UserCall(w, u))
<1>1. CASE u.fd \notin Fds
  <2>1. IsWorld(w)
    BY DEF AllInTurn
  <2>2. /\ IsWorld(UserCall(w, u)) /\ UserCall(w, u).conn = w.conn
        /\ UserCall(w, u).pending = w.pending
    BY <1>1, <2>1, UserCallNone
  <2>. QED
    BY <2>2 DEF AllInTurn
<1>2. CASE u.fd \in Fds
  <2> DEFINE c == u.fd
  <2>1. /\ u.by \in Sides /\ u.res \in Int /\ u.res >= -1
        /\ u.op \in {"send", "shutdown", "close", "hold", "drop"}
    BY <1>2, UserCallKinds
  <2>2. /\ AllInTurn(conn_send(w, c, u.by, u.res)) /\ AllInTurn(conn_shutdown(w, c, u.by))
        /\ AllInTurn(conn_force_close(w, c, u.by))
    BY <1>2, <2>1, SendInTurn, ShutdownInTurn, ForceCloseInTurn
  <2>3. /\ AllInTurn([w EXCEPT !.conn[c] = Keep(w.conn[c])])
        /\ AllInTurn([w EXCEPT !.conn[c] = Drop(w.conn[c])])
    BY <1>2, AnyOutput, KeepStill, SetStill
  <2>4. \/ UserCall(w, u) = w
        \/ UserCall(w, u) = conn_send(w, c, u.by, u.res)
        \/ UserCall(w, u) = conn_shutdown(w, c, u.by)
        \/ UserCall(w, u) = conn_force_close(w, c, u.by)
        \/ UserCall(w, u) = [w EXCEPT !.conn[c] = Keep(w.conn[c])]
        \/ UserCall(w, u) = [w EXCEPT !.conn[c] = Drop(w.conn[c])]
    BY <2>1 DEF UserCall
  <2>. QED
    BY <2>2, <2>3, <2>4
<1>. QED
  BY <1>1, <1>2

(* A callback.                                                              *)
LEMMA CallbackInTurn ==
    ASSUME NEW w, AllInTurn(w), NEW c \in Fds, NEW what, NEW u \in UserCalls
    PROVE  AllInTurn(Callback(w, c, what, u))
<1> DEFINE v == [w EXCEPT !.conn[c] = Noted(w.conn[c], what)]
<1>1. AllInTurn(v)
  BY AnyOutput, NotedStill, SetStill
<1>2. Callback(w, c, what, u) = UserCall(v, u)
  BY DEF Callback
<1> HIDE DEF v
<1>. QED
  BY <1>1, <1>2, UserCallInTurn

(* The end of a connection.                                                 *)
LEMMA RemoveConnInTurn ==
    ASSUME NEW w, AllInTurn(w), NEW c \in Fds
    PROVE  AllInTurn(remove_conn(w, c))
<1> DEFINE a == [w EXCEPT !.conn[c] = [Touch(w.conn[c]) EXCEPT !.dict = FALSE]]
           v == GiveRef(a, c)
           x == TakeRef(v, c)
           y == gp_queue_in_loop(x, Task("destroy", c, <<>>), "loop")
<1>1. remove_conn(w, c) = GiveRef(y, c)
  BY DEF remove_conn, run_in_loop_remove_conn
<1>2. AllInTurn(a)
  BY AnyOutput, ForgetStill, SetStill
<1> HIDE DEF a
<1>3. AllInTurn(v)
  BY <1>2, RefsInTurn
<1> HIDE DEF v
<1>4. AllInTurn(x)
  BY <1>3, RefsInTurn
<1> HIDE DEF x
<1>5. AllInTurn(y)
  BY <1>4, QueueEmpty DEF Kinds
<1> HIDE DEF y
<1>. QED
  BY <1>1, <1>5, RefsInTurn

(* handler_close.                                                           *)
LEMMA CloseInTurn ==
    ASSUME NEW w, AllInTurn(w), NEW c \in Fds, NEW u \in UserCalls
    PROVE  AllInTurn(connection_handler_close(w, c, u))
<1> DEFINE k == w.conn[c]
           off == [w EXCEPT !.conn[c] = GoDown(conn_ref_inc(k))]
           x == Callback(off, c, "down", u)
           y == remove_conn(x, c)
<1>1. connection_handler_close(w, c, u) = GiveRef(y, c)
  BY DEF connection_handler_close
<1>2. Still(k, conn_ref_inc(k)) /\ IsOutput(conn_ref_inc(k))
  BY AnyOutput, IncStill DEF Still
<1>3. Still(k, GoDown(conn_ref_inc(k)))
  BY <1>2, GoDownStill, StillTrans
<1>4. AllInTurn(off)
  BY <1>3, SetStill
<1> HIDE DEF off
<1>5. AllInTurn(x)
  BY <1>4, CallbackInTurn
<1> HIDE DEF x
<1>6. AllInTurn(y)
  BY <1>5, RemoveConnInTurn
<1> HIDE DEF y
<1>. QED
  BY <1>1, <1>6, RefsInTurn

(* The tasks that end a connection.                                         *)
LEMMA EndTasksInTurn ==
    ASSUME NEW w, AllInTurn(w), NEW c \in Fds, NEW u \in UserCalls
    PROVE  /\ AllInTurn(queue_in_loop_force_close(w, c, u))
           /\ AllInTurn(connection_destroyed(w, c, u))
<1>1. AllInTurn(queue_in_loop_force_close(w, c, u))
  <2>1. AllInTurn([w EXCEPT !.conn[c] = Touch(w.conn[c])])
    BY AnyOutput, TouchStill, SetStill
  <2>2. AllInTurn(connection_handler_close(w, c, u))
    BY CloseInTurn
  <2>. QED
    BY <2>1, <2>2 DEF queue_in_loop_force_close
<1>2. AllInTurn(connection_destroyed(w, c, u))
  <2> DEFINE g == [w EXCEPT !.conn[c] = GoDown(w.conn[c])]
             off == IF w.conn[c].state = "connected" THEN Callback(g, c, "down", u) ELSE w
             z == [off EXCEPT !.conn[c] = handler_remove(off.conn[c])]
  <2>1. connection_destroyed(w, c, u) = z
    BY DEF connection_destroyed
  <2>2. AllInTurn(g)
    BY AnyOutput, GoDownStill, SetStill
  <2> HIDE DEF g
  <2>3. AllInTurn(Callback(g, c, "down", u))
    BY <2>2, CallbackInTurn
  <2>4. AllInTurn(off)
    BY <2>3
  <2> HIDE DEF off
  <2>5. AllInTurn(z)
    BY <2>4, AnyOutput, RemoveStill, SetStill
  <2>. QED
    BY <2>1, <2>5
<1>. QED
  BY <1>1, <1>2

(* The events of a connection.                                              *)
LEMMA EventInTurn ==
    ASSUME NEW w, AllInTurn(w), NEW c \in Fds, NEW u \in UserCalls, NEW revents, NEW eof,
           NEW res \in Int, res >= -1
    PROVE  AllInTurn(handle_event(w, c, revents, eof, res, u))
<1> DEFINE hup == IF "hup" \in revents /\ "in" \notin revents
                  THEN connection_handler_close(w, c, u) ELSE w
           read == IF "in" \in revents THEN connection_handler_read(hup, c, eof, u) ELSE hup
           e == connection_handler_write(read.conn[c], res)
           v == [read EXCEPT !.conn[c] = e]
<1>1. handle_event(w, c, revents, eof, res, u) = IF "out" \in revents THEN v ELSE read
  BY DEF handle_event
<1>2. AllInTurn(hup)
  BY CloseInTurn
<1> HIDE DEF hup
<1>3. AllInTurn(connection_handler_read(hup, c, eof, u))
  <2> DEFINE x == TakeRef(hup, c)
             y == Callback(x, c, "msg", u)
  <2>1. AllInTurn(x)
    BY <1>2, RefsInTurn
  <2> HIDE DEF x
  <2>2. AllInTurn(y)
    BY <2>1, CallbackInTurn
  <2>3. AllInTurn(connection_handler_close(hup, c, u))
    BY <1>2, CloseInTurn
  <2>4. connection_handler_read(hup, c, eof, u) =
            IF eof THEN connection_handler_close(hup, c, u) ELSE GiveRef(y, c)
    BY DEF connection_handler_read, x
  <2> HIDE DEF y
  <2>. QED
    BY <2>2, <2>3, <2>4, RefsInTurn
<1>4. AllInTurn(read)
  BY <1>2, <1>3
<1> HIDE DEF read
<1>5. Writes(read.conn[c], e, <<>>)
  BY <1>4, AnyOutput, HandlerWrites
<1>6. v = [read EXCEPT !.conn[c] = e]
  OBVIOUS
<1> HIDE DEF e, v
<1>7. InTurn(e, c, read.pending)
  <2>1. InTurn(read.conn[c], c, read.pending)
    BY <1>4 DEF AllInTurn
  <2>2. <<>> \in Seq(Bytes) /\ \A d : Precedes(<<>>, d)
    BY DEF Precedes
  <2>. QED
    BY <1>5, <2>1, <2>2, WritesInTurn
<1>8. AllInTurn(v)
  BY <1>4, <1>6, <1>7, SetInTurn
<1>. QED
  BY <1>1, <1>4, <1>8

(* A new connection: no task of an earlier owner of the descriptor is left. *)
LEMMA NewInTurn ==
    ASSUME NEW w, AllInTurn(w), NEW c \in Fds, \A p \in 1..Len(w.pending) : w.pending[p].fd # c,
           NEW u \in UserCalls
    PROVE  AllInTurn(new_connection_callback(w, c, u))
<1> DEFINE new == [Blank EXCEPT !.mem = "live", !.ref = 1, !.dict = TRUE]
           e == conn_ref_inc(new)
           added == [w EXCEPT !.conn[c] = e]
           x == TakeRef(added, c)
           s == [x.conn[c] EXCEPT !.state = "connected"]
           f == enable_reading(s)
           y == [x EXCEPT !.conn[c] = f]
           z == Callback(y, c, "up", u)
           a == GiveRef(z, c)
<1>1. new_connection_callback(w, c, u) = GiveRef(a, c)
  BY DEF new_connection_callback, connection_established
<1>2. IsOutput(new)
  <2>1. /\ DOMAIN new = Fields /\ new.mem \in {"free", "live"} /\ new.calls = 0
        /\ new.wrote = [i \in Sides |-> 0] /\ new.out = <<>>
    BY DEF Blank, Fields
  <2> HIDE DEF new
  <2>. QED
    BY <2>1, NothingWaits
<1> HIDE DEF new
<1>3. IsOutput(e)
  BY <1>2, IncStill DEF Still
<1>4. InTurn(e, c, w.pending)
  BY <1>3 DEF InTurn
<1> HIDE DEF e
<1>5. AllInTurn(added)
  BY <1>4, SetInTurn
<1> HIDE DEF added
<1>6. AllInTurn(x)
  BY <1>5, RefsInTurn
<1> HIDE DEF x
<1>7. Still(x.conn[c], s) /\ IsOutput(s)
  BY <1>6, AnyOutput, StateStill DEF Still
<1> HIDE DEF s
<1>8. Still(x.conn[c], f)
  BY <1>7, EnableStill, StillTrans
<1> HIDE DEF f
<1>9. AllInTurn(y)
  BY <1>6, <1>8, SetStill
<1> HIDE DEF y
<1>10. AllInTurn(z)
  BY <1>9, CallbackInTurn
<1> HIDE DEF z
<1>11. AllInTurn(a)
  BY <1>10, RefsInTurn
<1> HIDE DEF a
<1>. QED
  BY <1>1, <1>11, RefsInTurn

(* The first task is taken off the list: its data is before the rest.       *)
LEMMA TakeInTurn ==
    ASSUME NEW w, AllInTurn(w), w.pending # <<>>, NEW t, t = Head(w.pending),
           NEW v, v = [w EXCEPT !.pending = Tail(@)], w.conn[t.fd].mem = "live"
    PROVE  /\ AllInTurn(v) /\ t \in TaskSet /\ v.conn = w.conn
           /\ Numbered(t.data, v.conn[t.fd].wrote, v.conn[t.fd].calls)
           /\ Precedes(v.conn[t.fd].out, t.data)
           /\ \A p \in 1..Len(v.pending) :
                 v.pending[p].fd = t.fd => Precedes(t.data, v.pending[p].data)
<1> DEFINE q == w.pending
           z == Tail(q)
<1>0. IsWorld(w) /\ q \in Seq(TaskSet) /\ q # <<>>
  BY DEF AllInTurn, IsWorld
<1>1. /\ t \in TaskSet /\ z \in Seq(TaskSet) /\ Len(q) \in Nat \ {0} /\ Len(z) = Len(q) - 1
      /\ q[1] = t /\ \A p \in 1..Len(z) : z[p] = q[p + 1]
  BY <1>0, HeadTailProperties
<1>2. /\ DOMAIN v = DOMAIN w /\ v.conn = w.conn /\ v.pending = z /\ v.wake = w.wake
      /\ v.quit = w.quit
  BY <1>0 DEF IsWorld
<1>3. IsWorld(v)
  BY <1>0, <1>1, <1>2 DEF IsWorld
<1> HIDE DEF z, q
<1>4. ASSUME NEW d \in Fds PROVE InTurn(w.conn[d], d, z)
  <2>1. InTurn(w.conn[d], d, q)
    BY DEF AllInTurn, q
  <2>2. ASSUME NEW p \in 1..Len(z)
        PROVE  /\ p + 1 \in 1..Len(q) /\ z[p] = q[p + 1]
               /\ \A r \in 1..(p - 1) : r + 1 \in 1..((p + 1) - 1) /\ z[r] = q[r + 1]
    <3>1. Len(z) \in Nat /\ Len(q) = Len(z) + 1
      BY <1>1
    <3>2. p + 1 \in 1..Len(q) /\ z[p] = q[p + 1]
      BY <1>1, <3>1
    <3>3. ASSUME NEW r \in 1..(p - 1) PROVE r + 1 \in 1..((p + 1) - 1) /\ r \in 1..Len(z)
      BY <3>1
    <3>. QED
      BY <1>1, <3>2, <3>3
  <2>3. ASSUME w.conn[d].mem = "live", NEW p \in 1..Len(z), z[p].fd = d
        PROVE  /\ Numbered(z[p].data, w.conn[d].wrote, w.conn[d].calls)
               /\ \A j \in 1..Len(z[p].data) : z[p].data[j][1] = "other"
               /\ Precedes(w.conn[d].out, z[p].data)
               /\ \A r \in 1..(p - 1) : z[r].fd = d => Precedes(z[r].data, z[p].data)
    <3> DEFINE n == p + 1
    <3>1. /\ n \in 1..Len(q) /\ z[p] = q[n] /\ q[n].fd = d
          /\ \A r \in 1..(p - 1) : r + 1 \in 1..(n - 1) /\ z[r] = q[r + 1]
      BY <2>2, <2>3
    <3> HIDE DEF n
    <3>2. /\ Numbered(q[n].data, w.conn[d].wrote, w.conn[d].calls)
          /\ \A j \in 1..Len(q[n].data) : q[n].data[j][1] = "other"
          /\ Precedes(w.conn[d].out, q[n].data)
          /\ \A r \in 1..(n - 1) : q[r].fd = d => Precedes(q[r].data, q[n].data)
      BY <2>1, <2>3, <3>1 DEF InTurn
    <3>. QED
      BY <3>1, <3>2
  <2>. QED
    BY <2>1, <2>3 DEF InTurn
<1>5. AllInTurn(v)
  BY <1>2, <1>3, <1>4 DEF AllInTurn
<1>6. t.fd \in Fds /\ InTurn(w.conn[t.fd], t.fd, q) /\ 1 \in 1..Len(q) /\ q[1].fd = t.fd
  BY <1>1 DEF TaskSet, AllInTurn, q
<1>7. /\ Numbered(t.data, w.conn[t.fd].wrote, w.conn[t.fd].calls)
      /\ Precedes(w.conn[t.fd].out, t.data)
  BY <1>1, <1>6 DEF InTurn
<1>8. ASSUME NEW p \in 1..Len(z), z[p].fd = t.fd PROVE Precedes(t.data, z[p].data)
  <2> DEFINE n == p + 1
  <2>1. n \in 1..Len(q) /\ z[p] = q[n] /\ 1 \in 1..(n - 1)
    BY <1>1
  <2> HIDE DEF n
  <2>. QED
    BY <1>1, <1>6, <1>8, <2>1 DEF InTurn
<1>. QED
  BY <1>1, <1>2, <1>5, <1>7, <1>8

----------------------------------------------------------------------------
(* The output is in order between handlers.                                 *)
OrderInv == AllInTurn(World)

(* A handler that keeps the order.                                          *)
LEMMA BecomeInTurn ==
    ASSUME NEW STATE v, AllInTurn(v), Become(v)
    PROVE  OrderInv'
<1>1. conn' = v.conn /\ pending' = v.pending /\ wake' = v.wake /\ quit' = v.quit
  BY DEF Become
<1>2. /\ DOMAIN (World') = {"conn", "pending", "wake", "quit"}
      /\ World'.conn = v.conn /\ World'.pending = v.pending
      /\ World'.wake = v.wake /\ World'.quit = v.quit
  BY <1>1 DEF World
<1>3. AllInTurn(World')
  BY <1>2 DEF AllInTurn, IsWorld
<1>. QED
  BY <1>3 DEF OrderInv, AllInTurn, IsWorld

(* A step that leaves connections and tasks alone.                          *)
LEMMA IdleInTurn ==
    ASSUME OrderInv, conn' = conn, pending' = pending, wake' \in BOOLEAN, quit' \in BOOLEAN
    PROVE  OrderInv'
<1>1. /\ DOMAIN World = {"conn", "pending", "wake", "quit"}
      /\ World.conn = conn /\ World.pending = pending
  BY DEF World
<1>2. /\ DOMAIN (World') = {"conn", "pending", "wake", "quit"}
      /\ World'.conn = conn /\ World'.pending = pending
      /\ World'.wake = wake' /\ World'.quit = quit'
  BY DEF World
<1>3. AllInTurn(World')
  BY <1>1, <1>2 DEF OrderInv, AllInTurn, IsWorld
<1>. QED
  BY <1>3 DEF OrderInv, AllInTurn, IsWorld

(* No task of a free connection.                                            *)
LEMMA FreeHasNone ==
    ASSUME IInv, NEW c \in Fds, conn[c].mem = "free"
    PROVE  \A p \in 1..Len(pending) : pending[p].fd # c
<1>1. NT(pending, c) = 0
  BY CountsAreNat DEF IInv, Types, ConnsOK, Counted
<1>. QED
  BY <1>1, NoTasks DEF IInv, Types

(* epoll_wait.                                                              *)
LEMMA PollInTurn ==
    ASSUME OrderInv, NEW ready, Poll(ready)
    PROVE  OrderInv'
<1>1. /\ conn' = [c \in Fds |-> IF c \in ready THEN update(conn[c]) ELSE conn[c]]
      /\ pending' = pending /\ wake' = wake /\ quit' = quit
  BY DEF Poll
<1>2. /\ DOMAIN World = {"conn", "pending", "wake", "quit"}
      /\ World.conn = conn /\ World.pending = pending /\ World.wake = wake /\ World.quit = quit
  BY DEF World
<1> DEFINE w == [World EXCEPT !.conn = [c \in Fds |-> IF c \in ready THEN update(conn[c]) ELSE conn[c]]]
<1>3. /\ DOMAIN w = {"conn", "pending", "wake", "quit"}
      /\ w.conn = [c \in Fds |-> IF c \in ready THEN update(conn[c]) ELSE conn[c]]
      /\ w.pending = pending /\ w.wake = wake /\ w.quit = quit
  BY DEF World
<1> HIDE DEF w
<1>4. IsWorld(w)
  BY <1>2, <1>3 DEF OrderInv, AllInTurn, IsWorld
<1>5. ASSUME NEW c \in Fds PROVE InTurn(w.conn[c], c, w.pending)
  <2>1. InTurn(conn[c], c, pending) /\ IsOutput(conn[c])
    BY <1>2 DEF OrderInv, AllInTurn, InTurn
  <2>2. InTurn(update(conn[c]), c, pending)
    BY <2>1, UpdateStill, StillInTurn
  <2>. QED
    BY <1>3, <2>1, <2>2
<1>6. AllInTurn(w)
  BY <1>4, <1>5 DEF AllInTurn
<1>7. Become(w)
  BY <1>1, <1>3 DEF Become
<1>. QED
  BY <1>6, <1>7, BecomeInTurn

(* A pending task is run.                                                   *)
LEMMA TaskInTurn ==
    ASSUME IInv, OrderInv, NEW res \in Results, NEW u \in UserCalls, RunPendingTask(res, u)
    PROVE  OrderInv'
<1> DEFINE t == Head(pending)
           c == t.fd
           w == [World EXCEPT !.pending = Tail(@)]
           done == CASE t.kind = "send" ->
                            [w EXCEPT !.conn[c] = conn_send_in_loop(@, t.data, res)]
                     [] t.kind = "shutdown" -> [w EXCEPT !.conn[c] = run_in_loop_shutdown(@)]
                     [] t.kind = "close" -> queue_in_loop_force_close(w, c, u)
                     [] t.kind = "destroy" -> connection_destroyed(w, c, u)
           v == GiveRef(done, c)
<1>1. pending # <<>> /\ Become(v)
  BY DEF RunPendingTask
<1>2. t \in TaskSet /\ conn[c].mem = "live" /\ w.conn = conn
  BY <1>1, TaskTaken
<1>3. World.conn = conn /\ World.pending = pending
  BY DEF World
<1>4. /\ AllInTurn(w)
      /\ Numbered(t.data, w.conn[c].wrote, w.conn[c].calls)
      /\ Precedes(w.conn[c].out, t.data)
      /\ \A p \in 1..Len(w.pending) : w.pending[p].fd = c => Precedes(t.data, w.pending[p].data)
  <2> DEFINE x == World
  <2>1. /\ AllInTurn(x) /\ x.pending # <<>> /\ t = Head(x.pending)
        /\ w = [x EXCEPT !.pending = Tail(@)] /\ x.conn[t.fd].mem = "live"
    BY <1>1, <1>2, <1>3 DEF OrderInv
  <2> HIDE DEF x, w, t
  <2>. QED
    BY <2>1, TakeInTurn
<1>5. c \in Fds /\ t.data \in Seq(Bytes) /\ t.kind \in Kinds
  BY <1>2 DEF TaskSet
<1>6. res \in Int /\ res >= -1
  BY DEF Results
<1> HIDE DEF t, w, c
<1>7. AllInTurn(done)
  <2>1. CASE t.kind = "send"
    <3> DEFINE e == conn_send_in_loop(w.conn[c], t.data, res)
    <3>1. done = [w EXCEPT !.conn[c] = e]
      BY <2>1
    <3>2. Writes(w.conn[c], e, t.data)
      BY <1>4, <1>5, <1>6, AnyOutput, SendWrites
    <3>3. InTurn(w.conn[c], c, w.pending)
      BY <1>4, <1>5 DEF AllInTurn
    <3> HIDE DEF e, done
    <3>4. InTurn(e, c, w.pending)
      BY <1>4, <1>5, <3>2, <3>3, WritesInTurn
    <3>. QED
      BY <1>4, <1>5, <3>1, <3>4, SetInTurn
  <2>2. CASE t.kind = "shutdown"
    <3> DEFINE e == run_in_loop_shutdown(w.conn[c])
    <3>1. done = [w EXCEPT !.conn[c] = e]
      BY <2>2
    <3>2. Still(w.conn[c], e)
      BY <1>4, <1>5, AnyOutput, ShutStill
    <3> HIDE DEF e, done
    <3>. QED
      BY <1>4, <1>5, <3>1, <3>2, SetStill
  <2>3. CASE t.kind = "close"
    <3>1. done = queue_in_loop_force_close(w, c, u)
      BY <2>3
    <3> HIDE DEF done
    <3>. QED
      BY <1>4, <1>5, <3>1, EndTasksInTurn
  <2>4. CASE t.kind = "destroy"
    <3>1. done = connection_destroyed(w, c, u)
      BY <2>4
    <3> HIDE DEF done
    <3>. QED
      BY <1>4, <1>5, <3>1, EndTasksInTurn
  <2>. QED
    BY <1>5, <2>1, <2>2, <2>3, <2>4 DEF Kinds
<1> HIDE DEF done
<1>8. AllInTurn(v)
  BY <1>5, <1>7, RefsInTurn
<1> HIDE DEF v
<1>. QED
  BY <1>1, <1>8, BecomeInTurn

(* Every step keeps the order.                                              *)
LEMMA StepInTurn ==
    ASSUME IInv, OrderInv, [Next]_vars
    PROVE  OrderInv'
<1>1. wake \in BOOLEAN /\ quit \in BOOLEAN
  BY DEF IInv, Types
<1>2. CASE \/ RunLoop \/ PollTimeout \/ WhileTest \/ TimersDone \/ EventsDone \/ NoPendingTask
           \/ WakeupRead \/ AcceptFails \/ UNCHANGED vars
  <2>1. conn' = conn /\ pending' = pending /\ wake' \in BOOLEAN /\ quit' \in BOOLEAN
    BY <1>1, <1>2 DEF RunLoop, PollTimeout, WhileTest, TimersDone, EventsDone, NoPendingTask,
                      WakeupRead, AcceptFails, vars
  <2>. QED
    BY <2>1, IdleInTurn
<1>3. CASE OtherQuits
  <2>1. conn' = conn /\ pending' = pending /\ wake' \in BOOLEAN /\ quit' \in BOOLEAN
    BY <1>1, <1>3 DEF OtherQuits, Become, gp_loop_quit, World
  <2>. QED
    BY <2>1, IdleInTurn
<1>4. ASSUME NEW c \in Fds, NEW u \in UserCalls, Accept(c, u) PROVE OrderInv'
  <2> DEFINE w == World
             v == new_connection_callback(w, c, u)
  <2>1. conn[c].mem = "free" /\ Become(v)
    BY <1>4 DEF Accept
  <2>2. w.pending = pending /\ AllInTurn(w)
    BY DEF World, OrderInv
  <2> HIDE DEF w
  <2>3. \A p \in 1..Len(w.pending) : w.pending[p].fd # c
    BY <2>1, <2>2, FreeHasNone
  <2>4. AllInTurn(v)
    BY <2>2, <2>3, NewInTurn
  <2> HIDE DEF v
  <2>. QED
    BY <2>1, <2>4, BecomeInTurn
<1>5. ASSUME NEW c \in Fds, NEW u \in UserCalls, NEW eof \in BOOLEAN, NEW res \in Results,
             ConnEvent(c, eof, res, u)
      PROVE  OrderInv'
  <2> DEFINE w == World
             v == handle_event(w, c, Head(active).revents, eof, res, u)
  <2>1. Become(v) /\ AllInTurn(w) /\ res \in Int /\ res >= -1
    BY <1>5 DEF ConnEvent, OrderInv, Results
  <2> HIDE DEF w
  <2>2. AllInTurn(v)
    BY <2>1, EventInTurn
  <2> HIDE DEF v
  <2>. QED
    BY <2>1, <2>2, BecomeInTurn
<1>6. ASSUME NEW u \in UserCalls, TimerCallback(u) PROVE OrderInv'
  <2> DEFINE w == World
             v == UserCall(w, u)
  <2>1. Become(v) /\ AllInTurn(w)
    BY <1>6 DEF TimerCallback, OrderInv
  <2> HIDE DEF w
  <2>2. AllInTurn(v)
    BY <2>1, UserCallInTurn
  <2> HIDE DEF v
  <2>. QED
    BY <2>1, <2>2, BecomeInTurn
<1>7. ASSUME NEW res \in Results, NEW u \in UserCalls, RunPendingTask(res, u) PROVE OrderInv'
  BY <1>7, TaskInTurn
<1>8. CASE Polls
  BY <1>8, PollInTurn DEF Polls
<1>9. CASE LoopStep
  BY <1>2, <1>4, <1>5, <1>7, <1>9 DEF LoopStep, HandleEvents
<1>. QED
  BY <1>2, <1>3, <1>6, <1>8, <1>9 DEF Next

(* The bytes that one side sends on a connection reach the socket in the    *)
(* order of its calls: what waits in the output buffer is in order and      *)
(* after what was written, and every queued send is in order behind it and  *)
(* behind the sends queued before it (conn_send, conn_send_in_loop,         *)
(* connection_handler_write, do_pending_functors).                          *)
THEOREM SendsInOrder == SafeSpec => []SendOrder
<1>1. Init => OrderInv
  <2> SUFFICES ASSUME Init PROVE AllInTurn(World)
    BY DEF OrderInv
  <2>1. /\ DOMAIN World = {"conn", "pending", "wake", "quit"} /\ World.wake = FALSE
        /\ World.conn = [c \in Fds |-> Blank] /\ World.pending = <<>> /\ World.quit = FALSE
    BY DEF World, Init
  <2>2. IsWorld(World)
    BY InitOK, WorldOK
  <2>3. IsOutput(Blank)
    <3>1. /\ DOMAIN Blank = Fields /\ Blank.mem \in {"free", "live"} /\ Blank.calls = 0
          /\ Blank.wrote = [s \in Sides |-> 0] /\ Blank.out = <<>>
      BY DEF Blank, Fields
    <3>. QED
      BY <3>1, NothingWaits
  <2>4. Blank.mem = "free"
    BY DEF Blank
  <2>5. \A c \in Fds : World.conn[c] = Blank
    BY <2>1
  <2>. QED
    BY <2>2, <2>3, <2>4, <2>5 DEF AllInTurn, InTurn
<1>2. IInv /\ OrderInv /\ [Next]_vars => OrderInv'
  BY StepInTurn
<1>3. IInv /\ OrderInv => SendOrder
  <2> SUFFICES ASSUME IInv, OrderInv, NEW c \in Fds
               PROVE  /\ Rising(conn[c].out, conn[c].wrote)
                      /\ \A p \in 1..Len(pending) : pending[p].fd = c =>
                            /\ Rising(pending[p].data, conn[c].wrote)
                            /\ Precedes(conn[c].out, pending[p].data)
                            /\ \A q \in 1..(p - 1) :
                                  pending[q].fd = c => Precedes(pending[q].data, pending[p].data)
    BY DEF SendOrder
  <2>1. InTurn(conn[c], c, pending)
    BY DEF OrderInv, AllInTurn, World
  <2>2. Rising(conn[c].out, conn[c].wrote)
    BY <2>1 DEF InTurn, IsOutput, Numbered
  <2>3. CASE conn[c].mem = "live"
    BY <2>1, <2>2, <2>3 DEF InTurn, Numbered
  <2>4. CASE conn[c].mem = "free"
    BY <2>2, <2>4, FreeHasNone
  <2>. QED
    BY <2>1, <2>3, <2>4 DEF InTurn, IsOutput
<1>. QED
  BY <1>1, <1>2, <1>3, Invariance, PTL DEF SafeSpec
=============================================================================
