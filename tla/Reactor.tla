------------------------------ MODULE Reactor ------------------------------
(***************************************************************************)
(* The event loop and what runs on it: base/gp_loop.c, gp_epoller.c,       *)
(* gp_handler.c, gp_acceptor.c, gp_server.c, gp_conn.c, gp_pending_task.c. *)
(*                                                                         *)
(* One thread runs the loop.  Its handlers call each other deeply, so each *)
(* C function is an operator from a world (a record of everything the      *)
(* functions change) to a world, and an action applies one handler, one    *)
(* pending task or one timer callback.  What the code does not decide, the *)
(* readiness of descriptors, the results of read and write and what user   *)
(* callbacks call, is chosen by the actions.  Other threads call in while  *)
(* a callback waits for them (the test servers' use: run_task and          *)
(* destroy_task inside on_message), except for gp_loop_quit, which may     *)
(* come at any time.                                                       *)
(***************************************************************************)
EXTENDS Integers, Sequences, FiniteSets, SequencesExt

CONSTANTS
    Fds,                    \* descriptors of connections; reused after close
    WakeupFd, ListenFd,
    MaxPending,             \* bound: user calls queue nothing beyond this
    MaxHolds,               \* bound: references the user keeps per connection
    MaxSends,               \* bound: conn_send calls per connection
    MaxReady                \* bound: handlers one epoll_wait returns

ASSUME FdAssumption ==
    IsFiniteSet(Fds) /\ WakeupFd \notin Fds /\ ListenFd \notin Fds /\ WakeupFd # ListenFd
ASSUME ReactorBounds ==
    MaxPending \in Nat /\ MaxHolds \in Nat /\ MaxSends \in Nat /\ MaxReady \in Nat \ {0}

Sides == {"loop", "other"}      \* is_in_loop_thread: yes, no

VARIABLES
    conn,       \* per descriptor, the gp_connection that owns it
    pending,    \* loop->pending_list
    wake,       \* the eventfd's counter is not zero
    quit,       \* loop->quit
    phase,      \* where gp_loop_run is
    active,     \* loop->active_handler_list
    listening,  \* the listening socket is open
    silent      \* history: a timer callback of this round queued a task or quit

vars == <<conn, pending, wake, quit, phase, active, listening, silent>>

(* No connection owns the descriptor.  epoll: is it in the kernel's set?     *)
(* out: output_buffer; shut: SHUT_WR was done.  bad, cb, holds, calls and    *)
(* wrote are history: was freed memory touched, the callbacks made, the     *)
(* references users keep, the number of sends, the last byte written.       *)
Blank ==
    [mem |-> "free", state |-> "connecting", ref |-> 0, ev |-> {}, index |-> "new",
     epoll |-> FALSE, dict |-> FALSE, out |-> <<>>, shut |-> FALSE,
     bad |-> FALSE, cb |-> "none", holds |-> 0, calls |-> 0, wrote |-> [s \in Sides |-> 0]]

World == [conn |-> conn, pending |-> pending, wake |-> wake, quit |-> quit]

Become(w) ==
    conn' = w.conn /\ pending' = w.pending /\ wake' = w.wake /\ quit' = w.quit

----------------------------------------------------------------------------
(* Operators on one connection k.  Whatever touches it notes whether its     *)
(* memory was freed.                                                        *)
Touch(k) == [k EXCEPT !.bad = @ \/ k.mem = "free"]

(* gp_handler.c and gp_epoller.c.  Every change of the interest set goes to  *)
(* epoll_ctl; a handler that is new or was deleted is added, even with an   *)
(* empty set.                                                               *)
update(k) ==
    IF k.index # "added" THEN [k EXCEPT !.epoll = TRUE, !.index = "added"]
    ELSE IF k.ev = {} THEN [k EXCEPT !.epoll = FALSE, !.index = "deleted"]
    ELSE k

enable_reading(k) == update([Touch(k) EXCEPT !.ev = @ \union {"r"}])
enable_writing(k) == update([Touch(k) EXCEPT !.ev = @ \union {"w"}])
disable_writing(k) == update([Touch(k) EXCEPT !.ev = @ \ {"w"}])
disable_all(k) == update([Touch(k) EXCEPT !.ev = {}])
is_writing(k) == "w" \in k.ev

handler_remove(k) ==
    [Touch(k) EXCEPT !.epoll = @ /\ k.index # "added", !.index = "new"]

(* gp_conn.c: references.  The last one closes the descriptor, which also   *)
(* takes it out of epoll, and frees the connection.                         *)
conn_ref_inc(k) == [Touch(k) EXCEPT !.ref = @ + 1]
destruct_gp_connection(k) == [Blank EXCEPT !.bad = handler_remove(k).bad]
conn_ref_dec(k) ==
    IF k.ref = 1 THEN destruct_gp_connection(k) ELSE [Touch(k) EXCEPT !.ref = @ - 1]

(* Writing.  A byte is named by the side that sent it and its number there; *)
(* write() takes the first n of the bytes given to it.                      *)
Deliver(k, bytes) ==
    [k EXCEPT !.wrote =
        [s \in Sides |-> LET mine == {i \in 1..Len(bytes) : bytes[i][1] = s}
                         IN  IF mine = {} THEN @[s] ELSE bytes[Max(mine)][2]]]

SendEager(k, msg, res) ==        \* mutant: writes although older output is waiting
    LET n == Min({res, Len(msg)})
        v == Deliver(Touch(k), SubSeq(msg, 1, n))
    IN  IF k.state = "disconnected" \/ k.shut \/ res = -1 THEN Touch(k)
        ELSE IF n = Len(msg) THEN v
        ELSE enable_writing([v EXCEPT !.out = @ \o SubSeq(msg, n + 1, Len(msg))])

(* Tries to write at once if nothing is waiting; what is left goes to the    *)
(* output buffer, unless the peer is gone (EPIPE, ECONNRESET: res = -1).    *)
conn_send_in_loop(k, msg, res) ==
    LET direct == ~is_writing(k) /\ k.out = <<>>
        faultError == direct /\ (res = -1 \/ k.shut)
        nwrote == IF direct /\ ~faultError THEN Min({res, Len(msg)}) ELSE 0
        rest == SubSeq(msg, nwrote + 1, Len(msg))
        v == Deliver(Touch(k), SubSeq(msg, 1, nwrote))
        a == [v EXCEPT !.out = @ \o rest]
    IN  IF k.state = "disconnected" THEN Touch(k)
        ELSE IF faultError \/ rest = <<>> THEN v
        ELSE IF is_writing(a) THEN a ELSE enable_writing(a)

run_in_loop_shutdown(k) ==
    IF is_writing(k) THEN Touch(k) ELSE [Touch(k) EXCEPT !.shut = TRUE]

WriteShutEarly(k, res) ==        \* mutant: shuts down before the buffer is empty
    LET n == IF res = -1 THEN Len(k.out) ELSE Min({res, Len(k.out)})
        v == [Touch(k) EXCEPT !.out = SubSeq(@, n + 1, Len(@)),
                              !.shut = @ \/ k.state = "disconnecting"]
        d == IF res = -1 THEN v ELSE Deliver(v, SubSeq(k.out, 1, n))
    IN  IF d.out # <<>> THEN d ELSE disable_writing(d)

(* n is a size_t: a failed write (-1) counts as more than everything, and    *)
(* the buffer is emptied.                                                   *)
connection_handler_write(k, res) ==
    LET n == IF res = -1 THEN Len(k.out) ELSE Min({res, Len(k.out)})
        v == [Touch(k) EXCEPT !.out = SubSeq(@, n + 1, Len(@))]
        d == IF res = -1 THEN v ELSE Deliver(v, SubSeq(k.out, 1, n))
    IN  IF (res # -1 /\ n = 0) \/ d.out # <<>> THEN d
        ELSE [disable_writing(d) EXCEPT !.shut = @ \/ k.state = "disconnecting"]

----------------------------------------------------------------------------
(* gp_loop.c: a task is queued with a reference of its own; the loop is      *)
(* woken unless it is sure to look at the list before it polls.             *)
Task(kind, c, data) == [kind |-> kind, fd |-> c, data |-> data]

QueueNoWake(w, task, by) ==      \* mutant: calling_pending_functors is not looked at
    [w EXCEPT !.conn[task.fd] = conn_ref_inc(@),
              !.pending = Append(@, task),
              !.wake = @ \/ by = "other"]

gp_queue_in_loop(w, task, by) ==
    [w EXCEPT !.conn[task.fd] = conn_ref_inc(@),
              !.pending = Append(@, task),
              !.wake = @ \/ by = "other" \/ phase = "functors"]

(* gp_run_in_loop on the loop's thread: the task's function is applied at    *)
(* once, between TakeRef and GiveRef.                                       *)
TakeRef(w, c) == [w EXCEPT !.conn[c] = conn_ref_inc(@)]
GiveRef(w, c) == [w EXCEPT !.conn[c] = conn_ref_dec(@)]

QuitNoWake(w, by) == [w EXCEPT !.quit = TRUE]   \* mutant: the eventfd is not written

gp_loop_quit(w, by) == [w EXCEPT !.quit = TRUE, !.wake = @ \/ by = "other"]

----------------------------------------------------------------------------
(* What a user callback may call.  It may use a connection that the server  *)
(* lists or that it keeps a reference to, from the loop's thread or from a  *)
(* thread it waits for; res is what a direct write returns.                 *)
NoCall == [op |-> "none", fd |-> WakeupFd, by |-> "loop", res |-> 0]

UserCalls ==
    {NoCall}
    \union [op : {"send"}, fd : Fds, by : {"loop"}, res : -1..2]
    \union [op : {"send", "shutdown", "close"}, fd : Fds, by : {"other"}, res : {0}]
    \union [op : {"shutdown", "close", "hold", "drop"}, fd : Fds, by : {"loop"}, res : {0}]
    \union [op : {"quit"}, fd : {WakeupFd}, by : Sides, res : {0}]

conn_send(w, c, by, res) ==
    LET k == w.conn[c].calls
        msg == <<<<by, 2 * k + 1>>, <<by, 2 * k + 2>>>>
        v == [w EXCEPT !.conn[c].calls = @ + 1]
    IN  IF w.conn[c].state # "connected" THEN w
        ELSE IF by = "loop" THEN [v EXCEPT !.conn[c] = conn_send_in_loop(@, msg, res)]
        ELSE gp_queue_in_loop(v, Task("send", c, msg), by)

conn_shutdown(w, c, by) ==
    LET v == [w EXCEPT !.conn[c].state = "disconnecting"]
    IN  IF w.conn[c].state # "connected" THEN w
        ELSE IF by = "loop"
        THEN GiveRef([TakeRef(v, c) EXCEPT !.conn[c] = run_in_loop_shutdown(@)], c)
        ELSE gp_queue_in_loop(v, Task("shutdown", c, <<>>), by)

conn_force_close(w, c, by) ==
    IF w.conn[c].state \notin {"connected", "disconnecting"} THEN w
    ELSE gp_queue_in_loop([w EXCEPT !.conn[c].state = "disconnecting"],
                          Task("close", c, <<>>), by)

(* A user's own reference, as handle_msg of the test server takes it        *)
Keep(k) == [conn_ref_inc(k) EXCEPT !.holds = @ + 1]
Drop(k) == conn_ref_dec([k EXCEPT !.holds = @ - 1])

MayUse(k) == k.dict \/ k.holds > 0
Bounded(w, u) ==
    /\ Len(w.pending) < MaxPending
    /\ u.op = "send" => w.conn[u.fd].calls < MaxSends
    /\ u.op = "hold" => w.conn[u.fd].holds < MaxHolds

UserCall(w, u) ==
    CASE u.op = "none" -> w
      [] u.op = "quit" -> gp_loop_quit(w, u.by)
      [] u.op = "drop" ->
             IF w.conn[u.fd].holds = 0 THEN w
             ELSE [w EXCEPT !.conn[u.fd] = Drop(@)]
      [] u.op \in {"send", "shutdown", "close", "hold"} ->
             IF ~MayUse(w.conn[u.fd]) \/ ~Bounded(w, u) THEN w
             ELSE CASE u.op = "send" -> conn_send(w, u.fd, u.by, u.res)
                    [] u.op = "shutdown" -> conn_shutdown(w, u.fd, u.by)
                    [] u.op = "close" -> conn_force_close(w, u.fd, u.by)
                    [] u.op = "hold" -> [w EXCEPT !.conn[u.fd] = Keep(@)]

(* A callback of connection k, noted: "up" first, then "msg", then "down".   *)
Noted(k, what) ==
    [Touch(k) EXCEPT !.cb =
        IF <<what, @>> \in {<<"up", "none">>, <<"msg", "up">>} THEN "up"
        ELSE IF <<what, @>> = <<"down", "up">> THEN "down"
        ELSE "broken"]

Callback(w, c, what, u) == UserCall([w EXCEPT !.conn[c] = Noted(@, what)], u)

----------------------------------------------------------------------------
(* gp_server.c and gp_conn.c: the end of a connection                       *)
run_in_loop_remove_conn(w, c) == gp_queue_in_loop(w, Task("destroy", c, <<>>), "loop")

RemoveTwice(w, c) ==             \* mutant: the dictionary's reference is given back twice
    LET v == GiveRef(GiveRef([w EXCEPT !.conn[c].dict = FALSE], c), c)
    IN  GiveRef(run_in_loop_remove_conn(TakeRef(v, c), c), c)

remove_conn(w, c) ==
    LET v == GiveRef([w EXCEPT !.conn[c] = [Touch(@) EXCEPT !.dict = FALSE]], c)
    IN  GiveRef(run_in_loop_remove_conn(TakeRef(v, c), c), c)

GoDownWatched(k) ==              \* mutant: disable_all is forgotten
    [Touch(k) EXCEPT !.state = "disconnected"]

GoDown(k) == disable_all([k EXCEPT !.state = "disconnected"])

CloseUnreferenced(w, c, u) ==    \* mutant: no reference is held while closing
    remove_conn(Callback([w EXCEPT !.conn[c] = GoDown(@)], c, "down", u), c)

connection_handler_close(w, c, u) ==
    LET off == [w EXCEPT !.conn[c] = GoDown(conn_ref_inc(@))]
    IN  GiveRef(remove_conn(Callback(off, c, "down", u), c), c)

ForceCloseUnchecked(w, c, u) ==  \* mutant: the state is not looked at again
    connection_handler_close(w, c, u)

queue_in_loop_force_close(w, c, u) ==
    IF w.conn[c].state \in {"connected", "disconnecting"}
    THEN connection_handler_close(w, c, u)
    ELSE [w EXCEPT !.conn[c] = Touch(@)]

connection_destroyed(w, c, u) ==
    LET off == IF w.conn[c].state = "connected"
               THEN Callback([w EXCEPT !.conn[c] = GoDown(@)], c, "down", u)
               ELSE w
    IN  [off EXCEPT !.conn[c] = handler_remove(@)]

(* n is a size_t here too: a failed read is taken for a message.            *)
connection_handler_read(w, c, eof, u) ==
    IF eof THEN connection_handler_close(w, c, u)
    ELSE GiveRef(Callback(TakeRef(w, c), c, "msg", u), c)

handle_event(w, c, revents, eof, res, u) ==
    LET hup == IF "hup" \in revents /\ "in" \notin revents
               THEN connection_handler_close(w, c, u) ELSE w
        read == IF "in" \in revents THEN connection_handler_read(hup, c, eof, u) ELSE hup
    IN  IF "out" \in revents THEN [read EXCEPT !.conn[c] = connection_handler_write(@, res)]
        ELSE read

----------------------------------------------------------------------------
(* gp_server.c: a new connection                                            *)
connection_established(w, c, u) ==
    Callback([w EXCEPT !.conn[c] = enable_reading([@ EXCEPT !.state = "connected"])],
             c, "up", u)

new_connection_callback(w, c, u) ==
    LET new == [Blank EXCEPT !.mem = "live", !.ref = 1, !.dict = TRUE]
        added == [w EXCEPT !.conn[c] = conn_ref_inc(new)]
    IN  GiveRef(GiveRef(connection_established(TakeRef(added, c), c, u), c), c)

----------------------------------------------------------------------------
(* The loop                                                                 *)
Init ==
    /\ conn = [c \in Fds |-> Blank]
    /\ pending = <<>> /\ wake = FALSE /\ quit = FALSE
    /\ phase = "stopped" /\ active = <<>>
    /\ listening = TRUE          \* start_server, on the loop's thread
    /\ silent = FALSE

RunLoop ==
    /\ phase = "stopped"
    /\ phase' = "test" /\ quit' = FALSE
    /\ UNCHANGED <<conn, pending, wake, active, listening, silent>>

WhileTest ==
    /\ phase = "test"
    /\ phase' = IF quit THEN "stopped" ELSE "timers"
    /\ UNCHANGED <<conn, pending, wake, quit, active, listening, silent>>

TimerCallback(u) ==
    /\ phase = "timers" /\ u.by = "loop"
    /\ Become(UserCall(World, u))
    /\ silent' = (silent \/ pending' # pending \/ quit' # quit)
    /\ UNCHANGED <<phase, active, listening>>

TimersDone ==
    /\ phase = "timers"
    /\ phase' = "poll"
    /\ UNCHANGED <<conn, pending, wake, quit, active, listening, silent>>

(* What epoll_wait may report for a handler                                 *)
Reports(h) ==
    IF h \notin Fds THEN {{"in"}}
    ELSE {r \in SUBSET {"in", "out", "hup"} :
             /\ r # {}
             /\ "in" \in r => "r" \in conn[h].ev
             /\ "out" \in r => "w" \in conn[h].ev}

Polled ==
    {c \in Fds : conn[c].epoll}
    \union (IF listening THEN {ListenFd} ELSE {}) \union (IF wake THEN {WakeupFd} ELSE {})

(* epoll_wait returns some handlers, the eventfd's among them if it is      *)
(* readable; set_revents also updates each of them in epoll.                *)
Poll(ready) ==
    /\ phase = "poll"
    /\ wake => WakeupFd \in ready
    /\ ready # {} /\ Cardinality(ready) <= MaxReady
    /\ \E order \in SetToSeqs(ready) : \E r \in [ready -> SUBSET {"in", "out", "hup"}] :
          /\ \A h \in ready : r[h] \in Reports(h)
          /\ active' = [i \in 1..Len(order) |-> [h |-> order[i], revents |-> r[order[i]]]]
    /\ conn' = [c \in Fds |-> IF c \in ready THEN update(conn[c]) ELSE conn[c]]
    /\ phase' = "events" /\ silent' = FALSE
    /\ UNCHANGED <<pending, wake, quit, listening>>

PollTimeout ==
    /\ phase = "poll" /\ ~wake
    /\ phase' = "events" /\ silent' = FALSE
    /\ UNCHANGED <<conn, pending, wake, quit, active, listening>>

NextEvent(h) == phase = "events" /\ active # <<>> /\ Head(active).h = h

WakeupRead ==
    /\ NextEvent(WakeupFd)
    /\ wake' = FALSE /\ active' = Tail(active)
    /\ UNCHANGED <<conn, pending, quit, phase, listening, silent>>

Accept(c, u) ==
    /\ NextEvent(ListenFd) /\ conn[c].mem = "free"
    /\ Become(new_connection_callback(World, c, u))
    /\ active' = Tail(active)
    /\ UNCHANGED <<phase, listening, silent>>

(* accept4 fails: the listening socket is closed                            *)
AcceptFails ==
    /\ NextEvent(ListenFd)
    /\ listening' = FALSE /\ active' = Tail(active)
    /\ UNCHANGED <<conn, pending, wake, quit, phase, silent>>

ConnEvent(c, eof, res, u) ==
    /\ NextEvent(c)
    /\ "in" \in Head(active).revents \/ ~eof
    /\ "out" \in Head(active).revents \/ res = 0
    /\ Head(active).revents \intersect {"in", "hup"} # {} \/ u = NoCall
    /\ Become(handle_event(World, c, Head(active).revents, eof, res, u))
    /\ active' = Tail(active)
    /\ UNCHANGED <<phase, listening, silent>>

EventsDone ==
    /\ phase = "events" /\ active = <<>>
    /\ phase' = "functors"
    /\ UNCHANGED <<conn, pending, wake, quit, active, listening, silent>>

(* One round of do_pending_functors.  The macro fetches the successor before *)
(* the task runs: what the last task queues is left for the next round.     *)
RunPendingTask(res, u) ==
    LET t == Head(pending)
        w == [World EXCEPT !.pending = Tail(@)]
        done == CASE t.kind = "send" ->
                         [w EXCEPT !.conn[t.fd] = conn_send_in_loop(@, t.data, res)]
                  [] t.kind = "shutdown" -> [w EXCEPT !.conn[t.fd] = run_in_loop_shutdown(@)]
                  [] t.kind = "close" -> queue_in_loop_force_close(w, t.fd, u)
                  [] t.kind = "destroy" -> connection_destroyed(w, t.fd, u)
    IN  /\ phase = "functors" /\ pending # <<>>
        /\ t.kind = "send" \/ res = 0
        /\ t.kind = "close" \/ u = NoCall
        /\ Become(GiveRef(done, t.fd))
        /\ phase' = IF Len(pending) > 1 THEN "functors" ELSE "test"
        /\ UNCHANGED <<active, listening, silent>>

NoPendingTask ==
    /\ phase = "functors" /\ pending = <<>>
    /\ phase' = "test"
    /\ UNCHANGED <<conn, pending, wake, quit, active, listening, silent>>

(* gp_loop_quit by a thread of its own                                      *)
OtherQuits ==
    /\ ~quit
    /\ Become(gp_loop_quit(World, "other"))
    /\ UNCHANGED <<phase, active, listening, silent>>

----------------------------------------------------------------------------
Results == -1..2

HandleEvents ==
    \/ WakeupRead \/ AcceptFails
    \/ \E c \in Fds, u \in UserCalls :
          \/ Accept(c, u)
          \/ \E eof \in BOOLEAN, res \in Results : ConnEvent(c, eof, res, u)

LoopStep ==
    \/ WhileTest \/ TimersDone \/ HandleEvents \/ EventsDone \/ NoPendingTask
    \/ \E res \in Results, u \in UserCalls : RunPendingTask(res, u)

Polls == \E ready \in SUBSET Polled : Poll(ready)

Next ==
    \/ RunLoop \/ LoopStep \/ Polls \/ PollTimeout \/ OtherQuits
    \/ \E u \in UserCalls : TimerCallback(u)

(***************************************************************************)
(* The loop's thread runs, callbacks return, and epoll_wait returns when   *)
(* the eventfd is readable.  Nothing makes a peer send, a timer fire or    *)
(* anybody start the loop.                                                 *)
(***************************************************************************)
Fairness == WF_vars(LoopStep) /\ WF_vars(wake /\ Polls)

SafeSpec == Init /\ [][Next]_vars
Spec == SafeSpec /\ Fairness

----------------------------------------------------------------------------
Count(c, kinds) ==
    Cardinality({i \in 1..Len(pending) : pending[i].fd = c /\ pending[i].kind \in kinds})
Kinds == {"send", "shutdown", "close", "destroy"}
Bytes == Sides \X Nat

(* Types.                                                                   *)
TypeOK ==
    /\ \A c \in Fds :
          /\ conn[c].mem \in {"free", "live"}
          /\ conn[c].state \in {"connecting", "connected", "disconnecting", "disconnected"}
          /\ conn[c].ref \in Nat /\ conn[c].holds \in Nat /\ conn[c].calls \in Nat
          /\ conn[c].ev \subseteq {"r", "w"}
          /\ conn[c].index \in {"new", "added", "deleted"}
          /\ conn[c].epoll \in BOOLEAN /\ conn[c].dict \in BOOLEAN
          /\ conn[c].out \in Seq(Bytes) /\ conn[c].shut \in BOOLEAN
    /\ pending \in Seq([kind : Kinds, fd : Fds, data : Seq(Bytes)])
    /\ wake \in BOOLEAN /\ quit \in BOOLEAN /\ listening \in BOOLEAN
    /\ phase \in {"stopped", "test", "timers", "poll", "events", "functors"}
    /\ active \in Seq([h : Fds \union {WakeupFd, ListenFd},
                       revents : SUBSET {"in", "out", "hup"}])

(* No handler, task or callback touches a freed connection, and none is     *)
(* left on a list: not in the middle of closing it, not in the rest of the  *)
(* epoll batch it was reported in, not in tasks queued before it ended.     *)
NoUseAfterFree ==
    /\ \A c \in Fds : ~conn[c].bad
    /\ \A c \in Fds : conn[c].mem = "free" =>
          /\ Count(c, Kinds) = 0
          /\ \A i \in 1..Len(active) : active[i].h # c

(* Between handlers the counter of a connection is exactly the number of    *)
(* those who keep it: the server's dictionary, queued tasks and users.      *)
(* A connection is in the dictionary or on its way to connection_destroyed  *)
(* exactly once (remove_conn, gp_queue_in_loop, do_pending_functors).       *)
RefExact ==
    \A c \in Fds : conn[c].mem = "live" =>
        /\ conn[c].ref = (IF conn[c].dict THEN 1 ELSE 0) + Count(c, Kinds) + conn[c].holds
        /\ conn[c].dict <=> conn[c].state # "disconnected"
        /\ Count(c, {"destroy"}) <= (IF conn[c].dict THEN 0 ELSE 1)

(* The user of the server sees each connection go up once and down once,    *)
(* with messages in between only (connection_callback, message_callback).   *)
CallbackProtocol ==
    \A c \in Fds : conn[c].mem = "live" =>
        /\ conn[c].cb # "broken"
        /\ conn[c].cb = "down" <=> conn[c].state = "disconnected"

(* The loop goes to sleep in epoll_wait only with nothing left to do: a      *)
(* queued task or a quit has made the eventfd readable.  The exception is   *)
(* what a timer callback queued or asked for in this very round: then       *)
(* nobody is woken (gp_queue_in_loop 91, gp_loop_quit 150).                 *)
IdlePoll == phase = "poll" /\ ~wake /\ ~silent => pending = <<>> /\ ~quit

(* Output is never stranded: while it waits, the handler is in epoll with    *)
(* write interest; and SHUT_WR comes only after all of it is gone.          *)
OutputWatched ==
    \A c \in Fds : conn[c].mem = "live" =>
        /\ conn[c].out # <<>> /\ conn[c].state # "disconnected" =>
              conn[c].epoll /\ "w" \in conn[c].ev
        /\ conn[c].shut => conn[c].out = <<>> \/ conn[c].state = "disconnected"

(* Each byte of s is after what its side has written, and after the bytes   *)
(* of its side in front of it.                                              *)
Rising(s, wrote) ==
    \A j \in 1..Len(s) :
        /\ s[j][2] > wrote[s[j][1]]
        /\ \A i \in 1..(j - 1) : s[i][1] = s[j][1] => s[i][2] < s[j][2]

Precedes(s, t) ==
    \A i \in 1..Len(s), j \in 1..Len(t) : s[i][1] = t[j][1] => s[i][2] < t[j][2]

(* Bytes sent from the loop's thread reach the socket in order, and so do   *)
(* bytes sent from other threads; the direct write of conn_send_in_loop     *)
(* overtakes nothing of its own side.  What waits is the output buffer, and *)
(* behind it the queued sends.                                              *)
SendOrder ==
    \A c \in Fds :
        /\ Rising(conn[c].out, conn[c].wrote)
        /\ \A p \in 1..Len(pending) : pending[p].fd = c =>
              /\ Rising(pending[p].data, conn[c].wrote)
              /\ Precedes(conn[c].out, pending[p].data)
              /\ \A q \in 1..(p - 1) :
                    pending[q].fd = c => Precedes(pending[q].data, pending[p].data)

(* A connection that has gone down is freed, unless the user keeps it or    *)
(* the loop is stopped: connection_destroyed is queued with a wakeup and    *)
(* gives back the last reference.                                           *)
ClosedIsFreed ==
    \A c \in Fds : conn[c].state = "disconnected"
        ~> conn[c].mem = "free" \/ conn[c].holds > 0 \/ phase = "stopped"

(* gp_loop_quit stops a running loop; one that timer callbacks call may     *)
(* have to wait for the next event.                                         *)
QuitStops == quit /\ ~silent ~> phase = "stopped"
=============================================================================
