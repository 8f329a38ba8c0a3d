----------------------------- MODULE TimerWheel -----------------------------
(***************************************************************************)
(* The timers of an event loop: base/gp_timer.c and what gp_loop.c does    *)
(* with them (gp_loop_timer_*, and the poll timeout of gp_loop_run).       *)
(*                                                                         *)
(* Five wheels hold lists of timers.  Wheel 1 has a list per tick; a list  *)
(* of a higher wheel covers a whole turn of the wheel below and is spread  *)
(* over it (cascade) when the tick count gets there.  Ticks and expiry     *)
(* times are unsigned and wrap at W; the code has W = 2^32, R = 2^8 and    *)
(* N = 2^6, and W = R * N * N * N * N is all that is used of that.         *)
(*                                                                         *)
(* Everything runs on the loop's thread.  User code runs in timer          *)
(* callbacks and in event handlers.                                        *)
(***************************************************************************)
EXTENDS Integers, Sequences, FiniteSets, SequencesExt

CONSTANTS
    Timers,     \* the gp_timer_list objects the user has memory for
    None,       \* NULL
    R, N,       \* TVR_SIZE, TVN_SIZE
    Births,     \* readings of the clock at which the loop may be created
    Offsets,    \* intervals that users ask for, in ticks
    MaxOps,     \* bound: operations of user code
    MaxDelay,   \* bound: ticks by which the loop returns late from a poll
    MaxSleep,   \* bound: ticks between two readings of the clock
    Horizon     \* bound: ticks that pass in a behaviour

W == R * N * N * N * N                      \* 1 + MAX_TVAL
Half == W \div 2

ASSUME WheelAssumption ==
    /\ R \in Nat \ {0, 1} /\ N \in Nat \ {0, 1} /\ W % 2 = 0
    /\ None \notin Timers
    /\ Births \subseteq 0..(W - 1)
    /\ Offsets \subseteq 0..(Half - 1)
    /\ MaxOps \in Nat /\ MaxDelay \in Nat /\ MaxSleep \in 0..Half /\ Horizon \in Nat

Wheels == 1..5
Size(k) == IF k = 1 THEN R ELSE N
Unit(k) == <<1, R, R * N, R * N * N, R * N * N * N>>[k]   \* ticks that a list of wheel k covers
Span(k) == Unit(k) * Size(k)                              \* ticks that wheel k covers
Lists == UNION {{k} \X (0..(Size(k) - 1)) : k \in Wheels}

Signed(x) == IF x % W < Half THEN x % W ELSE (x % W) - W   \* the cast to int32_t

VARIABLES
    jiffies,    \* base->timer_jiffies: the next tick to run
    next_timer, \* base->next_timer
    tv,         \* base->tv1 .. tv5: the lists
    timer,      \* the fields of each timer; live: not freed
    time,       \* loop->time
    pc,         \* where gp_loop_run is
    cur, saved, \* gp_run_timers: `timer' and `tmp' of its traversal
    ops,        \* number of user operations
    born,       \* history: time when the loop was created
    armed,      \* history: the timers that wait for their tick
    cut,        \* history: the timer that the traversal saved was stopped
    late,       \* history: the timers armed for a tick that had been run
    left,       \* history: those that a traversal which was cut short left behind
    ahead       \* history: those armed for the list that was being traversed

history == <<armed, cut, late, left, ahead>>
vars == <<jiffies, next_timer, tv, timer, time, pc, cur, saved, ops, born, history>>

Base == [j |-> jiffies, tv |-> tv, next |-> next_timer]
Become(b) == jiffies' = b.j /\ tv' = b.tv /\ next_timer' = b.next

Unused == [live |-> FALSE, expires |-> 0, interval |-> 0, repeat |-> 0]

----------------------------------------------------------------------------
(* gp_list_node_remove: a node that is on no list stays as it is.           *)
Removed(lists, t) == [l \in Lists |-> RemoveFirst(lists[l], t)]

(* gp_list_next: NULL for a node that was removed meanwhile.                *)
NextOn(lists, l, t) ==
    LET after == {i \in DOMAIN lists[l] : i > 1 /\ lists[l][i - 1] = t}
    IN  IF after = {} THEN None ELSE lists[l][CHOOSE i \in after : TRUE]

(* gp_next_timer.  One wheel after the other is searched from its current   *)
(* list on, as long as what was found could be behind the wheel's turn and  *)
(* a list of the next wheel come before it.  Times are compared as numbers. *)
Found(lists, tm, k, i) ==
    IF k = 1 THEN {tm[Head(lists[<<1, i>>])].expires}
             ELSE {tm[t].expires : t \in ToSet(lists[<<k, i>>])}

NeverTurned(k, i, o) == FALSE       \* mutant: what is found first is the next timer

Turned(k, i, o) == i = 0 \/ i + o >= Size(k)      \* !index || slot < index

Search(acc, j, lists, tm, k) ==
    LET i == ((j + Unit(k) - 1) \div Unit(k)) % Size(k)
        At(o) == (i + o) % Size(k)
        full == {o \in 0..(Size(k) - 1) : lists[<<k, At(o)>>] # <<>>}
        o == IF acc.found THEN 0 ELSE Min(full)
        seen == IF o \in full THEN Found(lists, tm, k, At(o)) ELSE {}
    IN  IF acc.done \/ (~acc.found /\ full = {}) THEN acc
        ELSE [expires |-> Min(seen \union {acc.expires}), found |-> TRUE,
              done |-> ~Turned(k, i, o)]

gp_next_timer(j, lists, tm) ==
    LET In(acc, k) == Search(acc, j, lists, tm, k)
        start == [expires |-> W - 1, found |-> FALSE, done |-> FALSE]
    IN  In(In(In(In(In(start, 1), 2), 3), 4), 5).expires

(* gp_timer_internal_add: the first wheel whose span reaches the distance.  *)
(* The distance is unsigned, so the branch for a negative one is dead and a *)
(* time that has passed is W - 1, W - 2, ... ticks away.                    *)
ListAtSpan(j, expires) ==           \* mutant: <= for <
    LET idx == (expires - j) % W
        k == Min({m \in Wheels : idx <= Span(m)})
    IN  <<k, (expires \div Unit(k)) % Size(k)>>
ListByDistance(j, expires) ==       \* mutant: the list is counted from the tick count
    LET idx == (expires - j) % W
        k == Min({m \in Wheels : idx < Span(m)})
    IN  <<k, (idx \div Unit(k)) % Size(k)>>

ListFor(j, expires) ==
    LET idx == (expires - j) % W
        k == Min({m \in Wheels : idx < Span(m)})
    IN  <<k, (expires \div Unit(k)) % Size(k)>>

gp_timer_internal_add(b, tm, t) ==
    LET lists == [b.tv EXCEPT ![ListFor(b.j, tm[t].expires)] = Append(@, t)]
    IN  [b EXCEPT !.tv = lists, !.next = gp_next_timer(b.j, lists, tm)]

gp_timer_add(b, tm, t) ==
    gp_timer_internal_add([b EXCEPT !.tv = Removed(b.tv, t)], tm, t)

(* cascade, for each wheel whose turn begins with this tick.                *)
IndexNext(j, k) == ((j \div Unit(k)) + 1) % N      \* mutant: one list too far

INDEX(j, k) == (j \div Unit(k)) % N

cascade(b, tm, k) ==
    LET list == b.tv[<<k, INDEX(b.j, k)>>]
        spread[n \in 0..Len(list)] ==
            IF n = 0 THEN b ELSE gp_timer_add(spread[n - 1], tm, list[n])
    IN  IF b.j % Unit(k) = 0 THEN spread[Len(list)] ELSE b

Cascaded(b, tm) ==
    cascade(cascade(cascade(cascade(b, tm, 2), tm, 3), tm, 4), tm, 5)

----------------------------------------------------------------------------
(* init_gp_loop, init_gp_timer_base.                                        *)
Init ==
    /\ born \in Births
    /\ jiffies = born /\ time = born /\ next_timer = W - 1
    /\ tv = [l \in Lists |-> <<>>]
    /\ timer = [t \in Timers |-> Unused]
    /\ pc = "ticks" /\ cur = None /\ saved = None
    /\ ops = 0 /\ armed = {} /\ cut = FALSE /\ late = {} /\ left = {} /\ ahead = {}

Slot == <<1, (jiffies - 1) % R>>    \* base->tv1.vec + index, in a traversal

(* User code: a timer callback (gp_run_timers is in its traversal) or an    *)
(* event handler.                                                          *)
InUserCode == pc \in {"callback", "handlers"} /\ ops < MaxOps /\ ops' = ops + 1

(* The history of arming t with the fields tm: for a tick that is not after  *)
(* the last one that was run, or onto the list that gp_run_timers is in.    *)
Note(S, t, yes) == IF yes THEN S \union {t} ELSE S \ {t}
IsLate(expires) == Signed(expires - (jiffies - 1)) <= 0
Arm(t, tm) ==
    /\ armed' = armed \union {t}
    /\ late' = Note(late, t, IsLate(tm[t].expires)) /\ left' = left \ {t}
    /\ ahead' = Note(ahead, t, pc = "callback" /\ t \in ToSet(tv'[Slot]))

ExpiresAt(offset) == (time + offset) % W      \* uint32_t

(* gp_loop_timer_start: create_gp_timer, then gp_timer_add.                 *)
gp_loop_timer_start(t, interval, repeat) ==
    /\ InUserCode
    /\ ~timer[t].live
    /\ timer' = [timer EXCEPT ![t] =
            [live |-> TRUE, expires |-> ExpiresAt(interval),
             interval |-> interval, repeat |-> repeat]]
    /\ Become(gp_timer_add(Base, timer', t))
    /\ Arm(t, timer')
    /\ UNCHANGED <<time, pc, cur, saved, born, cut>>

(* gp_loop_timer_stop: the timer leaves its list; next_timer stays.  The    *)
(* timer that the traversal saved is called all the same.                  *)
gp_loop_timer_stop(t) ==
    /\ InUserCode
    /\ timer[t].live
    /\ tv' = Removed(tv, t)
    /\ armed' = armed \ {t}
    /\ cut' = (cut \/ (pc = "callback" /\ t = saved))
    /\ UNCHANGED <<jiffies, next_timer, timer, time, pc, cur, saved, born, late, left, ahead>>

(* gp_loop_timer_mod.  Assumed of callbacks: they do not move the timer     *)
(* that the traversal saved (it would go on in another list, past its end).*)
gp_loop_timer_mod(t, expires, interval, repeat) ==
    /\ InUserCode
    /\ timer[t].live
    /\ ~(pc = "callback" /\ t = saved)
    /\ timer' = [timer EXCEPT ![t] =
            [live |-> TRUE, expires |-> expires, interval |-> interval, repeat |-> repeat]]
    /\ Become(gp_timer_add(Base, timer', t))
    /\ Arm(t, timer')
    /\ UNCHANGED <<time, pc, cur, saved, born, cut>>

(* destruct_gp_timer, by the user and outside callbacks.  A timer that was  *)
(* left behind stays in `left': next_timer is not computed without it.      *)
destruct_gp_timer(t) ==
    /\ InUserCode
    /\ pc = "handlers"
    /\ timer[t].live
    /\ tv' = Removed(tv, t)
    /\ timer' = [timer EXCEPT ![t] = Unused]
    /\ armed' = armed \ {t} /\ late' = late \ {t} /\ ahead' = ahead \ {t}
    /\ UNCHANGED <<jiffies, next_timer, time, pc, cur, saved, born, cut, left>>

----------------------------------------------------------------------------
(* gp_run_timers.                                                          *)
(* (int32_t)jiffies - (int32_t)base->timer_jiffies >= 0.  The difference     *)
(* wraps, as in the repository's own build, which does not optimise.        *)
MoreTicks == Signed(time - jiffies) >= 0

Tick ==
    /\ pc = "ticks"
    /\ MoreTicks
    /\ LET b == Cascaded(Base, timer)
           run == b.tv[<<1, jiffies % R>>]
       IN  /\ Become([b EXCEPT !.j = (@ + 1) % W])
           /\ cur' = IF run = <<>> THEN None ELSE Head(run)
           /\ saved' = IF Len(run) < 2 THEN None ELSE run[2]
           /\ pc' = IF run = <<>> THEN "ticks" ELSE "fire"
    /\ UNCHANGED <<timer, time, ops, born, history>>

Fire ==
    /\ pc = "fire"
    /\ pc' = "callback"
    /\ UNCHANGED <<jiffies, next_timer, tv, timer, time, cur, saved, ops, born, history>>

(* Back from the callback: the timer is removed, then armed again or freed, *)
(* next_timer is computed, and the traversal goes on.  What it leaves in    *)
(* the list when it was cut short waits for the wheel's next turn.          *)
Fired ==
    /\ pc = "callback"
    /\ LET removed == [Base EXCEPT !.tv = Removed(tv, cur)]
           tm == IF timer[cur].repeat = 1
                   THEN [timer EXCEPT ![cur].expires = (@ + timer[cur].interval) % W]
                   ELSE [timer EXCEPT ![cur] = Unused]
           b == IF timer[cur].repeat = 1 THEN gp_timer_add(removed, tm, cur) ELSE removed
           rest == IF saved # None \/ ~cut THEN {}
                   ELSE {t \in ToSet(b.tv[Slot]) : tm[t].expires = (jiffies - 1) % W}
       IN  /\ Become([b EXCEPT !.next = gp_next_timer(jiffies, b.tv, tm)])
           /\ timer' = tm
           /\ armed' = Note(armed, cur, timer[cur].repeat = 1)
           /\ late' = Note(late, cur, tm[cur].live /\ IsLate(tm[cur].expires))
           /\ left' = rest \union (left \ {cur})
           /\ ahead' = Note(ahead, cur, cur \in ToSet(b.tv[Slot]))
    /\ cur' = saved
    /\ saved' = IF saved = None THEN None ELSE NextOn(tv', Slot, saved)
    /\ cut' = (cut /\ saved # None)
    /\ pc' = IF saved = None THEN "ticks" ELSE "fire"
    /\ UNCHANGED <<time, ops, born>>

(* poller_poll and gp_loop_update_time.  timeout is uint32_t and becomes    *)
(* the int of epoll_wait: below 0 it waits for an event only, otherwise it  *)
(* returns at the timeout, or a little late, or earlier because of an event. *)
AtPoll == pc = "ticks" /\ ~MoreTicks
Timeout == Signed(next_timer - time)
Poll ==
    /\ AtPoll
    /\ \E d \in 0..MaxSleep :
        /\ Timeout >= 0 => d <= Timeout + MaxDelay
        /\ ((time - born) % W) + d <= Horizon
        /\ time' = (time + d) % W
    /\ pc' = "handlers"
    /\ UNCHANGED <<jiffies, next_timer, tv, timer, cur, saved, ops, born, history>>

HandlersDone ==
    /\ pc = "handlers"
    /\ pc' = "ticks"
    /\ UNCHANGED <<jiffies, next_timer, tv, timer, time, cur, saved, ops, born, history>>

(* Bound: what users ask of gp_loop_timer_mod.  The interval of a timer     *)
(* that does not repeat is never read (284-285), so one will do.            *)
Told(o, i, r) == r = 1 \/ o = i

User ==
    \E t \in Timers :
        \/ \E i \in Offsets : \E r \in {0, 1} :
              \/ gp_loop_timer_start(t, i, r)
              \/ \E o \in Offsets : Told(o, i, r) /\ gp_loop_timer_mod(t, ExpiresAt(o), i, r)
        \/ gp_loop_timer_stop(t)
        \/ destruct_gp_timer(t)

Next == User \/ Tick \/ Fire \/ Fired \/ Poll \/ HandlersDone

Spec == Init /\ [][Next]_vars

----------------------------------------------------------------------------
TypeOK ==
    /\ jiffies \in 0..(W - 1) /\ next_timer \in 0..(W - 1) /\ time \in 0..(W - 1)
    /\ DOMAIN tv = Lists /\ \A l \in Lists : ToSet(tv[l]) \subseteq Timers
    /\ timer \in [Timers -> [live : BOOLEAN, expires : 0..(W - 1),
                             interval : Offsets \union {0}, repeat : {0, 1}]]
    /\ pc \in {"ticks", "fire", "callback", "handlers"}
    /\ cur \in Timers \union {None} /\ saved \in Timers \union {None}
    /\ ops \in 0..MaxOps /\ born \in Births
    /\ armed \subseteq Timers /\ cut \in BOOLEAN
    /\ late \subseteq Timers /\ left \subseteq Timers /\ ahead \subseteq Timers

(* A timer is called at its own tick, and it is one that is armed (one that *)
(* was armed for a tick already run, at that tick of the count's next       *)
(* round).  Two things can happen otherwise: a traversal that was cut short *)
(* left it behind, or it was stopped when the traversal had it already; or  *)
(* it was armed for the same list, one turn ahead, while that list was      *)
(* traversed, and comes exactly one turn early (gp_run_timers).             *)
OnTime ==
    pc = "fire" =>
        LET early == timer[cur].expires - (jiffies - 1)
        IN  /\ timer[cur].live
            /\ \/ cut \/ cur \in left
               \/ cur \in ToSet(tv[Slot]) /\ early % W = 0
               \/ cur \in ToSet(tv[Slot]) /\ early % W = R /\ cur \in ahead

(* When the loop goes to sleep every timer that was armed and is due has    *)
(* been called, but for those armed too late or left behind (gp_run_timers  *)
(* before gp_loop_run polls), also when the tick count passes 2^31 or wraps *)
(* in between: no list loses a timer.                                       *)
AllDueFired ==
    AtPoll =>
        \A t \in armed \ (late \union left) :
            Signed(timer[t].expires - time) > 0

(* List l is reached within one turn of its wheel, and not after `expires'. *)
InReach(l, expires, j) ==
    LET k == l[1]
        reached == expires - (expires % Unit(k))
    IN  /\ l[2] = (expires \div Unit(k)) % Size(k)
        /\ (reached - j) % W <= (expires - j) % W
        /\ (reached - j) % W < Span(k)

(* Every list of a wheel is emptied or spread in time: a timer on wheel k    *)
(* is on the list that is reached within one turn of the wheel and not      *)
(* after its expiry (gp_timer_internal_add against cascade); and the tick    *)
(* counts stay in their width.                                              *)
Placed ==
  /\ TypeOK
  /\ \A l \in Lists : \A t \in ToSet(tv[l]) :
        \/ InReach(l, timer[t].expires, jiffies)
        \/ l[1] = 1 /\ t \in left
        \/ l = Slot /\ pc \in {"fire", "callback"} /\ timer[t].expires = (jiffies - 1) % W

(* The sleep ends before the next timer is due, as long as next_timer has   *)
(* not passed and no timer was left behind in a list (the timeout that      *)
(* gp_loop_run passes to epoll_wait, from gp_next_timer).                    *)
SleepBound ==
    AtPoll /\ Timeout >= 0 /\ left = {} =>
        \A t \in armed \ late :
            Timeout <= Signed(timer[t].expires - time)

(* gp_loop.c:181 says that the time of the next timer is computed exactly   *)
(* and passed to epoll_wait: the loop does not wait for an event only while *)
(* a timer is armed for a later tick.                                      *)
WakesForTimer ==
    AtPoll /\ (\E t \in armed : Signed(timer[t].expires - time) > 0) => Timeout >= 0
=============================================================================
