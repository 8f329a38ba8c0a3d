# A TLA+ development of c-basic-component

c-basic-component (`base/`, `include/gp.h`) is a C library for network servers:
an epoll event loop with servers and connections on it, a thread manager, a task
pool, a lock-free ring, a timer wheel, a hash table, buffers, a protobuf codec
and a configuration tree. This directory models the parts where steps of several
threads, handlers or callbacks meet, and the data structures whose calls may find
them half-way through something, checks them with TLC on small instances and
proves the safety properties of eight of them with TLAPS: the thread manager, the
ring, the task pool, the reference counter, the event loop with its connections,
the timer wheel, the buffer with the codec, and the dict.

`PROJECT.json` is the machine-readable index: the lines each definition models,
the runs, one mutated definition per property, the hazards and the theorems.

## Inventory

| component | state | operations | what is hard | what makes it correct |
|---|---|---|---|---|
| thread manager, `gp_thread.c` | `start`, `stop`, `done`, `init`, one mutex, one condition variable shared by the worker and all waiters | create/init, run, wait, finish, destroy; the worker's `gp_tmr_wrap` | run and wait racing the worker's first look; destroying the mutex; a failed `pthread_create` | a join returns only when the function is over, and nobody touches what is destroyed |
| ring, `gp_ringbuffer.c` | `head`/`tail` pairs of claim and publication counters (`uint32_t`), slots | push, pop of a batch | compare-and-swap loops, counters read at different times, wrap, publication in turn, slot arithmetic | exclusive claims, capacity respected, first in first out |
| task pool, `gp_threadpool.c` | list of tasks, `tp_run`, per task a busy counter and its own mutex and condition variable | create/run/wait/destroy task, create/destroy pool; the workers | destroying a task that runs; shutdown with work queued; lost wake-ups | exact busy count, drained shutdown, every run executed |
| reference counter, `gp.h` | a 64-bit counter | inc, dec-and-test | the result is read after the decrement | no early free; freed in the end |
| event loop, `gp_loop.c`, with `gp_epoller.c`, `gp_handler.c`, `gp_pending_task.c` | pending tasks, active handlers, eventfd, `quit` | run, quit, run/queue in loop, update/remove handler, timers | tasks queued by handlers, timers and other threads; wake-ups; handlers that close connections of the same batch | no task is slept on, nothing freed is called |
| server and connection, `gp_server.c`, `gp_acceptor.c`, `gp_conn.c` | per connection: state, reference count, interest set, output buffer; the server's dictionary | accept, read, write, close, send, shutdown, force close, destroy | deep call chains under changing reference counts; partial writes; close racing close; descriptor reuse | exact reference count, up and down once each, output never stranded |
| list, `gp_list.c` | intrusive double links | append, remove, iterate | a walk whose body changes the list | the walks that rely on it end (modelled where they are) |
| timer wheel, `gp_timer.c` | five wheels, `timer_jiffies`, `next_timer` | add, del, mod, run | cascade, wrap, `next_timer`, callbacks that change timers | a timer is always on a list that is reached in time, fires at its tick, and the loop does not sleep past it |
| dict, `gp_dict.c` | two tables, rehash index, iterators | add, replace, delete, find, resize, iterate, scan | incremental rehash between any two calls; scan across resizes | it is a map at every stage of a rehash; a scan returns everything that stays, a safe iterator too, and nothing twice |
| buffer, codec: `gp_buffer.c`, `gp_codec.c` | block, reader and writer index | append, retrieve, peek, read from fd; encode, decode | moving and growing the block; frames that arrive in pieces | the buffer is a queue of bytes; frames come out whole, once, in order |
| TLS and IPC servers: `gp_ssl_server.c`, `gp_ipc_server.c` | as the server, plus an SSL object | handshake, read, write, close; the message callback | reads into a block that may be full; several frames in one read | there is always room to read; no frame waits without a reason |
| configuration: `gp_conf.c`, `gp_conf_yaml_loader.c` | a tree of named nodes | set, get, remove, prune, load | final nodes, failure half-way | not modelled |
| hash, message dispatcher, modules, sync client, socket operations, system | none or a table | | none that interleaves | not modelled |

How they interact: the task pool runs its workers on thread managers; the loop's
thread runs the poller, which fills the list of active handlers; a handler calls
the acceptor or a connection; a connection calls the user's callbacks and the
server; all of them queue pending tasks in the loop; user callbacks hand work to
the task pool, whose threads call `conn_send` and the other operations, which
then queue tasks and write the eventfd.

## Modules and the code they model

**OneShotJob** is abstract: a function that is requested, closed, executed at
most once, and joined. **ThreadManager** models `gp_thread.c` in detail: what a
thread does between two lock operations is one step (all of `start`, `stop`,
`done` is accessed under the mutex), acquiring the mutex, sleeping, waking (also
spuriously) and acquiring again are steps of their own. `init` starts with any
value, as `malloc` leaves it, and is only assigned where the code assigns it. The
manager's `gp_tmr_fn` is not NULL whenever there is a worker, so that test of
`gp_tmr_wrap` is always true. The contract of callers (`MayCall`) is: no run
after finish, and finish and destroy only when no other call is in progress; run
and wait may overlap freely. Nobody looks at the result of `init_gp_thr_manager`
(`create_gp_thr_manager` does not pass it on, `init_task_processor` drops it), so
callers also call a manager whose thread could not be created. Its mutex is
destroyed by then; a lock of it fails, `gp_mtx_lock` prints the error and the call
goes on without the exclusion. For such a manager `JoinComplete` says only that no
function runs, `NoUseAfterDestroy` that nobody sleeps on the destroyed condition
variable, and OneShotJob has a phase ("none") in which nothing is ever executed. The
unlock is one step with the critical section it ends: POSIX allows a mutex to be
destroyed once it is unlocked, even before the unlocking call has returned.

**RingSlots**, **Ring**, **RingBits** model `gp_ringbuffer.c`. Ring has one step
per access to shared memory; each copied object is a step. The code runs on x86
only (`emmintrin.h`), where stores of a thread become visible in order and the
compare-and-swap is a full barrier, so interleaving these steps is the memory
model. The counters wrap at `W` (2^32 in the code). `claimed`, `published`,
`popped`, `released` and `base` are history, the same positions without wrap.
RingSlots says on which slot a position falls, in arithmetic, because a module
with proofs cannot use bit operations; RingBits evaluates the C expressions bit
by bit, and assumes that both agree for counts up to 40 and positions up to 70: an
assumption that TLC evaluates in every run of MCRing.

**TaskProcessor** models `gp_threadpool.c`. `tpMtx` is explicit since a worker can
block on a task's mutex while it holds it; a critical section on a task's mutex
is one step, except that `wait_task` keeps it. Thread managers appear as what
OneShotJob promises: after run the function is executed, finish returns when it
has returned; and the thread of any of them may not have come into being
("unborn"), since `gp_threadpool.c:63` drops the result, in which case run and
finish have no effect on the pool. What is said of executed runs is said of pools
with at least one worker (`Manned`). Clients use their own tasks, run a task only
while it is not on the list and run none once the pool is being destroyed.

`wait_task` locks the task's mutex a second time where it should unlock it
(`gp_threadpool.c:151`), and once it has, neither its caller nor, in the end, anybody
else need go on. `Waiters` are the clients who may call it. The three progress
properties name this one exception (`WaiterStuck`): they do not exclude it, they say
that nothing else stops the pool. `Teams` are the sets of workers that may be all that
came into being; the bound on runs is per task.

**AtomicRef** models `gp_atomic_inc` and `gp_atomic_dec_and_test` as
`conn_ref_inc` and `conn_ref_dec` use them, the decrement and the read of the
result being two steps. A read after the connection was freed gives either answer.

**Reactor** models the loop and what runs on it. Handlers call each other deeply,
so each C function is an operator from a world (`World`: connections, pending
tasks, eventfd, quit) to a world, under the function's own name, and an action
applies one handler, one pending task or one timer callback. Every function that
touches a connection notes (`bad`) whether its memory was free. Choices the code
does not make are made by the actions: which handlers `epoll_wait` returns, in
which order and with which events; end of file; how many bytes `write` takes
(`res`, -1 for an error); what a user callback calls. `read` and `write` results
are `size_t` in the code: a failed read is a message, a failed write empties the
buffer, and so it is here. Assumed of the environment: HUP may be reported at any
time for a registered descriptor, IN and OUT only if asked for; no out-of-band
data (HUP with PRI and no IN would close twice in one `handle_event`); the
callback for POLLERR is empty and left out. Other threads call in while a
callback waits for them, which is how the test servers use the task pool (the
pending list has no lock, as the comment at `gp_loop.c:87` says); `gp_loop_quit`
from another thread may come at any time. `start_server` was called on the
loop's thread.

**TimerWheel** models `gp_timer.c`, the `gp_loop_timer_*` functions and the poll
timeout of `gp_loop_run`. `tv` holds the lists of the five wheels, `jiffies` is
`timer_jiffies`; `Tick` is one pass of the loop of `gp_run_timers` up to its
traversal, `Fire` and `Fired` are a callback's call and return with everything the
code does after it, and user operations happen in callbacks and in handlers. `cur`
and `saved` are the traversal's two pointers, so that a callback can change the list
under it. The radix is a parameter (`R`, `N` for 2^8 and 2^6) and W = R * N * N * N
* N as in the code, so ticks wrap exactly where all wheels turn over. History
variables say which timers wait (`armed`) and why one may miss its tick, and the
properties allow nothing else: `late` (it was armed for a tick already run, since
the branch for a negative distance at `gp_timer.c:143` is dead), `cut` (the timer
that the traversal had saved was stopped, and is called all the same), `left` (what
such a traversal left on its list) and `ahead` (armed, with an interval of exactly
R, for the list being traversed: it is called at once, a turn early). Each of these
happens in the run. `SleepBound` holds while nothing is in `left`: a timer left
behind stays, expired, at the head of its list, `gp_next_timer` looks at the head of
a list of the first wheel only (`gp_timer.c:81`) and compares times as numbers, so
that across the wrap it can take the expired time for a later one and miss the timer
behind it. `left` keeps a timer that was destroyed, since `next_timer` is not
computed anew then. `MaxSleep` bounds what passes between two readings of the clock,
at most half the range of the tick count: the comparison at `gp_timer.c:259` is
signed, and a sleep of more than 2^31 milliseconds would look like none. Assumed of
users: timers are used while they live, a callback frees no timer and does not move
the timer the traversal saved (either would make it follow a pointer into another
list or into freed memory). The signed difference at `gp_timer.c:259` wraps, as it
does in the repository's build (`-Wall -g -pg`); compilers that optimise (gcc -O2)
compare the operands instead, and then the ticks stop when the clock passes 2^31.

**Dict** models `gp_dict.c`. Each C function is an operator from a dict to a dict
under its own name (without the leading underscore), each action is one call of a user. A table is its
size, its `used` count and its chains; a chain is a sequence of entries. Hashes
are a constant function, sizes are powers of two, so `hash & sizemask` is `%`.
`dictRehash` is modelled pass by pass with its limit on empty buckets, and a bucket
entry by entry; the loops are recursive functions local to the operators. The
cursor of `dictScan` is modelled with the bit reversal of `rev` over `Bits` bits
(`reversed`, bit by bit where the code swaps halves; `TwoTo` are the powers of two).
`RoomAssumption` bounds the tables: none larger than a cursor can number is asked
for (`_dictNextPower` gives one size to everything from `LONG_MAX` on). `map`, the
`owed`, `seen` and `again` fields of the iterator and `owed` of the scan are
history: what the calls so far amount to, and what the iterator and the scan
still owe their user. While a safe iterator runs, users may add, replace, find,
resize and delete; they may not delete the entry the iterator saved as its next
one, call `dictRehash` themselves or empty the dict, since the code does not
protect the saved pointer from these three (and `dictEmpty` sets `iterators` to
0, which the iterator's release would take below 0). An iterator and a scan do not
run at the same time (a bound: neither reads what the other keeps).

**Buffer** models `gp_buffer.c` as operators on a record of block, length and the
two indices, with every byte of the block kept, so that a `memmove` to a wrong
place or a read of memory nobody wrote shows. **Codec** composes it with `encode`
and `decode` of `gp_codec.c`, the read handlers of `gp_conn.c` and
`gp_ssl_server.c` and `on_message` of `gp_ipc_server.c`, which `handle_ssl_msg`
repeats. A byte is its place in a frame. A frame is a message that a peer packs with
`encode`, or a byte string of another origin (`Strays`). `decode` sees bytes, not
frames: when it drops what has arrived of a message that is too long, unknown or
broken, it goes on in the middle of it. What it makes of the bytes at a place is given
by `Fields`: whether the magic number stands there, the two lengths that follow it, as
signed numbers that need not agree with each other nor with the frame, whether the name
is registered and whether the rest unpacks. For the first byte of a message these are
what `encode` wrote; for all other places (payload that looks like a header) and for
strays they are a constant, `Looks`. The checks of `decode` and of the peek functions
are modelled with the order in which they are made, and a peek function's `abort()` ends
the process. A read takes any number of bytes up to what `readv` or `SSL_read` was given
room for; a failed `readv` calls the message callback too, since its -1 is kept in a
`size_t`. `extra` is history: how many
complete frames reads have brought in beyond what calls of `on_message`, one frame
each, could take; it goes down with every call.

MCThreadManager, MCRing, MCTaskProcessor, MCAtomicRef, MCReactor, MCTimerWheel,
MCDict and MCCodec name the model values and symmetry sets for the `.cfg` files.
Definitions marked `mutant:` are plausible mistakes, one per property; the
specifications do not use them.

## Runs

| run | config | bounds | what it shows |
|---|---|---|---|
| thread_manager | MCThreadManager | 2 callers, 4 calls | joining is complete, nothing destroyed is used, every call returns, OneShotJob is implemented |
| ring_counters | MCRing | 2 producers, 2 consumers, count 3, batches of 1 and 2, 4 claims, wrap after 2 | counter order, exclusive claims, publication in turn, a spinning thread always waits for one whose turn it is |
| ring_collision | RingCollision | 1 and 1 thread, count 3 | **violated**: two positions share a slot, an object is lost |
| task_pool | MCTaskProcessor | 2 workers, any of which may be missing, 2 clients, of whom one may call wait_task, 2 tasks run twice and once | busy count, no use after free; if there is a worker, drained shutdown, every run executed and destroy_task returns; shutdown ends; the last three unless a wait_task locked itself up |
| atomic_ref | MCAtomicRef | 3 threads, 4 references | no early destruct, somebody destructs |
| atomic_ref_once | AtomicRefOnce | the same | **violated**: two callers are told they were last |
| reactor | MCReactor | 2 descriptors, 2 user-queued tasks, 1 kept reference, 2 handlers per poll | no use after free, exact count, callback protocol, no sleep over work |
| reactor_live | ReactorLive | 1 descriptor, 1 user-queued task, 2 sends of 2 bytes | output watched and in order, closed connections freed, quit stops |
| timer_wheel | MCTimerWheel | 3 timers, wheels of 4 and 2 lists (W = 64), born at 60, 4 operations, intervals and expiries 0 and 4 ahead, 5 ticks, slept in any portions up to the timeout, or longer when it is negative | every timer is on the right list, fires at its tick or for a stated reason, nothing due is left at a poll, no sleep past the next timer unless a list was left half walked |
| timer_wheel_stale | TimerWheelStale | the same wheels, born at 0, 3 operations | **violated**: with a stopped timer's expiry in `next_timer` the loop waits without a timeout while a timer is armed |
| dict | MCDict | 4 keys, 1 with two values, tables of 2, 4 and 8 buckets, hashes of 3 bits, 2 empty buckets per rehash step | well-formed tables, a map, complete scans, complete iteration without repetition |
| codec | MCCodec | 3 frames of 8 kinds (4 messages, 4 strays), headers of 2 bytes, block of 5 bytes with 2 in front, second vector of 7 | exact input buffer, frames exact, aborts only on lengths that do not agree behind a frame that is not good, frames left behind only by reads that completed several, room for SSL_read |

Why the bounds are enough to be interesting. Four calls on a manager include run,
wait, wait, destroy by two threads with the worker anywhere. In the ring the
counters wrap with producers in the middle of a batch, the ring gets full and
empty and batches are clipped. In the pool a task is submitted again while its
first run is in its callback, both workers sleep or run, and shutdown begins with
tasks queued. Two descriptors, two handlers per poll and two queued tasks let a
handler close a connection that is later in the same batch, let two closes of one
connection race, and let a descriptor be reused; sends of two bytes are written
whole, half and not at all. Three timers and four operations put three timers on
one list and let a callback stop the middle one; born at 60, the wheels all turn
over (tick 64 = 0) with timers on the higher ones. In the dict, keys share a bucket
in a table of two and of four and not in one of eight, so a rehash splits and
joins chains, in both directions, with a scan or an iterator half-way; the limit
on empty buckets ends a step before it has moved anything. In the codec run the
block is smaller than a frame: it is filled, moved and grown at every cut of
three frames, among them one without a body, one that nobody registered, one that
is too long, and strays with a negative `len`, a `len` too small for `name_len`, a
`name_len` beyond `len` and a body that does not unpack; the payload of two messages
looks like a header, once with lengths that agree and once not. `task_pool` is not checked for deadlock because
`wait_task` does block for ever (`gp_threadpool.c:151` locks the mutex a second
time), and `codec` because the peer may have nothing more to send.

Fairness. Threads that can run do run (weak fairness of each thread's steps), user
functions and callbacks return, and a thread that competes for a mutex again and
again gets it (strong fairness of acquiring: pthread mutexes give no order, but no
starvation for ever either). Nobody has to call an operation, no spurious wake-up
has to happen. In the reactor, the
loop's thread runs and `epoll_wait` returns when the eventfd is readable; no peer
has to send anything and no timer has to fire. `IdlePoll` and `QuitStops` make one
exception, which is the code's: what a timer callback queues or asks for wakes
nobody (`gp_loop.c:91,150` look at the calling thread only) and waits for the poll's
timeout or the next event. `QuitStops` is about a loop that runs: a quit that comes
before `gp_loop_run` is lost, as line 190 clears it.

## Proofs

TLAPS proves, for every value of the constants that satisfies the named
assumptions:

* **ThreadManagerProofs**: `TypeCorrect`, `JoinCorrect`, `DestroySafe`,
  `RefinesJob`, for any set of callers and any number of calls. The inductive
  invariant adds to the type invariant: who holds the mutex is exactly who is at
  a place between lock and unlock (`MutexInv`); what the worker's place says about
  `start`, `stop`, `done` and the function's fate (`WorkerInv`); that a joiner
  past its loop, or a join that happened, implies `done` (`JoinInv`); and who may
  be at the mutex while it exists (`SyncInv`). Without the last two, a join could
  start from a state where `done` is set by nobody. The theorems assume nothing
  but `WorkerAssumption` and `BoundAssumption`; a failed `pthread_create` that nobody
  sees is among the behaviours they cover (`SyncInv` then says that `done` is set and
  nobody sleeps). `RefinesJob` is the safety part
  of the refinement; fairness is left to TLC (`ImplementsJob`).
* **RingProofs**: `TypeCorrect`, `CounterOrderCorrect`, `ClaimsExclusive`,
  `PublishInTurnCorrect`, `TurnHeldCorrect`, for any sets of threads, capacity, width and batch size
  with Capacity + MaxClaims + MaxBatch < W. The invariant ties each wrapped
  counter to its unwrapped history (`LinkInv`), says what a producer's or a
  consumer's locals mean at each place (`PushInv`, `PopInv`: a stale head is never
  ahead, and what is clipped fits if the compare-and-swap succeeds), and that
  ranges in flight are disjoint and not yet published (`RangeInv`). For
  `TurnHeld` a second invariant is needed: every position between a publication and
  its claim counter belongs to a thread that is copying (`CoverInv`), so one of them
  starts where the publication counter stands. The bound
  MaxClaims keeps a stale compare-and-swap from meeting a counter that went all
  the way round; with 2^32 positions the code relies on that too.
* **AtomicRefProofs**: `TypeCorrect`, `EarlyDestructNever`. The invariant says the
  counter equals the number of live references (`CountInv`) and that no reference
  is held twice (`HeldInv`).

* **TaskProcessorProofs**: `TypeCorrect`, `BusyIsExact`, `NoTaskUsedAfterFree`,
  `DrainsBeforeReturning`, for any finite sets of workers and clients, any tasks and
  any number of runs. The invariant says who holds `tp_mtx` (`LockExact`), that every
  call in progress is about a live task of its caller and that `destroy_task` is past
  its wait only when the task is idle (`Owned`), that a task is on the list at most once
  and not while it is being appended (`OnceListed`), what the owner's progress implies
  for `tp_run`, the list and the workers (`Lifecycle`: a worker has left only after
  `tp_run` was cleared with the list empty, and then nobody appends), and two sums
  (`Counts`): the busy counter is listed plus held runs, and the submitted runs are
  executed plus listed plus executing. The second sum is what makes "drained" mean that
  nothing was lost.
* **ReactorProofs**: `TypeCorrect`, `NothingFreedIsUsed`, `CountIsExact`,
  `CallbacksInOrder`, `SleepsOnlyIdle`, `OutputIsWatched`, `SendsInOrder`, for any
  finite set of descriptors and any bounds (finite because `epoll_wait` returns a
  finite batch, whose order is a sequence). Each C function has a lemma that says what
  it does to one connection when the functions in progress hold n references to it
  (`Holds`, `Counted`): n is 0 between handlers, and the lemma of a handler starts and
  ends there, through every call it makes, the user's included. That is how the count
  is known not to reach 0 half-way through `connection_handler_close`. The invariant
  `IInv` has, besides the types, the count and the life cycle of each connection
  (`ConnsOK`), that what is left of the batch belongs to connections that are up
  (`ActiveOK`), that work left behind has woken the loop (`Woken`), and `Quiet`:
  outside the handling of events epoll knows only connections in the dictionary. The
  last one is needed because a write event after the close of its own connection puts
  the handler back into epoll (`poller_update` adds a deleted handler even with an
  empty interest set); it is gone before the next poll since `connection_destroyed`
  is on the list by then, and without `Quiet` the next batch could report it.
  `SendsInOrder` rests on a second invariant, `OrderInv`: bytes are numbered by the
  calls of `conn_send`, all that waits carries numbers of calls that were made, the
  list holds only bytes of other threads, and so a direct write of the loop's thread
  overtakes nothing of its own side. It also needs `IInv`: a descriptor is used again
  only when no task of its former connection is left.
* **CodecProofs**, first part: `InputCorrect`, `RoomAlways`, for any sizes of the
  block, the prepend space, the second vector, the header and the messages, any messages
  and strays, any `Looks` and any number of frames, from `BufferAssumption` and
  `CodecAssumption`. The argument is one relation, `Holds(b, w, lo, hi)`: buffer b has its
  indices in order and holds bytes lo + 1 to hi of the stream w. One lemma per function
  says what it does to lo and hi: a write moves hi, a retrieve moves lo, compacting and
  growing move neither, and the two pieces of a `readv` join up. `decode` then only takes
  from the front. The invariant is that the input buffer holds the last bytes that
  arrived, together with `RoomToRead`, for which it needs that the block has at least two
  bytes (half of it is then at least one). The lemma about `decode` also says what comes
  out (`Outcome`): it waits for the rest of a frame, takes from the front what the header
  says and hands it on, drops what it cannot use, or aborts, and then the header's lengths
  do not agree.
* **CodecProofs**, second part: `FramesCorrect`, `AbortsExplained`, `FewLeftBehind`, from
  the same assumptions. The invariant `FrameInv` has an offset for every frame, the number
  of bytes in front of it (`Laid`), and compares offsets with the number of bytes that have
  left the buffer: what was delivered lies in front of it, in order, and up to the first
  frame that is not good everything delivered ends before that number and everything else
  begins after it (`Progress`), so the reader is at the start of a frame (`InStep`). Hence an
  abort, whose header does not fit, comes only when a frame that is not good came before or
  is the one that is read. The complete frames in the buffer are a set of neighbours, which
  a read extends by those it completes and `on_message` shortens by one; their number is at
  most `extra`, which is counted up and down in the same way.
* **DictProofs**: `ShapeKept`, `DictIsMap`, `IteratesOnce`, `ScansComplete`, for any
  finite set of keys, any hashes (all keys in one bucket included), any sizes that
  `RoomAssumption` admits, and any limit on empty buckets. `Full` says of a table
  that every entry is in the bucket its key selects, that no chain has a key twice,
  and that `used` is the number of entries; `Apart` that the two tables share no
  key. `Good` adds what a rehash leaves behind: nothing below `rehashidx`, and
  `rehashidx` in range. Both halves are needed for the step itself: the loop over
  empty buckets relies on finding an entry between `rehashidx` and the end of the
  table because `used` is not 0. Every operator has a lemma that says it keeps
  `Good` and what it does to the map of keys to values (`Agrees`): a rehash, in
  whatever portion, nothing; an addition, a replacement and a deletion change one
  key. The effect of the loops is not an induction over data but a minimal
  counterexample: `Recursion` and `UpTo` say, for one set of indices, that what
  holds at 0 and is kept by every step holds up to n, since a first index where it
  failed would have a predecessor. For `IteratesOnce` a place is a bucket and a
  position in its chain. The invariant (`Running`) says that all the iterator owes
  is at places ahead of it, from the saved successor on and in the second table, and
  that nothing it has returned is; it needs that no entry changes its place while an
  iterator runs except by a deletion in front of it, which is what `iterators > 0`
  stops `_dictRehashStep` for. For `ScansComplete` cursors are compared by their
  reversed bits. Reversal is its own inverse (`Involution`), and, by induction on
  the number of bits, the cursors of one bucket of a table of 2^m buckets are a
  block of 2^(Bits - m) neighbours in that order (`Blocks`), so a table of any size
  is passed through in the same direction (`Order`) and the cursors of a larger
  table divide the blocks of a smaller one (`Finer`). While a rehash is on, the walk
  over the larger table ends exactly where the next block of the smaller one begins
  (`CycleTurns`, `WalkCovers`). The invariant (`ScanAhead`) says that what the scan
  owes is stored and has a hash at the cursor or after it. It speaks of hashes and
  not of buckets because between two calls the table may be replaced by a smaller
  one, with the cursor in the middle of a block: the scan then returns to the whole
  bucket, and skips nothing.

* **TimerWheelProofs**: `CalledAtItsTick`, `NoneIsLost`, `ListsInReach`, `WakesInTime`,
  for wheels of any sizes of at least 2, any set of timers, any clock reading at the
  loop's creation and any bounds, from `WheelAssumption`. Times are compared by their
  distance modulo W (`D(e, j)`: ticks from j to e), in which a wrap makes no difference,
  and the proof is about how the code's quotients and its comparisons of plain numbers
  relate to distances. A list is in reach (`InReach`) if its wheel gets to it
  within one turn and not after the timer's expiry. `ListForReach` says that
  `gp_timer_internal_add` chooses such a list, `ReachTick` that a tick keeps it in reach
  unless the tick is the one that reaches it (`HotList`), and `CascadeReady` and
  `CascadedReady` that the cascades of a tick leave nothing on such a list but what is on
  the first wheel and due now. The cascades run from the lower wheels to the higher, so
  what one adds again must not land on a list that was just spread, and it does not
  (`AddReady`). `NextLeast` is about `gp_next_timer`: a search starts at the wheel's
  current list and stops only when nothing on a higher wheel can be earlier, so over
  lists in reach the result is the least by distance, although minima are taken of
  plain numbers. It follows that a timer that is not late is less than half the range
  after `next_timer` (`NextInv`). The inductive invariant `Inv` has: lists hold live
  timers, each once (`ListInv`, `Chains`); what the traversal has yet to call is not in
  front of the successor it saved, or it was cut short (`WalkInv`); what is on the list
  being traversed is due, left behind or a turn ahead (`SlotInv`); a timer that waits is not
  overdue (`DueInv`) and in reach (`PlaceInv`); the tick count is never more than half
  the range behind the clock (`ClockInv`); `armed` is what is on lists (`ArmedInv`). The
  recursion of `cascade` over a list is handled as in DictProofs.

Only model-checked: all liveness (`CallsReturn`, `EveryRunExecuted`,
`DestroyTaskReturns`, `ShutdownEnds`, `SomebodyDestructs`, `ClosedIsFreed`,
`QuitStops`), since fairness is out of the prover's reach; and `InOrder` of Ring with the bit
operations of RingBits, which proofs cannot use.

## What the violated runs show

* `gp_align32pow2` lacks the final increment, so for counts above 1 neighbouring
  positions share a slot.
* `gp_atomic_dec_and_test` reads its result separately from the decrement, so two
  callers can both be told that they gave back the last reference. (It never
  destructs early: that is proved.)
* `gp_timer_del` leaves `next_timer` as it was. When the stopped timer's expiry has
  passed, the timeout is negative and the loop waits for an event only, so timers
  that are armed wait with it. (While `next_timer` lies ahead and no
  traversal was cut short, `SleepBound` holds: that is proved.)

## What passing runs describe and do not exclude

Some properties name behaviour of the code that a user may not expect, and hold with it:

* A thread manager whose thread could not be created looks, to its callers, like one
  whose function has been executed: nobody is told, the calls use a destroyed mutex and
  return (`JoinComplete`, `NoUseAfterDestroy`, `CallsReturn`).
* `wait_task` stops the pool (`EveryRunExecuted`, `DestroyTaskReturns`, `ShutdownEnds`
  with `WaiterStuck`).
* `decode` drops what has arrived of a message it does not handle and reads the rest of
  it as if it began a message. If that looks like a header with lengths that do not
  agree, the server aborts, also when every peer uses `encode` (`AbortsOnMisfit`; in the
  run it happens with the payload of the message that is too long, and with strays whose
  own header is off). As long as all frames are messages that `decode` hands out it never
  aborts: that is part of what is proved.
* `on_message` of the library takes one frame per read where the test server
  (`test/server/guish_server.c:52`) loops, so frames that come together wait for later
  reads (`LeftBehind`).
* Timers armed for a tick already run, and lists changed under their traversal
  (`OnTime`, `AllDueFired`, see TimerWheel above).
* A failed write empties the output buffer and a failed read is delivered as a message
  (`gp_conn.c:30,54`): no property of Reactor speaks of lost output.

## Not modelled

* What `encode` writes behind its block: line 76 of `gp_codec.c` copies one byte of the
  name too many. The packed message overwrites it, unless it is empty; then the byte lies
  behind the block and is not sent. The model has the frames that are sent.
* `gp_conf.c` and `gp_conf_yaml_loader.c`: a tree that is built once, by one thread,
  before the servers start. Its work is splitting, joining and comparing strings,
  driven by libyaml's events; nothing in it interleaves.
* `gp_hash.c`: a pure function; what is proved of Dict holds for every assignment of
  hashes, and a better or worse mix changes only lengths of chains.
* TLS handshake, output and close (`gp_ssl_server.c`): the handshake is OpenSSL's
  state machine, and Codec starts where it is over with reading enabled (after a
  step that wanted to write, the code leaves reading disabled). The rest is
  unfinished in the source: `ssl_handler_write` is never installed, `conn_send`
  writes to the socket past TLS, and `ssl_handler_close` leaves the connection's
  state and handler as they are. `SSL_pending` is not consulted after a read that
  filled the block, so bytes inside the SSL object wait for the next readable event;
  the codec model counts only bytes that `SSL_read` returned.
* `encode_errcode`, `gp_sync_client.c`, `gp_socketop.c`, `gp_sock_address.c`,
  `gp_system.c`, `gp_module.c`: blocking I/O, system calls and formatting.
* In `gp_dict.c`: unsafe iterators, whose fingerprint only detects misuse by an
  assertion; the sampling loops behind `dictGetSomeKeys` and `dictGetFairRandomKey`,
  which choose among entries and change nothing; statistics.
* `gp_list.c`: the links. Lists are sequences wherever they are used, with the
  prefetched successor of the safe walk where a callback can change the list.
* A task run again while it is on the list, and other threads that append to the
  pending list while the loop walks it: outside the callers' contract, and without a
  defined outcome.

What could follow: `InOrder` as a theorem, for a ring whose mask is all ones.
