-------------------------------- MODULE Dict --------------------------------
(***************************************************************************)
(* base/gp_dict.c: a hash table that grows and shrinks by moving its       *)
(* buckets, a few per call, from ht[0] to ht[1].                           *)
(*                                                                         *)
(* Each C function is an operator from a dict (the record `d') to a dict   *)
(* under the function's own name; an action applies one call of a user.    *)
(* A chain is the sequence of its entries.  Hashes are given (Hash), and   *)
(* the tables' sizes are powers of two, so `hash & sizemask' is % size.    *)
(* The hash function, the copies of keys and values and the memory of the  *)
(* entries are left out.                                                   *)
(***************************************************************************)
EXTENDS Integers, Sequences, FiniteSets, SequencesExt, FiniteSetsExt

CONSTANTS
    Keys, Values, None,
    Pairs,          \* bound: the keys with the values that users store under them
    Hash,           \* hash of a key, in Bits bits
    Bits,           \* width of a hash and of a scan's cursor (64)
    InitialSize,    \* DICT_HT_INITIAL_SIZE
    ForceRatio,     \* dict_force_resize_ratio
    EmptyVisits,    \* empty buckets a rehash visits per requested step (10)
    Sizes,          \* bound: sizes asked of dictExpand
    Batches         \* bound: steps asked of dictRehash

(* Powers of two, and the number of values of a hash or a cursor.           *)
TwoTo[i \in 0..Bits] == IF i = 0 THEN 1 ELSE 2 * TwoTo[i - 1]
Top == TwoTo[Bits]

ASSUME BitsAssumption ==
    Bits \in Nat \ {0} /\ Hash \in [Keys -> 0..(Top - 1)]
ASSUME SizeAssumption ==
    /\ \E i \in 0..Bits : InitialSize = TwoTo[i]
    /\ ForceRatio \in Nat /\ EmptyVisits \in Nat \ {0}
    /\ Sizes \subseteq Nat /\ Batches \subseteq Nat \ {0}
ASSUME NoneAssumption == None \notin Keys \union Values /\ Pairs \subseteq Keys \X Values

VARIABLES
    d,          \* the dict: ht0, ht1, rehashidx, iterators
    canResize,  \* dict_can_resize
    map,        \* history: the map that the calls so far amount to
    it,         \* a safe iterator and what it owes its user
    scan        \* a scan's cursor and what it owes its user

vars == <<d, canResize, map, it, scan>>

----------------------------------------------------------------------------
(* Tables and entries.                                                      *)
NoTable == [size |-> 0, used |-> 0, table |-> <<>>]
NewTable(n) == [size |-> n, used |-> 0, table |-> [i \in 0..(n - 1) |-> <<>>]]

(* _dictClear frees the entries of a table, and resets it.                  *)
dictClear(ht) == NoTable

dictIsRehashing(D) == D.rehashidx # -1
dictSize(D) == D.ht0.used + D.ht1.used
KeysOf(chain) == {chain[i].key : i \in 1..Len(chain)}
Bucket(ht, h) == ht.table[h % ht.size]
Chain(ht, k) == Bucket(ht, Hash[k])

(* The entries of a table, and of both.                                     *)
EntriesOf(ht) == UNION {ToSet(ht.table[i]) : i \in 0..(ht.size - 1)}
Entries(D) == EntriesOf(D.ht0) \union EntriesOf(D.ht1)
Stored(D) == {e.key : e \in Entries(D)}

(* _dictNextPower: of the sizes its loop comes to by doubling the initial   *)
(* one, the first that is large enough.                                     *)
TableSizes == {n \in {TwoTo[i] : i \in 0..Bits} : n >= InitialSize}
dictNextPower(size) == Min({n \in TableSizes : n >= size})

(* Bound: no table larger than a cursor can number is asked for (sizes from *)
(* LONG_MAX on, which the code gives one size to).                          *)
ASSUME RoomAssumption ==
    /\ IsFiniteSet(Keys)
    /\ \A size \in Sizes \union {InitialSize, 2 * Cardinality(Keys)} :
          \E n \in TableSizes : n >= size

Expandable(D, size) ==
    /\ ~dictIsRehashing(D) /\ D.ht0.used <= size
    /\ dictNextPower(size) # D.ht0.size

(* dictExpand: DICT_ERR leaves the dict as it is.                           *)
dictExpand(D, size) ==
    IF ~Expandable(D, size) THEN D
    ELSE IF D.ht0.size = 0
    THEN [D EXCEPT !.ht0 = NewTable(dictNextPower(size))]
    ELSE [D EXCEPT !.ht1 = NewTable(dictNextPower(size)), !.rehashidx = 0]

(* dictResize: the smallest table that holds what there is.                 *)
dictResize(D) ==
    IF canResize THEN dictExpand(D, Max({D.ht0.used, InitialSize})) ELSE D

(* _dictExpandIfNeeded: the size it asks dictExpand for, 0 for none.        *)
WantedSize(D) ==
    IF dictIsRehashing(D) THEN 0
    ELSE IF D.ht0.size = 0 THEN InitialSize
    ELSE IF /\ D.ht0.used >= D.ht0.size
            /\ canResize \/ D.ht0.used \div D.ht0.size > ForceRatio
    THEN D.ht0.used * 2
    ELSE 0

dictExpandIfNeeded(D) == IF WantedSize(D) = 0 THEN D ELSE dictExpand(D, WantedSize(D))
ExpandRefused(D) == WantedSize(D) # 0 /\ ~Expandable(D, WantedSize(D))

----------------------------------------------------------------------------
(* A table with another chain in bucket h; with a new entry at the head of  *)
(* the chain that its hash selects.                                         *)
Rechained(ht, h, chain, used) ==
    [ht EXCEPT !.table = [ht.table EXCEPT ![h] = chain], !.used = used]
Linked(ht, e) ==
    LET h == Hash[e.key] % ht.size
    IN  Rechained(ht, h, <<e>> \o ht.table[h], ht.used + 1)

(* dictRehash(d, n): move up to n buckets, visiting at most n * EmptyVisits *)
(* empty ones.  The entries of a bucket are moved one by one.               *)
MoveBucket(D) ==
    LET chain == D.ht0.table[D.rehashidx]
        moved[i \in 0..Len(chain)] ==
            IF i = 0 THEN D.ht1 ELSE Linked(moved[i - 1], chain[i])
    IN  [D EXCEPT !.ht0 = Rechained(D.ht0, D.rehashidx, <<>>, D.ht0.used - Len(chain)),
                  !.ht1 = moved[Len(chain)],
                  !.rehashidx = D.rehashidx + 1]

(* One pass of its loop, on the dict and the visits that are left (0 after  *)
(* the return inside the loop).                                             *)
RehashPass(s) ==
    LET D == s.d
        next == Min({i \in D.rehashidx..(D.ht0.size - 1) : D.ht0.table[i] # <<>>})
        empty == next - D.rehashidx
    IN  IF s.visits = 0 \/ D.ht0.used = 0 THEN s
        ELSE IF empty >= s.visits
        THEN [d |-> [D EXCEPT !.rehashidx = D.rehashidx + s.visits], visits |-> 0]
        ELSE [d |-> MoveBucket([D EXCEPT !.rehashidx = next]), visits |-> s.visits - empty]

RehashDoneEarly(D) ==   \* mutant: the old table is dropped when its last bucket is reached
    IF D.ht0.used = 0 \/ D.rehashidx = D.ht0.size - 1
    THEN [D EXCEPT !.ht0 = D.ht1, !.ht1 = NoTable, !.rehashidx = -1]
    ELSE D

RehashDone(D) ==
    IF D.ht0.used = 0
    THEN [D EXCEPT !.ht0 = D.ht1, !.ht1 = NoTable, !.rehashidx = -1]
    ELSE D

dictRehash(D, n) ==
    IF ~dictIsRehashing(D) THEN D
    ELSE LET pass[i \in 0..n] ==
                 IF i = 0 THEN [d |-> D, visits |-> n * EmptyVisits]
                 ELSE RehashPass(pass[i - 1])
         IN  RehashDone(pass[n].d)

dictRehashStepAlways(D) == dictRehash(D, 1)   \* mutant: the running iterators are forgotten

(* _dictRehashStep: not while a safe iterator runs.                         *)
dictRehashStep(D) == IF D.iterators = 0 THEN dictRehash(D, 1) ELSE D
Stepped(D) == IF dictIsRehashing(D) THEN dictRehashStep(D) ELSE D

----------------------------------------------------------------------------
(* The search that dictFind, dictGenericDelete and _dictKeyIndex make: the  *)
(* chain in ht[0] and, while rehashing, the one in ht[1].                   *)
Lookup(D, k) ==
    IF D.ht0.size = 0 THEN "none"
    ELSE IF k \in KeysOf(Chain(D.ht0, k)) THEN "ht0"
    ELSE IF dictIsRehashing(D) /\ k \in KeysOf(Chain(D.ht1, k)) THEN "ht1"
    ELSE "none"

Found(D, k) == Lookup(D, k) # "none"
Position(chain, k) == Min({i \in 1..Len(chain) : chain[i].key = k})
HomeChain(D, k) == Chain(D[Lookup(D, k)], k)

(* dictGetVal of what dictFind finds.                                       *)
Value(D, k) ==
    IF Found(D, k) THEN HomeChain(D, k)[Position(HomeChain(D, k), k)].val ELSE None

(* dictSetVal on the entry of k; unlinking it; a new entry at the head.     *)
SetVal(D, k, v) ==
    LET t == Lookup(D, k)
        h == Hash[k] % D[t].size
        chain == D[t].table[h]
        entry == [key |-> k, val |-> v]
    IN  [D EXCEPT ![t] = Rechained(D[t], h, ReplaceAt(chain, Position(chain, k), entry),
                                   D[t].used)]

Unlink(D, k) ==
    LET t == Lookup(D, k)
        h == Hash[k] % D[t].size
        chain == D[t].table[h]
    IN  [D EXCEPT ![t] = Rechained(D[t], h, RemoveAt(chain, Position(chain, k)),
                                   D[t].used - 1)]

PushMain(D, k, v) ==    \* mutant: new entries go to the old table while it is emptied
    [D EXCEPT !.ht0 = Linked(D.ht0, [key |-> k, val |-> v])]

Push(D, k, v) ==
    IF dictIsRehashing(D)
    THEN [D EXCEPT !.ht1 = Linked(D.ht1, [key |-> k, val |-> v])]
    ELSE [D EXCEPT !.ht0 = Linked(D.ht0, [key |-> k, val |-> v])]

(* dictAddRaw up to its result: a step of the rehash, then _dictKeyIndex,   *)
(* which expands the table and looks for the key.                           *)
AddPrepared(D) == dictExpandIfNeeded(Stepped(D))
KeyIndexFree(D, k) == ~ExpandRefused(Stepped(D)) /\ ~Found(AddPrepared(D), k)

(* The step that dictFind, dictGenericDelete and dictGetRandomKey make.     *)
Touched(D) == IF dictSize(D) # 0 THEN Stepped(D) ELSE D

----------------------------------------------------------------------------
NoIterator == [phase |-> "off", table |-> "ht0", index |-> -1, next |-> None,
               owed |-> {}, seen |-> {}, again |-> FALSE]
NoScan == [on |-> FALSE, v |-> 0, owed |-> {}]

(* dictCreate                                                               *)
Init ==
    /\ d = [ht0 |-> NoTable, ht1 |-> NoTable, rehashidx |-> -1, iterators |-> 0]
    /\ canResize = TRUE
    /\ map = [k \in Keys |-> None]
    /\ it = NoIterator
    /\ scan = NoScan

(* A deleted element is owed to nobody any more.                            *)
Forget(k) ==
    /\ it' = [it EXCEPT !.owed = @ \ {k}, !.seen = @ \ {k}]
    /\ scan' = [scan EXCEPT !.owed = @ \ {k}]

dictAdd(k, v) ==
    /\ d' = IF KeyIndexFree(d, k) THEN Push(AddPrepared(d), k, v) ELSE AddPrepared(d)
    /\ map' = IF map[k] = None THEN [map EXCEPT ![k] = v] ELSE map
    /\ UNCHANGED <<canResize, it, scan>>

dictReplace(k, v) ==
    /\ d' = IF KeyIndexFree(d, k)
            THEN Push(AddPrepared(d), k, v)
            ELSE SetVal(AddPrepared(d), k, v)
    /\ map' = [map EXCEPT ![k] = v]
    /\ UNCHANGED <<canResize, it, scan>>

(* dictDelete, or dictUnlink and dictFreeUnlinkedEntry.  While an iterator  *)
(* runs the entry it has saved as its next one may not be deleted.          *)
dictDelete(k) ==
    /\ it.next # k
    /\ d' = IF Found(Touched(d), k) THEN Unlink(Touched(d), k) ELSE Touched(d)
    /\ map' = [map EXCEPT ![k] = None]
    /\ Forget(k)
    /\ UNCHANGED canResize

dictFind(k) ==
    /\ d' = Touched(d)
    /\ UNCHANGED <<canResize, map, it, scan>>

(* The buckets dictGetRandomKey draws from until one is not empty.          *)
Drawn(D) ==
    IF dictIsRehashing(D)
    THEN {D.ht0.table[h] : h \in D.rehashidx..(D.ht0.size - 1)}
         \union {D.ht1.table[h] : h \in 0..(D.ht1.size - 1)}
    ELSE {D.ht0.table[h] : h \in 0..(D.ht0.size - 1)}

dictGetRandomKey ==
    /\ d' = Touched(d)
    /\ dictSize(d) # 0 => \E chain \in Drawn(Touched(d)) : chain # <<>>
    /\ UNCHANGED <<canResize, map, it, scan>>

(* dictGetSomeKeys makes a step of the rehash per key it is asked for.      *)
dictGetSomeKeys(count) ==
    /\ LET n == IF dictSize(d) < count THEN dictSize(d) ELSE count
           step[i \in 0..n] == IF i = 0 THEN d ELSE Stepped(step[i - 1])
       IN  d' = step[n]
    /\ UNCHANGED <<canResize, map, it, scan>>

Resize ==
    /\ \/ d' = dictResize(d)
       \/ \E size \in Sizes : d' = dictExpand(d, size)
    /\ UNCHANGED <<canResize, map, it, scan>>

(* dictRehash and dictRehashMilliseconds called by the user, who may not do *)
(* so while an iterator runs.                                               *)
Rehash ==
    /\ it.phase = "off"
    /\ \E n \in Batches : d' = dictRehash(d, n)
    /\ UNCHANGED <<canResize, map, it, scan>>

(* dictEnableResize, dictDisableResize                                      *)
SetResize == canResize' = ~canResize /\ UNCHANGED <<d, map, it, scan>>

(* dictEmpty, or dictRelease and a new dict; not while an iterator runs.    *)
dictEmpty ==
    /\ it.phase = "off"
    /\ d' = [d EXCEPT !.ht0 = dictClear(d.ht0), !.ht1 = dictClear(d.ht1),
                      !.rehashidx = -1, !.iterators = 0]
    /\ map' = [k \in Keys |-> None]
    /\ scan' = [scan EXCEPT !.owed = {}]
    /\ UNCHANGED <<canResize, it>>

----------------------------------------------------------------------------
(* Safe iterators.  Nonempty buckets of a table from an index on, and where *)
(* dictNext goes when the chain it is in has ended.                         *)
NonEmpty(ht, from) == {i \in from..(ht.size - 1) : ht.table[i] # <<>>}

NextBucket(D) ==
    LET here == NonEmpty(D[it.table], it.index + 1)
    IN  IF here # {} THEN {<<it.table, Min(here)>>}
        ELSE IF /\ it.table = "ht0" /\ dictIsRehashing(D) /\ NonEmpty(D.ht1, 0) # {}
        THEN {<<"ht1", Min(NonEmpty(D.ht1, 0))>>}
        ELSE {}

(* History: what an iterator has still to return, from its first call on.   *)
Owes == IF it.phase = "off" THEN Stored(d) ELSE it.owed

(* The iterator returns position i of a chain and saves its successor.      *)
Return(chain, i, table, index) ==
    LET k == chain[i].key
    IN  it' = [it EXCEPT !.phase = "run", !.table = table, !.index = index,
                         !.next = IF i = Len(chain) THEN None ELSE chain[i + 1].key,
                         !.owed = Owes \ {k},
                         !.seen = @ \union {k},
                         !.again = @ \/ k \in it.seen]

(* dictGetSafeIterator and dictNext; the first dictNext counts the iterator. *)
(* Bound: an iterator and a scan do not run at the same time (~scan.on here,  *)
(* it.phase = "off" in dictScan); neither touches what the other keeps.       *)
dictNext ==
    /\ it.phase # "end" /\ ~scan.on
    /\ d' = [d EXCEPT !.iterators = IF it.phase = "off" THEN @ + 1 ELSE @]
    /\ IF it.next # None
       THEN LET chain == HomeChain(d, it.next)
            IN  Return(chain, Position(chain, it.next), it.table, it.index)
       ELSE IF NextBucket(d) # {}
       THEN \E b \in NextBucket(d) : Return(d[b[1]].table[b[2]], 1, b[1], b[2])
       ELSE it' = [it EXCEPT !.phase = "end", !.owed = Owes]
    /\ UNCHANGED <<canResize, map, scan>>

dictReleaseIterator ==
    /\ it.phase # "off"
    /\ d' = [d EXCEPT !.iterators = @ - 1]
    /\ it' = NoIterator
    /\ UNCHANGED <<canResize, map, scan>>

----------------------------------------------------------------------------
(* dictScan.  rev reverses the Bits bits of a cursor; a cursor moves by     *)
(* incrementing its reverse, with all bits above the mask set.              *)
reversed[n \in 0..Bits] ==     \* the lower n bits of v, the highest becoming the lowest
    [v \in 0..(TwoTo[n] - 1) |->
        IF n = 0 THEN 0
        ELSE IF v < TwoTo[n - 1] THEN 2 * reversed[n - 1][v]
        ELSE 2 * reversed[n - 1][v - TwoTo[n - 1]] + 1]
rev == reversed[Bits]

CursorForward(v, size) == ((v % size) + 1) % size     \* mutant: the cursor counts upwards

Cursor(v, size) == rev[(rev[(v % size) + (Top - size)] + 1) % Top]

(* The do-while over the larger table: the cursors it visits, from v on     *)
(* until the bits that only the larger mask has are zero again.             *)
Cursors(v, small, large) ==
    LET c[i \in 0..large] == IF i = 0 THEN v ELSE Cursor(c[i - 1], large)
        n == Min({i \in 1..large : (c[i] % large) \div small = 0})
    IN  [i \in 1..(n + 1) |-> c[i - 1]]

Scanned(D, v) ==
    IF dictSize(D) = 0 THEN [keys |-> {}, v |-> 0]
    ELSE IF ~dictIsRehashing(D)
    THEN [keys |-> KeysOf(Bucket(D.ht0, v)), v |-> Cursor(v, D.ht0.size)]
    ELSE LET small == IF D.ht0.size > D.ht1.size THEN D.ht1 ELSE D.ht0
             large == IF D.ht0.size > D.ht1.size THEN D.ht0 ELSE D.ht1
             cs == Cursors(v, small.size, large.size)
         IN  [keys |-> KeysOf(Bucket(small, v))
                       \union UNION {KeysOf(Bucket(large, cs[i])) : i \in 1..(Len(cs) - 1)},
              v |-> cs[Len(cs)]]

(* One call: the first starts with cursor 0, the one that returns 0 is the  *)
(* last.  Other calls may come in between.                                  *)
dictScan ==
    /\ it.phase = "off"
    /\ LET s == Scanned(d, scan.v)
       IN  scan' = [on |-> s.v # 0, v |-> s.v,
                    owed |-> (IF scan.on THEN scan.owed ELSE Stored(d)) \ s.keys]
    /\ UNCHANGED <<d, canResize, map, it>>

----------------------------------------------------------------------------
Next ==
    \/ \E p \in Pairs : dictAdd(p[1], p[2]) \/ dictReplace(p[1], p[2])
    \/ \E k \in Keys : dictDelete(k) \/ dictFind(k)
    \/ dictGetRandomKey \/ \E n \in Batches : dictGetSomeKeys(n)
    \/ Resize \/ Rehash \/ SetResize \/ dictEmpty
    \/ dictNext \/ dictReleaseIterator \/ dictScan

Spec == Init /\ [][Next]_vars

----------------------------------------------------------------------------
(* Types.                                                                   *)
TableOK(ht) ==
    /\ ht.size \in {0} \union TableSizes
    /\ DOMAIN ht.table = 0..(ht.size - 1)
    /\ \A i \in DOMAIN ht.table : ht.table[i] \in Seq([key : Keys, val : Values])
    /\ ht.used \in Nat
TypeOK ==
    /\ TableOK(d.ht0) /\ TableOK(d.ht1)
    /\ d.rehashidx \in Nat \union {-1} /\ d.iterators \in 0..1
    /\ canResize \in BOOLEAN
    /\ it.phase \in {"off", "run", "end"}
    /\ it.owed \subseteq Keys /\ it.seen \subseteq Keys
    /\ scan.owed \subseteq Keys

(* The shape the functions rely on, whatever calls came before: `used' is   *)
(* exact, every entry is in the bucket its hash selects, no key is stored   *)
(* twice, ht[1] is only there while rehashing, and then the buckets below   *)
(* rehashidx are empty and rehashidx is in range (the assertion at 285, the *)
(* draws of dictGetRandomKey at 712).                                       *)
UsedExact(ht) ==
    ht.used = Cardinality({p \in (0..(ht.size - 1)) \X (1..Cardinality(Keys)) :
                              p[2] <= Len(ht.table[p[1]])})
InItsBucket(ht) ==
    \A i \in 0..(ht.size - 1) : \A k \in KeysOf(ht.table[i]) : Hash[k] % ht.size = i
WellFormed ==
    /\ TypeOK
    /\ UsedExact(d.ht0) /\ UsedExact(d.ht1)
    /\ InItsBucket(d.ht0) /\ InItsBucket(d.ht1)
    /\ dictSize(d) = Cardinality(Stored(d))
    /\ IF dictIsRehashing(d)
       THEN /\ d.rehashidx < d.ht0.size /\ d.ht1.size # 0
            /\ \A i \in 0..(d.rehashidx - 1) : d.ht0.table[i] = <<>>
       ELSE d.ht1 = NoTable

(* To its users the dict is a map, however far a rehash has come: a search  *)
(* finds for every key what the calls so far have made of it.               *)
IsMap == \A k \in Keys : Value(d, k) = map[k]

(* Between the first call and the one that returns 0, dictScan returns      *)
(* every element that stays in the dict all the while, although the table   *)
(* grows, shrinks and is rehashed between its calls (874-884).              *)
ScanComplete == scan.v \in 0..(Top - 1) /\ (~scan.on => scan.owed = {})

(* A safe iterator returns every element that stays, and none of them       *)
(* twice, although elements are added, deleted and looked up meanwhile.     *)
IterateOnce == ~it.again /\ (it.phase = "end" => it.owed = {})
=============================================================================
