----------------------------- MODULE DictProofs -----------------------------
(***************************************************************************)
(* Proofs about Dict, for any finite set of keys with any hashes and any   *)
(* sizes of tables: at every stage of a rehash the two tables have the     *)
(* shape their functions rely on and are a map to their users, a safe      *)
(* iterator returns what stays, once, and a scan returns what stays.       *)
(***************************************************************************)
EXTENDS Dict, FiniteSetTheorems, FunctionTheorems, SequenceTheorems,
        WellFoundedInduction, TLAPS

----------------------------------------------------------------------------
(* Natural numbers: least elements, induction up to a bound, and functions *)
(* that are defined by recursion up to a bound.                             *)

(* A set of natural numbers has a least one, and Min is it.                 *)
LEMMA LeastNat ==
    ASSUME NEW S \in SUBSET Nat, S # {}
    PROVE  Min(S) \in S /\ \A y \in S : Min(S) <= y
<1> DEFINE rel == {ss \in Nat \X Nat : ss[1] < ss[2]}
<1>1. IsWellFoundedOn(OpToRel(<, Nat), Nat)
  BY NatLessThanWellFounded, Zenon
<1>2. rel = OpToRel(<, Nat)
  BY DEF OpToRel
<1>3. IsWellFoundedOn(rel, Nat)
  BY <1>1, <1>2, Zenon
<1>4. PICK m \in S : \A y \in S : ~(<<y, m>> \in rel)
  <2> HIDE DEF rel
  <2>. QED
    BY <1>3, WFMin
<1>5. ASSUME NEW y \in S PROVE m <= y
  <2>1. m \in Nat /\ y \in Nat /\ ~(<<y, m>> \in rel)
    BY <1>4
  <2>2. ~(y < m)
    BY <2>1
  <2>. QED
    BY <2>1, <2>2
<1>6. \E x \in S : \A y \in S : x =< y
  BY <1>5
<1>. QED
  BY <1>6 DEF Min

(* Induction over 0..n, with the property as a set.                         *)
LEMMA UpTo ==
    ASSUME NEW n \in Nat, NEW S, 0 \in S,
           \A i \in 1..n : i - 1 \in S => i \in S
    PROVE  \A i \in 0..n : i \in S
<1> SUFFICES ASSUME {i \in 0..n : i \notin S} # {} PROVE FALSE
  OBVIOUS
<1> DEFINE T == {i \in 0..n : i \notin S}
           m == Min(T)
<1>1. m \in T /\ \A y \in T : m <= y
  <2>1. T \in SUBSET Nat /\ T # {}
    OBVIOUS
  <2> HIDE DEF T
  <2>. QED
    BY <2>1, LeastNat
<1> HIDE DEF m
<1>2. m \in 1..n /\ m - 1 \in 0..n
  BY <1>1
<1>3. m - 1 \in S
  <2> SUFFICES ASSUME m - 1 \notin S PROVE FALSE
    OBVIOUS
  <2>1. m - 1 \in T
    BY <1>2
  <2>2. m <= m - 1
    BY <1>1, <2>1
  <2>. QED
    BY <1>2, <2>2
<1>. QED
  BY <1>1, <1>2, <1>3

(* A recursion over 0..n whose steps stay in a set has a solution, and the  *)
(* solution stays in the set.                                               *)
Solves(f, n, x, g) == f = [i \in 0..n |-> IF i = 0 THEN x ELSE g[<<i, f[i - 1]>>]]

LEMMA Recursion ==
    ASSUME NEW n \in Nat, NEW S, NEW x \in S, NEW g \in [(1..n) \X S -> S]
    PROVE  \E f \in [0..n -> S] : Solves(f, n, x, g)
<1> DEFINE P(m, f) == /\ f \in [0..m -> S] /\ f[0] = x
                      /\ \A i \in 1..m : f[i] = g[<<i, f[i - 1]>>]
           G == {m \in 0..n : \E f : P(m, f)}
<1>1. 0 \in G
  <2>1. P(0, [i \in 0..0 |-> x])
    OBVIOUS
  <2>2. \E f : P(0, f)
    <3> HIDE DEF P
    <3>. QED
      BY <2>1, Zenon
  <2>. QED
    BY <2>2
<1>2. ASSUME NEW m \in 1..n, m - 1 \in G PROVE m \in G
  <2>1. PICK f : P(m - 1, f)
    BY <1>2
  <2> DEFINE e == [i \in 0..m |-> IF i = m THEN g[<<m, f[m - 1]>>] ELSE f[i]]
  <2>2. m \in Nat /\ m - 1 \in 0..(m - 1) /\ f[m - 1] \in S
    BY <2>1
  <2>3. g[<<m, f[m - 1]>>] \in S
    BY <2>2
  <2>4. \A i \in 0..m : i # m => i \in 0..(m - 1) /\ f[i] \in S
    BY <2>1, <2>2
  <2>5. e \in [0..m -> S]
    BY <2>3, <2>4
  <2>6. e[0] = x
    BY <2>1, <2>2
  <2>7. ASSUME NEW i \in 1..m PROVE e[i] = g[<<i, e[i - 1]>>]
    <3>1. i - 1 \in 0..(m - 1) /\ i - 1 \in 0..m /\ i - 1 # m
      BY <2>2
    <3>2. e[i - 1] = f[i - 1]
      BY <3>1
    <3>3. CASE i = m
      <4>1. e[m] = g[<<m, f[m - 1]>>]
        BY <2>2
      <4> HIDE DEF e
      <4>. QED
        BY <3>2, <3>3, <4>1
    <3>4. CASE i # m
      BY <2>1, <3>2, <3>4
    <3>. QED
      BY <3>3, <3>4
  <2>8. P(m, e)
    <3> HIDE DEF e
    <3>. QED
      BY <2>5, <2>6, <2>7
  <2>9. \E h : P(m, h)
    <3> HIDE DEF e, P
    <3>. QED
      BY <2>8, Zenon
  <2>. QED
    BY <2>9
<1>3. n \in G
  <2> HIDE DEF G
  <2>. QED
    BY <1>1, <1>2, UpTo
<1>4. PICK f : P(n, f)
  BY <1>3
<1>5. f = [i \in 0..n |-> IF i = 0 THEN x ELSE g[<<i, f[i - 1]>>]]
  BY <1>4
<1>. QED
  BY <1>4, <1>5 DEF Solves

(* Powers of two by their recursion; the sizes of tables are among them.    *)
LEMMA TwoToDef == TwoTo = [i \in 0..Bits |-> IF i = 0 THEN 1 ELSE 2 * TwoTo[i - 1]]
<1> DEFINE P == Nat \ {0}
           g == [p \in (1..Bits) \X P |-> 2 * p[2]]
<1>1. Bits \in Nat /\ 1 \in P
  BY BitsAssumption
<1>2. g \in [(1..Bits) \X P -> P]
  OBVIOUS
<1>3. PICK f \in [0..Bits -> P] : Solves(f, Bits, 1, g)
  <2> HIDE DEF g, P
  <2>. QED
    BY <1>1, <1>2, Recursion
<1>4. f = [i \in 0..Bits |-> IF i = 0 THEN 1 ELSE 2 * f[i - 1]]
  <2>1. ASSUME NEW i \in 0..Bits, i # 0 PROVE g[<<i, f[i - 1]>>] = 2 * f[i - 1]
    <3>1. i \in 1..Bits /\ i - 1 \in 0..Bits
      BY <1>1, <2>1
    <3>. QED
      BY <3>1
  <2> HIDE DEF g
  <2>. QED
    BY <1>3, <2>1 DEF Solves
<1>. QED
  BY <1>4, Zenon DEF TwoTo

LEMMA Powers ==
    /\ Bits \in Nat /\ TwoTo[0] = 1 /\ Top \in Nat \ {0}
    /\ \A i \in 0..Bits : TwoTo[i] \in Nat \ {0}
    /\ \A i \in 1..Bits : TwoTo[i] = 2 * TwoTo[i - 1]
<1>1. Bits \in Nat
  BY BitsAssumption
<1>2. TwoTo[0] = 1 /\ \A i \in 1..Bits : TwoTo[i] = 2 * TwoTo[i - 1]
  <2>1. \A i \in 1..Bits : i \in 0..Bits /\ i # 0
    BY <1>1
  <2>. QED
    BY <1>1, <2>1, TwoToDef
<1> DEFINE G == {i \in 0..Bits : TwoTo[i] \in Nat \ {0}}
<1>3. 0 \in G
  BY <1>1, <1>2
<1>4. ASSUME NEW i \in 1..Bits, i - 1 \in G PROVE i \in G
  BY <1>1, <1>2, <1>4
<1>5. \A i \in 0..Bits : i \in G
  <2> HIDE DEF G
  <2>. QED
    BY <1>1, <1>3, <1>4, UpTo
<1>. QED
  BY <1>1, <1>2, <1>5 DEF Top

LEMMA SizesPositive == TableSizes \subseteq Nat \ {0} /\ InitialSize \in Nat \ {0}
BY Powers, SizeAssumption DEF TableSizes

LEMMA HashNat == Hash \in [Keys -> Nat] /\ \A k \in Keys : Hash[k] \in 0..(Top - 1)
<1>1. 0..(Top - 1) \subseteq Nat
  BY Powers
<1>. QED
  BY <1>1, BitsAssumption

(* _dictNextPower finds a size for what the calls can ask for.              *)
LEMMA NextPower ==
    ASSUME NEW size \in Nat, \E n \in TableSizes : n >= size
    PROVE  /\ dictNextPower(size) \in TableSizes
           /\ dictNextPower(size) >= size
<1> DEFINE T == {n \in TableSizes : n >= size}
<1>1. T \in SUBSET Nat /\ T # {}
  BY SizesPositive
<1>2. Min(T) \in T
  <2> HIDE DEF T
  <2>. QED
    BY <1>1, LeastNat
<1>. QED
  BY <1>2 DEF dictNextPower

----------------------------------------------------------------------------
(* Tables: chains of entries without a key twice, each in its bucket.       *)
Entry == [key : Keys, val : Values]
Tables == [size : Nat, used : Nat, table : UNION {[0..(n - 1) -> Seq(Entry)] : n \in Nat}]

Chained(chain, h, size) ==
    /\ chain \in Seq(Entry)
    /\ \A j \in 1..Len(chain) : Hash[chain[j].key] % size = h
    /\ \A p, q \in 1..Len(chain) : chain[p].key = chain[q].key => p = q

Shape(ht) ==
    /\ ht \in Tables
    /\ ht.size \in {0} \union TableSizes
    /\ ht.table \in [0..(ht.size - 1) -> Seq(Entry)]
    /\ \A i \in 0..(ht.size - 1) : Chained(ht.table[i], i, ht.size)

(* No key is in two entries.                                                *)
OneEach(E) == E \subseteq Entry /\ \A x, y \in E : x.key = y.key => x = y

LEMMA SeqElements ==
    ASSUME NEW chain \in Seq(Entry)
    PROVE  /\ Len(chain) \in Nat
           /\ DOMAIN chain = 1..Len(chain)
           /\ \A i \in 1..Len(chain) : chain[i] \in Entry
           /\ ToSet(chain) = {chain[i] : i \in 1..Len(chain)}
           /\ ToSet(chain) \subseteq Entry
<1>1. \A i \in 1..Len(chain) : chain[i] \in Entry
  BY ElementOfSeq
<1>2. Len(chain) \in Nat /\ DOMAIN chain = 1..Len(chain)
  BY LenProperties
<1>3. ToSet(chain) = {chain[i] : i \in 1..Len(chain)}
  BY <1>2 DEF ToSet
<1>. QED
  BY <1>1, <1>2, <1>3

LEMMA SizeOfShape ==
    ASSUME NEW ht, Shape(ht)
    PROVE  /\ ht.size \in Nat /\ ht.used \in Nat
           /\ ht.size # 0 => ht.size \in Nat \ {0}
           /\ \A i \in 0..(ht.size - 1) : ht.table[i] \in Seq(Entry)
BY SizesPositive DEF Shape, Tables

(* What is in a table, by its places.                                       *)
LEMMA Places ==
    ASSUME NEW ht, Shape(ht)
    PROVE  /\ \A e : e \in EntriesOf(ht) <=>
                        \E i \in 0..(ht.size - 1) : \E j \in 1..Len(ht.table[i]) :
                            e = ht.table[i][j]
           /\ EntriesOf(ht) \subseteq Entry
<1>1. \A i \in 0..(ht.size - 1) : ht.table[i] \in Seq(Entry)
  BY SizeOfShape
<1>2. ASSUME NEW i \in 0..(ht.size - 1)
      PROVE  /\ ToSet(ht.table[i]) = {ht.table[i][j] : j \in 1..Len(ht.table[i])}
             /\ ToSet(ht.table[i]) \subseteq Entry
  BY <1>1, SeqElements
<1>3. EntriesOf(ht) \subseteq Entry
  BY <1>2 DEF EntriesOf
<1>4. ASSUME NEW e
      PROVE  e \in EntriesOf(ht) <=> \E i \in 0..(ht.size - 1) : e \in ToSet(ht.table[i])
  BY DEF EntriesOf
<1>5. ASSUME NEW e
      PROVE  e \in EntriesOf(ht) <=>
                \E i \in 0..(ht.size - 1) : \E j \in 1..Len(ht.table[i]) :
                    e = ht.table[i][j]
  <2>1. ASSUME NEW i \in 0..(ht.size - 1)
        PROVE  e \in ToSet(ht.table[i]) <=>
                  \E j \in 1..Len(ht.table[i]) : e = ht.table[i][j]
    BY <1>2
  <2>. QED
    BY <1>4, <2>1
<1>. QED
  BY <1>3, <1>5

LEMMA PlacedIn ==
    ASSUME NEW ht, Shape(ht), NEW i \in 0..(ht.size - 1), NEW j \in 1..Len(ht.table[i])
    PROVE  /\ ht.table[i][j] \in EntriesOf(ht) /\ ht.table[i][j] \in Entry
           /\ ht.table[i][j].key \in Keys
<1> DEFINE e == ht.table[i][j]
<1>1. \E m \in 0..(ht.size - 1) : \E q \in 1..Len(ht.table[m]) : e = ht.table[m][q]
  OBVIOUS
<1> HIDE DEF e
<1>2. e \in EntriesOf(ht) /\ e \in Entry
  BY <1>1, Places
<1>. QED
  BY <1>2 DEF e, Entry

(* A key has one place in a table.                                          *)
LEMMA OnePlace ==
    ASSUME NEW ht, Shape(ht), NEW i \in 0..(ht.size - 1), NEW m \in 0..(ht.size - 1),
           NEW p \in 1..Len(ht.table[i]), NEW q \in 1..Len(ht.table[m]),
           ht.table[i][p].key = ht.table[m][q].key
    PROVE  i = m /\ p = q
<1>1. Chained(ht.table[i], i, ht.size) /\ Chained(ht.table[m], m, ht.size)
  BY DEF Shape
<1>2. Hash[ht.table[i][p].key] % ht.size = i /\ Hash[ht.table[m][q].key] % ht.size = m
  BY <1>1 DEF Chained
<1>3. i = m
  BY <1>2
<1>. QED
  BY <1>1, <1>3 DEF Chained

LEMMA TableOneEach ==
    ASSUME NEW ht, Shape(ht)
    PROVE  OneEach(EntriesOf(ht))
<1>1. EntriesOf(ht) \subseteq Entry
  BY Places
<1>2. ASSUME NEW x \in EntriesOf(ht), NEW y \in EntriesOf(ht), x.key = y.key
      PROVE  x = y
  <2>1. PICK i \in 0..(ht.size - 1) : \E p \in 1..Len(ht.table[i]) : x = ht.table[i][p]
    BY Places
  <2>2. PICK p \in 1..Len(ht.table[i]) : x = ht.table[i][p]
    BY <2>1
  <2>3. PICK m \in 0..(ht.size - 1) : \E q \in 1..Len(ht.table[m]) : y = ht.table[m][q]
    BY Places
  <2>4. PICK q \in 1..Len(ht.table[m]) : y = ht.table[m][q]
    BY <2>3
  <2>5. ht.table[i][p].key = ht.table[m][q].key
    BY <1>2, <2>2, <2>4
  <2>6. i = m /\ p = q
    BY <2>5, OnePlace
  <2>. QED
    BY <2>2, <2>4, <2>6
<1>. QED
  BY <1>1, <1>2 DEF OneEach

(* Entries with different keys are no more than the keys.                   *)
LEMMA EntriesFinite ==
    ASSUME NEW E, OneEach(E)
    PROVE  /\ IsFiniteSet(E) /\ Cardinality(E) \in Nat
           /\ Cardinality(E) <= Cardinality(Keys)
           /\ Cardinality({e.key : e \in E}) = Cardinality(E)
           /\ IsFiniteSet({e.key : e \in E})
<1> DEFINE K == {e.key : e \in E}
           f == [e \in E |-> e.key]
<1>1. K \in SUBSET Keys
  BY DEF OneEach, Entry
<1>2. f \in Bijection(E, K)
  <2>1. f \in [E -> K]
    OBVIOUS
  <2>2. \A x, y \in E : f[x] = f[y] => x = y
    BY DEF OneEach
  <2>3. \A k \in K : \E e \in E : f[e] = k
    OBVIOUS
  <2> HIDE DEF f, K
  <2>. QED
    BY <2>1, <2>2, <2>3 DEF Bijection, Injection, Surjection, IsInjective
<1>3. IsFiniteSet(K) /\ Cardinality(K) <= Cardinality(Keys)
  <2> HIDE DEF K
  <2>. QED
    BY <1>1, FS_Subset, RoomAssumption
<1>4. f \in Injection(E, K) /\ f \in Surjection(E, K)
  <2> HIDE DEF f, K
  <2>. QED
    BY <1>2 DEF Bijection
<1>5. IsFiniteSet(E) /\ Cardinality(E) = Cardinality(K)
  <2> HIDE DEF f, K
  <2>. QED
    BY <1>3, <1>4, FS_Injection
<1>6. Cardinality(E) \in Nat
  BY <1>5, FS_CardinalityType
<1>. QED
  BY <1>3, <1>5, <1>6

(* Chains that are changed at one place.                                    *)
Fresh(e, c, h, size) ==
    e \in Entry /\ Hash[e.key] % size = h /\ \A i \in 1..Len(c) : c[i].key # e.key
IsCons(b, e, c) == b = <<e>> \o c

LEMMA ConsChain ==
    ASSUME NEW c, NEW h, NEW size, Chained(c, h, size), NEW e, Fresh(e, c, h, size),
           NEW b, IsCons(b, e, c)
    PROVE  /\ Chained(b, h, size) /\ ToSet(b) = ToSet(c) \union {e}
           /\ Len(b) = Len(c) + 1 /\ b[1] = e
           /\ \A i \in 1..Len(c) : b[i + 1] = c[i]
<1> USE DEF Fresh
<1>1. c \in Seq(Entry) /\ Len(c) \in Nat
  BY SeqElements DEF Chained
<1>2. <<e>> \in Seq(Entry) /\ Len(<<e>>) = 1 /\ <<e>>[1] = e
  OBVIOUS
<1>3. /\ b \in Seq(Entry) /\ Len(b) = 1 + Len(c)
      /\ \A i \in 1..(1 + Len(c)) : b[i] = IF i <= 1 THEN <<e>>[i] ELSE c[i - 1]
  BY <1>1, <1>2, ConcatProperties DEF IsCons
<1>4. b[1] = e /\ Len(b) = Len(c) + 1
  BY <1>1, <1>2, <1>3
<1>5. \A i \in 1..Len(b) : i # 1 => i - 1 \in 1..Len(c) /\ b[i] = c[i - 1]
  BY <1>1, <1>3
<1>6. \A i \in 1..Len(c) : i + 1 \in 1..Len(b) /\ b[i + 1] = c[i]
  BY <1>1, <1>3
<1>7. \A i \in 1..Len(b) : Hash[b[i].key] % size = h
  BY <1>4, <1>5 DEF Chained
<1>8. ASSUME NEW p \in 1..Len(b), NEW q \in 1..Len(b), b[p].key = b[q].key PROVE p = q
  <2>1. CASE p = 1 /\ q # 1
    BY <1>4, <1>5, <1>8, <2>1
  <2>2. CASE q = 1 /\ p # 1
    BY <1>4, <1>5, <1>8, <2>2
  <2>3. CASE p # 1 /\ q # 1
    <3>1. /\ p - 1 \in 1..Len(c) /\ b[p] = c[p - 1]
          /\ q - 1 \in 1..Len(c) /\ b[q] = c[q - 1]
      BY <1>5, <2>3
    <3>2. c[p - 1].key = c[q - 1].key
      BY <1>8, <3>1
    <3>3. p - 1 = q - 1
      BY <3>1, <3>2 DEF Chained
    <3>. QED
      BY <3>3
  <2>. QED
    BY <2>1, <2>2, <2>3
<1>9. ToSet(b) = ToSet(c) \union {e}
  <2>1. /\ ToSet(b) = {b[i] : i \in 1..Len(b)} /\ ToSet(c) = {c[i] : i \in 1..Len(c)}
    BY <1>1, <1>3, SeqElements
  <2>2. 1 \in 1..Len(b)
    BY <1>1, <1>4
  <2>3. ToSet(b) \subseteq ToSet(c) \union {e}
    <3> SUFFICES ASSUME NEW i \in 1..Len(b) PROVE b[i] \in ToSet(c) \union {e}
      BY <2>1
    <3>1. CASE i = 1
      BY <1>4, <3>1
    <3>2. CASE i # 1
      BY <1>5, <2>1, <3>2
    <3>. QED
      BY <3>1, <3>2
  <2>4. ToSet(c) \union {e} \subseteq ToSet(b)
    BY <1>4, <1>6, <2>1, <2>2
  <2>. QED
    BY <2>3, <2>4
<1>. QED
  BY <1>3, <1>4, <1>6, <1>7, <1>8, <1>9 DEF Chained

LEMMA ReplaceChain ==
    ASSUME NEW c, NEW h, NEW size, Chained(c, h, size), NEW p \in 1..Len(c),
           NEW e \in Entry, e.key = c[p].key, NEW b, b = ReplaceAt(c, p, e)
    PROVE  /\ Chained(b, h, size) /\ ToSet(b) = (ToSet(c) \ {c[p]}) \union {e}
           /\ Len(b) = Len(c) /\ \A i \in 1..Len(c) : b[i].key = c[i].key
<1>1. c \in Seq(Entry) /\ Len(c) \in Nat
  BY SeqElements DEF Chained
<1>2. /\ b \in Seq(Entry) /\ Len(b) = Len(c)
      /\ \A j \in 1..Len(c) : b[j] = IF j = p THEN e ELSE c[j]
  BY <1>1, ExceptSeq DEF ReplaceAt
<1>3. \A i \in 1..Len(c) : b[i].key = c[i].key
  BY <1>2
<1>4. Chained(b, h, size)
  BY <1>2, <1>3 DEF Chained
<1>5. ToSet(b) = (ToSet(c) \ {c[p]}) \union {e}
  <2>1. /\ ToSet(b) = {b[i] : i \in 1..Len(b)} /\ ToSet(c) = {c[i] : i \in 1..Len(c)}
    BY <1>1, <1>2, SeqElements
  <2>2. \A i \in 1..Len(c) : i # p => c[i] # c[p]
    BY DEF Chained
  <2>3. ToSet(b) \subseteq (ToSet(c) \ {c[p]}) \union {e}
    BY <1>2, <2>1, <2>2
  <2>4. (ToSet(c) \ {c[p]}) \union {e} \subseteq ToSet(b)
    BY <1>2, <2>1
  <2>. QED
    BY <2>3, <2>4
<1>. QED
  BY <1>2, <1>3, <1>4, <1>5

LEMMA RemoveChain ==
    ASSUME NEW c, NEW h, NEW size, Chained(c, h, size), NEW p \in 1..Len(c),
           NEW b, b = RemoveAt(c, p)
    PROVE  /\ Chained(b, h, size) /\ ToSet(b) = ToSet(c) \ {c[p]}
           /\ Len(b) = Len(c) - 1
           /\ \A i \in 1..Len(b) : b[i] = IF i < p THEN c[i] ELSE c[i + 1]
<1>1. c \in Seq(Entry) /\ Len(c) \in Nat /\ \A i \in 1..Len(c) : c[i] \in Entry
  BY SeqElements DEF Chained
<1> DEFINE a1 == SubSeq(c, 1, p - 1)
           a2 == SubSeq(c, p + 1, Len(c))
<1>2. /\ a1 \in Seq(Entry) /\ Len(a1) = p - 1
      /\ \A i \in 1..(p - 1) : a1[i] = c[i]
  <2>1. \A i \in 1..(p - 1) : c[i] \in Entry
    BY <1>1
  <2>2. /\ a1 \in Seq(Entry) /\ Len(a1) = IF 1 <= p - 1 THEN p - 1 - 1 + 1 ELSE 0
        /\ \A i \in 1..(p - 1 - 1 + 1) : a1[i] = c[1 + i - 1]
    BY <1>1, <2>1, SubSeqProperties
  <2> HIDE DEF a1
  <2>. QED
    BY <1>1, <2>2
<1>3. /\ a2 \in Seq(Entry) /\ Len(a2) = Len(c) - p
      /\ \A i \in 1..(Len(c) - p) : a2[i] = c[p + i]
  <2>1. \A i \in (p + 1)..Len(c) : c[i] \in Entry
    BY <1>1
  <2>2. /\ a2 \in Seq(Entry)
        /\ Len(a2) = IF p + 1 <= Len(c) THEN Len(c) - (p + 1) + 1 ELSE 0
        /\ \A i \in 1..(Len(c) - (p + 1) + 1) : a2[i] = c[p + 1 + i - 1]
    BY <1>1, <2>1, SubSeqProperties
  <2> HIDE DEF a2
  <2>3. Len(a2) = Len(c) - p
    BY <1>1, <2>2
  <2>4. ASSUME NEW i \in 1..(Len(c) - p) PROVE a2[i] = c[p + i]
    <3>1. p + 1 + i - 1 = p + i /\ i \in 1..(Len(c) - (p + 1) + 1)
      BY <1>1
    <3>. QED
      BY <2>2, <3>1
  <2>. QED
    BY <2>2, <2>3, <2>4
<1>4. b = a1 \o a2
  BY DEF RemoveAt
<1> HIDE DEF a1, a2
<1>5. /\ b \in Seq(Entry) /\ Len(b) = Len(a1) + Len(a2)
      /\ \A i \in 1..(Len(a1) + Len(a2)) :
            b[i] = IF i <= Len(a1) THEN a1[i] ELSE a2[i - Len(a1)]
  <2>1. a1 \in Seq(Entry) /\ a2 \in Seq(Entry)
    BY <1>2, <1>3
  <2>2. /\ a1 \o a2 \in Seq(Entry) /\ Len(a1 \o a2) = Len(a1) + Len(a2)
        /\ \A i \in 1..(Len(a1) + Len(a2)) :
              (a1 \o a2)[i] = IF i <= Len(a1) THEN a1[i] ELSE a2[i - Len(a1)]
    BY <2>1, ConcatProperties
  <2>. QED
    BY <1>4, <2>2
<1>6. Len(b) = Len(c) - 1 /\ Len(b) \in Nat
  BY <1>1, <1>2, <1>3, <1>5
<1>7. ASSUME NEW i \in 1..Len(b) PROVE b[i] = IF i < p THEN c[i] ELSE c[i + 1]
  <2>1. CASE i < p
    BY <1>1, <1>2, <1>5, <1>6, <2>1
  <2>2. CASE ~(i < p)
    <3>1. b[i] = a2[i - (p - 1)] /\ i - (p - 1) \in 1..(Len(c) - p)
      BY <1>1, <1>2, <1>5, <1>6, <2>2
    <3>2. p + (i - (p - 1)) = i + 1
      BY <1>6
    <3>. QED
      BY <1>3, <2>2, <3>1, <3>2
  <2>. QED
    BY <2>1, <2>2
<1> DEFINE from(i) == IF i < p THEN i ELSE i + 1
<1>8. ASSUME NEW i \in 1..Len(b)
      PROVE  from(i) \in 1..Len(c) /\ from(i) # p /\ b[i] = c[from(i)]
  <2>1. CASE i < p
    BY <1>1, <1>6, <1>7, <2>1
  <2>2. CASE ~(i < p)
    BY <1>1, <1>6, <1>7, <2>2
  <2>. QED
    BY <2>1, <2>2
<1>9. Chained(b, h, size)
  <2>1. \A i \in 1..Len(b) : Hash[b[i].key] % size = h
    BY <1>8 DEF Chained
  <2>2. ASSUME NEW i \in 1..Len(b), NEW j \in 1..Len(b), b[i].key = b[j].key PROVE i = j
    <3>1. from(i) = from(j)
      BY <1>8, <2>2 DEF Chained
    <3>. QED
      BY <1>1, <1>6, <3>1
  <2>. QED
    BY <1>5, <2>1, <2>2 DEF Chained
<1>10. ToSet(b) = ToSet(c) \ {c[p]}
  <2>1. /\ ToSet(b) = {b[i] : i \in 1..Len(b)} /\ ToSet(c) = {c[i] : i \in 1..Len(c)}
    BY <1>1, <1>5, SeqElements
  <2>2. \A i \in 1..Len(c) : i # p => c[i] # c[p]
    BY DEF Chained
  <2>3. ToSet(b) \subseteq ToSet(c) \ {c[p]}
    <3> HIDE DEF from
    <3>. QED
      BY <1>8, <2>1, <2>2
  <2>4. ASSUME NEW i \in 1..Len(c), i # p PROVE c[i] \in ToSet(b)
    <3>1. CASE i < p
      BY <1>1, <1>6, <1>7, <2>1, <3>1
    <3>2. CASE i > p
      <4>1. i - 1 \in 1..Len(b) /\ b[i - 1] = c[i]
        BY <1>1, <1>6, <1>7, <3>2
      <4>. QED
        BY <2>1, <4>1
    <3>. QED
      BY <1>1, <2>4, <3>1, <3>2
  <2>. QED
    BY <2>1, <2>3, <2>4
<1>. QED
  BY <1>6, <1>7, <1>9, <1>10

LEMMA EmptyChain == ASSUME NEW h, NEW size
                    PROVE  Chained(<<>>, h, size) /\ ToSet(<<>>) = {}
<1>1. <<>> \in Seq(Entry) /\ Len(<<>>) = 0
  BY EmptySeq
<1>2. ToSet(<<>>) = {}
  BY DEF ToSet
<1>. QED
  BY <1>1, <1>2 DEF Chained

LEMMA ChainCardinality ==
    ASSUME NEW c, NEW h, NEW size, Chained(c, h, size)
    PROVE  IsFiniteSet(ToSet(c)) /\ Cardinality(ToSet(c)) = Len(c) /\ Len(c) \in Nat
<1> DEFINE T == ToSet(c)
           f == [i \in 1..Len(c) |-> c[i]]
<1>1. Len(c) \in Nat /\ T = {c[i] : i \in 1..Len(c)}
  BY SeqElements DEF Chained
<1>2. f \in [1..Len(c) -> T]
  BY <1>1
<1>3. \A p, q \in 1..Len(c) : f[p] = f[q] => p = q
  BY DEF Chained
<1>4. \A t \in T : \E i \in 1..Len(c) : f[i] = t
  BY <1>1
<1> HIDE DEF f, T
<1>5. f \in Surjection(1..Len(c), T) /\ f \in Injection(1..Len(c), T)
  <2> DEFINE I == 1..Len(c)
  <2>1. /\ f \in [I -> T] /\ (\A p, q \in I : f[p] = f[q] => p = q)
        /\ \A t \in T : \E i \in I : f[i] = t
    BY <1>2, <1>3, <1>4
  <2> HIDE DEF I
  <2>2. f \in Surjection(I, T)
    BY <2>1 DEF Surjection
  <2>3. f \in Injection(I, T)
    BY <2>1 DEF Injection, IsInjective
  <2>. QED
    BY <2>2, <2>3 DEF I
<1>6. IsFiniteSet(1..Len(c)) /\ Cardinality(1..Len(c)) = Len(c)
  <2> DEFINE n == Len(c)
  <2>1. n \in Nat
    BY <1>1
  <2> HIDE DEF n
  <2>2. IsFiniteSet(1..n) /\ Cardinality(1..n) = IF 1 > n THEN 0 ELSE n - 1 + 1
    BY <2>1, FS_Interval
  <2>3. Cardinality(1..n) = n
    BY <2>1, <2>2
  <2>. QED
    BY <2>2, <2>3 DEF n
<1>7. IsFiniteSet(T) /\ Cardinality(T) = Cardinality(1..Len(c))
  <2> DEFINE I == 1..Len(c)
  <2>1. f \in Surjection(I, T) /\ f \in Injection(I, T) /\ IsFiniteSet(I)
    BY <1>5, <1>6
  <2> HIDE DEF I
  <2>2. /\ IsFiniteSet(T) /\ Cardinality(T) <= Cardinality(I)
        /\ Cardinality(T) = Cardinality(I) <=> f \in Injection(I, T)
    BY <2>1, FS_Surjection
  <2>. QED
    BY <2>1, <2>2 DEF I
<1>. QED
  BY <1>1, <1>6, <1>7 DEF T

(* A table with another chain in one of its buckets.                        *)
LEMMA RechainedShape ==
    ASSUME NEW ht, Shape(ht), NEW h \in 0..(ht.size - 1), NEW c, Chained(c, h, ht.size),
           NEW u \in Nat, NEW r, r = Rechained(ht, h, c, u)
    PROVE  /\ Shape(r) /\ r.size = ht.size /\ r.used = u
           /\ r.table = [ht.table EXCEPT ![h] = c]
           /\ EntriesOf(r) = (EntriesOf(ht) \ ToSet(ht.table[h])) \union ToSet(c)
<1>1. /\ ht \in Tables /\ ht.size \in Nat /\ c \in Seq(Entry)
      /\ ht.table \in [0..(ht.size - 1) -> Seq(Entry)]
  BY DEF Shape, Tables, Chained
<1> DEFINE T == [ht.table EXCEPT ![h] = c]
<1>2. T \in [0..(ht.size - 1) -> Seq(Entry)] /\ T[h] = c
  BY <1>1
<1>3. \A i \in 0..(ht.size - 1) : i # h => T[i] = ht.table[i]
  BY <1>1
<1>4. r = [size |-> ht.size, used |-> u, table |-> T]
  BY <1>1 DEF Rechained, Tables
<1>5. r.size = ht.size /\ r.used = u /\ r.table = T
  BY <1>4
<1> HIDE DEF T
<1>6. r \in Tables
  <2>1. T \in UNION {[0..(n - 1) -> Seq(Entry)] : n \in Nat}
    BY <1>1, <1>2
  <2>. QED
    BY <1>1, <1>4, <2>1 DEF Tables
<1>7. \A i \in 0..(ht.size - 1) : Chained(T[i], i, ht.size)
  BY <1>2, <1>3 DEF Shape
<1>8. Shape(r)
  BY <1>2, <1>5, <1>6, <1>7 DEF Shape
<1>9. EntriesOf(r) = (EntriesOf(ht) \ ToSet(ht.table[h])) \union ToSet(c)
  <2>1. \A e : e \in EntriesOf(r) <=> \E i \in 0..(ht.size - 1) : e \in ToSet(T[i])
    BY <1>5 DEF EntriesOf
  <2>2. \A e : e \in EntriesOf(ht) <=> \E i \in 0..(ht.size - 1) : e \in ToSet(ht.table[i])
    BY DEF EntriesOf
  <2>3. ASSUME NEW i \in 0..(ht.size - 1), i # h, NEW e \in ToSet(ht.table[i])
        PROVE  e \notin ToSet(ht.table[h])
    <3>1. PICK p \in 1..Len(ht.table[i]) : e = ht.table[i][p]
      <4> DEFINE t == ht.table[i]
      <4>1. t \in Seq(Entry) /\ e \in ToSet(t)
        BY <1>1, <2>3
      <4> HIDE DEF t
      <4>2. \E p \in 1..Len(t) : e = t[p]
        BY <4>1, SeqElements
      <4>. QED
        BY <4>2 DEF t
    <3>2. ASSUME NEW q \in 1..Len(ht.table[h]), e = ht.table[h][q] PROVE FALSE
      <4>1. ht.table[i][p].key = ht.table[h][q].key
        BY <3>1, <3>2
      <4>. QED
        BY <2>3, <4>1, OnePlace
    <3>3. ToSet(ht.table[h]) = {ht.table[h][q] : q \in 1..Len(ht.table[h])}
      BY <1>1, SeqElements
    <3>. QED
      BY <3>2, <3>3
  <2>. QED
    BY <1>2, <1>3, <2>1, <2>2, <2>3
<1>. QED
  BY <1>5, <1>8, <1>9 DEF T

(* A table whose count is exact.                                            *)
Full(ht) == Shape(ht) /\ ht.used = Cardinality(EntriesOf(ht))
KeysIn(ht) == {e.key : e \in EntriesOf(ht)}

LEMMA HashInRange ==
    ASSUME NEW k \in Keys, NEW ht, Shape(ht), ht.size # 0
    PROVE  Hash[k] % ht.size \in 0..(ht.size - 1)
<1>1. ht.size \in Nat \ {0} /\ Hash[k] \in Nat
  BY SizeOfShape, HashNat
<1> DEFINE n == ht.size
           x == Hash[k]
<1>2. n \in Nat \ {0} /\ x \in Nat
  BY <1>1
<1> HIDE DEF n, x
<1>3. x % n \in 0..(n - 1)
  BY <1>2
<1>. QED
  BY <1>3 DEF n, x

LEMMA FullFinite ==
    ASSUME NEW ht, Full(ht)
    PROVE  /\ IsFiniteSet(EntriesOf(ht)) /\ ht.used \in Nat
           /\ Cardinality(EntriesOf(ht)) = ht.used
           /\ Cardinality(KeysIn(ht)) = ht.used /\ IsFiniteSet(KeysIn(ht))
           /\ ht.used <= Cardinality(Keys)
<1>1. OneEach(EntriesOf(ht))
  BY TableOneEach DEF Full
<1>. QED
  BY <1>1, EntriesFinite DEF Full, KeysIn

(* A new entry at the head of its chain.                                    *)
IsLinked(r, ht, e) == r = Linked(ht, e)
LinkMade(r, ht, e, h) ==
    /\ r.table = [ht.table EXCEPT ![h] = <<e>> \o ht.table[h]]
    /\ h \in 0..(ht.size - 1)

LEMMA LinkedFull ==
    ASSUME NEW ht, Full(ht), ht.size # 0, NEW e \in Entry, e.key \notin KeysIn(ht),
           NEW r, IsLinked(r, ht, e)
    PROVE  /\ Full(r) /\ r.size = ht.size /\ EntriesOf(r) = EntriesOf(ht) \union {e}
           /\ LinkMade(r, ht, e, Hash[e.key] % ht.size)
<1> DEFINE h == Hash[e.key] % ht.size
<1>1. Shape(ht) /\ e.key \in Keys
  BY DEF Full, Entry
<1>2. h \in 0..(ht.size - 1)
  BY <1>1, HashInRange
<1>0. r = Linked(ht, e) /\ Linked(ht, e) = Rechained(ht, h, <<e>> \o ht.table[h], ht.used + 1)
  BY DEF IsLinked, Linked
<1> HIDE DEF h
<1> DEFINE c == ht.table[h]
           b == <<e>> \o c
<1>3. Chained(c, h, ht.size)
  BY <1>1, <1>2 DEF Shape
<1>4. \A i \in 1..Len(c) : c[i].key # e.key
  <2>1. ASSUME NEW i \in 1..Len(c) PROVE c[i] \in EntriesOf(ht)
    BY <1>1, <1>2, PlacedIn
  <2>. QED
    BY <2>1 DEF KeysIn
<1>5. ht.used \in Nat /\ IsFiniteSet(EntriesOf(ht)) /\ e \notin EntriesOf(ht)
  BY FullFinite DEF KeysIn
<1>6. Chained(b, h, ht.size) /\ ToSet(b) = ToSet(c) \union {e}
  <2>0. IsCons(b, e, c)
    BY DEF IsCons
  <2> HIDE DEF c, b
  <2>1. IsCons(b, e, c) /\ Fresh(e, c, h, ht.size)
    BY <2>0, <1>4 DEF Fresh, h
  <2>. QED
    BY <1>3, <2>1, ConsChain
<1>7. r = Rechained(ht, h, b, ht.used + 1)
  BY <1>0
<1>8. ToSet(c) \subseteq EntriesOf(ht)
  BY <1>2 DEF EntriesOf
<1> HIDE DEF b
<1>9. /\ Shape(r) /\ r.size = ht.size /\ r.used = ht.used + 1
      /\ r.table = [ht.table EXCEPT ![h] = b]
      /\ EntriesOf(r) = (EntriesOf(ht) \ ToSet(c)) \union ToSet(b)
  BY <1>1, <1>2, <1>5, <1>6, <1>7, RechainedShape
<1>10. EntriesOf(r) = EntriesOf(ht) \union {e}
  <2> HIDE DEF c
  <2>. QED
    BY <1>6, <1>8, <1>9
<1>11. Cardinality(EntriesOf(r)) = ht.used + 1
  BY <1>5, <1>10, FS_AddElement DEF Full
<1>12. LinkMade(r, ht, e, h)
  BY <1>2, <1>9 DEF LinkMade, b
<1>13. Full(r)
  BY <1>9, <1>11 DEF Full
<1>. QED
  BY <1>9, <1>10, <1>12, <1>13 DEF h

(* A bucket that is emptied.                                                *)
LEMMA ClearedFull ==
    ASSUME NEW ht, Full(ht), NEW h \in 0..(ht.size - 1),
           NEW r, r = Rechained(ht, h, <<>>, ht.used - Len(ht.table[h]))
    PROVE  /\ Full(r) /\ r.size = ht.size /\ r.table = [ht.table EXCEPT ![h] = <<>>]
           /\ EntriesOf(r) = EntriesOf(ht) \ ToSet(ht.table[h])
<1> DEFINE c == ht.table[h]
           E == EntriesOf(ht)
           T == ToSet(c)
<1>1. Shape(ht) /\ IsFiniteSet(E) /\ ht.used = Cardinality(E) /\ ht.used \in Nat
  BY FullFinite DEF Full
<1>2. Chained(c, h, ht.size) /\ Chained(<<>>, h, ht.size) /\ ToSet(<<>>) = {}
  BY <1>1, EmptyChain DEF Shape
<1>3. IsFiniteSet(T) /\ Cardinality(T) = Len(c) /\ Len(c) \in Nat
  <2> HIDE DEF c
  <2>. QED
    BY <1>2, ChainCardinality
<1>4. T \in SUBSET E
  BY DEF EntriesOf
<1> HIDE DEF T, E
<1>5. Cardinality(T) <= Cardinality(E)
  BY <1>1, <1>4, FS_Subset
<1>6. E \ T \in SUBSET E /\ (E \ T) \union T = E /\ (E \ T) \intersect T = {}
  BY <1>4
<1>7. IsFiniteSet(E \ T) /\ Cardinality(E \ T) \in Nat
  BY <1>1, <1>6, FS_Subset, FS_CardinalityType
<1>8. Cardinality((E \ T) \union T)
        = Cardinality(E \ T) + Cardinality(T) - Cardinality((E \ T) \intersect T)
  BY <1>3, <1>7, FS_Union
<1>9. Cardinality(E \ T) = ht.used - Len(c) /\ ht.used - Len(c) \in Nat
  <2>1. Cardinality((E \ T) \union T) = ht.used /\ Cardinality((E \ T) \intersect T) = 0
    BY <1>1, <1>6, FS_EmptySet, Zenon
  <2> DEFINE x == Cardinality(E \ T)
             y == Cardinality(T)
  <2>2. x \in Nat /\ y \in Nat /\ ht.used = x + y - 0 /\ y = Len(c)
    BY <1>3, <1>7, <1>8, <2>1
  <2>3. x = ht.used - y
    <3> HIDE DEF x, y
    <3>. QED
      BY <1>1, <2>2
  <2>. QED
    BY <2>2, <2>3
<1>10. r = Rechained(ht, h, <<>>, ht.used - Len(c))
  OBVIOUS
<1>11. /\ Shape(r) /\ r.size = ht.size /\ r.used = ht.used - Len(c)
       /\ r.table = [ht.table EXCEPT ![h] = <<>>]
       /\ EntriesOf(r) = (EntriesOf(ht) \ ToSet(ht.table[h])) \union ToSet(<<>>)
  <2> DEFINE u == ht.used - Len(c)
  <2>1. u \in Nat /\ r = Rechained(ht, h, <<>>, u)
    BY <1>9, <1>10
  <2> HIDE DEF u
  <2>2. /\ Shape(r) /\ r.size = ht.size /\ r.used = u
        /\ r.table = [ht.table EXCEPT ![h] = <<>>]
        /\ EntriesOf(r) = (EntriesOf(ht) \ ToSet(ht.table[h])) \union ToSet(<<>>)
    BY <1>1, <1>2, <2>1, RechainedShape
  <2>. QED
    BY <2>2 DEF u
<1>12. EntriesOf(r) = EntriesOf(ht) \ ToSet(ht.table[h])
  BY <1>2, <1>11
<1>. QED
  BY <1>9, <1>11, <1>12 DEF Full, E, T

(* An entry that gets another value, and one that is unlinked: r is ht with *)
(* the chain b in bucket h.                                                 *)
SetAt(ht, r, h, p, b, e) ==
    b = ReplaceAt(ht.table[h], p, e) /\ r = Rechained(ht, h, b, ht.used)
CutAt(ht, r, h, p, b) ==
    b = RemoveAt(ht.table[h], p) /\ r = Rechained(ht, h, b, ht.used - 1)

SetMade(ht, r, h, p, b, e) ==
    /\ Full(r) /\ r.size = ht.size /\ r.table = [ht.table EXCEPT ![h] = b]
    /\ EntriesOf(r) = (EntriesOf(ht) \ {ht.table[h][p]}) \union {e}
    /\ Len(b) = Len(ht.table[h])
    /\ \A i \in 1..Len(b) : b[i].key = ht.table[h][i].key
CutMade(ht, r, h, p, b) ==
    /\ Full(r) /\ r.size = ht.size /\ r.table = [ht.table EXCEPT ![h] = b]
    /\ EntriesOf(r) = EntriesOf(ht) \ {ht.table[h][p]}
    /\ Len(b) = Len(ht.table[h]) - 1
    /\ \A i \in 1..Len(b) : b[i] = IF i < p THEN ht.table[h][i] ELSE ht.table[h][i + 1]

LEMMA ReplacedFull ==
    ASSUME NEW ht, Full(ht), NEW h \in 0..(ht.size - 1), NEW p \in 1..Len(ht.table[h]),
           NEW e \in Entry, e.key = ht.table[h][p].key, NEW b, NEW r,
           SetAt(ht, r, h, p, b, e)
    PROVE  SetMade(ht, r, h, p, b, e)
<1> DEFINE c == ht.table[h]
           E == EntriesOf(ht)
           x == c[p]
<1>1. Shape(ht) /\ IsFiniteSet(E) /\ ht.used = Cardinality(E) /\ ht.used \in Nat
  BY FullFinite DEF Full
<1>2. Chained(c, h, ht.size)
  BY <1>1 DEF Shape
<1>3. /\ Chained(b, h, ht.size) /\ ToSet(b) = (ToSet(c) \ {x}) \union {e}
      /\ Len(b) = Len(c) /\ \A i \in 1..Len(c) : b[i].key = c[i].key
  <2> HIDE DEF c
  <2>. QED
    BY <1>2, ReplaceChain DEF c, SetAt
<1>4. /\ Shape(r) /\ r.size = ht.size /\ r.used = ht.used
      /\ r.table = [ht.table EXCEPT ![h] = b]
      /\ EntriesOf(r) = (EntriesOf(ht) \ ToSet(c)) \union ToSet(b)
  <2> DEFINE u == ht.used
  <2>1. u \in Nat /\ r = Rechained(ht, h, b, u)
    BY <1>1 DEF SetAt
  <2> HIDE DEF u
  <2>2. /\ Shape(r) /\ r.size = ht.size /\ r.used = u
        /\ r.table = [ht.table EXCEPT ![h] = b]
        /\ EntriesOf(r) = (EntriesOf(ht) \ ToSet(c)) \union ToSet(b)
    BY <1>1, <1>3, <2>1, RechainedShape
  <2>. QED
    BY <2>2 DEF u
<1>5. ToSet(c) \subseteq E /\ x \in E /\ x \in ToSet(c)
  <2>1. x \in ToSet(c)
    <3>1. c \in Seq(Entry)
      BY <1>2 DEF Chained
    <3>. QED
      BY <3>1, SeqElements
  <2>. QED
    BY <2>1 DEF EntriesOf
<1>6. \A y \in E : y.key = x.key => y = x
  BY <1>1, <1>5, TableOneEach DEF OneEach
<1>7. e \in E => e = x
  BY <1>6
<1>8. EntriesOf(r) = (E \ {x}) \union {e}
  <2> HIDE DEF c, x, E
  <2>. QED
    BY <1>3, <1>4, <1>5 DEF E
<1>9. Cardinality(EntriesOf(r)) = ht.used
  <2> HIDE DEF x, E
  <2>1. IsFiniteSet(E \ {x}) /\ Cardinality(E \ {x}) = ht.used - 1
    BY <1>1, <1>5, FS_RemoveElement
  <2>2. e \notin E \ {x}
    BY <1>7
  <2>3. Cardinality((E \ {x}) \union {e}) = ht.used - 1 + 1
    BY <2>1, <2>2, FS_AddElement
  <2>4. Cardinality(EntriesOf(r)) = ht.used - 1 + 1
    BY <1>8, <2>3, Zenon
  <2>. QED
    BY <1>1, <2>4
<1>. QED
  BY <1>3, <1>4, <1>8, <1>9 DEF Full, SetMade

LEMMA RemovedFull ==
    ASSUME NEW ht, Full(ht), NEW h \in 0..(ht.size - 1), NEW p \in 1..Len(ht.table[h]),
           NEW b, NEW r, CutAt(ht, r, h, p, b)
    PROVE  CutMade(ht, r, h, p, b)
<1> DEFINE c == ht.table[h]
           E == EntriesOf(ht)
           x == c[p]
<1>1. Shape(ht) /\ IsFiniteSet(E) /\ ht.used = Cardinality(E) /\ ht.used \in Nat
  BY FullFinite DEF Full
<1>2. Chained(c, h, ht.size)
  BY <1>1 DEF Shape
<1>3. /\ Chained(b, h, ht.size) /\ ToSet(b) = ToSet(c) \ {x}
      /\ Len(b) = Len(c) - 1 /\ \A i \in 1..Len(b) : b[i] = IF i < p THEN c[i] ELSE c[i + 1]
  <2>1. b = RemoveAt(c, p) /\ p \in 1..Len(c)
    BY DEF CutAt
  <2> HIDE DEF c
  <2>. QED
    BY <1>2, <2>1, RemoveChain
<1>4. ToSet(c) \subseteq E /\ x \in E /\ x \in ToSet(c)
  <2>1. x \in ToSet(c)
    <3>1. c \in Seq(Entry)
      BY <1>2 DEF Chained
    <3>. QED
      BY <3>1, SeqElements
  <2>. QED
    BY <2>1 DEF EntriesOf
<1>5. /\ IsFiniteSet(E \ {x}) /\ Cardinality(E \ {x}) = ht.used - 1
      /\ ht.used - 1 \in Nat
  <2> HIDE DEF x, E
  <2>1. IsFiniteSet(E \ {x}) /\ Cardinality(E \ {x}) = ht.used - 1
    BY <1>1, <1>4, FS_RemoveElement
  <2>. QED
    BY <1>1, <2>1, FS_CardinalityType
<1>6. /\ Shape(r) /\ r.size = ht.size /\ r.used = ht.used - 1
      /\ r.table = [ht.table EXCEPT ![h] = b]
      /\ EntriesOf(r) = (EntriesOf(ht) \ ToSet(c)) \union ToSet(b)
  <2> DEFINE u == ht.used - 1
  <2>1. u \in Nat /\ r = Rechained(ht, h, b, u) /\ Chained(b, h, ht.size)
    BY <1>3, <1>5 DEF CutAt
  <2> HIDE DEF u
  <2>2. /\ Shape(r) /\ r.size = ht.size /\ r.used = u
        /\ r.table = [ht.table EXCEPT ![h] = b]
        /\ EntriesOf(r) = (EntriesOf(ht) \ ToSet(ht.table[h])) \union ToSet(b)
    BY <1>1, <2>1, RechainedShape
  <2>. QED
    BY <2>2 DEF u
<1>7. EntriesOf(r) = E \ {x}
  <2> HIDE DEF c, x, E
  <2>. QED
    BY <1>3, <1>4, <1>6 DEF E
<1>. QED
  BY <1>3, <1>5, <1>6, <1>7 DEF Full, CutMade

----------------------------------------------------------------------------
(* The rehash.  Two tables without a common key.                            *)
Dicts == [ht0 : Tables, ht1 : Tables, rehashidx : Int, iterators : Nat]

Apart(D) ==
    /\ D \in Dicts /\ Full(D.ht0) /\ Full(D.ht1)
    /\ KeysIn(D.ht0) \intersect KeysIn(D.ht1) = {}

(* Between two passes of dictRehash: ht[0] is empty below rehashidx, which  *)
(* may have come to its end.                                                *)
Moving(D) ==
    /\ Apart(D) /\ D.ht1.size # 0
    /\ D.rehashidx \in 0..D.ht0.size
    /\ \A i \in 0..(D.rehashidx - 1) : D.ht0.table[i] = <<>>

Same(D, F) == Entries(F) = Entries(D) /\ F.iterators = D.iterators

(* Tables of one size with any chains, which Linked does not leave.         *)
Sized(n) == {ht \in Tables : ht.size = n /\ ht.table \in [0..(n - 1) -> Seq(Entry)]}

LEMMA LinkedSized ==
    ASSUME NEW n \in Nat \ {0}, NEW ht \in Sized(n), NEW e \in Entry
    PROVE  Linked(ht, e) \in Sized(n)
<1> DEFINE h == Hash[e.key] % n
           b == <<e>> \o ht.table[h]
           T == [ht.table EXCEPT ![h] = b]
<1>1. ht \in Tables /\ ht.size = n /\ ht.table \in [0..(n - 1) -> Seq(Entry)]
  BY DEF Sized
<1>2. h \in 0..(n - 1)
  <2>1. Hash[e.key] \in Nat
    BY HashNat DEF Entry
  <2>. QED
    BY <2>1
<1>3. b \in Seq(Entry)
  <2>1. ht.table[h] \in Seq(Entry) /\ <<e>> \in Seq(Entry)
    BY <1>1, <1>2
  <2>. QED
    BY <2>1, ConcatProperties
<1>4. T \in [0..(n - 1) -> Seq(Entry)]
  <2> HIDE DEF h, b
  <2>. QED
    BY <1>1, <1>2, <1>3
<1> DEFINE r == Linked(ht, e)
<1>5. r = [size |-> n, used |-> ht.used + 1, table |-> T]
  <2>1. r = Rechained(ht, h, b, ht.used + 1)
    BY <1>1 DEF Linked
  <2> HIDE DEF r, h, b
  <2>. QED
    BY <1>1, <2>1 DEF Rechained, Tables
<1> HIDE DEF r
<1>6. ht.used + 1 \in Nat
  BY <1>1 DEF Tables
<1>7. T \in UNION {[0..(m - 1) -> Seq(Entry)] : m \in Nat}
  <2> HIDE DEF T
  <2>. QED
    BY <1>4
<1> HIDE DEF T
<1>8. r \in Tables
  BY <1>5, <1>6, <1>7 DEF Tables
<1>9. r.size = n /\ r.table = T
  BY <1>5
<1>10. r \in Sized(n)
  BY <1>4, <1>8, <1>9 DEF Sized
<1>. QED
  BY <1>10 DEF r

(* The entries of a chain, linked one by one into a table that has none of  *)
(* their keys.                                                              *)
Moves(moved, ht, c) ==
    moved = [i \in 0..Len(c) |-> IF i = 0 THEN ht ELSE Linked(moved[i - 1], c[i])]

LEMMA ChainMoves ==
    ASSUME NEW ht, Shape(ht), ht.size # 0, NEW c \in Seq(Entry)
    PROVE  \E moved : Moves(moved, ht, c)
<1> DEFINE n == Len(c)
           S == Sized(ht.size)
           g == [p \in (1..n) \X S |-> Linked(p[2], c[p[1]])]
<1>1. /\ n \in Nat /\ ht.size \in Nat \ {0}
      /\ \A i \in 1..n : c[i] \in Entry
  BY SeqElements, SizeOfShape
<1>2. ht \in S
  BY <1>1 DEF Shape, Sized
<1>3. g \in [(1..n) \X S -> S]
  <2>1. ASSUME NEW p \in (1..n) \X S PROVE Linked(p[2], c[p[1]]) \in S
    <3>1. p[1] \in 1..n /\ p[2] \in S /\ c[p[1]] \in Entry
      BY <1>1
    <3>. QED
      BY <1>1, <3>1, LinkedSized
  <2> HIDE DEF S
  <2>. QED
    BY <2>1
<1>4. PICK f \in [0..n -> S] : Solves(f, n, ht, g)
  <2> HIDE DEF g, S, n
  <2>. QED
    BY <1>1, <1>2, <1>3, Recursion
<1>5. f = [i \in 0..n |-> IF i = 0 THEN ht ELSE Linked(f[i - 1], c[i])]
  <2>1. ASSUME NEW i \in 0..n, i # 0 PROVE g[<<i, f[i - 1]>>] = Linked(f[i - 1], c[i])
    <3>1. i \in 1..n /\ i - 1 \in 0..n
      BY <1>1, <2>1
    <3>2. <<i, f[i - 1]>> \in (1..n) \X S
      BY <3>1
    <3> HIDE DEF S
    <3>. QED
      BY <3>2
  <2> HIDE DEF g
  <2>. QED
    BY <1>4, <2>1 DEF Solves
<1>. QED
  BY <1>5 DEF Moves

LEMMA ChainMoved ==
    ASSUME NEW ht, Full(ht), ht.size # 0, NEW c, NEW h, NEW size, Chained(c, h, size),
           \A i \in 1..Len(c) : c[i].key \notin KeysIn(ht),
           NEW moved, Moves(moved, ht, c)
    PROVE  /\ Full(moved[Len(c)]) /\ moved[Len(c)].size = ht.size
           /\ EntriesOf(moved[Len(c)]) = EntriesOf(ht) \union ToSet(c)
<1> DEFINE n == Len(c)
<1>1. n \in Nat /\ \A i \in 1..n : c[i] \in Entry
  BY SeqElements DEF Chained
<1>6. /\ moved[0] = ht
      /\ \A i \in 1..n : moved[i] = Linked(moved[i - 1], c[i])
  BY <1>1 DEF Moves
<1> DEFINE before(i) == {c[j] : j \in 1..i}
           G == {i \in 0..n : /\ Full(moved[i]) /\ moved[i].size = ht.size
                              /\ EntriesOf(moved[i]) = EntriesOf(ht) \union before(i)}
<1>7. 0 \in G
  <2>1. moved[0] = ht /\ before(0) = {}
    BY <1>1, <1>6
  <2>. QED
    BY <1>1, <2>1
<1>8. ASSUME NEW i \in 1..n, i - 1 \in G PROVE i \in G
  <2> DEFINE b == moved[i - 1]
             e == c[i]
             r == moved[i]
  <2>1. IsLinked(r, b, e)
    BY <1>1, <1>6 DEF IsLinked
  <2>2. Full(b) /\ b.size = ht.size /\ EntriesOf(b) = EntriesOf(ht) \union before(i - 1)
    BY <1>8
  <2>3. e \in Entry /\ e.key \notin KeysIn(b)
    <3>1. \A j \in 1..(i - 1) : c[j].key # e.key
      BY <1>1 DEF Chained
    <3>2. \A y \in EntriesOf(ht) : y.key # e.key
      BY DEF KeysIn
    <3> HIDE DEF b, e
    <3>3. \A y \in EntriesOf(b) : y.key # e.key
      BY <2>2, <3>1, <3>2
    <3>. QED
      BY <1>1, <3>3 DEF KeysIn, e
  <2> HIDE DEF b, e, r
  <2>4. Full(r) /\ r.size = b.size /\ EntriesOf(r) = EntriesOf(b) \union {e}
    BY <1>1, <2>1, <2>2, <2>3, LinkedFull
  <2>5. before(i) = before(i - 1) \union {e}
    BY <1>1 DEF e
  <2> HIDE DEF before
  <2>. QED
    BY <1>1, <2>2, <2>4, <2>5 DEF r
<1>9. \A i \in 0..n : i \in G
  <2> HIDE DEF G, n
  <2>1. n \in Nat /\ 0 \in G /\ \A i \in 1..n : i - 1 \in G => i \in G
    BY <1>1, <1>7, <1>8
  <2>. QED
    BY <2>1, UpTo
<1>10. n \in G
  <2> HIDE DEF G, n
  <2>1. n \in 0..n
    BY <1>1
  <2>. QED
    BY <1>9, <2>1
<1>11. before(n) = ToSet(c)
  BY SeqElements DEF Chained
<1> HIDE DEF before
<1>. QED
  BY <1>10, <1>11

LEMMA EmptyOrNot ==
    ASSUME NEW ht, Shape(ht), NEW i \in 0..(ht.size - 1)
    PROVE  ht.table[i] # <<>> <=> ToSet(ht.table[i]) # {}
<1>1. ht.table[i] \in Seq(Entry)
  BY SizeOfShape
<1> DEFINE c == ht.table[i]
<1> HIDE DEF c
<1>2. c \in Seq(Entry)
  BY <1>1 DEF c
<1>3. c = <<>> => ToSet(c) = {}
  BY EmptyChain
<1>4. c # <<>> => ToSet(c) # {}
  <2>1. c # <<>> => Len(c) \in Nat \ {0}
    BY <1>2, EmptySeq
  <2>2. ToSet(c) = {c[j] : j \in 1..Len(c)}
    BY <1>2, SeqElements
  <2>3. Len(c) \in Nat \ {0} => 1 \in 1..Len(c)
    OBVIOUS
  <2>. QED
    BY <2>1, <2>2, <2>3
<1>. QED
  BY <1>3, <1>4 DEF c

(* All entries of one bucket go from ht[0] to ht[1].                        *)
LEMMA MoveBucketMoves ==
    ASSUME NEW D, Moving(D), D.rehashidx < D.ht0.size, NEW M, M = MoveBucket(D)
    PROVE  Moving(M) /\ Same(D, M)
<1> DEFINE x == D.rehashidx
           c == D.ht0.table[x]
           moved == CHOOSE f : f = [i \in 0..Len(c) |->
                                      IF i = 0 THEN D.ht1 ELSE Linked(f[i - 1], c[i])]
           a == Rechained(D.ht0, x, <<>>, D.ht0.used - Len(c))
           b == moved[Len(c)]
<1>1. /\ D \in Dicts /\ Full(D.ht0) /\ Full(D.ht1) /\ D.ht1.size # 0
      /\ KeysIn(D.ht0) \intersect KeysIn(D.ht1) = {}
      /\ D.ht0.size \in Nat /\ x \in 0..(D.ht0.size - 1)
      /\ \A i \in 0..(x - 1) : D.ht0.table[i] = <<>>
      /\ Shape(D.ht0) /\ Shape(D.ht1)
  BY SizeOfShape DEF Moving, Apart, Full
<1>2. Chained(c, x, D.ht0.size) /\ c \in Seq(Entry)
  BY <1>1 DEF Shape, Chained
<1>3. M = [D EXCEPT !.ht0 = a, !.ht1 = b, !.rehashidx = x + 1]
  BY DEF MoveBucket
<1>4. Moves(moved, D.ht1, c)
  <2>1. \E f : Moves(f, D.ht1, c)
    <3> HIDE DEF c
    <3>. QED
      BY <1>1, <1>2, ChainMoves
  <2> HIDE DEF c
  <2>. QED
    BY <2>1, Zenon DEF Moves
<1>5. \A i \in 1..Len(c) : c[i] \in EntriesOf(D.ht0) /\ c[i].key \notin KeysIn(D.ht1)
  <2>1. ASSUME NEW i \in 1..Len(c) PROVE c[i] \in EntriesOf(D.ht0)
    BY <1>1, PlacedIn
  <2>. QED
    BY <1>1, <2>1 DEF KeysIn
<1>6. Full(b) /\ b.size = D.ht1.size /\ EntriesOf(b) = EntriesOf(D.ht1) \union ToSet(c)
  <2> DEFINE ht == D.ht1
  <2>1. Full(ht) /\ ht.size # 0 /\ \A i \in 1..Len(c) : c[i].key \notin KeysIn(ht)
    BY <1>1, <1>5
  <2>2. Moves(moved, ht, c)
    BY <1>4
  <2> HIDE DEF ht, moved, c
  <2>3. /\ Full(moved[Len(c)]) /\ moved[Len(c)].size = ht.size
        /\ EntriesOf(moved[Len(c)]) = EntriesOf(ht) \union ToSet(c)
    BY <1>2, <2>1, <2>2, ChainMoved
  <2>. QED
    BY <2>3 DEF ht
<1>7. /\ Full(a) /\ a.size = D.ht0.size /\ a.table = [D.ht0.table EXCEPT ![x] = <<>>]
      /\ EntriesOf(a) = EntriesOf(D.ht0) \ ToSet(c)
  <2> DEFINE ht == D.ht0
  <2>1. Full(ht) /\ x \in 0..(ht.size - 1) /\ a = Rechained(ht, x, <<>>, ht.used - Len(ht.table[x]))
    BY <1>1
  <2> HIDE DEF ht, x, a
  <2>2. /\ Full(a) /\ a.size = ht.size /\ a.table = [ht.table EXCEPT ![x] = <<>>]
        /\ EntriesOf(a) = EntriesOf(ht) \ ToSet(ht.table[x])
    BY <2>1, ClearedFull
  <2>. QED
    BY <2>2 DEF ht
<1> HIDE DEF moved, a, b
<1>8. /\ M.ht0 = a /\ M.ht1 = b /\ M.rehashidx = x + 1 /\ M.iterators = D.iterators
      /\ M \in Dicts
  <2>1. a \in Tables /\ b \in Tables /\ x + 1 \in Int
    BY <1>1, <1>6, <1>7 DEF Full, Shape
  <2> HIDE DEF x
  <2>. QED
    BY <1>1, <1>3, <2>1 DEF Dicts
<1>9. ToSet(c) \subseteq EntriesOf(D.ht0)
  BY <1>1 DEF EntriesOf
<1>10. KeysIn(M.ht0) \intersect KeysIn(M.ht1) = {}
  <2> SUFFICES ASSUME NEW k \in KeysIn(a), k \in KeysIn(b) PROVE FALSE
    BY <1>8
  <2>1. PICK p \in EntriesOf(a) : p.key = k
    BY DEF KeysIn
  <2>2. PICK q \in EntriesOf(b) : q.key = k
    BY DEF KeysIn
  <2>3. p \in EntriesOf(D.ht0) /\ p \notin ToSet(c)
    BY <1>7
  <2>4. q \in EntriesOf(D.ht1) \/ q \in ToSet(c)
    BY <1>6
  <2>5. CASE q \in EntriesOf(D.ht1)
    <3>1. k \in KeysIn(D.ht0) /\ k \in KeysIn(D.ht1)
      BY <2>1, <2>2, <2>3, <2>5 DEF KeysIn
    <3>. QED
      BY <1>1, <3>1
  <2>6. CASE q \in ToSet(c)
    <3>1. q \in EntriesOf(D.ht0) /\ p # q
      BY <1>9, <2>3, <2>6
    <3>2. OneEach(EntriesOf(D.ht0))
      BY <1>1, TableOneEach
    <3>. QED
      BY <2>1, <2>2, <2>3, <3>1, <3>2 DEF OneEach
  <2>. QED
    BY <2>4, <2>5, <2>6
<1>11. Apart(M)
  BY <1>6, <1>7, <1>8, <1>10 DEF Apart
<1>12. Same(D, M)
  <2> HIDE DEF c
  <2>. QED
    BY <1>6, <1>7, <1>8, <1>9 DEF Same, Entries
<1>13. \A i \in 0..(M.rehashidx - 1) : M.ht0.table[i] = <<>>
  <2>1. D.ht0.table \in [0..(D.ht0.size - 1) -> Seq(Entry)]
    BY <1>1 DEF Shape
  <2> DEFINE T == D.ht0.table
             n == D.ht0.size
  <2>2. /\ T \in [0..(n - 1) -> Seq(Entry)] /\ n \in Nat /\ x \in 0..(n - 1)
        /\ \A i \in 0..(x - 1) : T[i] = <<>>
        /\ M.ht0.table = [T EXCEPT ![x] = <<>>] /\ M.rehashidx = x + 1
    BY <1>1, <1>7, <1>8, <2>1
  <2> HIDE DEF T, n, x, c
  <2>3. ASSUME NEW i \in 0..x PROVE M.ht0.table[i] = <<>>
    BY <2>2
  <2>. QED
    BY <2>2, <2>3
<1>. QED
  BY <1>1, <1>6, <1>7, <1>8, <1>11, <1>12, <1>13 DEF Moving

(* While ht[0] counts entries there is a bucket with some, at rehashidx or  *)
(* after it.                                                                *)
LEMMA BucketAhead ==
    ASSUME NEW D, Moving(D), D.ht0.used # 0, NEW m,
           m = Min({i \in D.rehashidx..(D.ht0.size - 1) : D.ht0.table[i] # <<>>})
    PROVE  /\ m \in D.rehashidx..(D.ht0.size - 1)
           /\ \A i \in 0..(m - 1) : D.ht0.table[i] = <<>>
<1> DEFINE ht == D.ht0
           x == D.rehashidx
           S == {i \in x..(ht.size - 1) : ht.table[i] # <<>>}
<1>1. /\ Full(ht) /\ Shape(ht) /\ ht.size \in Nat /\ x \in 0..ht.size
      /\ \A i \in 0..(x - 1) : ht.table[i] = <<>>
  BY SizeOfShape DEF Moving, Apart, Full
<1>2. EntriesOf(ht) # {}
  BY FS_EmptySet DEF Moving, Apart, Full
<1> HIDE DEF ht, x
<1>3. PICK i \in 0..(ht.size - 1) : ToSet(ht.table[i]) # {}
  BY <1>2 DEF EntriesOf
<1>4. ht.table[i] # <<>>
  BY <1>1, <1>3, EmptyOrNot
<1>5. i \in S
  BY <1>1, <1>4
<1>6. S \in SUBSET Nat /\ S # {}
  BY <1>1, <1>5
<1>7. m = Min(S)
  BY DEF ht, x
<1>8. m \in S /\ \A y \in S : m <= y
  <2> HIDE DEF S
  <2>1. Min(S) \in S /\ \A y \in S : Min(S) <= y
    BY <1>6, LeastNat
  <2>. QED
    BY <1>7, <2>1, Zenon
<1>9. ASSUME NEW j \in 0..(m - 1) PROVE ht.table[j] = <<>>
  <2>1. CASE j < x
    BY <1>1, <1>8, <2>1
  <2>2. CASE ~(j < x)
    <3>1. j \notin S
      BY <1>1, <1>8
    <3>. QED
      BY <1>1, <1>8, <2>2, <3>1
  <2>. QED
    BY <2>1, <2>2
<1>. QED
  BY <1>8, <1>9 DEF ht, x

(* Visiting empty buckets changes rehashidx only.                           *)
LEMMA Visited ==
    ASSUME NEW D, Moving(D), NEW m \in 0..D.ht0.size,
           \A i \in 0..(m - 1) : D.ht0.table[i] = <<>>,
           NEW M, M = [D EXCEPT !.rehashidx = m]
    PROVE  Moving(M) /\ Same(D, M) /\ M.rehashidx = m /\ M.ht0 = D.ht0
<1>1. D \in Dicts /\ m \in Int
  BY DEF Moving, Apart
<1>2. /\ M.ht0 = D.ht0 /\ M.ht1 = D.ht1 /\ M.rehashidx = m /\ M.iterators = D.iterators
      /\ M \in Dicts
  BY <1>1 DEF Dicts
<1>. QED
  BY <1>2 DEF Moving, Apart, Same, Entries

Passing == [d : Dicts, visits : Nat]

LEMMA PassMoves ==
    ASSUME NEW s \in Passing, Moving(s.d), NEW t, t = RehashPass(s)
    PROVE  t \in Passing /\ Moving(t.d) /\ Same(s.d, t.d)
<1> DEFINE D == s.d
           next == Min({i \in D.rehashidx..(D.ht0.size - 1) : D.ht0.table[i] # <<>>})
           empty == next - D.rehashidx
<1>1. D \in Dicts /\ s.visits \in Nat /\ Moving(D)
  BY DEF Passing
<1>2. CASE s.visits = 0 \/ D.ht0.used = 0
  <2>1. t = s
    BY <1>2 DEF RehashPass
  <2>. QED
    BY <2>1 DEF Same
<1>3. CASE ~(s.visits = 0 \/ D.ht0.used = 0)
  <2>1. /\ next \in D.rehashidx..(D.ht0.size - 1)
        /\ \A i \in 0..(next - 1) : D.ht0.table[i] = <<>>
    <3> HIDE DEF D
    <3>. QED
      BY <1>1, <1>3, BucketAhead
  <2>2. t = IF empty >= s.visits
            THEN [d |-> [D EXCEPT !.rehashidx = D.rehashidx + s.visits], visits |-> 0]
            ELSE [d |-> MoveBucket([D EXCEPT !.rehashidx = next]), visits |-> s.visits - empty]
    BY <1>3 DEF RehashPass
  <2>3. D.rehashidx \in Nat /\ D.ht0.size \in Nat /\ D.rehashidx <= D.ht0.size
    BY <1>1, SizeOfShape DEF Moving, Apart, Full
  <2> HIDE DEF next, D
  <2>4. CASE empty >= s.visits
    <3> DEFINE m == D.rehashidx + s.visits
               M == [D EXCEPT !.rehashidx = m]
    <3>1. m \in 0..D.ht0.size /\ m <= next
      BY <1>1, <2>1, <2>3, <2>4
    <3>2. \A i \in 0..(m - 1) : D.ht0.table[i] = <<>>
      BY <2>1, <2>3, <3>1
    <3>3. t = [d |-> M, visits |-> 0]
      BY <2>2, <2>4
    <3>4. Moving(M) /\ Same(D, M)
      <4> HIDE DEF m
      <4>. QED
        BY <1>1, <3>1, <3>2, Visited
    <3>5. M \in Dicts
      BY <3>4 DEF Moving, Apart
    <3> HIDE DEF M
    <3>. QED
      BY <3>3, <3>4, <3>5 DEF Passing, D
  <2>5. CASE ~(empty >= s.visits)
    <3> DEFINE N == [D EXCEPT !.rehashidx = next]
               M == MoveBucket(N)
    <3>1. next \in 0..D.ht0.size /\ next < D.ht0.size
      BY <2>1, <2>3
    <3>2. Moving(N) /\ Same(D, N) /\ N.rehashidx = next /\ N.ht0 = D.ht0
      BY <1>1, <2>1, <3>1, Visited
    <3>3. N.rehashidx < N.ht0.size
      BY <3>1, <3>2
    <3>4. t = [d |-> M, visits |-> s.visits - empty]
      BY <2>2, <2>5
    <3>5. s.visits - empty \in Nat
      BY <1>1, <2>1, <2>3, <2>5
    <3> HIDE DEF N
    <3>6. Moving(M) /\ Same(N, M)
      BY <3>2, <3>3, MoveBucketMoves
    <3>7. M \in Dicts
      BY <3>6 DEF Moving, Apart
    <3> HIDE DEF M
    <3>8. Same(D, M)
      BY <3>2, <3>6 DEF Same
    <3>. QED
      BY <3>4, <3>5, <3>6, <3>7, <3>8 DEF Passing, D
  <2>. QED
    BY <2>4, <2>5
<1>. QED
  BY <1>2, <1>3

(* The shape of a dict between two calls.                                   *)
Good(D) ==
    /\ Apart(D)
    /\ D.rehashidx # -1 =>
          /\ D.ht1.size # 0 /\ D.rehashidx \in 0..(D.ht0.size - 1)
          /\ \A i \in 0..(D.rehashidx - 1) : D.ht0.table[i] = <<>>
    /\ D.rehashidx = -1 => D.ht1 = NoTable

LEMMA NoTableFull == Full(NoTable) /\ EntriesOf(NoTable) = {} /\ NoTable.size = 0
<1>1. NoTable.size = 0 /\ NoTable.used = 0 /\ NoTable.table = <<>>
  BY DEF NoTable
<1>2. 0..(0 - 1) = {}
  OBVIOUS
<1>3. <<>> \in [0..(0 - 1) -> Seq(Entry)]
  BY <1>2
<1>4. EntriesOf(NoTable) = {}
  BY <1>1, <1>2 DEF EntriesOf
<1>5. NoTable \in Tables
  <2>1. <<>> \in UNION {[0..(n - 1) -> Seq(Entry)] : n \in Nat}
    <3>1. 0 \in Nat
      OBVIOUS
    <3>. QED
      BY <1>3, <3>1, Zenon
  <2>. QED
    BY <2>1 DEF NoTable, Tables
<1>6. Shape(NoTable)
  BY <1>1, <1>2, <1>3, <1>5 DEF Shape
<1>. QED
  BY <1>1, <1>4, <1>6, FS_EmptySet DEF Full

(* The end of dictRehash: an emptied ht[0] gives way to ht[1].              *)
LEMMA DoneGood ==
    ASSUME NEW D, Moving(D), NEW R, R = RehashDone(D)
    PROVE  Good(R) /\ Same(D, R)
<1>1. D \in Dicts /\ Full(D.ht0) /\ Full(D.ht1) /\ D.ht0.size \in Nat
  BY SizeOfShape DEF Moving, Apart, Full
<1>2. CASE D.ht0.used = 0
  <2>1. R = [D EXCEPT !.ht0 = D.ht1, !.ht1 = NoTable, !.rehashidx = -1]
    BY <1>2 DEF RehashDone
  <2>2. NoTable \in Tables /\ D.ht1 \in Tables
    BY <1>1, NoTableFull DEF Full, Shape
  <2>3. /\ R \in Dicts /\ R.ht0 = D.ht1 /\ R.ht1 = NoTable /\ R.rehashidx = -1
        /\ R.iterators = D.iterators
    <3> DEFINE z == -1
    <3>1. z \in Int /\ R = [D EXCEPT !.ht0 = D.ht1, !.ht1 = NoTable, !.rehashidx = z]
      BY <2>1
    <3> HIDE DEF z
    <3>2. /\ R \in Dicts /\ R.ht0 = D.ht1 /\ R.ht1 = NoTable /\ R.rehashidx = z
          /\ R.iterators = D.iterators
      BY <1>1, <2>2, <3>1 DEF Dicts
    <3>. QED
      BY <3>2 DEF z
  <2>4. EntriesOf(D.ht0) = {}
    BY <1>1, <1>2, FullFinite, FS_EmptySet
  <2>5. KeysIn(NoTable) = {}
    BY NoTableFull DEF KeysIn
  <2>6. Good(R)
    BY <1>1, <2>3, <2>5, NoTableFull DEF Good, Apart
  <2>. QED
    BY <2>3, <2>4, <2>6, NoTableFull DEF Same, Entries
<1>3. CASE D.ht0.used # 0
  <2>1. R = D
    BY <1>3 DEF RehashDone
  <2> DEFINE m == Min({i \in D.rehashidx..(D.ht0.size - 1) : D.ht0.table[i] # <<>>})
  <2>2. m \in D.rehashidx..(D.ht0.size - 1)
    BY <1>3, BucketAhead
  <2> HIDE DEF m
  <2>3. D.rehashidx \in 0..(D.ht0.size - 1)
    BY <1>1, <2>2 DEF Moving
  <2>. QED
    BY <2>1, <2>3 DEF Moving, Good, Same
<1>. QED
  BY <1>2, <1>3

(* dictRehash, as far as it comes, keeps what is stored.                    *)
Passes(pass, D, n) ==
    pass = [i \in 0..n |-> IF i = 0 THEN [d |-> D, visits |-> n * EmptyVisits]
                           ELSE RehashPass(pass[i - 1])]

LEMMA RehashGood ==
    ASSUME NEW D, Good(D), NEW n \in Nat, NEW R, R = dictRehash(D, n)
    PROVE  Good(R) /\ Same(D, R)
<1>1. CASE D.rehashidx = -1
  BY <1>1 DEF dictRehash, dictIsRehashing, Same
<1>2. CASE D.rehashidx # -1
  <2> DEFINE pass == CHOOSE f : f = [i \in 0..n |->
                           IF i = 0 THEN [d |-> D, visits |-> n * EmptyVisits]
                           ELSE RehashPass(f[i - 1])]
             S == {s \in Passing : Moving(s.d) /\ Same(D, s.d)}
             x == [d |-> D, visits |-> n * EmptyVisits]
             g == [p \in (1..n) \X S |-> RehashPass(p[2])]
  <2>1. R = RehashDone(pass[n].d)
    BY <1>2 DEF dictRehash, dictIsRehashing
  <2>2. Moving(D)
    BY <1>2, SizeOfShape DEF Good, Apart, Moving, Full
  <2>3. x \in S
    <3>1. n * EmptyVisits \in Nat
      BY SizeAssumption
    <3>2. D \in Dicts
      BY DEF Good, Apart
    <3>. QED
      BY <2>2, <3>1, <3>2 DEF Passing, Same
  <2>4. ASSUME NEW s \in S PROVE RehashPass(s) \in S
    <3>1. RehashPass(s) \in Passing /\ Moving(RehashPass(s).d) /\ Same(s.d, RehashPass(s).d)
      BY PassMoves
    <3>. QED
      BY <3>1 DEF Same
  <2>5. g \in [(1..n) \X S -> S]
    <3> HIDE DEF S
    <3>. QED
      BY <2>4
  <2>6. PICK f \in [0..n -> S] : Solves(f, n, x, g)
    <3> HIDE DEF g, S, x
    <3>. QED
      BY <2>3, <2>5, Recursion
  <2>7. Passes(f, D, n)
    <3>1. ASSUME NEW i \in 0..n, i # 0 PROVE g[<<i, f[i - 1]>>] = RehashPass(f[i - 1])
      <4>1. <<i, f[i - 1]>> \in (1..n) \X S
        BY <3>1
      <4> HIDE DEF S
      <4>. QED
        BY <4>1
    <3> HIDE DEF g
    <3>. QED
      BY <2>6, <3>1 DEF Solves, Passes
  <2>8. Passes(pass, D, n)
    BY <2>7, Zenon DEF Passes
  <2> HIDE DEF pass
  <2>9. pass[0] = x /\ \A i \in 1..n : pass[i] = RehashPass(pass[i - 1])
    BY <2>8 DEF Passes
  <2> DEFINE G == {i \in 0..n : pass[i] \in S}
  <2>10. 0 \in G
    <3> HIDE DEF S, x
    <3>. QED
      BY <2>3, <2>9
  <2>11. ASSUME NEW i \in 1..n, i - 1 \in G PROVE i \in G
    <3> HIDE DEF S
    <3>. QED
      BY <2>4, <2>9, <2>11
  <2>12. n \in G
    <3> HIDE DEF G
    <3>1. \A i \in 0..n : i \in G
      BY <2>10, <2>11, UpTo
    <3>. QED
      BY <3>1
  <2>13. Moving(pass[n].d) /\ Same(D, pass[n].d)
    BY <2>12
  <2>14. Good(R) /\ Same(pass[n].d, R)
    BY <2>1, <2>13, DoneGood
  <2>. QED
    BY <2>13, <2>14 DEF Same
<1>. QED
  BY <1>1, <1>2

LEMMA SteppedGood ==
    ASSUME NEW D, Good(D), NEW R, R = Stepped(D)
    PROVE  /\ Good(R) /\ Same(D, R) /\ (D.iterators # 0 => R = D)
<1>1. CASE R = dictRehash(D, 1) /\ D.iterators = 0
  BY <1>1, RehashGood
<1>2. CASE R = D
  BY <1>2 DEF Same
<1>. QED
  BY <1>1, <1>2 DEF Stepped, dictRehashStep

----------------------------------------------------------------------------
(* The search for a key.  In a table it looks where the key would be.       *)
Spot(ht, k, h, p) ==
    /\ ht.size # 0 /\ h = Hash[k] % ht.size /\ h \in 0..(ht.size - 1)
    /\ p = Position(ht.table[h], k) /\ p \in 1..Len(ht.table[h])
    /\ ht.table[h][p].key = k

LEMMA KeySpot ==
    ASSUME NEW ht, Shape(ht), NEW k \in KeysIn(ht)
    PROVE  \E h, p : Spot(ht, k, h, p)
<1>1. PICK e \in EntriesOf(ht) : e.key = k
  BY DEF KeysIn
<1>2. PICK h \in 0..(ht.size - 1) : \E j \in 1..Len(ht.table[h]) : e = ht.table[h][j]
  BY Places
<1>3. PICK j \in 1..Len(ht.table[h]) : e = ht.table[h][j]
  BY <1>2
<1>4. ht.size \in Nat \ {0}
  BY SizeOfShape
<1>5. Chained(ht.table[h], h, ht.size)
  BY DEF Shape
<1>6. Hash[k] % ht.size = h
  BY <1>1, <1>3, <1>5 DEF Chained
<1> DEFINE c == ht.table[h]
           S == {i \in 1..Len(c) : c[i].key = k}
           p == Position(c, k)
<1>7. S \in SUBSET Nat /\ j \in S
  BY <1>1, <1>3
<1>8. p \in S
  <2>1. p = Min(S)
    BY DEF Position
  <2> HIDE DEF S, p
  <2>2. Min(S) \in S
    BY <1>7, LeastNat
  <2>. QED
    BY <2>1, <2>2
<1>9. Spot(ht, k, h, p)
  <2> HIDE DEF p
  <2>1. p \in 1..Len(c) /\ c[p].key = k
    BY <1>8
  <2>2. p = Position(ht.table[h], k)
    BY DEF p
  <2>. QED
    BY <1>4, <1>6, <2>1, <2>2 DEF Spot
<1>. QED
  BY <1>9

LEMMA SpotIn ==
    ASSUME NEW ht, Shape(ht), NEW k, NEW h, NEW p, Spot(ht, k, h, p)
    PROVE  /\ ht.table[h][p] \in EntriesOf(ht) /\ ht.table[h][p] \in Entry
           /\ ht.table[h][p].key = k /\ ht.table[h] # <<>>
           /\ k \in KeysIn(ht)
           /\ \A e \in EntriesOf(ht) : e.key = k => e = ht.table[h][p]
<1>1. h \in 0..(ht.size - 1) /\ p \in 1..Len(ht.table[h]) /\ ht.table[h][p].key = k
  BY DEF Spot
<1>2. ht.table[h][p] \in EntriesOf(ht) /\ ht.table[h][p] \in Entry
  BY <1>1, PlacedIn
<1>3. \A e \in EntriesOf(ht) : e.key = k => e = ht.table[h][p]
  BY <1>1, <1>2, TableOneEach DEF OneEach
<1>4. ht.table[h] # <<>>
  <2>1. Len(<<>>) = 0 /\ 1..0 = {}
    BY EmptySeq
  <2>. QED
    BY <1>1, <2>1
<1>. QED
  BY <1>1, <1>2, <1>3, <1>4 DEF KeysIn

LEMMA ChainHas ==
    ASSUME NEW ht, Shape(ht), ht.size # 0, NEW k \in Keys
    PROVE  k \in KeysOf(Chain(ht, k)) <=> k \in KeysIn(ht)
<1> DEFINE h == Hash[k] % ht.size
           c == ht.table[h]
<1>1. Chain(ht, k) = c
  BY DEF Chain, Bucket
<1>2. h \in 0..(ht.size - 1)
  BY HashInRange
<1> HIDE DEF h
<1>3. ASSUME k \in KeysOf(c) PROVE k \in KeysIn(ht)
  <2>1. PICK i \in 1..Len(c) : c[i].key = k
    BY <1>3 DEF KeysOf
  <2>2. c[i] \in EntriesOf(ht)
    BY <1>2, PlacedIn
  <2>. QED
    BY <2>1, <2>2 DEF KeysIn
<1>4. ASSUME k \in KeysIn(ht) PROVE k \in KeysOf(c)
  <2>1. PICK m, p : Spot(ht, k, m, p)
    BY <1>4, KeySpot
  <2>2. m = h /\ p \in 1..Len(ht.table[m]) /\ ht.table[m][p].key = k
    BY <2>1 DEF Spot, h
  <2>. QED
    BY <2>2 DEF KeysOf
<1>. QED
  BY <1>1, <1>3, <1>4

LEMMA GoodFacts ==
    ASSUME NEW D, Good(D)
    PROVE  /\ D \in Dicts /\ Full(D.ht0) /\ Full(D.ht1) /\ Shape(D.ht0) /\ Shape(D.ht1)
           /\ D.ht0.size \in Nat /\ D.ht1.size \in Nat
           /\ KeysIn(D.ht0) \intersect KeysIn(D.ht1) = {}
           /\ D.rehashidx = -1 => KeysIn(D.ht1) = {} /\ D.ht1.size = 0
           /\ D.rehashidx # -1 => D.ht0.size # 0 /\ D.ht1.size # 0
           /\ D.ht0.size = 0 => KeysIn(D.ht0) = {} /\ D.rehashidx = -1
           /\ KeysIn(D.ht0) \subseteq Keys /\ KeysIn(D.ht1) \subseteq Keys
           /\ Stored(D) = KeysIn(D.ht0) \union KeysIn(D.ht1)
<1>1. /\ D \in Dicts /\ Full(D.ht0) /\ Full(D.ht1) /\ Shape(D.ht0) /\ Shape(D.ht1)
      /\ D.ht0.size \in Nat /\ D.ht1.size \in Nat
      /\ KeysIn(D.ht0) \intersect KeysIn(D.ht1) = {}
  BY SizeOfShape DEF Good, Apart, Full
<1>2. D.rehashidx = -1 => KeysIn(D.ht1) = {} /\ D.ht1.size = 0
  BY NoTableFull DEF Good, KeysIn
<1>3. D.rehashidx # -1 => D.ht0.size # 0 /\ D.ht1.size # 0
  BY <1>1 DEF Good
<1>4. D.ht0.size = 0 => KeysIn(D.ht0) = {}
  <2>1. D.ht0.size = 0 => 0..(D.ht0.size - 1) = {}
    OBVIOUS
  <2>. QED
    BY <2>1 DEF EntriesOf, KeysIn
<1>5. KeysIn(D.ht0) \subseteq Keys /\ KeysIn(D.ht1) \subseteq Keys
  <2>1. EntriesOf(D.ht0) \subseteq Entry /\ EntriesOf(D.ht1) \subseteq Entry
    BY <1>1, Places
  <2>. QED
    BY <2>1 DEF KeysIn, Entry
<1>6. Stored(D) = KeysIn(D.ht0) \union KeysIn(D.ht1)
  BY DEF Stored, Entries, KeysIn
<1>. QED
  BY <1>1, <1>2, <1>3, <1>4, <1>5, <1>6

LEMMA LookupSpec ==
    ASSUME NEW D, Good(D), NEW k \in Keys
    PROVE  /\ k \in KeysIn(D.ht0) => Lookup(D, k) = "ht0"
           /\ k \in KeysIn(D.ht1) => Lookup(D, k) = "ht1"
           /\ Found(D, k) <=> k \in Stored(D)
<1>1. CASE D.ht0.size = 0
  <2>1. Lookup(D, k) = "none"
    BY <1>1 DEF Lookup
  <2>2. k \notin KeysIn(D.ht0) /\ k \notin KeysIn(D.ht1) /\ k \notin Stored(D)
    BY <1>1, GoodFacts
  <2>. QED
    BY <2>1, <2>2 DEF Found
<1>2. CASE D.ht0.size # 0
  <2>1. k \in KeysOf(Chain(D.ht0, k)) <=> k \in KeysIn(D.ht0)
    BY <1>2, GoodFacts, ChainHas
  <2>2. (dictIsRehashing(D) /\ k \in KeysOf(Chain(D.ht1, k))) <=> k \in KeysIn(D.ht1)
    <3>1. CASE D.rehashidx = -1
      BY <3>1, GoodFacts DEF dictIsRehashing
    <3>2. CASE D.rehashidx # -1
      <4>1. k \in KeysOf(Chain(D.ht1, k)) <=> k \in KeysIn(D.ht1)
        BY <3>2, GoodFacts, ChainHas
      <4>. QED
        BY <3>2, <4>1 DEF dictIsRehashing
    <3>. QED
      BY <3>1, <3>2
  <2>3. ~(k \in KeysIn(D.ht0) /\ k \in KeysIn(D.ht1))
    BY GoodFacts
  <2>4. Lookup(D, k) = IF k \in KeysIn(D.ht0) THEN "ht0"
                       ELSE IF k \in KeysIn(D.ht1) THEN "ht1" ELSE "none"
    BY <1>2, <2>1, <2>2 DEF Lookup
  <2>5. k \in Stored(D) <=> k \in KeysIn(D.ht0) \/ k \in KeysIn(D.ht1)
    BY GoodFacts
  <2>. QED
    BY <2>3, <2>4, <2>5 DEF Found
<1>. QED
  BY <1>1, <1>2

(* What a search returns for an entry, and for a key without one.           *)
LEMMA ValueOf ==
    ASSUME NEW D, Good(D), NEW k \in Keys
    PROVE  /\ \A e \in Entries(D) : e.key = k => Value(D, k) = e.val
           /\ k \notin Stored(D) => Value(D, k) = None
<1>1. k \notin Stored(D) => Value(D, k) = None
  BY LookupSpec DEF Value
<1>2. ASSUME NEW e \in EntriesOf(D.ht0), e.key = k PROVE Value(D, k) = e.val
  <2>1. k \in KeysIn(D.ht0) /\ k \in Stored(D)
    BY <1>2, GoodFacts DEF KeysIn
  <2>2. Lookup(D, k) = "ht0" /\ Found(D, k)
    BY <2>1, LookupSpec
  <2>3. PICK h, p : Spot(D.ht0, k, h, p)
    BY <2>1, GoodFacts, KeySpot
  <2>4. HomeChain(D, k) = D.ht0.table[h]
    BY <2>2, <2>3 DEF HomeChain, Chain, Bucket, Spot
  <2>5. Value(D, k) = D.ht0.table[h][p].val
    BY <2>2, <2>3, <2>4 DEF Value, Spot
  <2>6. e = D.ht0.table[h][p]
    BY <1>2, <2>3, GoodFacts, SpotIn
  <2>. QED
    BY <2>5, <2>6
<1>3. ASSUME NEW e \in EntriesOf(D.ht1), e.key = k PROVE Value(D, k) = e.val
  <2>1. k \in KeysIn(D.ht1) /\ k \in Stored(D)
    BY <1>3, GoodFacts DEF KeysIn
  <2>2. Lookup(D, k) = "ht1" /\ Found(D, k)
    BY <2>1, LookupSpec
  <2>3. PICK h, p : Spot(D.ht1, k, h, p)
    BY <2>1, GoodFacts, KeySpot
  <2>4. HomeChain(D, k) = D.ht1.table[h]
    BY <2>2, <2>3 DEF HomeChain, Chain, Bucket, Spot
  <2>5. Value(D, k) = D.ht1.table[h][p].val
    BY <2>2, <2>3, <2>4 DEF Value, Spot
  <2>6. e = D.ht1.table[h][p]
    BY <1>3, <2>3, GoodFacts, SpotIn
  <2>. QED
    BY <2>5, <2>6
<1>. QED
  BY <1>1, <1>2, <1>3 DEF Entries

----------------------------------------------------------------------------
(* The operations.  One table of a dict is replaced.                        *)
PutHt0(D, R, r) == R = [D EXCEPT !.ht0 = r]
PutHt1(D, R, r) == R = [D EXCEPT !.ht1 = r]

LEMMA NewHt0 ==
    ASSUME NEW D, Good(D), NEW r, Full(r), r.size = D.ht0.size,
           KeysIn(r) \intersect KeysIn(D.ht1) = {},
           D.rehashidx # -1 => \A i \in 0..(D.rehashidx - 1) : r.table[i] = <<>>,
           NEW R, PutHt0(D, R, r)
    PROVE  /\ Good(R) /\ R.ht0 = r /\ R.ht1 = D.ht1 /\ R.rehashidx = D.rehashidx
           /\ R.iterators = D.iterators
<1>1. D \in Dicts /\ r \in Tables /\ Full(D.ht1)
  BY GoodFacts DEF Full, Shape
<1>2. /\ R \in Dicts /\ R.ht0 = r /\ R.ht1 = D.ht1 /\ R.rehashidx = D.rehashidx
      /\ R.iterators = D.iterators
  BY <1>1 DEF Dicts, PutHt0
<1>. QED
  BY <1>1, <1>2 DEF Good, Apart

LEMMA NewHt1 ==
    ASSUME NEW D, Good(D), D.rehashidx # -1, NEW r, Full(r), r.size = D.ht1.size,
           KeysIn(D.ht0) \intersect KeysIn(r) = {}, NEW R, PutHt1(D, R, r)
    PROVE  /\ Good(R) /\ R.ht1 = r /\ R.ht0 = D.ht0 /\ R.rehashidx = D.rehashidx
           /\ R.iterators = D.iterators
<1>1. D \in Dicts /\ r \in Tables /\ Full(D.ht0)
  BY GoodFacts DEF Full, Shape
<1>2. /\ R \in Dicts /\ R.ht1 = r /\ R.ht0 = D.ht0 /\ R.rehashidx = D.rehashidx
      /\ R.iterators = D.iterators
  BY <1>1 DEF Dicts, PutHt1
<1>. QED
  BY <1>1, <1>2 DEF Good, Apart

LEMMA NewTableFull ==
    ASSUME NEW n \in TableSizes
    PROVE  Full(NewTable(n)) /\ EntriesOf(NewTable(n)) = {} /\ NewTable(n).size = n
<1> DEFINE T == [i \in 0..(n - 1) |-> <<>>]
           r == NewTable(n)
<1>1. n \in Nat \ {0}
  BY SizesPositive
<1>2. r.size = n /\ r.used = 0 /\ r.table = T /\ r = [size |-> n, used |-> 0, table |-> T]
  BY DEF NewTable
<1>3. <<>> \in Seq(Entry)
  BY EmptySeq
<1>4. T \in [0..(n - 1) -> Seq(Entry)] /\ \A i \in 0..(n - 1) : T[i] = <<>>
  BY <1>3
<1> HIDE DEF T, r
<1>5. r \in Tables
  <2>1. T \in UNION {[0..(m - 1) -> Seq(Entry)] : m \in Nat}
    BY <1>1, <1>4
  <2>. QED
    BY <1>1, <1>2, <2>1 DEF Tables
<1>6. Shape(r)
  BY <1>2, <1>4, <1>5, EmptyChain DEF Shape
<1>7. EntriesOf(r) = {}
  BY <1>2, <1>4, EmptyChain DEF EntriesOf
<1>. QED
  BY <1>2, <1>6, <1>7, FS_EmptySet DEF Full, r

(* dictExpand: a first table, or an empty ht[1] and the start of a rehash.  *)
Grown(D, R) ==
    \/ R = D
    \/ D.ht0.size = 0 /\ R.ht0.size # 0 /\ R.rehashidx = -1
    \/ /\ D.ht0.size # 0 /\ D.rehashidx = -1 /\ R.ht0 = D.ht0 /\ R.rehashidx = 0
       /\ EntriesOf(R.ht1) = {}

LEMMA ExpandGood ==
    ASSUME NEW D, Good(D), NEW size \in Nat, \E n \in TableSizes : n >= size,
           NEW R, R = dictExpand(D, size)
    PROVE  Good(R) /\ Same(D, R) /\ Grown(D, R)
<1> DEFINE n == dictNextPower(size)
           r == NewTable(n)
<1>1. n \in TableSizes /\ n \in Nat \ {0}
  BY NextPower, SizesPositive
<1>2. Full(r) /\ EntriesOf(r) = {} /\ r.size = n /\ KeysIn(r) = {} /\ r \in Tables
  <2> HIDE DEF n
  <2>. QED
    BY <1>1, NewTableFull DEF KeysIn, Full, Shape
<1>3. D \in Dicts /\ Full(D.ht0) /\ Full(D.ht1)
  BY GoodFacts
<1>4. CASE ~Expandable(D, size)
  BY <1>4 DEF dictExpand, Same, Grown
<1>5. CASE Expandable(D, size) /\ D.ht0.size = 0
  <2>1. R = [D EXCEPT !.ht0 = r]
    BY <1>5 DEF dictExpand
  <2>2. D.rehashidx = -1 /\ D.ht1 = NoTable
    BY <1>5 DEF Expandable, dictIsRehashing, Good
  <2> HIDE DEF r, n
  <2>3. /\ R \in Dicts /\ R.ht0 = r /\ R.ht1 = D.ht1 /\ R.rehashidx = D.rehashidx
        /\ R.iterators = D.iterators
    BY <1>2, <1>3, <2>1 DEF Dicts
  <2>4. Good(R)
    BY <1>2, <1>3, <2>2, <2>3 DEF Good, Apart
  <2>5. EntriesOf(D.ht0) = {}
    BY <1>5, GoodFacts DEF KeysIn
  <2>. QED
    BY <1>1, <1>2, <1>5, <2>2, <2>3, <2>4, <2>5 DEF Same, Entries, Grown
<1>6. CASE Expandable(D, size) /\ D.ht0.size # 0
  <2>1. R = [D EXCEPT !.ht1 = r, !.rehashidx = 0]
    BY <1>6 DEF dictExpand
  <2>2. D.rehashidx = -1 /\ D.ht1 = NoTable
    BY <1>6 DEF Expandable, dictIsRehashing, Good
  <2> HIDE DEF r, n
  <2>3. /\ R \in Dicts /\ R.ht0 = D.ht0 /\ R.ht1 = r /\ R.rehashidx = 0
        /\ R.iterators = D.iterators
    <3> DEFINE z == 0
    <3>1. z \in Int /\ R = [D EXCEPT !.ht1 = r, !.rehashidx = z]
      BY <2>1
    <3> HIDE DEF z
    <3>2. /\ R \in Dicts /\ R.ht0 = D.ht0 /\ R.ht1 = r /\ R.rehashidx = z
          /\ R.iterators = D.iterators
      BY <1>2, <1>3, <3>1 DEF Dicts
    <3>. QED
      BY <3>2 DEF z
  <2>4. D.ht0.size \in Nat \ {0}
    BY <1>6, GoodFacts
  <2>5. 0 \in 0..(D.ht0.size - 1) /\ 0..(0 - 1) = {} /\ 0 # -1
    BY <2>4
  <2>6. Good(R)
    <3>1. Apart(R)
      BY <1>2, <1>3, <2>3 DEF Apart
    <3>2. R.ht1.size # 0
      BY <1>1, <1>2, <2>3
    <3>3. R.rehashidx \in 0..(R.ht0.size - 1) /\ 0..(R.rehashidx - 1) = {} /\ R.rehashidx # -1
      BY <2>3, <2>5
    <3>. QED
      BY <3>1, <3>2, <3>3 DEF Good
  <2>. QED
    BY <1>2, <1>6, <2>2, <2>3, <2>6, NoTableFull DEF Same, Entries, Grown
<1>. QED
  BY <1>4, <1>5, <1>6

(* _dictExpandIfNeeded is never refused, and leaves a table to add to.      *)
LEMMA WantedRoom ==
    ASSUME NEW D, Good(D)
    PROVE  /\ WantedSize(D) \in Nat /\ \E n \in TableSizes : n >= WantedSize(D)
           /\ ~ExpandRefused(D)
           /\ D.ht0.size = 0 => WantedSize(D) # 0 /\ Expandable(D, WantedSize(D))
<1> DEFINE w == WantedSize(D)
           u == D.ht0.used
           K == Cardinality(Keys)
<1>1. u \in Nat /\ u <= K /\ D.ht0.size \in Nat /\ K \in Nat
  <2>1. K \in Nat
    BY RoomAssumption, FS_CardinalityType
  <2>. QED
    BY <2>1, GoodFacts, FullFinite
<1>2. InitialSize \in Nat \ {0}
  BY SizesPositive
<1>3. \A n \in TableSizes : n \in Nat \ {0}
  BY SizesPositive
<1>4. (\E n \in TableSizes : n >= InitialSize) /\ (\E n \in TableSizes : n >= 2 * K)
  BY RoomAssumption
<1>5. CASE w = 0
  <2>1. D.ht0.size # 0
    BY <1>2, <1>5, GoodFacts DEF WantedSize, dictIsRehashing
  <2>2. \E n \in TableSizes : n >= 0
    BY <1>2, <1>3, <1>4
  <2>. QED
    BY <1>5, <2>1, <2>2 DEF ExpandRefused
<1>6. CASE w # 0 /\ D.ht0.size = 0
  <2>1. w = InitialSize /\ ~dictIsRehashing(D)
    BY <1>6 DEF WantedSize
  <2>2. u = 0
    <3>1. EntriesOf(D.ht0) = {}
      BY <1>6, GoodFacts DEF KeysIn
    <3>. QED
      BY <3>1, GoodFacts, FS_EmptySet DEF Full
  <2>3. dictNextPower(w) # 0
    BY <1>2, <1>3, <1>4, <2>1, NextPower
  <2>4. Expandable(D, w)
    BY <1>2, <1>6, <2>1, <2>2, <2>3 DEF Expandable
  <2>. QED
    BY <1>2, <1>4, <1>6, <2>1, <2>4 DEF ExpandRefused
<1>7. CASE w # 0 /\ D.ht0.size # 0
  <2>1. w = u * 2 /\ u >= D.ht0.size /\ ~dictIsRehashing(D)
    BY <1>7 DEF WantedSize
  <2>2. w \in Nat /\ \E n \in TableSizes : n >= w
    <3>1. PICK n \in TableSizes : n >= 2 * K
      BY <1>4
    <3>2. n >= w
      BY <1>1, <1>3, <2>1, <3>1
    <3>. QED
      BY <1>1, <2>1, <3>2
  <2> HIDE DEF w
  <2>3. dictNextPower(w) \in TableSizes /\ dictNextPower(w) >= w
    BY <2>2, NextPower
  <2>4. dictNextPower(w) # D.ht0.size /\ u <= w
    BY <1>1, <1>3, <1>7, <2>1, <2>3
  <2>5. Expandable(D, w)
    BY <2>1, <2>4 DEF Expandable
  <2>. QED
    BY <1>7, <2>2, <2>5 DEF ExpandRefused, w
<1>. QED
  BY <1>5, <1>6, <1>7

LEMMA PreparedGood ==
    ASSUME NEW D, Good(D), NEW A, A = AddPrepared(D)
    PROVE  /\ Good(A) /\ Same(D, A) /\ A.ht0.size # 0 /\ ~ExpandRefused(Stepped(D))
           /\ D.iterators # 0 => Grown(D, A)
<1> DEFINE S == Stepped(D)
           w == WantedSize(S)
<1>1. Good(S) /\ Same(D, S) /\ (D.iterators # 0 => S = D)
  BY SteppedGood
<1> HIDE DEF S
<1>2. A = IF w = 0 THEN S ELSE dictExpand(S, w)
  BY DEF AddPrepared, dictExpandIfNeeded, S
<1>3. /\ w \in Nat /\ \E n \in TableSizes : n >= w
      /\ ~ExpandRefused(S) /\ (S.ht0.size = 0 => w # 0 /\ Expandable(S, w))
  BY <1>1, WantedRoom
<1> HIDE DEF w
<1>4. CASE w = 0
  BY <1>1, <1>2, <1>3, <1>4 DEF Grown, S
<1>5. CASE w # 0
  <2>1. A = dictExpand(S, w)
    BY <1>2, <1>5
  <2>2. Good(A) /\ Same(S, A) /\ Grown(S, A)
    BY <1>1, <1>3, <2>1, ExpandGood
  <2>3. A.ht0.size # 0
    <3>1. CASE S.ht0.size # 0
      BY <2>2, <3>1 DEF Grown
    <3>2. CASE S.ht0.size = 0
      <4>1. A = [S EXCEPT !.ht0 = NewTable(dictNextPower(w))]
        BY <1>3, <2>1, <3>2 DEF dictExpand
      <4>2. dictNextPower(w) \in Nat \ {0}
        BY <1>3, NextPower, SizesPositive
      <4>3. S \in Dicts
        BY <1>1, GoodFacts
      <4>. QED
        BY <4>1, <4>2, <4>3 DEF NewTable, Dicts
    <3>. QED
      BY <3>1, <3>2
  <2>. QED
    BY <1>1, <1>3, <2>2, <2>3 DEF Same, S
<1>. QED
  BY <1>4, <1>5

(* A new entry goes to the head of its chain in ht[1] while rehashing, else *)
(* in ht[0].                                                                *)
Pushed(D, R, e) ==
    \/ D.rehashidx # -1 /\ R.ht1 = Linked(D.ht1, e) /\ R.ht0 = D.ht0
    \/ D.rehashidx = -1 /\ R.ht0 = Linked(D.ht0, e) /\ R.ht1 = D.ht1

LEMMA PushGood ==
    ASSUME NEW D, Good(D), D.ht0.size # 0, NEW k \in Keys, NEW v \in Values,
           k \notin Stored(D), NEW R, R = Push(D, k, v), NEW e, e = [key |-> k, val |-> v]
    PROVE  /\ Good(R) /\ Entries(R) = Entries(D) \union {e}
           /\ R.rehashidx = D.rehashidx /\ R.iterators = D.iterators /\ Pushed(D, R, e)
<1>1. e \in Entry /\ e.key = k
  BY DEF Entry
<1>2. e.key \notin KeysIn(D.ht0) /\ e.key \notin KeysIn(D.ht1)
  BY <1>1, GoodFacts
<1>3. CASE D.rehashidx # -1
  <2> DEFINE r == Linked(D.ht1, e)
  <2>1. PutHt1(D, R, r)
    BY <1>3 DEF Push, dictIsRehashing, PutHt1
  <2>2. Full(r) /\ r.size = D.ht1.size /\ EntriesOf(r) = EntriesOf(D.ht1) \union {e}
    <3> DEFINE ht == D.ht1
    <3>1. Full(ht) /\ ht.size # 0 /\ e.key \notin KeysIn(ht) /\ IsLinked(r, ht, e)
      BY <1>2, <1>3, GoodFacts DEF IsLinked
    <3> HIDE DEF ht, r
    <3>2. Full(r) /\ r.size = ht.size /\ EntriesOf(r) = EntriesOf(ht) \union {e}
      BY <1>1, <3>1, LinkedFull
    <3>. QED
      BY <3>2 DEF ht
  <2> HIDE DEF r
  <2>3. KeysIn(r) = KeysIn(D.ht1) \union {e.key}
    BY <2>2 DEF KeysIn
  <2>4. KeysIn(D.ht0) \intersect KeysIn(r) = {}
    BY <1>2, <2>3, GoodFacts
  <2>5. /\ Good(R) /\ R.ht1 = r /\ R.ht0 = D.ht0 /\ R.rehashidx = D.rehashidx
        /\ R.iterators = D.iterators
    BY <1>3, <2>1, <2>2, <2>4, NewHt1
  <2>. QED
    BY <1>3, <2>2, <2>5 DEF Entries, Pushed, r
<1>4. CASE D.rehashidx = -1
  <2> DEFINE r == Linked(D.ht0, e)
  <2>1. PutHt0(D, R, r)
    BY <1>4 DEF Push, dictIsRehashing, PutHt0
  <2>2. Full(r) /\ r.size = D.ht0.size /\ EntriesOf(r) = EntriesOf(D.ht0) \union {e}
    <3> DEFINE ht == D.ht0
    <3>1. Full(ht) /\ ht.size # 0 /\ e.key \notin KeysIn(ht) /\ IsLinked(r, ht, e)
      BY <1>2, GoodFacts DEF IsLinked
    <3> HIDE DEF ht, r
    <3>2. Full(r) /\ r.size = ht.size /\ EntriesOf(r) = EntriesOf(ht) \union {e}
      BY <1>1, <3>1, LinkedFull
    <3>. QED
      BY <3>2 DEF ht
  <2> HIDE DEF r
  <2>3. KeysIn(D.ht1) = {}
    BY <1>4, GoodFacts
  <2>4. KeysIn(r) \intersect KeysIn(D.ht1) = {}
    BY <2>3
  <2>5. /\ Good(R) /\ R.ht0 = r /\ R.ht1 = D.ht1 /\ R.rehashidx = D.rehashidx
        /\ R.iterators = D.iterators
    BY <1>4, <2>1, <2>2, <2>4, NewHt0
  <2>. QED
    BY <1>4, <2>2, <2>5 DEF Entries, Pushed, r
<1>. QED
  BY <1>3, <1>4

(* What SetVal and Unlink make of the table that has the key.               *)
SetIn(ht, r, k, v) ==
    \E h, p, b : Spot(ht, k, h, p) /\ SetAt(ht, r, h, p, b, [key |-> k, val |-> v])
CutFrom(ht, r, k) == \E h, p, b : Spot(ht, k, h, p) /\ CutAt(ht, r, h, p, b)

(* Entries other than those of a key.                                       *)
Others(E, k) == {e \in E : e.key # k}

(* Buckets that were empty stay so when another one changes.                *)
StillEmpty(ht, r) == \A i \in 0..(ht.size - 1) : ht.table[i] = <<>> => r.table[i] = <<>>

LEMMA SetInFull ==
    ASSUME NEW ht, Full(ht), NEW k \in Keys, NEW v \in Values, NEW r, SetIn(ht, r, k, v)
    PROVE  /\ Full(r) /\ r.size = ht.size /\ StillEmpty(ht, r) /\ k \in KeysIn(ht)
           /\ EntriesOf(r) = Others(EntriesOf(ht), k) \union {[key |-> k, val |-> v]}
<1> DEFINE e == [key |-> k, val |-> v]
<1>1. PICK h, p, b : Spot(ht, k, h, p) /\ SetAt(ht, r, h, p, b, e)
  BY DEF SetIn
<1>2. Shape(ht) /\ e \in Entry /\ e.key = k
  BY DEF Full, Entry
<1>3. h \in 0..(ht.size - 1) /\ p \in 1..Len(ht.table[h]) /\ ht.table[h][p].key = k
  BY <1>1 DEF Spot
<1>4. /\ ht.table[h] # <<>> /\ k \in KeysIn(ht) /\ ht.table[h][p] \in EntriesOf(ht)
      /\ \A x \in EntriesOf(ht) : x.key = k => x = ht.table[h][p]
  BY <1>1, <1>2, SpotIn
<1> HIDE DEF e
<1>5. e.key = ht.table[h][p].key
  BY <1>2, <1>3
<1>6. /\ Full(r) /\ r.size = ht.size /\ r.table = [ht.table EXCEPT ![h] = b]
      /\ EntriesOf(r) = (EntriesOf(ht) \ {ht.table[h][p]}) \union {e}
  <2>1. SetMade(ht, r, h, p, b, e)
    BY <1>1, <1>2, <1>3, <1>5, ReplacedFull
  <2>. QED
    BY <2>1 DEF SetMade
<1>7. EntriesOf(ht) \ {ht.table[h][p]} = Others(EntriesOf(ht), k)
  BY <1>3, <1>4 DEF Others
<1>8. StillEmpty(ht, r)
  <2>1. ht.table \in [0..(ht.size - 1) -> Seq(Entry)]
    BY <1>2 DEF Shape
  <2>. QED
    BY <1>3, <1>4, <1>6, <2>1 DEF StillEmpty
<1>. QED
  BY <1>4, <1>6, <1>7, <1>8 DEF e

LEMMA CutFromFull ==
    ASSUME NEW ht, Full(ht), NEW k \in Keys, NEW r, CutFrom(ht, r, k)
    PROVE  /\ Full(r) /\ r.size = ht.size /\ StillEmpty(ht, r) /\ k \in KeysIn(ht)
           /\ EntriesOf(r) = Others(EntriesOf(ht), k)
<1>1. PICK h, p, b : Spot(ht, k, h, p) /\ CutAt(ht, r, h, p, b)
  BY DEF CutFrom
<1>2. Shape(ht)
  BY DEF Full
<1>3. h \in 0..(ht.size - 1) /\ p \in 1..Len(ht.table[h]) /\ ht.table[h][p].key = k
  BY <1>1 DEF Spot
<1>4. /\ ht.table[h] # <<>> /\ k \in KeysIn(ht) /\ ht.table[h][p] \in EntriesOf(ht)
      /\ \A x \in EntriesOf(ht) : x.key = k => x = ht.table[h][p]
  BY <1>1, <1>2, SpotIn
<1>5. /\ Full(r) /\ r.size = ht.size /\ r.table = [ht.table EXCEPT ![h] = b]
      /\ EntriesOf(r) = EntriesOf(ht) \ {ht.table[h][p]}
  <2>1. CutMade(ht, r, h, p, b)
    BY <1>1, <1>3, RemovedFull
  <2>. QED
    BY <2>1 DEF CutMade
<1>6. EntriesOf(ht) \ {ht.table[h][p]} = Others(EntriesOf(ht), k)
  BY <1>3, <1>4 DEF Others
<1>7. StillEmpty(ht, r)
  <2>1. ht.table \in [0..(ht.size - 1) -> Seq(Entry)]
    BY <1>2 DEF Shape
  <2>. QED
    BY <1>3, <1>4, <1>5, <2>1 DEF StillEmpty
<1>. QED
  BY <1>4, <1>5, <1>6, <1>7

LEMMA OthersOfBoth ==
    ASSUME NEW D, Good(D), NEW k
    PROVE  /\ k \notin KeysIn(D.ht0) => Others(EntriesOf(D.ht0), k) = EntriesOf(D.ht0)
           /\ k \notin KeysIn(D.ht1) => Others(EntriesOf(D.ht1), k) = EntriesOf(D.ht1)
           /\ Others(Entries(D), k) =
                 Others(EntriesOf(D.ht0), k) \union Others(EntriesOf(D.ht1), k)
BY DEF Others, KeysIn, Entries

(* One table changes and keeps its keys, or loses some.                     *)
NewIn(D, R, r, t) ==
    /\ R.rehashidx = D.rehashidx /\ R.iterators = D.iterators
    /\ \/ t = "ht0" /\ R.ht0 = r /\ R.ht1 = D.ht1
       \/ t = "ht1" /\ R.ht1 = r /\ R.ht0 = D.ht0 /\ D.rehashidx # -1

LEMMA FewerHt0 ==
    ASSUME NEW D, Good(D), NEW r, Full(r), r.size = D.ht0.size, StillEmpty(D.ht0, r),
           KeysIn(r) \subseteq KeysIn(D.ht0), NEW R, PutHt0(D, R, r)
    PROVE  Good(R) /\ NewIn(D, R, r, "ht0")
<1>2. KeysIn(r) \intersect KeysIn(D.ht1) = {}
  BY GoodFacts
<1>3. D.rehashidx # -1 => \A i \in 0..(D.rehashidx - 1) : r.table[i] = <<>>
  <2>1. D.ht0.size \in Nat /\ D.rehashidx \in Int
    BY GoodFacts DEF Dicts
  <2>2. D.rehashidx # -1 => \A i \in 0..(D.rehashidx - 1) : i \in 0..(D.ht0.size - 1)
    BY <2>1 DEF Good
  <2>. QED
    BY <2>2 DEF Good, StillEmpty
<1>4. /\ Good(R) /\ R.ht0 = r /\ R.ht1 = D.ht1 /\ R.rehashidx = D.rehashidx
      /\ R.iterators = D.iterators
  BY <1>2, <1>3, NewHt0
<1>. QED
  BY <1>4 DEF NewIn

LEMMA FewerHt1 ==
    ASSUME NEW D, Good(D), D.rehashidx # -1, NEW r, Full(r), r.size = D.ht1.size,
           KeysIn(r) \subseteq KeysIn(D.ht1), NEW R, PutHt1(D, R, r)
    PROVE  Good(R) /\ NewIn(D, R, r, "ht1")
<1>2. KeysIn(D.ht0) \intersect KeysIn(r) = {}
  BY GoodFacts
<1>4. /\ Good(R) /\ R.ht1 = r /\ R.ht0 = D.ht0 /\ R.rehashidx = D.rehashidx
      /\ R.iterators = D.iterators
  BY <1>2, NewHt1
<1>. QED
  BY <1>4 DEF NewIn

(* What SetVal and Unlink do to a dict that has the key.                    *)
SetOf(D, R, k, v) ==
    \E r : \/ k \in KeysIn(D.ht0) /\ NewIn(D, R, r, "ht0") /\ SetIn(D.ht0, r, k, v)
           \/ k \in KeysIn(D.ht1) /\ NewIn(D, R, r, "ht1") /\ SetIn(D.ht1, r, k, v)
CutOf(D, R, k) ==
    \E r : \/ k \in KeysIn(D.ht0) /\ NewIn(D, R, r, "ht0") /\ CutFrom(D.ht0, r, k)
           \/ k \in KeysIn(D.ht1) /\ NewIn(D, R, r, "ht1") /\ CutFrom(D.ht1, r, k)

LEMMA SetValGood ==
    ASSUME NEW D, Good(D), NEW k \in Stored(D), NEW v \in Values, NEW R, R = SetVal(D, k, v)
    PROVE  /\ Good(R) /\ SetOf(D, R, k, v)
           /\ Entries(R) = Others(Entries(D), k) \union {[key |-> k, val |-> v]}
<1> DEFINE e == [key |-> k, val |-> v]
<1>1. k \in Keys /\ (k \in KeysIn(D.ht0) \/ k \in KeysIn(D.ht1))
  BY GoodFacts
<1>2. e \in Entry /\ e.key = k
  BY <1>1 DEF Entry
<1>3. CASE k \in KeysIn(D.ht0)
  <2> DEFINE ht == D.ht0
  <2>1. PICK h, p : Spot(ht, k, h, p)
    BY <1>3, GoodFacts, KeySpot
  <2> DEFINE b == ReplaceAt(ht.table[h], p, e)
             r == Rechained(ht, h, b, ht.used)
  <2>2. Lookup(D, k) = "ht0" /\ D["ht0"] = ht
    BY <1>1, <1>3, LookupSpec
  <2>3. PutHt0(D, R, r)
    BY <2>1, <2>2 DEF SetVal, Spot, PutHt0
  <2>4. SetIn(ht, r, k, v)
    <3>1. SetAt(ht, r, h, p, b, e)
      BY DEF SetAt
    <3> HIDE DEF b, r, ht
    <3>. QED
      BY <2>1, <3>1, Zenon DEF SetIn
  <2> HIDE DEF b, r
  <2>5. /\ Full(r) /\ r.size = ht.size /\ StillEmpty(ht, r)
        /\ EntriesOf(r) = Others(EntriesOf(ht), k) \union {e}
    <3>1. Full(ht)
      BY GoodFacts
    <3> HIDE DEF ht
    <3>. QED
      BY <1>1, <2>4, <3>1, SetInFull
  <2>6. KeysIn(r) \subseteq KeysIn(ht)
    BY <1>2, <1>3, <2>5 DEF KeysIn, Others
  <2>7. Good(R) /\ NewIn(D, R, r, "ht0")
    BY <2>3, <2>5, <2>6, FewerHt0
  <2>8. k \notin KeysIn(D.ht1)
    BY <1>3, GoodFacts
  <2>9. Others(EntriesOf(D.ht1), k) = EntriesOf(D.ht1)
    BY <2>8, OthersOfBoth
  <2>10. Entries(R) = Others(Entries(D), k) \union {e}
    BY <2>5, <2>7, <2>9, OthersOfBoth DEF Entries, NewIn
  <2>11. SetOf(D, R, k, v)
    BY <1>3, <2>4, <2>7, Zenon DEF SetOf
  <2>. QED
    BY <2>7, <2>10, <2>11
<1>4. CASE k \in KeysIn(D.ht1)
  <2> DEFINE ht == D.ht1
  <2>1. PICK h, p : Spot(ht, k, h, p)
    BY <1>4, GoodFacts, KeySpot
  <2> DEFINE b == ReplaceAt(ht.table[h], p, e)
             r == Rechained(ht, h, b, ht.used)
  <2>2. Lookup(D, k) = "ht1" /\ D["ht1"] = ht /\ D.rehashidx # -1
    BY <1>1, <1>4, LookupSpec, GoodFacts
  <2>3. PutHt1(D, R, r)
    BY <2>1, <2>2 DEF SetVal, Spot, PutHt1
  <2>4. SetIn(ht, r, k, v)
    <3>1. SetAt(ht, r, h, p, b, e)
      BY DEF SetAt
    <3> HIDE DEF b, r, ht
    <3>. QED
      BY <2>1, <3>1, Zenon DEF SetIn
  <2> HIDE DEF b, r
  <2>5. /\ Full(r) /\ r.size = ht.size
        /\ EntriesOf(r) = Others(EntriesOf(ht), k) \union {e}
    <3>1. Full(ht)
      BY GoodFacts
    <3> HIDE DEF ht
    <3>. QED
      BY <1>1, <2>4, <3>1, SetInFull
  <2>6. KeysIn(r) \subseteq KeysIn(ht)
    BY <1>2, <1>4, <2>5 DEF KeysIn, Others
  <2>7. Good(R) /\ NewIn(D, R, r, "ht1")
    BY <2>2, <2>3, <2>5, <2>6, FewerHt1
  <2>8. k \notin KeysIn(D.ht0)
    BY <1>4, GoodFacts
  <2>9. Others(EntriesOf(D.ht0), k) = EntriesOf(D.ht0)
    BY <2>8, OthersOfBoth
  <2>10. Entries(R) = Others(Entries(D), k) \union {e}
    BY <2>5, <2>7, <2>9, OthersOfBoth DEF Entries, NewIn
  <2>11. SetOf(D, R, k, v)
    BY <1>4, <2>4, <2>7, Zenon DEF SetOf
  <2>. QED
    BY <2>7, <2>10, <2>11
<1>. QED
  BY <1>1, <1>3, <1>4

LEMMA UnlinkGood ==
    ASSUME NEW D, Good(D), NEW k \in Stored(D), NEW R, R = Unlink(D, k)
    PROVE  /\ Good(R) /\ CutOf(D, R, k)
           /\ Entries(R) = Others(Entries(D), k)
<1>1. k \in Keys /\ (k \in KeysIn(D.ht0) \/ k \in KeysIn(D.ht1))
  BY GoodFacts
<1>3. CASE k \in KeysIn(D.ht0)
  <2> DEFINE ht == D.ht0
  <2>1. PICK h, p : Spot(ht, k, h, p)
    BY <1>3, GoodFacts, KeySpot
  <2> DEFINE b == RemoveAt(ht.table[h], p)
             r == Rechained(ht, h, b, ht.used - 1)
  <2>2. Lookup(D, k) = "ht0" /\ D["ht0"] = ht
    BY <1>1, <1>3, LookupSpec
  <2>3. PutHt0(D, R, r)
    BY <2>1, <2>2 DEF Unlink, Spot, PutHt0
  <2>4. CutFrom(ht, r, k)
    <3>1. CutAt(ht, r, h, p, b)
      BY DEF CutAt
    <3> HIDE DEF b, r, ht
    <3>. QED
      BY <2>1, <3>1, Zenon DEF CutFrom
  <2> HIDE DEF b, r
  <2>5. /\ Full(r) /\ r.size = ht.size /\ StillEmpty(ht, r)
        /\ EntriesOf(r) = Others(EntriesOf(ht), k)
    <3>1. Full(ht)
      BY GoodFacts
    <3> HIDE DEF ht
    <3>. QED
      BY <1>1, <2>4, <3>1, CutFromFull
  <2>6. KeysIn(r) \subseteq KeysIn(ht)
    BY <2>5 DEF KeysIn, Others
  <2>7. Good(R) /\ NewIn(D, R, r, "ht0")
    BY <2>3, <2>5, <2>6, FewerHt0
  <2>8. k \notin KeysIn(D.ht1)
    BY <1>3, GoodFacts
  <2>9. Others(EntriesOf(D.ht1), k) = EntriesOf(D.ht1)
    BY <2>8, OthersOfBoth
  <2>10. Entries(R) = Others(Entries(D), k)
    BY <2>5, <2>7, <2>9, OthersOfBoth DEF Entries, NewIn
  <2>11. CutOf(D, R, k)
    BY <1>3, <2>4, <2>7, Zenon DEF CutOf
  <2>. QED
    BY <2>7, <2>10, <2>11
<1>4. CASE k \in KeysIn(D.ht1)
  <2> DEFINE ht == D.ht1
  <2>1. PICK h, p : Spot(ht, k, h, p)
    BY <1>4, GoodFacts, KeySpot
  <2> DEFINE b == RemoveAt(ht.table[h], p)
             r == Rechained(ht, h, b, ht.used - 1)
  <2>2. Lookup(D, k) = "ht1" /\ D["ht1"] = ht /\ D.rehashidx # -1
    BY <1>1, <1>4, LookupSpec, GoodFacts
  <2>3. PutHt1(D, R, r)
    BY <2>1, <2>2 DEF Unlink, Spot, PutHt1
  <2>4. CutFrom(ht, r, k)
    <3>1. CutAt(ht, r, h, p, b)
      BY DEF CutAt
    <3> HIDE DEF b, r, ht
    <3>. QED
      BY <2>1, <3>1, Zenon DEF CutFrom
  <2> HIDE DEF b, r
  <2>5. /\ Full(r) /\ r.size = ht.size
        /\ EntriesOf(r) = Others(EntriesOf(ht), k)
    <3>1. Full(ht)
      BY GoodFacts
    <3> HIDE DEF ht
    <3>. QED
      BY <1>1, <2>4, <3>1, CutFromFull
  <2>6. KeysIn(r) \subseteq KeysIn(ht)
    BY <2>5 DEF KeysIn, Others
  <2>7. Good(R) /\ NewIn(D, R, r, "ht1")
    BY <2>2, <2>3, <2>5, <2>6, FewerHt1
  <2>8. k \notin KeysIn(D.ht0)
    BY <1>4, GoodFacts
  <2>9. Others(EntriesOf(D.ht0), k) = EntriesOf(D.ht0)
    BY <2>8, OthersOfBoth
  <2>10. Entries(R) = Others(Entries(D), k)
    BY <2>5, <2>7, <2>9, OthersOfBoth DEF Entries, NewIn
  <2>11. CutOf(D, R, k)
    BY <1>4, <2>4, <2>7, Zenon DEF CutOf
  <2>. QED
    BY <2>7, <2>10, <2>11
<1>. QED
  BY <1>1, <1>3, <1>4

(* The steps of a rehash that the other calls make.                         *)
LEMMA TouchedGood ==
    ASSUME NEW D, Good(D), NEW R, R = Touched(D)
    PROVE  Good(R) /\ Same(D, R) /\ (D.iterators # 0 => R = D)
<1>1. R = Stepped(D) \/ R = D
  BY DEF Touched
<1>2. ASSUME R = Stepped(D) PROVE Good(R) /\ Same(D, R) /\ (D.iterators # 0 => R = D)
  BY <1>2, SteppedGood
<1>3. ASSUME R = D PROVE Good(R) /\ Same(D, R) /\ (D.iterators # 0 => R = D)
  BY <1>3 DEF Same
<1>. QED
  BY <1>1, <1>2, <1>3

Steps(step, D, n) ==
    step = [i \in 0..n |-> IF i = 0 THEN D ELSE Stepped(step[i - 1])]

LEMMA StepsGood ==
    ASSUME NEW D, Good(D), NEW n \in Nat,
           NEW R, R = (CHOOSE step : Steps(step, D, n))[n]
    PROVE  Good(R) /\ Same(D, R) /\ (D.iterators # 0 => R = D)
<1> DEFINE S == {F \in Dicts : Good(F) /\ Same(D, F) /\ (D.iterators # 0 => F = D)}
           g == [p \in (1..n) \X S |-> Stepped(p[2])]
           step == CHOOSE s : Steps(s, D, n)
<1>1. D \in S
  BY GoodFacts DEF Same
<1>2. ASSUME NEW F \in S PROVE Stepped(F) \in S
  <2> DEFINE T == Stepped(F)
  <2>1. Good(F) /\ Same(D, F) /\ (D.iterators # 0 => F = D) /\ T = Stepped(F)
    OBVIOUS
  <2> HIDE DEF T, S
  <2>2. Good(T) /\ Same(F, T) /\ (F.iterators # 0 => T = F)
    BY <2>1, SteppedGood
  <2>3. T \in Dicts
    BY <2>2, GoodFacts
  <2>4. Same(D, T) /\ (D.iterators # 0 => T = D)
    BY <2>1, <2>2 DEF Same
  <2>. QED
    BY <2>2, <2>3, <2>4 DEF S, T
<1>3. g \in [(1..n) \X S -> S]
  <2> HIDE DEF S
  <2>. QED
    BY <1>2
<1>4. PICK f \in [0..n -> S] : Solves(f, n, D, g)
  <2> HIDE DEF g, S
  <2>. QED
    BY <1>1, <1>3, Recursion
<1>5. Steps(f, D, n)
  <2>1. ASSUME NEW i \in 0..n, i # 0 PROVE g[<<i, f[i - 1]>>] = Stepped(f[i - 1])
    <3>1. <<i, f[i - 1]>> \in (1..n) \X S
      BY <2>1
    <3> HIDE DEF S
    <3>. QED
      BY <3>1
  <2> HIDE DEF g
  <2>. QED
    BY <1>4, <2>1 DEF Solves, Steps
<1>6. Steps(step, D, n)
  BY <1>5, Zenon
<1> HIDE DEF step
<1>7. step[0] = D /\ \A i \in 1..n : step[i] = Stepped(step[i - 1])
  BY <1>6 DEF Steps
<1> DEFINE G == {i \in 0..n : step[i] \in S}
<1>8. 0 \in G
  <2> HIDE DEF S
  <2>. QED
    BY <1>1, <1>7
<1>9. ASSUME NEW i \in 1..n, i - 1 \in G PROVE i \in G
  <2> HIDE DEF S
  <2>. QED
    BY <1>2, <1>7, <1>9
<1>10. n \in G
  <2> HIDE DEF G
  <2>1. \A i \in 0..n : i \in G
    BY <1>8, <1>9, UpTo
  <2>. QED
    BY <2>1
<1>. QED
  BY <1>10 DEF step

----------------------------------------------------------------------------
(* Safe iterators.  The places of a table, and the keys at those that an    *)
(* iterator in bucket x with the saved entry nx has still to come to.       *)
At(ht, i, j, k) ==
    i \in 0..(ht.size - 1) /\ j \in 1..Len(ht.table[i]) /\ ht.table[i][j].key = k
Due(ht, x, nx, i, j) ==
    \/ i > x
    \/ i = x /\ nx # None /\ \E q : At(ht, i, q, nx) /\ q <= j
Rest(ht, x, nx) ==
    {k \in Keys : \E i, j : At(ht, i, j, k) /\ Due(ht, x, nx, i, j)}

LEMMA AtOnce ==
    ASSUME NEW ht, Shape(ht), NEW i, NEW j, NEW m, NEW q, NEW k,
           At(ht, i, j, k), At(ht, m, q, k)
    PROVE  i = m /\ j = q
<1>1. /\ i \in 0..(ht.size - 1) /\ j \in 1..Len(ht.table[i]) /\ ht.table[i][j].key = k
      /\ m \in 0..(ht.size - 1) /\ q \in 1..Len(ht.table[m]) /\ ht.table[m][q].key = k
  BY DEF At
<1>2. Chained(ht.table[i], i, ht.size) /\ Chained(ht.table[m], m, ht.size)
  BY <1>1 DEF Shape
<1>3. Hash[k] % ht.size = i /\ Hash[k] % ht.size = m
  BY <1>1, <1>2 DEF Chained
<1>4. i = m
  BY <1>3
<1>. QED
  BY <1>1, <1>2, <1>4 DEF Chained

LEMMA AtFacts ==
    ASSUME NEW ht, Shape(ht)
    PROVE  /\ \A k : k \in KeysIn(ht) <=> \E i, j : At(ht, i, j, k)
           /\ \A i, j, k : At(ht, i, j, k) => i \in Nat /\ j \in Nat /\ k \in Keys
<1>1. ASSUME NEW i, NEW j, NEW k, At(ht, i, j, k)
      PROVE  i \in Nat /\ j \in Nat /\ k \in Keys /\ k \in KeysIn(ht)
  <2>1. i \in 0..(ht.size - 1) /\ j \in 1..Len(ht.table[i]) /\ ht.table[i][j].key = k
    BY <1>1 DEF At
  <2>2. ht.table[i][j] \in EntriesOf(ht) /\ k \in Keys
    BY <2>1, PlacedIn
  <2>. QED
    BY <2>1, <2>2 DEF KeysIn
<1>2. ASSUME NEW k \in KeysIn(ht) PROVE \E i, j : At(ht, i, j, k)
  <2>1. PICK h, p : Spot(ht, k, h, p)
    BY KeySpot
  <2>2. At(ht, h, p, k)
    BY <2>1 DEF Spot, At
  <2>. QED
    BY <2>2
<1>. QED
  BY <1>1, <1>2

(* r has the keys K of ht in the same buckets, in the same order.           *)
Keeps(ht, r, K) ==
    /\ \A i, j, k : k \in K /\ At(ht, i, j, k) => \E m : At(r, i, m, k)
    /\ \A i, j, q, m, n, k, l :
          /\ k \in K /\ l \in K /\ At(ht, i, j, k) /\ At(ht, i, q, l)
          /\ At(r, i, m, k) /\ At(r, i, n, l) /\ q <= j
          => n <= m

LEMMA RestKept ==
    ASSUME NEW ht, NEW r, NEW K, Keeps(ht, r, K), NEW x, NEW nx, nx \in K \union {None}
    PROVE  Rest(ht, x, nx) \intersect K \subseteq Rest(r, x, nx)
<1> SUFFICES ASSUME NEW k \in K, k \in Rest(ht, x, nx) PROVE k \in Rest(r, x, nx)
  OBVIOUS
<1>1. PICK i, j : At(ht, i, j, k) /\ Due(ht, x, nx, i, j)
  BY DEF Rest
<1>2. PICK m : At(r, i, m, k)
  BY <1>1 DEF Keeps
<1>3. CASE i > x
  BY <1>2, <1>3 DEF Rest, Due
<1>4. CASE i = x /\ nx # None /\ \E q : At(ht, i, q, nx) /\ q <= j
  <2>1. PICK q : At(ht, i, q, nx) /\ q <= j
    BY <1>4
  <2>2. nx \in K
    BY <1>4
  <2>3. PICK n : At(r, i, n, nx)
    BY <2>1, <2>2 DEF Keeps
  <2>4. n <= m
    BY <1>1, <1>2, <2>1, <2>2, <2>3 DEF Keeps
  <2>5. Due(r, x, nx, i, m)
    BY <1>4, <2>3, <2>4 DEF Due
  <2>. QED
    BY <1>2, <2>5 DEF Rest
<1>. QED
  BY <1>1, <1>3, <1>4 DEF Due

LEMMA KeepsSame == ASSUME NEW ht, Shape(ht), NEW K PROVE Keeps(ht, ht, K)
<1>1. ASSUME NEW i, NEW j, NEW q, NEW m, NEW n, NEW k, NEW l, At(ht, i, j, k),
             At(ht, i, q, l), At(ht, i, m, k), At(ht, i, n, l), q <= j
      PROVE  n <= m
  <2>1. m = j /\ n = q
    BY <1>1, AtOnce
  <2>. QED
    BY <1>1, <2>1
<1>. QED
  BY <1>1, Zenon DEF Keeps

(* A new entry at the head of a chain moves the others of the chain by one. *)
LEMMA KeepsLinked ==
    ASSUME NEW ht, Full(ht), ht.size # 0, NEW e \in Entry, e.key \notin KeysIn(ht),
           NEW r, IsLinked(r, ht, e), NEW K, e.key \notin K
    PROVE  Keeps(ht, r, K) /\ Keeps(r, ht, K)
<1> DEFINE h == Hash[e.key] % ht.size
           c == ht.table[h]
           b == <<e>> \o c
<1>1. /\ Full(r) /\ r.size = ht.size /\ r.table = [ht.table EXCEPT ![h] = b]
      /\ h \in 0..(ht.size - 1) /\ EntriesOf(r) = EntriesOf(ht) \union {e}
  <2>1. /\ Full(r) /\ r.size = ht.size /\ EntriesOf(r) = EntriesOf(ht) \union {e}
        /\ LinkMade(r, ht, e, h)
    BY LinkedFull
  <2>. QED
    BY <2>1 DEF LinkMade
<1>2. Shape(ht) /\ Shape(r) /\ ht.size \in Nat
  BY <1>1, SizeOfShape DEF Full
<1>3. /\ ht.table \in [0..(ht.size - 1) -> Seq(Entry)] /\ Chained(c, h, ht.size)
      /\ c \in Seq(Entry) /\ Len(c) \in Nat
  BY <1>1, <1>2, SeqElements DEF Shape
<1> HIDE DEF h
<1>4. b \in Seq(Entry) /\ Len(b) = Len(c) + 1 /\ b[1] = e /\ \A i \in 1..Len(c) : b[i + 1] = c[i]
  <2>1. <<e>> \in Seq(Entry) /\ Len(<<e>>) = 1 /\ <<e>>[1] = e
    OBVIOUS
  <2>2. /\ b \in Seq(Entry) /\ Len(b) = 1 + Len(c)
        /\ \A i \in 1..(1 + Len(c)) : b[i] = IF i <= 1 THEN <<e>>[i] ELSE c[i - 1]
    <3> HIDE DEF c
    <3>. QED
      BY <1>3, <2>1, ConcatProperties
  <2> HIDE DEF b, c
  <2>3. ASSUME NEW i \in 1..Len(c) PROVE b[i + 1] = c[i]
    <3>1. i + 1 \in 1..(1 + Len(c)) /\ ~(i + 1 <= 1) /\ i + 1 - 1 = i
      BY <1>3
    <3>. QED
      BY <2>2, <3>1
  <2>4. 1 \in 1..(1 + Len(c)) /\ 1 <= 1
    BY <1>3
  <2>5. b[1] = e
    BY <2>1, <2>2, <2>4
  <2>. QED
    BY <1>3, <2>2, <2>3, <2>5
<1>5. r.table[h] = b /\ \A i \in 0..(ht.size - 1) : i # h => r.table[i] = ht.table[i]
  BY <1>1, <1>3
<1> HIDE DEF b
<1> DEFINE up(i, j) == IF i = h THEN j + 1 ELSE j
<1>6. ASSUME NEW i, NEW j, NEW k, At(ht, i, j, k) PROVE At(r, i, up(i, j), k)
  <2>1. i \in 0..(ht.size - 1) /\ j \in 1..Len(ht.table[i]) /\ ht.table[i][j].key = k
    BY <1>6 DEF At
  <2>2. CASE i # h
    BY <1>1, <1>5, <2>1, <2>2 DEF At
  <2>3. CASE i = h
    <3>1. j \in 1..Len(c) /\ c[j].key = k
      BY <2>1, <2>3
    <3>2. j + 1 \in 1..Len(b) /\ b[j + 1].key = k
      BY <1>3, <1>4, <3>1
    <3>. QED
      BY <1>1, <1>5, <2>1, <2>3, <3>2 DEF At
  <2>. QED
    BY <2>2, <2>3
<1>7. ASSUME NEW i, NEW m, NEW k \in K, At(r, i, m, k) PROVE \E j : At(ht, i, j, k) /\ m = up(i, j)
  <2>1. k \in KeysIn(ht)
    <3>1. k \in KeysIn(r)
      BY <1>2, <1>7, AtFacts
    <3>. QED
      BY <1>1, <3>1 DEF KeysIn
  <2>2. PICK n, j : At(ht, n, j, k)
    BY <1>2, <2>1, AtFacts
  <2>3. At(r, n, up(n, j), k)
    BY <1>6, <2>2
  <2> HIDE DEF up
  <2>4. n = i /\ up(n, j) = m
    BY <1>2, <1>7, <2>3, AtOnce
  <2>. QED
    BY <2>2, <2>4
<1>8. Keeps(ht, r, K)
  <2>1. ASSUME NEW i, NEW j, NEW q, NEW m, NEW n, NEW k, NEW l, At(ht, i, j, k),
               At(ht, i, q, l), At(r, i, m, k), At(r, i, n, l), q <= j
        PROVE  n <= m
    <3>1. At(r, i, up(i, j), k) /\ At(r, i, up(i, q), l)
      BY <1>6, <2>1
    <3>2. up(i, q) <= up(i, j)
      BY <1>2, <2>1, AtFacts
    <3> HIDE DEF up
    <3>3. m = up(i, j) /\ n = up(i, q)
      BY <1>2, <2>1, <3>1, AtOnce
    <3>. QED
      BY <3>2, <3>3
  <2> HIDE DEF up
  <2>. QED
    BY <1>6, <2>1, Zenon DEF Keeps
<1>9. Keeps(r, ht, K)
  <2>1. ASSUME NEW i, NEW j, NEW q, NEW m, NEW n, NEW k \in K, NEW l \in K, At(r, i, j, k),
               At(r, i, q, l), At(ht, i, m, k), At(ht, i, n, l), q <= j
        PROVE  n <= m
    <3>1. At(r, i, up(i, m), k) /\ At(r, i, up(i, n), l)
      BY <1>6, <2>1
    <3> HIDE DEF up
    <3>2. j = up(i, m) /\ q = up(i, n)
      BY <1>2, <2>1, <3>1, AtOnce
    <3>3. m \in Nat /\ n \in Nat
      BY <1>2, <2>1, AtFacts
    <3>4. up(i, n) <= up(i, m)
      BY <2>1, <3>2
    <3>. QED
      BY <3>3, <3>4 DEF up
  <2> HIDE DEF up
  <2>. QED
    BY <1>7, <2>1, Zenon DEF Keeps
<1>. QED
  BY <1>8, <1>9

(* Another value changes no place.                                          *)
LEMMA KeepsSet ==
    ASSUME NEW ht, Full(ht), NEW k \in Keys, NEW v \in Values, NEW r, SetIn(ht, r, k, v), NEW K
    PROVE  Keeps(ht, r, K) /\ Keeps(r, ht, K)
<1> DEFINE e == [key |-> k, val |-> v]
<1>1. PICK h, p, b : Spot(ht, k, h, p) /\ SetAt(ht, r, h, p, b, e)
  BY DEF SetIn
<1>2. Shape(ht) /\ e \in Entry /\ e.key = k /\ ht.size \in Nat
  BY SizeOfShape DEF Full, Entry
<1>3. h \in 0..(ht.size - 1) /\ p \in 1..Len(ht.table[h]) /\ ht.table[h][p].key = k
  BY <1>1 DEF Spot
<1> HIDE DEF e
<1>4. e.key = ht.table[h][p].key
  BY <1>2, <1>3
<1>5. SetMade(ht, r, h, p, b, e)
  BY <1>1, <1>2, <1>3, <1>4, ReplacedFull
<1>6. /\ r.size = ht.size /\ r.table = [ht.table EXCEPT ![h] = b]
      /\ Len(b) = Len(ht.table[h]) /\ \A i \in 1..Len(b) : b[i].key = ht.table[h][i].key
  BY <1>5 DEF SetMade
<1>7. r.table[h] = b /\ \A i \in 0..(ht.size - 1) : i # h => r.table[i] = ht.table[i]
  BY <1>2, <1>3, <1>6 DEF Shape
<1>8. ASSUME NEW i, NEW j, NEW l PROVE At(r, i, j, l) <=> At(ht, i, j, l)
  <2>1. CASE i = h
    BY <1>3, <1>6, <1>7, <2>1 DEF At
  <2>2. CASE i # h
    BY <1>6, <1>7, <2>2 DEF At
  <2>. QED
    BY <2>1, <2>2
<1>9. Keeps(ht, ht, K)
  BY <1>2, KeepsSame
<1>. QED
  BY <1>8, <1>9 DEF Keeps

(* An unlinked entry moves those behind it by one.                          *)
LEMMA KeepsCut ==
    ASSUME NEW ht, Full(ht), NEW k \in Keys, NEW r, CutFrom(ht, r, k),
           NEW K, k \notin K
    PROVE  Keeps(ht, r, K) /\ Keeps(r, ht, K)
<1>1. PICK h, p, b : Spot(ht, k, h, p) /\ CutAt(ht, r, h, p, b)
  BY DEF CutFrom
<1>2. h \in 0..(ht.size - 1) /\ p \in 1..Len(ht.table[h]) /\ ht.table[h][p].key = k
  BY <1>1 DEF Spot
<1>3. CutMade(ht, r, h, p, b)
  BY <1>1, <1>2, RemovedFull
<1> DEFINE c == ht.table[h]
<1>4. /\ Full(r) /\ r.size = ht.size /\ r.table = [ht.table EXCEPT ![h] = b]
      /\ Len(b) = Len(c) - 1 /\ \A i \in 1..Len(b) : b[i] = IF i < p THEN c[i] ELSE c[i + 1]
  BY <1>3 DEF CutMade
<1>5. Shape(ht) /\ Shape(r) /\ ht.size \in Nat /\ c \in Seq(Entry)
  BY <1>2, <1>4, SizeOfShape DEF Full
<1>6. r.table[h] = b /\ \A i \in 0..(ht.size - 1) : i # h => r.table[i] = ht.table[i]
  BY <1>2, <1>4, <1>5 DEF Shape
<1>7. Len(c) \in Nat /\ p \in Nat /\ p \in 1..Len(c) /\ c[p].key = k
  BY <1>2, <1>5, SeqElements
<1> DEFINE dn(i, j) == IF i = h /\ j > p THEN j - 1 ELSE j
<1>8. ASSUME NEW i, NEW j, NEW l, At(ht, i, j, l), l # k PROVE At(r, i, dn(i, j), l)
  <2>1. i \in 0..(ht.size - 1) /\ j \in 1..Len(ht.table[i]) /\ ht.table[i][j].key = l
    BY <1>8 DEF At
  <2>2. CASE i # h
    BY <1>4, <1>6, <2>1, <2>2 DEF At
  <2>3. CASE i = h
    <3>1. j \in 1..Len(c) /\ c[j].key = l /\ j # p /\ j \in Nat
      BY <1>7, <1>8, <2>1, <2>3
    <3> HIDE DEF c
    <3>2. CASE j < p
      <4>1. j \in 1..Len(b) /\ b[j].key = l /\ dn(i, j) = j
        BY <1>4, <1>7, <2>3, <3>1, <3>2
      <4>. QED
        BY <1>4, <1>6, <2>1, <2>3, <4>1 DEF At
    <3>3. CASE j > p
      <4>1. j - 1 \in 1..Len(b) /\ ~(j - 1 < p) /\ j - 1 + 1 = j
        BY <1>4, <1>7, <3>1, <3>3
      <4>2. b[j - 1].key = l /\ dn(i, j) = j - 1
        BY <1>4, <2>3, <3>1, <3>3, <4>1
      <4>. QED
        BY <1>4, <1>6, <2>1, <2>3, <4>1, <4>2 DEF At
    <3>. QED
      BY <1>7, <3>1, <3>2, <3>3
  <2>. QED
    BY <2>2, <2>3
<1>9. ASSUME NEW i, NEW m, NEW l \in K, At(r, i, m, l) PROVE \E j : At(ht, i, j, l)
  <2>1. l \in KeysIn(ht) /\ l # k
    <3>1. l \in KeysIn(r)
      BY <1>5, <1>9, AtFacts
    <3>2. EntriesOf(r) \subseteq EntriesOf(ht)
      BY <1>3 DEF CutMade
    <3>. QED
      BY <3>1, <3>2 DEF KeysIn
  <2>2. PICK n, j : At(ht, n, j, l)
    BY <1>5, <2>1, AtFacts
  <2>3. At(r, n, dn(n, j), l)
    BY <1>8, <2>1, <2>2
  <2> HIDE DEF dn
  <2>4. n = i
    BY <1>5, <1>9, <2>3, AtOnce
  <2>. QED
    BY <2>2, <2>4
<1>10. Keeps(ht, r, K)
  <2>1. ASSUME NEW i, NEW j, NEW q, NEW m, NEW n, NEW l \in K, NEW l2 \in K, At(ht, i, j, l),
               At(ht, i, q, l2), At(r, i, m, l), At(r, i, n, l2), q <= j
        PROVE  n <= m
    <3>1. At(r, i, dn(i, j), l) /\ At(r, i, dn(i, q), l2)
      BY <1>8, <2>1
    <3>2. j \in Nat /\ q \in Nat
      BY <1>5, <2>1, AtFacts
    <3>3. ~(i = h /\ q = p) /\ ~(i = h /\ j = p)
      BY <1>7, <2>1 DEF At
    <3>4. dn(i, q) <= dn(i, j)
      BY <1>7, <2>1, <3>2, <3>3
    <3> HIDE DEF dn
    <3>5. m = dn(i, j) /\ n = dn(i, q)
      BY <1>5, <2>1, <3>1, AtOnce
    <3>. QED
      BY <3>4, <3>5
  <2>2. \A i, j, l : l \in K /\ At(ht, i, j, l) => At(r, i, dn(i, j), l)
    BY <1>8
  <2> HIDE DEF dn
  <2>. QED
    BY <2>1, <2>2, Zenon DEF Keeps
<1>11. Keeps(r, ht, K)
  <2>1. ASSUME NEW i, NEW j, NEW q, NEW m, NEW n, NEW l \in K, NEW l2 \in K, At(r, i, j, l),
               At(r, i, q, l2), At(ht, i, m, l), At(ht, i, n, l2), q <= j
        PROVE  n <= m
    <3>1. At(r, i, dn(i, m), l) /\ At(r, i, dn(i, n), l2)
      BY <1>8, <2>1
    <3>2. m \in Nat /\ n \in Nat
      BY <1>5, <2>1, AtFacts
    <3>3. ~(i = h /\ m = p) /\ ~(i = h /\ n = p)
      BY <1>7, <2>1 DEF At
    <3> HIDE DEF dn
    <3>4. j = dn(i, m) /\ q = dn(i, n)
      BY <1>5, <2>1, <3>1, AtOnce
    <3>5. dn(i, n) <= dn(i, m)
      BY <2>1, <3>4
    <3>. QED
      BY <1>7, <3>2, <3>3, <3>5 DEF dn
  <2>. QED
    BY <1>9, <2>1, Zenon DEF Keeps
<1>. QED
  BY <1>10, <1>11

(* Where a running iterator is: what it owes lies ahead, nothing that it    *)
(* has returned does, and its saved entry is in its bucket.                 *)
Part(D, t) == IF t = "ht0" THEN D.ht0 ELSE D.ht1
Ahead(D, i) ==
    Rest(Part(D, i.table), i.index, i.next)
    \union (IF i.table = "ht0" THEN KeysIn(D.ht1) ELSE {})
Running(D, i) ==
    /\ i.owed \subseteq Ahead(D, i) /\ i.seen \intersect Ahead(D, i) = {}
    /\ i.seen \subseteq Stored(D)
    /\ i.table = "ht1" => D.rehashidx # -1
    /\ i.index \in 0..(Part(D, i.table).size - 1)
    /\ i.next # None => \E q : At(Part(D, i.table), i.index, q, i.next)

LEMMA PartFacts ==
    ASSUME NEW D, Good(D), NEW t
    PROVE  /\ Full(Part(D, t)) /\ Shape(Part(D, t)) /\ KeysIn(Part(D, t)) \subseteq Stored(D)
           /\ Part(D, t).size \in Nat
BY GoodFacts DEF Part

(* The keys K stay where they are, in either table.                         *)
Kept(D, R, K) ==
    /\ R.rehashidx = D.rehashidx
    /\ R.ht0.size = D.ht0.size /\ Keeps(D.ht0, R.ht0, K) /\ Keeps(R.ht0, D.ht0, K)
    /\ R.ht1.size = D.ht1.size /\ Keeps(D.ht1, R.ht1, K) /\ Keeps(R.ht1, D.ht1, K)

LEMMA KeysKept ==
    ASSUME NEW ht, Shape(ht), NEW r, Shape(r), NEW K, Keeps(ht, r, K)
    PROVE  KeysIn(ht) \intersect K \subseteq KeysIn(r)
<1> SUFFICES ASSUME NEW k \in K, k \in KeysIn(ht) PROVE k \in KeysIn(r)
  OBVIOUS
<1>1. PICK i, j : At(ht, i, j, k)
  BY AtFacts
<1>2. PICK m : At(r, i, m, k)
  BY <1>1 DEF Keeps
<1>. QED
  BY <1>2, AtFacts

(* i2 is i without some of what it owed and had returned.                   *)
Less(i, i2, K) ==
    /\ i2.table = i.table /\ i2.index = i.index /\ i2.next = i.next
    /\ i2.owed \subseteq i.owed \intersect K /\ i2.seen \subseteq i.seen \intersect K

LEMMA RunningKept ==
    ASSUME NEW D, Good(D), NEW R, Good(R), NEW K, K \subseteq Stored(R), Kept(D, R, K),
           NEW i, Running(D, i), i.next \in K \union {None}, NEW i2, Less(i, i2, K)
    PROVE  Running(R, i2)
<1> DEFINE P == Part(D, i.table)
           Q == Part(R, i.table)
<1>1. Keeps(P, Q, K) /\ Keeps(Q, P, K) /\ Q.size = P.size
  BY DEF Kept, Part
<1>2. Shape(P) /\ Shape(Q) /\ Shape(D.ht1) /\ Shape(R.ht1)
  BY PartFacts, GoodFacts
<1>3. Ahead(D, i) = Rest(P, i.index, i.next) \union (IF i.table = "ht0" THEN KeysIn(D.ht1) ELSE {})
  BY DEF Ahead
<1>4. Ahead(R, i2) = Rest(Q, i.index, i.next) \union (IF i.table = "ht0" THEN KeysIn(R.ht1) ELSE {})
  BY DEF Ahead, Less
<1> HIDE DEF P, Q
<1>5. /\ Rest(P, i.index, i.next) \intersect K \subseteq Rest(Q, i.index, i.next)
      /\ Rest(Q, i.index, i.next) \intersect K \subseteq Rest(P, i.index, i.next)
  BY <1>1, RestKept
<1>6. /\ KeysIn(D.ht1) \intersect K \subseteq KeysIn(R.ht1)
      /\ KeysIn(R.ht1) \intersect K \subseteq KeysIn(D.ht1)
  BY <1>2, KeysKept DEF Kept
<1>7. Ahead(D, i) \intersect K \subseteq Ahead(R, i2) /\ Ahead(R, i2) \intersect K \subseteq Ahead(D, i)
  BY <1>3, <1>4, <1>5, <1>6
<1>8. i2.owed \subseteq Ahead(R, i2) /\ i2.seen \intersect Ahead(R, i2) = {} /\ i2.seen \subseteq Stored(R)
  BY <1>7 DEF Running, Less
<1>9. i2.table = "ht1" => R.rehashidx # -1
  BY DEF Running, Less, Kept
<1>10. i2.index \in 0..(Part(R, i2.table).size - 1)
  BY <1>1 DEF Running, Less, P, Q
<1>11. ASSUME i2.next # None PROVE \E q : At(Part(R, i2.table), i2.index, q, i2.next)
  <2>1. i.next \in K /\ i.next # None
    BY <1>11 DEF Less
  <2>2. PICK q : At(P, i.index, q, i.next)
    BY <2>1 DEF Running, P
  <2>3. PICK m : At(Q, i.index, m, i.next)
    BY <1>1, <2>1, <2>2 DEF Keeps
  <2>. QED
    BY <2>3 DEF Less, Q
<1>. QED
  BY <1>8, <1>9, <1>10, <1>11 DEF Running

LEMMA PushedKept ==
    ASSUME NEW D, Good(D), D.ht0.size # 0, NEW e \in Entry, e.key \notin Stored(D),
           NEW R, Good(R), R.rehashidx = D.rehashidx, Pushed(D, R, e)
    PROVE  Kept(D, R, Stored(D))
<1>1. e.key \notin KeysIn(D.ht0) /\ e.key \notin KeysIn(D.ht1)
  BY GoodFacts
<1>2. CASE D.rehashidx # -1 /\ R.ht1 = Linked(D.ht1, e) /\ R.ht0 = D.ht0
  <2>1. Full(D.ht1) /\ D.ht1.size # 0 /\ Shape(D.ht0)
    BY <1>2, GoodFacts
  <2> DEFINE ht == D.ht1
             r == R.ht1
             K == Stored(D)
  <2>2. Keeps(D.ht0, R.ht0, K) /\ Keeps(R.ht0, D.ht0, K) /\ R.ht0.size = D.ht0.size
    BY <1>2, <2>1, KeepsSame
  <2>3. Keeps(ht, r, K) /\ Keeps(r, ht, K) /\ r.size = ht.size
    <3>1. /\ Full(ht) /\ ht.size # 0 /\ e.key \notin KeysIn(ht) /\ IsLinked(r, ht, e)
          /\ e.key \notin K
      BY <1>1, <1>2, <2>1 DEF IsLinked
    <3> HIDE DEF ht, r, K
    <3>2. r.size = ht.size
      BY <3>1, LinkedFull
    <3>. QED
      BY <3>1, <3>2, KeepsLinked
  <2>. QED
    BY <1>2, <2>2, <2>3 DEF Kept
<1>3. CASE D.rehashidx = -1 /\ R.ht0 = Linked(D.ht0, e) /\ R.ht1 = D.ht1
  <2>1. Full(D.ht0) /\ Shape(D.ht1)
    BY <1>3, GoodFacts
  <2> DEFINE ht == D.ht0
             r == R.ht0
             K == Stored(D)
  <2>2. Keeps(D.ht1, R.ht1, K) /\ Keeps(R.ht1, D.ht1, K) /\ R.ht1.size = D.ht1.size
    BY <1>3, <2>1, KeepsSame
  <2>3. Keeps(ht, r, K) /\ Keeps(r, ht, K) /\ r.size = ht.size
    <3>1. /\ Full(ht) /\ ht.size # 0 /\ e.key \notin KeysIn(ht) /\ IsLinked(r, ht, e)
          /\ e.key \notin K
      BY <1>1, <1>3, <2>1 DEF IsLinked
    <3> HIDE DEF ht, r, K
    <3>2. r.size = ht.size
      BY <3>1, LinkedFull
    <3>. QED
      BY <3>1, <3>2, KeepsLinked
  <2>. QED
    BY <1>3, <2>2, <2>3 DEF Kept
<1>. QED
  BY <1>2, <1>3 DEF Pushed

LEMMA SetKept ==
    ASSUME NEW D, Good(D), NEW k \in Keys, NEW v \in Values, NEW R, SetOf(D, R, k, v), NEW K
    PROVE  Kept(D, R, K)
<1>1. Full(D.ht0) /\ Full(D.ht1) /\ Shape(D.ht0) /\ Shape(D.ht1)
  BY GoodFacts
<1>2. PICK r : \/ NewIn(D, R, r, "ht0") /\ SetIn(D.ht0, r, k, v)
               \/ NewIn(D, R, r, "ht1") /\ SetIn(D.ht1, r, k, v)
  BY DEF SetOf
<1>3. CASE NewIn(D, R, r, "ht0") /\ SetIn(D.ht0, r, k, v)
  <2>1. R.ht0 = r /\ R.ht1 = D.ht1 /\ R.rehashidx = D.rehashidx
    BY <1>3 DEF NewIn
  <2>2. Keeps(D.ht0, r, K) /\ Keeps(r, D.ht0, K) /\ r.size = D.ht0.size
    BY <1>1, <1>3, KeepsSet, SetInFull
  <2>3. Keeps(D.ht1, D.ht1, K)
    BY <1>1, KeepsSame
  <2>. QED
    BY <2>1, <2>2, <2>3 DEF Kept
<1>4. CASE NewIn(D, R, r, "ht1") /\ SetIn(D.ht1, r, k, v)
  <2>1. R.ht1 = r /\ R.ht0 = D.ht0 /\ R.rehashidx = D.rehashidx
    BY <1>4 DEF NewIn
  <2>2. Keeps(D.ht1, r, K) /\ Keeps(r, D.ht1, K) /\ r.size = D.ht1.size
    BY <1>1, <1>4, KeepsSet, SetInFull
  <2>3. Keeps(D.ht0, D.ht0, K)
    BY <1>1, KeepsSame
  <2>. QED
    BY <2>1, <2>2, <2>3 DEF Kept
<1>. QED
  BY <1>2, <1>3, <1>4

LEMMA CutKept ==
    ASSUME NEW D, Good(D), NEW k \in Keys, NEW R, CutOf(D, R, k), NEW K, k \notin K
    PROVE  Kept(D, R, K)
<1>1. Full(D.ht0) /\ Full(D.ht1) /\ Shape(D.ht0) /\ Shape(D.ht1)
  BY GoodFacts
<1>2. PICK r : \/ NewIn(D, R, r, "ht0") /\ CutFrom(D.ht0, r, k)
               \/ NewIn(D, R, r, "ht1") /\ CutFrom(D.ht1, r, k)
  BY DEF CutOf
<1>3. CASE NewIn(D, R, r, "ht0") /\ CutFrom(D.ht0, r, k)
  <2>1. R.ht0 = r /\ R.ht1 = D.ht1 /\ R.rehashidx = D.rehashidx
    BY <1>3 DEF NewIn
  <2>2. Keeps(D.ht0, r, K) /\ Keeps(r, D.ht0, K) /\ r.size = D.ht0.size
    BY <1>1, <1>3, KeepsCut, CutFromFull
  <2>3. Keeps(D.ht1, D.ht1, K)
    BY <1>1, KeepsSame
  <2>. QED
    BY <2>1, <2>2, <2>3 DEF Kept
<1>4. CASE NewIn(D, R, r, "ht1") /\ CutFrom(D.ht1, r, k)
  <2>1. R.ht1 = r /\ R.ht0 = D.ht0 /\ R.rehashidx = D.rehashidx
    BY <1>4 DEF NewIn
  <2>2. Keeps(D.ht1, r, K) /\ Keeps(r, D.ht1, K) /\ r.size = D.ht1.size
    BY <1>1, <1>4, KeepsCut, CutFromFull
  <2>3. Keeps(D.ht0, D.ht0, K)
    BY <1>1, KeepsSame
  <2>. QED
    BY <2>1, <2>2, <2>3 DEF Kept
<1>. QED
  BY <1>2, <1>3, <1>4

LEMMA RunningGrown ==
    ASSUME NEW D, Good(D), NEW R, Good(R), Grown(D, R), Same(D, R), NEW i, Running(D, i)
    PROVE  Running(R, i)
<1>1. Part(D, i.table).size # 0
  BY DEF Running
<1>2. D.ht0.size # 0
  <2>1. i.table # "ht0" => D.ht1.size # 0
    BY <1>1 DEF Part
  <2>. QED
    BY <1>1, <2>1, GoodFacts DEF Part
<1>3. CASE R = D
  BY <1>3
<1>4. CASE /\ D.rehashidx = -1 /\ R.ht0 = D.ht0 /\ R.rehashidx = 0 /\ EntriesOf(R.ht1) = {}
  <2>1. KeysIn(D.ht1) = {} /\ KeysIn(R.ht1) = {} /\ D.ht1.size = 0
    BY <1>4, GoodFacts DEF KeysIn
  <2>2. i.table = "ht0"
    BY <1>1, <2>1 DEF Part
  <2>3. Part(R, i.table) = D.ht0 /\ Part(D, i.table) = D.ht0
    BY <1>4, <2>2 DEF Part
  <2>4. Ahead(R, i) = Ahead(D, i)
    BY <2>1, <2>3 DEF Ahead
  <2>5. Stored(R) = Stored(D)
    BY DEF Same, Stored
  <2>. QED
    BY <2>2, <2>3, <2>4, <2>5 DEF Running
<1>. QED
  BY <1>2, <1>3, <1>4 DEF Grown

LEMMA RunningSame ==
    ASSUME NEW D, NEW R, R.ht0 = D.ht0, R.ht1 = D.ht1, R.rehashidx = D.rehashidx, NEW i,
           Running(D, i)
    PROVE  Running(R, i)
BY DEF Running, Ahead, Part, Stored, Entries

(* The keys from a place on, and what is left of them when the entry there  *)
(* has been returned and its successor saved.                               *)
From(ht, y, i) ==
    {k \in Keys : \E m, j : At(ht, m, j, k) /\ (m > y \/ (m = y /\ j >= i))}
Successor(ht, y, i) == IF i = Len(ht.table[y]) THEN None ELSE ht.table[y][i + 1].key

LEMMA ReturnedOne ==
    ASSUME NEW ht, Shape(ht), NEW y, NEW i, NEW k, At(ht, y, i, k),
           NEW nx, nx = Successor(ht, y, i)
    PROVE  /\ Rest(ht, y, nx) = From(ht, y, i) \ {k} /\ k \in From(ht, y, i)
           /\ nx \in Keys \union {None}
           /\ nx # None => At(ht, y, i + 1, nx)
<1>1. /\ y \in 0..(ht.size - 1) /\ i \in 1..Len(ht.table[y]) /\ ht.table[y][i].key = k
      /\ y \in Nat /\ i \in Nat /\ k \in Keys /\ ht.table[y] \in Seq(Entry)
      /\ ht.size \in Nat
  BY AtFacts, SizeOfShape DEF At
<1>2. Len(ht.table[y]) \in Nat
  BY <1>1, SeqElements
<1>3. ASSUME i # Len(ht.table[y])
      PROVE  At(ht, y, i + 1, nx) /\ nx \in Keys /\ nx # None
  <2> DEFINE n == i + 1
  <2>1. nx = ht.table[y][n].key /\ n \in 1..Len(ht.table[y])
    BY <1>1, <1>2, <1>3 DEF Successor
  <2> HIDE DEF n
  <2>2. At(ht, y, n, nx)
    BY <1>1, <2>1 DEF At
  <2>3. nx \in Keys
    BY <2>2, AtFacts
  <2>. QED
    BY <2>2, <2>3, NoneAssumption DEF n
<1>4. i = Len(ht.table[y]) => nx = None
  BY DEF Successor
<1>5. k \in From(ht, y, i)
  <2>1. i >= i
    BY <1>1
  <2>. QED
    BY <1>1, <2>1 DEF From
<1>6. ASSUME NEW l \in Rest(ht, y, nx) PROVE l \in From(ht, y, i) /\ l # k
  <2>1. PICK m, j : At(ht, m, j, l) /\ Due(ht, y, nx, m, j)
    BY DEF Rest
  <2>2. m \in Nat /\ j \in Nat /\ l \in Keys
    BY <2>1, AtFacts
  <2>3. CASE m > y
    <3>1. l # k
      <4> SUFFICES ASSUME l = k PROVE FALSE
        OBVIOUS
      <4>1. At(ht, m, j, k)
        BY <2>1
      <4>2. m = y
        BY <4>1, AtOnce
      <4>. QED
        BY <1>1, <2>2, <2>3, <4>2
    <3>. QED
      BY <2>1, <2>2, <2>3, <3>1 DEF From
  <2>4. CASE m = y /\ nx # None /\ \E q : At(ht, m, q, nx) /\ q <= j
    <3>1. PICK q : At(ht, y, q, nx) /\ q <= j
      BY <2>4
    <3>2. At(ht, y, i + 1, nx)
      BY <1>3, <1>4, <2>4
    <3>3. q = i + 1
      <4> DEFINE n == i + 1
      <4>1. At(ht, y, n, nx)
        BY <3>2
      <4> HIDE DEF n
      <4>2. q = n
        BY <3>1, <4>1, AtOnce
      <4>. QED
        BY <4>2 DEF n
    <3>4. j >= i /\ j # i
      BY <1>1, <2>2, <3>1, <3>3
    <3>5. l # k
      <4> SUFFICES ASSUME l = k PROVE FALSE
        OBVIOUS
      <4>1. At(ht, m, j, k)
        BY <2>1
      <4>2. j = i
        BY <4>1, AtOnce
      <4>. QED
        BY <3>4, <4>2
    <3>. QED
      BY <2>1, <2>2, <2>4, <3>4, <3>5 DEF From
  <2>. QED
    BY <2>1, <2>3, <2>4 DEF Due
<1>7. ASSUME NEW l \in From(ht, y, i), l # k PROVE l \in Rest(ht, y, nx)
  <2>1. PICK m, j : At(ht, m, j, l) /\ (m > y \/ (m = y /\ j >= i))
    BY DEF From
  <2>2. m \in Nat /\ j \in Nat /\ l \in Keys
    BY <2>1, AtFacts
  <2>3. CASE m > y
    BY <2>1, <2>2, <2>3 DEF Rest, Due
  <2>4. CASE m = y /\ j >= i
    <3>1. j # i /\ j \in 1..Len(ht.table[y])
      BY <1>1, <1>7, <2>1, <2>4 DEF At
    <3>2. i # Len(ht.table[y]) /\ i + 1 <= j
      BY <1>1, <1>2, <2>2, <2>4, <3>1
    <3>3. Due(ht, y, nx, m, j)
      BY <1>3, <2>4, <3>2 DEF Due
    <3>. QED
      BY <2>1, <2>2, <3>3 DEF Rest
  <2>. QED
    BY <2>1, <2>3, <2>4
<1>. QED
  BY <1>3, <1>4, <1>5, <1>6, <1>7

(* The three ways to come to a place: the saved entry, the next bucket of   *)
(* the table that is not empty, and none when there is none.                *)
LEMMA AtSaved ==
    ASSUME NEW ht, Shape(ht), NEW x, NEW p, NEW nx, At(ht, x, p, nx)
    PROVE  Rest(ht, x, nx) = From(ht, x, p)
<1>1. nx # None /\ p \in Nat
  BY AtFacts, NoneAssumption
<1>2. ASSUME NEW q, At(ht, x, q, nx) PROVE q = p
  BY <1>2, AtOnce
<1>3. ASSUME NEW i, NEW j, NEW k, At(ht, i, j, k)
      PROVE  Due(ht, x, nx, i, j) <=> (i > x \/ (i = x /\ j >= p))
  <2>1. j \in Nat
    BY <1>3, AtFacts
  <2>2. j >= p <=> p <= j
    BY <1>1, <2>1
  <2>3. i = x => ((\E q : At(ht, i, q, nx) /\ q <= j) <=> p <= j)
    BY <1>2
  <2>. QED
    BY <1>1, <2>2, <2>3 DEF Due
<1>. QED
  BY <1>3 DEF Rest, From

LEMMA BucketFilled ==
    ASSUME NEW ht, Shape(ht), NEW y \in 0..(ht.size - 1)
    PROVE  /\ ht.table[y] # <<>> => At(ht, y, 1, ht.table[y][1].key)
           /\ ht.table[y] = <<>> => \A j, k : ~At(ht, y, j, k)
<1>1. ht.table[y] \in Seq(Entry)
  BY SizeOfShape
<1>2. Len(ht.table[y]) \in Nat /\ (ht.table[y] # <<>> => Len(ht.table[y]) # 0)
  BY <1>1, SeqElements, EmptySeq
<1>3. ht.table[y] # <<>> => 1 \in 1..Len(ht.table[y])
  BY <1>2
<1>4. Len(<<>>) = 0 /\ 1..0 = {}
  BY EmptySeq
<1>. QED
  BY <1>3, <1>4 DEF At

LEMMA AtNext ==
    ASSUME NEW ht, Shape(ht), NEW x \in Int, x >= -1, NEW f, f = x + 1,
           NonEmpty(ht, f) # {}, NEW y, y = Min(NonEmpty(ht, f))
    PROVE  /\ Rest(ht, x, None) = From(ht, y, 1)
           /\ At(ht, y, 1, ht.table[y][1].key) /\ y \in 0..(ht.size - 1)
<1> DEFINE S == NonEmpty(ht, f)
<1>1. S \in SUBSET Nat /\ ht.size \in Nat /\ f \in Nat
  BY SizeOfShape DEF NonEmpty
<1>2. y \in S /\ \A z \in S : y <= z
  <2> HIDE DEF S
  <2>1. S # {} /\ y = Min(S)
    BY DEF S
  <2>. QED
    BY <1>1, <2>1, LeastNat
<1>3. y \in f..(ht.size - 1) /\ ht.table[y] # <<>> /\ y \in 0..(ht.size - 1) /\ y > x /\ y \in Nat
  BY <1>1, <1>2 DEF NonEmpty
<1>4. At(ht, y, 1, ht.table[y][1].key)
  BY <1>3, BucketFilled
<1>5. ASSUME NEW i, NEW j, NEW k, At(ht, i, j, k)
      PROVE  i > x <=> (i > y \/ (i = y /\ j >= 1))
  <2>1. i \in 0..(ht.size - 1) /\ i \in Nat /\ j \in Nat /\ j >= 1
    BY <1>5, AtFacts DEF At
  <2>2. ht.table[i] # <<>>
    BY <1>5, <2>1, BucketFilled
  <2>3. i > x => i \in S
    BY <1>1, <2>1, <2>2 DEF NonEmpty
  <2>. QED
    BY <1>2, <1>3, <2>1, <2>3
<1>6. \A i, j : Due(ht, x, None, i, j) <=> i > x
  BY DEF Due
<1>. QED
  BY <1>3, <1>4, <1>5, <1>6 DEF Rest, From

LEMMA AtEnd ==
    ASSUME NEW ht, Shape(ht), NEW x \in Int, x >= -1, NEW f, f = x + 1, NonEmpty(ht, f) = {}
    PROVE  Rest(ht, x, None) = {}
<1>1. ht.size \in Nat
  BY SizeOfShape
<1>2. ASSUME NEW i, NEW j, NEW k, At(ht, i, j, k), i > x PROVE FALSE
  <2>1. i \in 0..(ht.size - 1)
    BY <1>2 DEF At
  <2>2. ht.table[i] # <<>>
    BY <1>2, <2>1, BucketFilled
  <2>. QED
    BY <1>1, <1>2, <2>1, <2>2 DEF NonEmpty
<1>. QED
  BY <1>2 DEF Rest, Due

LEMMA RestAll ==
    ASSUME NEW ht, Shape(ht)
    PROVE  Rest(ht, -1, None) = KeysIn(ht)
<1>1. \A i, j, k : At(ht, i, j, k) => i > -1 /\ k \in Keys
  BY AtFacts
<1>2. \A k : k \in KeysIn(ht) <=> \E i, j : At(ht, i, j, k)
  BY AtFacts
<1>. QED
  BY <1>1, <1>2 DEF Rest, Due

(* An iterator that moves to a place of table t and returns what is there:  *)
(* A is what lay ahead of it.                                               *)
AheadFrom(D, t, y, i) ==
    From(Part(D, t), y, i) \union (IF t = "ht0" THEN KeysIn(D.ht1) ELSE {})
Moved(D, t, y, i, k, owed, seen, j) ==
    /\ j.table = t /\ j.index = y /\ j.next = Successor(Part(D, t), y, i)
    /\ j.owed = owed \ {k} /\ j.seen = seen \union {k}

LEMMA ReturnRuns ==
    ASSUME NEW D, Good(D), NEW t \in {"ht0", "ht1"}, t = "ht1" => D.rehashidx # -1,
           NEW y, NEW i, NEW k, At(Part(D, t), y, i, k),
           NEW owed, NEW seen, owed \subseteq AheadFrom(D, t, y, i),
           seen \intersect AheadFrom(D, t, y, i) = {}, seen \subseteq Stored(D),
           NEW j, Moved(D, t, y, i, k, owed, seen, j)
    PROVE  /\ Running(D, j) /\ k \notin seen /\ k \in Keys
           /\ j.next \in Keys \union {None}
<1> DEFINE ht == Part(D, t)
           nx == Successor(ht, y, i)
<1>1. Shape(ht) /\ KeysIn(ht) \subseteq Stored(D)
  BY PartFacts
<1>2. /\ Rest(ht, y, nx) = From(ht, y, i) \ {k} /\ k \in From(ht, y, i)
      /\ nx \in Keys \union {None} /\ (nx # None => At(ht, y, i + 1, nx))
  <2>1. At(ht, y, i, k) /\ nx = Successor(ht, y, i)
    OBVIOUS
  <2> HIDE DEF ht, nx
  <2>. QED
    BY <1>1, <2>1, ReturnedOne
<1>3. k \in KeysIn(ht) /\ k \in Keys
  BY <1>1, AtFacts
<1>4. t = "ht0" => k \notin KeysIn(D.ht1)
  BY <1>3, GoodFacts DEF Part
<1>5. Ahead(D, j) = AheadFrom(D, t, y, i) \ {k}
  BY <1>2, <1>4 DEF Ahead, AheadFrom, Moved
<1>6. k \in AheadFrom(D, t, y, i)
  BY <1>2 DEF AheadFrom
<1>7. j.owed \subseteq Ahead(D, j) /\ j.seen \intersect Ahead(D, j) = {} /\ j.seen \subseteq Stored(D)
  BY <1>1, <1>3, <1>5 DEF Moved
<1>8. y \in 0..(ht.size - 1)
  BY DEF At
<1> HIDE DEF ht, nx
<1>9. j.next = nx /\ j.table = t /\ j.index = y
  BY DEF Moved, ht, nx
<1>10. Running(D, j)
  BY <1>2, <1>7, <1>8, <1>9 DEF Running, ht
<1>. QED
  BY <1>2, <1>3, <1>6, <1>9, <1>10

----------------------------------------------------------------------------
(* The dict as a map: its entries are the graph of m.                       *)
Agrees(D, m) ==
    m \in [Keys -> Values \union {None}] /\ Entries(D) = {e \in Entry : m[e.key] = e.val}

LEMMA AgreesStored ==
    ASSUME NEW D, NEW m, Agrees(D, m), NEW k \in Keys
    PROVE  k \in Stored(D) <=> m[k] # None
<1>1. ASSUME k \in Stored(D) PROVE m[k] # None
  <2>1. PICK e \in Entries(D) : e.key = k
    BY <1>1 DEF Stored
  <2>2. m[k] = e.val /\ e.val \in Values
    BY <2>1 DEF Agrees, Entry
  <2>. QED
    BY <2>2, NoneAssumption
<1>2. ASSUME m[k] # None PROVE k \in Stored(D)
  <2> DEFINE e == [key |-> k, val |-> m[k]]
  <2>1. e \in Entry /\ e.key = k /\ m[e.key] = e.val
    BY <1>2 DEF Agrees, Entry
  <2> HIDE DEF e
  <2>2. e \in Entries(D)
    BY <2>1 DEF Agrees
  <2>. QED
    BY <2>1, <2>2 DEF Stored
<1>. QED
  BY <1>1, <1>2

LEMMA AgreesSet ==
    ASSUME NEW D, NEW m, Agrees(D, m), NEW k \in Keys, NEW v \in Values, NEW R,
           Entries(R) = Others(Entries(D), k) \union {[key |-> k, val |-> v]}
    PROVE  Agrees(R, [m EXCEPT ![k] = v])
<1> DEFINE m2 == [m EXCEPT ![k] = v]
           e == [key |-> k, val |-> v]
<1>1. /\ m \in [Keys -> Values \union {None}] /\ m2 \in [Keys -> Values \union {None}] /\ m2[k] = v
      /\ \A l \in Keys : l # k => m2[l] = m[l]
  BY DEF Agrees
<1>2. e \in Entry /\ e.key = k /\ e.val = v
  BY DEF Entry
<1>3. \A x \in Entry : x.key = k /\ x.val = v => x = e
  BY DEF Entry
<1>4. \A x \in Entry : x.key \in Keys
  BY DEF Entry
<1>5. Entries(R) = Others(Entries(D), k) \union {e}
  OBVIOUS
<1> HIDE DEF m2, e
<1>6. Entries(R) = {x \in Entry : m2[x.key] = x.val}
  <2>1. ASSUME NEW x \in Entries(R) PROVE x \in Entry /\ m2[x.key] = x.val
    <3>1. CASE x = e
      BY <1>1, <1>2, <3>1
    <3>2. CASE x \in Others(Entries(D), k)
      BY <1>1, <1>4, <3>2 DEF Others, Agrees
    <3>. QED
      BY <1>5, <2>1, <3>1, <3>2
  <2>2. ASSUME NEW x \in Entry, m2[x.key] = x.val PROVE x \in Entries(R)
    <3>1. CASE x.key = k
      BY <1>1, <1>3, <1>5, <2>2, <3>1
    <3>2. CASE x.key # k
      BY <1>1, <1>4, <1>5, <2>2, <3>2 DEF Others, Agrees
    <3>. QED
      BY <3>1, <3>2
  <2>. QED
    BY <2>1, <2>2
<1>. QED
  BY <1>1, <1>6 DEF Agrees, m2

LEMMA AgreesCut ==
    ASSUME NEW D, NEW m, Agrees(D, m), NEW k \in Keys, NEW R,
           Entries(R) = Others(Entries(D), k)
    PROVE  Agrees(R, [m EXCEPT ![k] = None])
<1> DEFINE m2 == [m EXCEPT ![k] = None]
<1>1. /\ m2 \in [Keys -> Values \union {None}] /\ m2[k] = None
      /\ \A l \in Keys : l # k => m2[l] = m[l]
  BY DEF Agrees
<1>2. \A x \in Entry : x.key \in Keys /\ x.val # None
  BY NoneAssumption DEF Entry
<1> HIDE DEF m2
<1>3. Entries(R) = {x \in Entry : m2[x.key] = x.val}
  <2>1. ASSUME NEW x \in Entries(R) PROVE x \in Entry /\ m2[x.key] = x.val
    BY <1>1, <1>2, <2>1 DEF Others, Agrees
  <2>2. ASSUME NEW x \in Entry, m2[x.key] = x.val PROVE x \in Entries(R)
    BY <1>1, <1>2, <2>2 DEF Others, Agrees
  <2>. QED
    BY <2>1, <2>2
<1>. QED
  BY <1>1, <1>3 DEF Agrees, m2

LEMMA NoOthers ==
    ASSUME NEW D, NEW k, k \notin Stored(D)
    PROVE  Others(Entries(D), k) = Entries(D)
BY DEF Others, Stored

LEMMA AgreesSame ==
    ASSUME NEW D, NEW m, Agrees(D, m), NEW R, Same(D, R)
    PROVE  Agrees(R, m) /\ Stored(R) = Stored(D)
BY DEF Agrees, Same, Stored

LEMMA AgreesValue ==
    ASSUME NEW D, Good(D), NEW m, Agrees(D, m), NEW k \in Keys
    PROVE  Value(D, k) = m[k]
<1>1. CASE k \in Stored(D)
  <2>1. PICK e \in Entries(D) : e.key = k
    BY <1>1 DEF Stored
  <2>2. m[k] = e.val
    BY <2>1 DEF Agrees
  <2>. QED
    BY <2>1, <2>2, ValueOf
<1>2. CASE k \notin Stored(D)
  BY <1>2, AgreesStored, ValueOf
<1>. QED
  BY <1>1, <1>2

----------------------------------------------------------------------------
(* The iterator between two calls.  While one runs no entry is moved.       *)
Iterators == [phase : {"off", "run", "end"}, table : {"ht0", "ht1"}, index : Int,
              next : Keys \union {None}, owed : SUBSET Keys, seen : SUBSET Keys,
              again : {FALSE}]
IterInv(D, i) ==
    /\ i \in Iterators
    /\ i.phase = "off" => i = NoIterator /\ D.iterators = 0
    /\ i.phase # "off" => D.iterators = 1
    /\ i.phase = "run" => Running(D, i)
    /\ i.phase = "end" => i.owed = {} /\ i.next = None

LEMMA IterGrown ==
    ASSUME NEW D, Good(D), NEW R, Good(R), Same(D, R), D.iterators # 0 => Grown(D, R),
           NEW i, IterInv(D, i)
    PROVE  IterInv(R, i)
<1>1. R.iterators = D.iterators
  BY DEF Same
<1>2. ASSUME i.phase = "run" PROVE Running(R, i)
  <2>1. Grown(D, R) /\ Running(D, i)
    BY <1>2 DEF IterInv
  <2>. QED
    BY <2>1, RunningGrown
<1>. QED
  BY <1>1, <1>2 DEF IterInv

LEMMA IterStill ==
    ASSUME NEW D, Good(D), NEW R, Good(R), Same(D, R), D.iterators # 0 => R = D,
           NEW i, IterInv(D, i)
    PROVE  IterInv(R, i)
<1>1. D.iterators # 0 => Grown(D, R)
  BY DEF Grown
<1>. QED
  BY <1>1, IterGrown

LEMMA SavedStored ==
    ASSUME NEW D, Good(D), NEW i, Running(D, i), i.next # None
    PROVE  i.next \in Stored(D)
<1>1. PICK q : At(Part(D, i.table), i.index, q, i.next)
  BY DEF Running
<1>2. Shape(Part(D, i.table)) /\ KeysIn(Part(D, i.table)) \subseteq Stored(D)
  BY PartFacts
<1>. QED
  BY <1>1, <1>2, AtFacts

LEMMA AheadStored ==
    ASSUME NEW D, Good(D), NEW i
    PROVE  Ahead(D, i) \subseteq Stored(D)
<1>1. Shape(Part(D, i.table)) /\ KeysIn(Part(D, i.table)) \subseteq Stored(D)
  BY PartFacts
<1>2. Rest(Part(D, i.table), i.index, i.next) \subseteq KeysIn(Part(D, i.table))
  BY <1>1, AtFacts DEF Rest
<1>. QED
  BY <1>1, <1>2, GoodFacts DEF Ahead

LEMMA IterKept ==
    ASSUME NEW D, Good(D), NEW R, Good(R), R.iterators = D.iterators,
           Stored(D) \subseteq Stored(R), Kept(D, R, Stored(D)), NEW i, IterInv(D, i)
    PROVE  IterInv(R, i)
<1>1. ASSUME i.phase = "run" PROVE Running(R, i)
  <2>1. Running(D, i)
    BY <1>1 DEF IterInv
  <2>2. i.next \in Stored(D) \union {None}
    BY <2>1, SavedStored
  <2>3. Less(i, i, Stored(D))
    BY <2>1, AheadStored DEF Less, Running
  <2>. QED
    BY <2>1, <2>2, <2>3, RunningKept
<1>. QED
  BY <1>1 DEF IterInv

(* Deleting a key that is not the saved one; what is owed loses it.         *)
Forgets(i, j, k) == j = [i EXCEPT !.owed = i.owed \ {k}, !.seen = i.seen \ {k}]

LEMMA IterCut ==
    ASSUME NEW D, Good(D), NEW R, Good(R), R.iterators = D.iterators, NEW k,
           Stored(R) = Stored(D) \ {k}, Kept(D, R, Stored(R)), NEW i, IterInv(D, i), i.next # k,
           NEW j, Forgets(i, j, k)
    PROVE  IterInv(R, j)
<1>1. /\ j \in Iterators /\ j.phase = i.phase /\ j.table = i.table /\ j.index = i.index
      /\ j.next = i.next /\ j.owed = i.owed \ {k} /\ j.seen = i.seen \ {k}
  BY DEF IterInv, Iterators, Forgets
<1>2. ASSUME j.phase = "run" PROVE Running(R, j)
  <2>1. Running(D, i)
    BY <1>1, <1>2 DEF IterInv
  <2>2. i.next \in Stored(R) \union {None}
    BY <2>1, SavedStored
  <2>3. Less(i, j, Stored(R))
    BY <1>1, <2>1, AheadStored DEF Less, Running
  <2>. QED
    BY <2>1, <2>2, <2>3, RunningKept
<1>3. ASSUME j.phase = "off" PROVE j = NoIterator
  <2>1. i = NoIterator
    BY <1>1, <1>3 DEF IterInv
  <2>2. i.owed \ {k} = i.owed /\ i.seen \ {k} = i.seen
    BY <2>1 DEF NoIterator
  <2>3. j = i
    BY <2>1, <2>2 DEF NoIterator, Forgets
  <2>. QED
    BY <2>1, <2>3
<1>. QED
  BY <1>1, <1>2, <1>3 DEF IterInv

----------------------------------------------------------------------------
(* The inductive invariant, and each call.                                  *)
ScanInv(s) == s = [on |-> s.on, v |-> s.v, owed |-> s.owed] /\ s.owed \subseteq Keys
Inv ==
    /\ Good(d) /\ Agrees(d, map) /\ IterInv(d, it)
    /\ canResize \in BOOLEAN /\ ScanInv(scan)

LEMMA InitInv == Init => Inv
<1> SUFFICES ASSUME Init PROVE Inv
  OBVIOUS
<1>1. d.ht0 = NoTable /\ d.ht1 = NoTable /\ d.rehashidx = -1 /\ d.iterators = 0
  BY DEF Init
<1>2. Full(NoTable) /\ EntriesOf(NoTable) = {} /\ NoTable \in Tables
  BY NoTableFull DEF Full, Shape
<1>3. d \in Dicts
  <2> DEFINE z == -1
             nt == NoTable
  <2>1. z \in Int /\ 0 \in Nat /\ nt \in Tables /\ d = [ht0 |-> nt, ht1 |-> nt, rehashidx |-> z, iterators |-> 0]
    BY <1>2 DEF Init
  <2> HIDE DEF z, nt
  <2>. QED
    BY <2>1 DEF Dicts
<1>4. Good(d)
  BY <1>1, <1>2, <1>3 DEF Good, Apart, KeysIn
<1>5. Agrees(d, map)
  <2>1. Entries(d) = {}
    BY <1>1, <1>2 DEF Entries
  <2>2. \A e \in Entry : e.key \in Keys /\ e.val # None
    BY NoneAssumption DEF Entry
  <2>. QED
    BY <2>1, <2>2 DEF Agrees, Init
<1>6. IterInv(d, it)
  BY <1>1 DEF IterInv, Init, Iterators, NoIterator
<1>7. canResize \in BOOLEAN /\ ScanInv(scan)
  BY DEF Init, ScanInv, NoScan
<1>. QED
  BY <1>4, <1>5, <1>6, <1>7 DEF Inv

(* A call that only moves entries along.                                    *)
LEMMA StillInv ==
    ASSUME Inv, Good(d'), Same(d, d'), d.iterators # 0 => Grown(d, d'),
           UNCHANGED <<canResize, map, it, scan>>
    PROVE  Inv'
<1>1. Agrees(d', map)
  BY AgreesSame DEF Inv
<1>2. IterInv(d', it)
  BY IterGrown DEF Inv
<1>. QED
  BY <1>1, <1>2 DEF Inv

(* dictAdd and dictReplace store the key in a dict that has room, when it   *)
(* is not there.                                                            *)
LEMMA FreeIs ==
    ASSUME Inv, NEW k \in Keys, NEW A, A = AddPrepared(d)
    PROVE  /\ Good(A) /\ A.ht0.size # 0 /\ Agrees(A, map) /\ IterInv(A, it)
           /\ KeyIndexFree(d, k) <=> map[k] = None
           /\ KeyIndexFree(d, k) <=> k \notin Stored(A)
<1>1. /\ Good(A) /\ Same(d, A) /\ A.ht0.size # 0 /\ ~ExpandRefused(Stepped(d))
      /\ (d.iterators # 0 => Grown(d, A))
  BY PreparedGood DEF Inv
<1>2. Agrees(A, map)
  BY <1>1, AgreesSame DEF Inv
<1>3. IterInv(A, it)
  BY <1>1, IterGrown DEF Inv
<1>4. Found(A, k) <=> k \in Stored(A)
  BY <1>1, LookupSpec
<1>5. k \in Stored(A) <=> map[k] # None
  BY <1>2, AgreesStored
<1>6. KeyIndexFree(d, k) <=> ~Found(A, k)
  BY <1>1 DEF KeyIndexFree
<1>. QED
  BY <1>1, <1>2, <1>3, <1>4, <1>5, <1>6

LEMMA PushInv ==
    ASSUME NEW A, Good(A), A.ht0.size # 0, NEW k \in Keys, NEW v \in Values, k \notin Stored(A),
           NEW m, Agrees(A, m), NEW i, IterInv(A, i), NEW R, R = Push(A, k, v)
    PROVE  Good(R) /\ Agrees(R, [m EXCEPT ![k] = v]) /\ IterInv(R, i)
<1> DEFINE e == [key |-> k, val |-> v]
<1>1. e \in Entry /\ e.key = k
  BY DEF Entry
<1>2. /\ Good(R) /\ Entries(R) = Entries(A) \union {e}
      /\ R.rehashidx = A.rehashidx /\ R.iterators = A.iterators /\ Pushed(A, R, e)
  BY PushGood
<1>3. Others(Entries(A), k) = Entries(A)
  BY NoOthers
<1>4. Agrees(R, [m EXCEPT ![k] = v])
  BY <1>2, <1>3, AgreesSet
<1> HIDE DEF e
<1>5. Kept(A, R, Stored(A))
  BY <1>1, <1>2, PushedKept
<1>6. Stored(A) \subseteq Stored(R)
  BY <1>2 DEF Stored
<1>7. IterInv(R, i)
  BY <1>2, <1>5, <1>6, IterKept
<1>. QED
  BY <1>2, <1>4, <1>7

LEMMA SetInv ==
    ASSUME NEW A, Good(A), NEW k \in Keys, NEW v \in Values, k \in Stored(A),
           NEW m, Agrees(A, m), NEW i, IterInv(A, i), NEW R, R = SetVal(A, k, v)
    PROVE  Good(R) /\ Agrees(R, [m EXCEPT ![k] = v]) /\ IterInv(R, i)
<1> DEFINE e == [key |-> k, val |-> v]
<1>1. Good(R) /\ SetOf(A, R, k, v) /\ Entries(R) = Others(Entries(A), k) \union {e}
  BY SetValGood
<1>2. Agrees(R, [m EXCEPT ![k] = v])
  BY <1>1, AgreesSet
<1>3. Kept(A, R, Stored(A))
  BY <1>1, SetKept
<1>4. Stored(A) \subseteq Stored(R)
  <2>1. e.key = k
    OBVIOUS
  <2>. QED
    BY <1>1, <2>1 DEF Stored, Others
<1>5. R.iterators = A.iterators
  BY <1>1 DEF SetOf, NewIn
<1>6. IterInv(R, i)
  BY <1>1, <1>3, <1>4, <1>5, IterKept
<1>. QED
  BY <1>1, <1>2, <1>6

LEMMA AddInv ==
    ASSUME Inv, NEW p \in Pairs, dictAdd(p[1], p[2])
    PROVE  Inv'
<1> DEFINE k == p[1]
           v == p[2]
           A == AddPrepared(d)
<1>1. k \in Keys /\ v \in Values
  BY NoneAssumption
<1>2. /\ d' = IF KeyIndexFree(d, k) THEN Push(A, k, v) ELSE A
      /\ map' = IF map[k] = None THEN [map EXCEPT ![k] = v] ELSE map
      /\ UNCHANGED <<canResize, it, scan>>
  BY DEF dictAdd
<1> HIDE DEF k, v
<1>3. /\ Good(A) /\ A.ht0.size # 0 /\ Agrees(A, map) /\ IterInv(A, it)
      /\ KeyIndexFree(d, k) <=> map[k] = None
      /\ KeyIndexFree(d, k) <=> k \notin Stored(A)
  BY <1>1, FreeIs
<1> HIDE DEF A
<1>4. CASE KeyIndexFree(d, k)
  <2>1. Good(d') /\ Agrees(d', map') /\ IterInv(d', it)
    BY <1>1, <1>2, <1>3, <1>4, PushInv
  <2>. QED
    BY <1>2, <2>1 DEF Inv
<1>5. CASE ~KeyIndexFree(d, k)
  BY <1>2, <1>3, <1>5 DEF Inv
<1>. QED
  BY <1>4, <1>5

LEMMA ReplaceInv ==
    ASSUME Inv, NEW p \in Pairs, dictReplace(p[1], p[2])
    PROVE  Inv'
<1> DEFINE k == p[1]
           v == p[2]
           A == AddPrepared(d)
<1>1. k \in Keys /\ v \in Values
  BY NoneAssumption
<1>2. /\ d' = IF KeyIndexFree(d, k) THEN Push(A, k, v) ELSE SetVal(A, k, v)
      /\ map' = [map EXCEPT ![k] = v]
      /\ UNCHANGED <<canResize, it, scan>>
  BY DEF dictReplace
<1> HIDE DEF k, v
<1>3. /\ Good(A) /\ A.ht0.size # 0 /\ Agrees(A, map) /\ IterInv(A, it)
      /\ KeyIndexFree(d, k) <=> k \notin Stored(A)
  BY <1>1, FreeIs
<1> HIDE DEF A
<1>4. CASE KeyIndexFree(d, k)
  <2>1. Good(d') /\ Agrees(d', map') /\ IterInv(d', it)
    BY <1>1, <1>2, <1>3, <1>4, PushInv
  <2>. QED
    BY <1>2, <2>1 DEF Inv
<1>5. CASE ~KeyIndexFree(d, k)
  <2>1. Good(d') /\ Agrees(d', map') /\ IterInv(d', it)
    BY <1>1, <1>2, <1>3, <1>5, SetInv
  <2>. QED
    BY <1>2, <2>1 DEF Inv
<1>. QED
  BY <1>4, <1>5

LEMMA CutInv ==
    ASSUME NEW T, Good(T), NEW k \in Keys, NEW m, Agrees(T, m), NEW i, IterInv(T, i), i.next # k,
           NEW R, R = IF k \in Stored(T) THEN Unlink(T, k) ELSE T,
           NEW j, Forgets(i, j, k)
    PROVE  Good(R) /\ Agrees(R, [m EXCEPT ![k] = None]) /\ IterInv(R, j)
<1>1. /\ Good(R) /\ Entries(R) = Others(Entries(T), k) /\ R.iterators = T.iterators
      /\ \A K : k \notin K => Kept(T, R, K)
  <2>1. CASE k \in Stored(T)
    <3>1. R = Unlink(T, k)
      BY <2>1
    <3>2. Good(R) /\ CutOf(T, R, k) /\ Entries(R) = Others(Entries(T), k)
      BY <2>1, <3>1, UnlinkGood
    <3>3. R.iterators = T.iterators
      BY <3>2 DEF CutOf, NewIn
    <3>4. \A K : k \notin K => Kept(T, R, K)
      BY <3>2, CutKept
    <3>. QED
      BY <3>2, <3>3, <3>4
  <2>2. CASE k \notin Stored(T)
    <3>1. R = T /\ Shape(T.ht0) /\ Shape(T.ht1)
      BY <2>2, GoodFacts
    <3>2. \A K : Kept(T, T, K)
      BY <3>1, KeepsSame DEF Kept
    <3>. QED
      BY <2>2, <3>1, <3>2, NoOthers
  <2>. QED
    BY <2>1, <2>2
<1>2. Agrees(R, [m EXCEPT ![k] = None])
  BY <1>1, AgreesCut
<1>3. Stored(R) = Stored(T) \ {k}
  BY <1>1 DEF Stored, Others
<1>4. Kept(T, R, Stored(R))
  BY <1>1, <1>3
<1>5. IterInv(R, j)
  BY <1>1, <1>3, <1>4, IterCut
<1>. QED
  BY <1>1, <1>2, <1>5

LEMMA DeleteInv ==
    ASSUME Inv, NEW k \in Keys, dictDelete(k)
    PROVE  Inv'
<1> DEFINE T == Touched(d)
<1>1. Good(T) /\ Same(d, T) /\ (d.iterators # 0 => T = d)
  BY TouchedGood DEF Inv
<1>2. /\ d' = IF Found(T, k) THEN Unlink(T, k) ELSE T
      /\ it.next # k /\ map' = [map EXCEPT ![k] = None] /\ canResize' = canResize
      /\ it' = [it EXCEPT !.owed = it.owed \ {k}, !.seen = it.seen \ {k}]
      /\ scan' = [scan EXCEPT !.owed = scan.owed \ {k}]
  BY DEF dictDelete, Forget
<1> HIDE DEF T
<1>3. Agrees(T, map) /\ IterInv(T, it)
  BY <1>1, AgreesSame, IterStill DEF Inv
<1>4. Found(T, k) <=> k \in Stored(T)
  BY <1>1, LookupSpec
<1>5. d' = IF k \in Stored(T) THEN Unlink(T, k) ELSE T
  BY <1>2, <1>4
<1>6. Forgets(it, it', k)
  BY <1>2 DEF Forgets
<1>7. Good(d') /\ Agrees(d', map') /\ IterInv(d', it')
  BY <1>1, <1>2, <1>3, <1>5, <1>6, CutInv
<1>8. ScanInv(scan')
  <2>1. scan' = [on |-> scan.on, v |-> scan.v, owed |-> scan.owed \ {k}]
    BY <1>2 DEF Inv, ScanInv
  <2>. QED
    BY <2>1 DEF Inv, ScanInv
<1>. QED
  BY <1>2, <1>7, <1>8 DEF Inv

LEMMA FindInv ==
    ASSUME Inv, d' = Touched(d), UNCHANGED <<canResize, map, it, scan>>
    PROVE  Inv'
<1>1. Good(d') /\ Same(d, d') /\ (d.iterators # 0 => d' = d)
  BY TouchedGood DEF Inv
<1>2. d.iterators # 0 => Grown(d, d')
  BY <1>1 DEF Grown
<1>. QED
  BY <1>1, <1>2, StillInv

LEMMA SomeKeysInv ==
    ASSUME Inv, NEW count \in Batches, dictGetSomeKeys(count)
    PROVE  Inv'
<1> DEFINE n == IF dictSize(d) < count THEN dictSize(d) ELSE count
<1>1. n \in Nat
  <2>1. count \in Nat
    BY SizeAssumption
  <2>2. d.ht0.used \in Nat /\ d.ht1.used \in Nat
    BY GoodFacts, FullFinite DEF Inv
  <2>. QED
    BY <2>1, <2>2 DEF dictSize
<1>2. d' = (CHOOSE step : Steps(step, d, n))[n] /\ UNCHANGED <<canResize, map, it, scan>>
  BY DEF dictGetSomeKeys, Steps
<1> HIDE DEF n
<1>3. Good(d') /\ Same(d, d') /\ (d.iterators # 0 => d' = d)
  BY <1>1, <1>2, StepsGood DEF Inv
<1>4. d.iterators # 0 => Grown(d, d')
  BY <1>3 DEF Grown
<1>. QED
  BY <1>2, <1>3, <1>4, StillInv

LEMMA ResizeInv ==
    ASSUME Inv, Resize
    PROVE  Inv'
<1>1. UNCHANGED <<canResize, map, it, scan>> /\ Good(d)
  BY DEF Resize, Inv
<1>2. ASSUME NEW size \in Nat, \E n \in TableSizes : n >= size, d' = dictExpand(d, size)
      PROVE  Inv'
  <2>1. Good(d') /\ Same(d, d') /\ Grown(d, d')
    BY <1>1, <1>2, ExpandGood
  <2>. QED
    BY <1>1, <2>1, StillInv
<1>3. CASE d' = dictResize(d)
  <2>1. CASE canResize
    <3> DEFINE size == Max({d.ht0.used, InitialSize})
    <3>1. d' = dictExpand(d, size)
      BY <1>3, <2>1 DEF dictResize
    <3>2. /\ d.ht0.used \in Nat /\ d.ht0.used <= Cardinality(Keys) /\ Cardinality(Keys) \in Nat
          /\ InitialSize \in Nat
      BY <1>1, GoodFacts, FullFinite, SizesPositive, RoomAssumption, FS_CardinalityType
    <3>3. size = d.ht0.used \/ size = InitialSize
      <4>1. \E x \in {d.ht0.used, InitialSize} : \A y \in {d.ht0.used, InitialSize} : x >= y
        BY <3>2
      <4>. QED
        BY <4>1 DEF Max
    <3> HIDE DEF size
    <3>4. \E n \in TableSizes : n >= size
      <4>1. CASE size = InitialSize
        BY <4>1, RoomAssumption
      <4>2. CASE size = d.ht0.used
        <5>1. PICK n \in TableSizes : n >= 2 * Cardinality(Keys)
          BY RoomAssumption
        <5>2. n \in Nat
          BY SizesPositive
        <5>. QED
          BY <3>2, <4>2, <5>1, <5>2
      <4>. QED
        BY <3>3, <4>1, <4>2
    <3>. QED
      BY <1>2, <3>1, <3>2, <3>3, <3>4
  <2>2. CASE ~canResize
    <3>1. d' = d
      BY <1>3, <2>2 DEF dictResize
    <3>. QED
      BY <1>1, <3>1, StillInv DEF Same, Grown
  <2>. QED
    BY <2>1, <2>2
<1>4. CASE \E size \in Sizes : d' = dictExpand(d, size)
  <2>1. PICK size \in Sizes : d' = dictExpand(d, size)
    BY <1>4
  <2>2. size \in Nat /\ \E n \in TableSizes : n >= size
    BY SizeAssumption, RoomAssumption
  <2>. QED
    BY <1>2, <2>1, <2>2
<1>. QED
  BY <1>3, <1>4 DEF Resize

LEMMA RehashInv ==
    ASSUME Inv, Rehash
    PROVE  Inv'
<1>1. PICK n \in Batches : d' = dictRehash(d, n)
  BY DEF Rehash
<1>2. n \in Nat
  BY SizeAssumption
<1>3. Good(d') /\ Same(d, d')
  BY <1>1, <1>2, RehashGood DEF Inv
<1>4. d.iterators = 0
  BY DEF Rehash, Inv, IterInv
<1>. QED
  BY <1>3, <1>4, StillInv DEF Rehash

LEMMA EmptyInv ==
    ASSUME Inv, dictEmpty
    PROVE  Inv'
<1>1. /\ d \in Dicts /\ it.phase = "off" /\ map' = [k \in Keys |-> None]
      /\ scan' = [scan EXCEPT !.owed = {}] /\ UNCHANGED <<canResize, it>>
  BY GoodFacts DEF dictEmpty, Inv
<1>2. Full(NoTable) /\ EntriesOf(NoTable) = {} /\ NoTable \in Tables
  BY NoTableFull DEF Full, Shape
<1>3. /\ d' \in Dicts /\ d'.ht0 = NoTable /\ d'.ht1 = NoTable /\ d'.rehashidx = -1
      /\ d'.iterators = 0
  <2> DEFINE z == -1
             nt == NoTable
             o == 0
  <2>1. /\ z \in Int /\ o \in Nat /\ nt \in Tables
        /\ d' = [d EXCEPT !.ht0 = nt, !.ht1 = nt, !.rehashidx = z, !.iterators = o]
    BY <1>2 DEF dictEmpty, dictClear
  <2> HIDE DEF z, nt, o
  <2>2. d' \in Dicts /\ d'.ht0 = nt /\ d'.ht1 = nt /\ d'.rehashidx = z /\ d'.iterators = o
    BY <1>1, <2>1 DEF Dicts
  <2>. QED
    BY <2>2 DEF z, nt, o
<1>4. Good(d')
  BY <1>2, <1>3 DEF Good, Apart, KeysIn
<1>5. Agrees(d', map')
  <2>1. Entries(d') = {}
    BY <1>2, <1>3 DEF Entries
  <2>2. \A e \in Entry : e.key \in Keys /\ e.val # None
    BY NoneAssumption DEF Entry
  <2>. QED
    BY <1>1, <2>1, <2>2 DEF Agrees
<1>6. IterInv(d', it)
  BY <1>1, <1>3 DEF IterInv, Inv
<1>7. ScanInv(scan')
  <2>1. scan' = [on |-> scan.on, v |-> scan.v, owed |-> {}]
    BY <1>1 DEF Inv, ScanInv
  <2>. QED
    BY <2>1 DEF ScanInv
<1>. QED
  BY <1>1, <1>4, <1>5, <1>6, <1>7 DEF Inv

LEMMA ScanStepInv ==
    ASSUME Inv, dictScan
    PROVE  Inv'
<1>1. Stored(d) \subseteq Keys
  BY GoodFacts DEF Inv
<1>2. PICK on, v, keys :
         scan' = [on |-> on, v |-> v, owed |-> (IF scan.on THEN scan.owed ELSE Stored(d)) \ keys]
  BY DEF dictScan
<1>3. scan'.owed \subseteq Keys
  BY <1>1, <1>2 DEF Inv, ScanInv
<1>4. ScanInv(scan')
  BY <1>2, <1>3 DEF ScanInv
<1>. QED
  BY <1>4 DEF Inv, dictScan

LEMMA CountGood ==
    ASSUME NEW D, Good(D), NEW n \in Nat, NEW R, R = [D EXCEPT !.iterators = n]
    PROVE  /\ Good(R) /\ R.ht0 = D.ht0 /\ R.ht1 = D.ht1 /\ R.rehashidx = D.rehashidx
           /\ R.iterators = n /\ Entries(R) = Entries(D)
<1>1. D \in Dicts
  BY GoodFacts
<1>2. /\ R \in Dicts /\ R.ht0 = D.ht0 /\ R.ht1 = D.ht1 /\ R.rehashidx = D.rehashidx
      /\ R.iterators = n
  BY <1>1 DEF Dicts
<1>. QED
  BY <1>2 DEF Good, Apart, Entries

LEMMA ReleaseInv ==
    ASSUME Inv, dictReleaseIterator
    PROVE  Inv'
<1>1. it.phase # "off" /\ it' = NoIterator /\ UNCHANGED <<canResize, map, scan>>
  BY DEF dictReleaseIterator
<1>2. d.iterators = 1 /\ d' = [d EXCEPT !.iterators = d.iterators - 1]
  BY <1>1 DEF dictReleaseIterator, Inv, IterInv
<1> DEFINE z == d.iterators - 1
<1>3. z = 0 /\ z \in Nat /\ d' = [d EXCEPT !.iterators = z]
  BY <1>2
<1> HIDE DEF z
<1>4. Good(d') /\ d'.iterators = 0 /\ Entries(d') = Entries(d)
  BY <1>3, CountGood DEF Inv
<1>5. Agrees(d', map)
  BY <1>4 DEF Agrees, Inv
<1>6. IterInv(d', it')
  BY <1>1, <1>4 DEF IterInv, Iterators, NoIterator
<1>. QED
  BY <1>1, <1>4, <1>5, <1>6 DEF Inv

(* dictNext: the iterator returns the entry at a place from which on lies   *)
(* all that it owes.                                                        *)
Counted == [d EXCEPT !.iterators = IF it.phase = "off" THEN d.iterators + 1 ELSE d.iterators]

LEMMA CountedInv ==
    ASSUME Inv, it.phase # "end", d' = Counted
    PROVE  /\ Good(d') /\ Agrees(d', map) /\ d'.iterators = 1
           /\ d'.ht0 = d.ht0 /\ d'.ht1 = d.ht1 /\ d'.rehashidx = d.rehashidx
<1> DEFINE n == IF it.phase = "off" THEN d.iterators + 1 ELSE d.iterators
<1>1. n = 1 /\ n \in Nat
  BY DEF Inv, IterInv
<1>2. d' = [d EXCEPT !.iterators = n]
  BY DEF Counted
<1> HIDE DEF n
<1>3. /\ Good(d') /\ d'.ht0 = d.ht0 /\ d'.ht1 = d.ht1 /\ d'.rehashidx = d.rehashidx
      /\ d'.iterators = n /\ Entries(d') = Entries(d)
  BY <1>1, <1>2, CountGood DEF Inv
<1>. QED
  BY <1>1, <1>3 DEF Agrees, Inv

LEMMA ReturnInv ==
    ASSUME Inv, it.phase # "end", d' = Counted, UNCHANGED <<canResize, map, scan>>,
           NEW t \in {"ht0", "ht1"}, t = "ht1" => d.rehashidx # -1,
           NEW y, NEW i, NEW k, At(Part(d, t), y, i, k),
           Owes \subseteq AheadFrom(d, t, y, i),
           it.seen \intersect AheadFrom(d, t, y, i) = {}, it.seen \subseteq Stored(d),
           NEW chain, chain = Part(d, t).table[y], Return(chain, i, t, y)
    PROVE  Inv'
<1> DEFINE nx == Successor(Part(d, t), y, i)
           ow == Owes \ {k}
           se == it.seen \union {k}
           ag == it.again \/ k \in it.seen
<1>1. chain[i].key = k /\ y \in Int
  BY DEF At
<1>2. it' = [it EXCEPT !.phase = "run", !.table = t, !.index = y, !.next = nx,
                       !.owed = ow, !.seen = se, !.again = ag]
  BY <1>1 DEF Return, Owes, Successor
<1>3. it \in Iterators
  BY DEF Inv, IterInv
<1> HIDE DEF nx, ow, se, ag
<1>4. /\ it'.phase = "run" /\ it'.table = t /\ it'.index = y /\ it'.next = nx
      /\ it'.owed = ow /\ it'.seen = se /\ it'.again = ag
      /\ it' = [phase |-> "run", table |-> t, index |-> y, next |-> nx, owed |-> ow,
                seen |-> se, again |-> ag]
  BY <1>2, <1>3 DEF Iterators
<1>5. Moved(d, t, y, i, k, Owes, it.seen, it')
  BY <1>4 DEF Moved, nx, ow, se
<1>6. Running(d, it') /\ k \notin it.seen /\ k \in Keys /\ nx \in Keys \union {None}
  BY <1>4, <1>5, ReturnRuns DEF Inv
<1>7. Owes \subseteq Keys /\ it.seen \subseteq Keys
  BY <1>3, GoodFacts DEF Owes, Inv, Iterators
<1>8. ow \in SUBSET Keys /\ se \in SUBSET Keys
  BY <1>6, <1>7 DEF ow, se
<1>9. ag = FALSE
  BY <1>3, <1>6 DEF ag, Iterators
<1>10. it' \in Iterators
  BY <1>1, <1>4, <1>6, <1>8, <1>9 DEF Iterators
<1>11. /\ Good(d') /\ Agrees(d', map) /\ d'.iterators = 1
       /\ d'.ht0 = d.ht0 /\ d'.ht1 = d.ht1 /\ d'.rehashidx = d.rehashidx
  BY CountedInv
<1>12. Running(d', it')
  BY <1>6, <1>11, RunningSame
<1>13. IterInv(d', it')
  BY <1>4, <1>10, <1>11, <1>12 DEF IterInv
<1>. QED
  BY <1>11, <1>13 DEF Inv

(* What an iterator owes before its next call is ahead of it.               *)
LEMMA OwedAhead ==
    ASSUME Inv, it.phase # "end"
    PROVE  /\ Owes \subseteq Ahead(d, it) /\ it.seen \intersect Ahead(d, it) = {}
           /\ it.seen \subseteq Stored(d) /\ it.table \in {"ht0", "ht1"}
           /\ it.table = "ht1" => d.rehashidx # -1
           /\ it.index \in Int /\ it.index >= -1
           /\ it.next # None => it.phase = "run" /\ Running(d, it)
<1>1. CASE it.phase = "off"
  <2>1. it = NoIterator
    BY <1>1 DEF Inv, IterInv
  <2>2. it.table = "ht0" /\ it.index = -1 /\ it.next = None /\ it.seen = {}
    BY <2>1 DEF NoIterator
  <2>3. Ahead(d, it) = KeysIn(d.ht0) \union KeysIn(d.ht1)
    <3>1. Part(d, "ht0") = d.ht0 /\ Shape(d.ht0)
      BY GoodFacts DEF Part, Inv
    <3>. QED
      BY <2>2, <3>1, RestAll DEF Ahead
  <2>4. Owes = KeysIn(d.ht0) \union KeysIn(d.ht1)
    BY <1>1, GoodFacts DEF Owes, Inv
  <2>. QED
    BY <2>2, <2>3, <2>4
<1>2. CASE it.phase = "run"
  <2>1. Running(d, it) /\ it \in Iterators
    BY <1>2 DEF Inv, IterInv
  <2>2. Part(d, it.table).size \in Nat
    BY PartFacts DEF Inv
  <2>3. it.index \in Int /\ it.index >= -1
    BY <2>1, <2>2 DEF Running
  <2>. QED
    BY <1>2, <2>1, <2>3 DEF Owes, Running, Iterators
<1>. QED
  BY <1>1, <1>2 DEF Inv, IterInv, Iterators

LEMMA SavedHome ==
    ASSUME NEW D, Good(D), NEW t \in {"ht0", "ht1"}, NEW x, NEW q, NEW k, At(Part(D, t), x, q, k)
    PROVE  HomeChain(D, k) = Part(D, t).table[x] /\ Position(HomeChain(D, k), k) = q
<1> DEFINE ht == Part(D, t)
<1>1. Shape(ht) /\ At(ht, x, q, k)
  BY PartFacts
<1>2. k \in KeysIn(ht) /\ k \in Keys
  <2> HIDE DEF ht
  <2>. QED
    BY <1>1, AtFacts
<1>3. Lookup(D, k) = t /\ D[t] = ht
  BY <1>2, LookupSpec DEF Part
<1> HIDE DEF ht
<1>4. PICK h, p : Spot(ht, k, h, p)
  BY <1>1, <1>2, KeySpot
<1>5. At(ht, h, p, k)
  BY <1>4 DEF Spot, At
<1>6. h = x /\ p = q
  BY <1>1, <1>5, AtOnce
<1>7. HomeChain(D, k) = ht.table[h]
  BY <1>3, <1>4 DEF HomeChain, Chain, Bucket, Spot
<1>8. Position(ht.table[h], k) = p
  BY <1>4 DEF Spot
<1>. QED
  BY <1>6, <1>7, <1>8 DEF ht

LEMMA NextInv ==
    ASSUME Inv, dictNext
    PROVE  Inv'
<1>1. it.phase # "end" /\ UNCHANGED <<canResize, map, scan>> /\ d' = Counted /\ Good(d)
  BY DEF dictNext, Counted, Inv
<1>2. /\ Owes \subseteq Ahead(d, it) /\ it.seen \intersect Ahead(d, it) = {}
      /\ it.seen \subseteq Stored(d) /\ it.table \in {"ht0", "ht1"}
      /\ it.table = "ht1" => d.rehashidx # -1
      /\ it.index \in Int /\ it.index >= -1
      /\ it.next # None => it.phase = "run" /\ Running(d, it)
  BY <1>1, OwedAhead
<1> DEFINE t == it.table
           x == it.index
           ht == Part(d, t)
           f == x + 1
           here == NonEmpty(ht, f)
           there == NonEmpty(d.ht1, 0)
<1>3. Shape(ht) /\ Shape(d.ht1) /\ d[t] = ht /\ d["ht1"] = d.ht1
  BY <1>1, <1>2, PartFacts, GoodFacts DEF Part
<1>4. CASE it.next # None
  <2> DEFINE nx == it.next
             chain == HomeChain(d, nx)
  <2>1. PICK q : At(ht, x, q, nx)
    BY <1>2, <1>4 DEF Running
  <2>2. Return(chain, Position(chain, nx), t, x)
    BY <1>4 DEF dictNext
  <2>3. chain = ht.table[x] /\ Position(chain, nx) = q
    BY <1>1, <1>2, <2>1, SavedHome
  <2>4. Return(chain, q, t, x)
    BY <2>2, <2>3
  <2>5. Rest(ht, x, nx) = From(ht, x, q)
    BY <1>3, <2>1, AtSaved
  <2>6. Ahead(d, it) = AheadFrom(d, t, x, q)
    BY <2>5 DEF Ahead, AheadFrom
  <2> HIDE DEF chain, nx, t, x
  <2>. QED
    BY <1>1, <1>2, <2>1, <2>3, <2>4, <2>6, ReturnInv DEF t, x
<1>5. CASE it.next = None /\ here # {}
  <2> DEFINE y == Min(here)
             k == ht.table[y][1].key
             chain == ht.table[y]
  <2>1. NextBucket(d) = {<<t, y>>}
    BY <1>3, <1>5 DEF NextBucket
  <2>2. Return(d[t].table[y], 1, t, y)
    <3> HIDE DEF y, t
    <3>. QED
      BY <1>5, <2>1 DEF dictNext
  <2>3. Return(chain, 1, t, y)
    BY <1>3, <2>2
  <2>4. /\ Rest(ht, x, None) = From(ht, y, 1)
        /\ At(ht, y, 1, k)
    <3> HIDE DEF ht, x
    <3>. QED
      BY <1>2, <1>3, <1>5, AtNext DEF x
  <2>5. Ahead(d, it) = AheadFrom(d, t, y, 1)
    BY <1>5, <2>4 DEF Ahead, AheadFrom
  <2> HIDE DEF y, k, t, x
  <2>. QED
    BY <1>1, <1>2, <2>3, <2>4, <2>5, ReturnInv DEF t
<1>6. CASE /\ it.next = None /\ here = {} /\ t = "ht0" /\ dictIsRehashing(d) /\ there # {}
  <2> DEFINE u == "ht1"
             y == Min(there)
             k == d.ht1.table[y][1].key
             chain == d.ht1.table[y]
  <2>1. NextBucket(d) = {<<u, y>>}
    BY <1>3, <1>6 DEF NextBucket
  <2>2. Return(d[u].table[y], 1, u, y)
    <3> HIDE DEF y, u
    <3>. QED
      BY <1>6, <2>1 DEF dictNext
  <2>3. Return(chain, 1, u, y)
    BY <1>3, <2>2
  <2>4. Rest(ht, x, None) = {}
    <3> HIDE DEF ht, x
    <3>. QED
      BY <1>2, <1>3, <1>6, AtEnd DEF x
  <2>5. KeysIn(d.ht1) = From(d.ht1, y, 1) /\ At(d.ht1, y, 1, k)
    <3> DEFINE z == -1
               g == 0
               r == d.ht1
    <3>1. z \in Int /\ z >= -1 /\ g = z + 1 /\ Shape(r) /\ NonEmpty(r, g) # {} /\ y = Min(NonEmpty(r, g))
      BY <1>3, <1>6
    <3>2. Rest(r, z, None) = KeysIn(r)
      BY <1>3, RestAll
    <3> HIDE DEF z, g, r, y
    <3>3. Rest(r, z, None) = From(r, y, 1) /\ At(r, y, 1, r.table[y][1].key)
      BY <3>1, AtNext
    <3>. QED
      BY <3>2, <3>3 DEF r
  <2>6. Part(d, u) = d.ht1 /\ d.rehashidx # -1
    BY <1>6 DEF Part, dictIsRehashing
  <2>7. Ahead(d, it) = AheadFrom(d, u, y, 1)
    BY <1>6, <2>4, <2>5, <2>6 DEF Ahead, AheadFrom
  <2>8. At(Part(d, u), y, 1, k) /\ u \in {"ht0", "ht1"} /\ chain = Part(d, u).table[y]
    BY <2>5, <2>6
  <2> HIDE DEF y, k, u, chain
  <2>. QED
    BY <1>1, <1>2, <2>3, <2>6, <2>7, <2>8, ReturnInv
<1>7. CASE /\ it.next = None /\ here = {} /\ ~(t = "ht0" /\ dictIsRehashing(d) /\ there # {})
  <2>1. NextBucket(d) = {}
    BY <1>3, <1>7 DEF NextBucket
  <2>2. it' = [it EXCEPT !.phase = "end", !.owed = Owes]
    BY <1>7, <2>1 DEF dictNext
  <2>3. Rest(ht, x, None) = {}
    <3> HIDE DEF ht, x
    <3>. QED
      BY <1>2, <1>3, <1>7, AtEnd DEF x
  <2>4. t = "ht0" => KeysIn(d.ht1) = {}
    <3>1. CASE ~dictIsRehashing(d)
      BY <1>1, <3>1, GoodFacts DEF dictIsRehashing
    <3>2. CASE t = "ht0" /\ there = {}
      <4> DEFINE z == -1
                 g == 0
                 r == d.ht1
      <4>1. z \in Int /\ z >= -1 /\ g = z + 1 /\ Shape(r) /\ NonEmpty(r, g) = {}
        BY <1>3, <3>2
      <4>2. Rest(r, z, None) = KeysIn(r)
        BY <1>3, RestAll
      <4> HIDE DEF z, g, r
      <4>3. Rest(r, z, None) = {}
        BY <4>1, AtEnd
      <4>. QED
        BY <4>2, <4>3 DEF r
    <3>. QED
      BY <1>7, <3>1, <3>2
  <2>5. Owes = {}
    BY <1>2, <1>7, <2>3, <2>4 DEF Ahead
  <2>6. it \in Iterators
    BY <1>1 DEF Inv, IterInv
  <2>7. it' \in Iterators /\ it'.phase = "end" /\ it'.owed = {} /\ it'.next = it.next
    BY <2>2, <2>5, <2>6 DEF Iterators
  <2>8. Good(d') /\ Agrees(d', map) /\ d'.iterators = 1
    BY <1>1, CountedInv
  <2>9. IterInv(d', it')
    BY <1>7, <2>6, <2>7, <2>8 DEF IterInv
  <2>. QED
    BY <1>1, <2>8, <2>9 DEF Inv
<1>. QED
  BY <1>4, <1>5, <1>6, <1>7

----------------------------------------------------------------------------
(* Every call keeps the invariant, whatever calls came before.              *)
LEMMA StepInv == Inv /\ [Next]_vars => Inv'
<1> SUFFICES ASSUME Inv, [Next]_vars PROVE Inv'
  OBVIOUS
<1>1. ASSUME NEW p \in Pairs, dictAdd(p[1], p[2]) PROVE Inv'
  BY <1>1, AddInv
<1>2. ASSUME NEW p \in Pairs, dictReplace(p[1], p[2]) PROVE Inv'
  BY <1>2, ReplaceInv
<1>3. ASSUME NEW k \in Keys, dictDelete(k) PROVE Inv'
  BY <1>3, DeleteInv
<1>4. ASSUME NEW k \in Keys, dictFind(k) PROVE Inv'
  BY <1>4, FindInv DEF dictFind
<1>5. CASE dictGetRandomKey
  BY <1>5, FindInv DEF dictGetRandomKey
<1>6. ASSUME NEW n \in Batches, dictGetSomeKeys(n) PROVE Inv'
  BY <1>6, SomeKeysInv
<1>7. CASE Resize
  BY <1>7, ResizeInv
<1>8. CASE Rehash
  BY <1>8, RehashInv
<1>9. CASE SetResize
  <2>1. canResize' \in BOOLEAN /\ UNCHANGED <<d, map, it, scan>>
    BY <1>9 DEF SetResize
  <2>. QED
    BY <2>1 DEF Inv
<1>10. CASE dictEmpty
  BY <1>10, EmptyInv
<1>11. CASE dictNext
  BY <1>11, NextInv
<1>12. CASE dictReleaseIterator
  BY <1>12, ReleaseInv
<1>13. CASE dictScan
  BY <1>13, ScanStepInv
<1>14. CASE UNCHANGED vars
  BY <1>14 DEF Inv, vars
<1>. QED
  BY <1>1, <1>2, <1>3, <1>4, <1>5, <1>6, <1>7, <1>8, <1>9, <1>10, <1>11, <1>12, <1>13, <1>14
     DEF Next

LEMMA AlwaysInv == Spec => []Inv
BY InitInv, StepInv, PTL DEF Spec

(* `used' counts the places that are taken: each holds an entry of its own. *)
LEMMA FullExact ==
    ASSUME NEW ht, Full(ht)
    PROVE  UsedExact(ht)
<1> DEFINE K == Cardinality(Keys)
           E == EntriesOf(ht)
           P == {p \in (0..(ht.size - 1)) \X (1..K) : p[2] <= Len(ht.table[p[1]])}
           f == [p \in P |-> ht.table[p[1]][p[2]]]
<1>1. /\ Shape(ht) /\ IsFiniteSet(E) /\ Cardinality(E) = ht.used /\ ht.used <= K
      /\ ht.used \in Nat /\ K \in Nat
  BY FullFinite, RoomAssumption, FS_CardinalityType DEF Full
<1>2. ASSUME NEW i \in 0..(ht.size - 1) PROVE Len(ht.table[i]) \in Nat /\ Len(ht.table[i]) <= K
  <2> DEFINE c == ht.table[i]
  <2>1. Chained(c, i, ht.size)
    BY <1>1 DEF Shape
  <2>2. ToSet(c) \in SUBSET E
    BY DEF EntriesOf
  <2> HIDE DEF c
  <2>3. IsFiniteSet(ToSet(c)) /\ Cardinality(ToSet(c)) = Len(c) /\ Len(c) \in Nat
    BY <2>1, ChainCardinality
  <2>4. Cardinality(ToSet(c)) <= Cardinality(E)
    <3> HIDE DEF E
    <3>. QED
      BY <1>1, <2>2, FS_Subset
  <2>5. Len(c) <= K /\ Len(c) \in Nat
    BY <1>1, <2>3, <2>4
  <2>. QED
    BY <2>5 DEF c
<1>3. ASSUME NEW p \in P
      PROVE  p[1] \in 0..(ht.size - 1) /\ p[2] \in 1..Len(ht.table[p[1]])
  <2>1. p[1] \in 0..(ht.size - 1) /\ p[2] \in 1..K /\ p[2] <= Len(ht.table[p[1]])
    OBVIOUS
  <2>2. Len(ht.table[p[1]]) \in Nat
    BY <1>2, <2>1
  <2>. QED
    BY <1>1, <2>1, <2>2
<1>4. f \in [P -> E]
  <2>1. ASSUME NEW p \in P PROVE ht.table[p[1]][p[2]] \in E
    BY <1>1, <1>3, PlacedIn
  <2> HIDE DEF P, E
  <2>. QED
    BY <2>1
<1>5. ASSUME NEW p \in P, NEW q \in P, f[p] = f[q] PROVE p = q
  <2>1. ht.table[p[1]][p[2]].key = ht.table[q[1]][q[2]].key
    BY <1>5
  <2>2. /\ p[1] \in 0..(ht.size - 1) /\ p[2] \in 1..Len(ht.table[p[1]])
        /\ q[1] \in 0..(ht.size - 1) /\ q[2] \in 1..Len(ht.table[q[1]])
    BY <1>3
  <2>3. p[1] = q[1] /\ p[2] = q[2]
    <3> DEFINE i == p[1]
               m == q[1]
               a == p[2]
               b == q[2]
               k == ht.table[i][a].key
    <3>1. At(ht, i, a, k) /\ At(ht, m, b, k)
      BY <2>1, <2>2 DEF At
    <3> HIDE DEF i, m, a, b, k
    <3>2. i = m /\ a = b
      BY <1>1, <3>1, AtOnce
    <3>. QED
      BY <3>2 DEF i, m, a, b
  <2>4. p = <<p[1], p[2]>> /\ q = <<q[1], q[2]>>
    OBVIOUS
  <2>. QED
    BY <2>3, <2>4
<1>6. ASSUME NEW e \in E PROVE \E p \in P : f[p] = e
  <2>1. PICK i \in 0..(ht.size - 1) : \E j \in 1..Len(ht.table[i]) : e = ht.table[i][j]
    BY <1>1, Places
  <2>2. PICK j \in 1..Len(ht.table[i]) : e = ht.table[i][j]
    BY <2>1
  <2>3. j \in 1..K /\ j <= Len(ht.table[i])
    BY <1>1, <1>2, <2>2
  <2>4. <<i, j>> \in P /\ f[<<i, j>>] = e
    BY <2>2, <2>3
  <2>. QED
    BY <2>4
<1> HIDE DEF f, P, E
<1>7. f \in Injection(P, E) /\ f \in Surjection(P, E)
  BY <1>4, <1>5, <1>6 DEF Injection, Surjection, IsInjective
<1>8. IsFiniteSet(P) /\ Cardinality(P) = Cardinality(E)
  BY <1>1, <1>7, FS_Injection
<1>9. Cardinality(P) = ht.used
  BY <1>1, <1>8
<1>. QED
  BY <1>9 DEF UsedExact, P, K

LEMMA ShapeOK ==
    ASSUME NEW ht, Shape(ht)
    PROVE  TableOK(ht) /\ InItsBucket(ht)
<1>1. TableOK(ht)
  BY DEF Shape, Tables, TableOK, Entry
<1>2. ASSUME NEW i \in 0..(ht.size - 1), NEW k \in KeysOf(ht.table[i]) PROVE Hash[k] % ht.size = i
  <2>1. PICK j \in 1..Len(ht.table[i]) : k = ht.table[i][j].key
    BY DEF KeysOf
  <2>2. Chained(ht.table[i], i, ht.size)
    BY DEF Shape
  <2>. QED
    BY <2>1, <2>2 DEF Chained
<1>. QED
  BY <1>1, <1>2 DEF InItsBucket

LEMMA SizeIsStored ==
    ASSUME NEW D, Good(D)
    PROVE  dictSize(D) = Cardinality(Stored(D))
<1> DEFINE A == KeysIn(D.ht0)
           B == KeysIn(D.ht1)
           a == Cardinality(A)
           b == Cardinality(B)
<1>1. /\ IsFiniteSet(A) /\ a = D.ht0.used /\ D.ht0.used \in Nat
      /\ IsFiniteSet(B) /\ b = D.ht1.used /\ D.ht1.used \in Nat
  BY GoodFacts, FullFinite
<1>2. Stored(D) = A \union B /\ A \intersect B = {}
  BY GoodFacts
<1> HIDE DEF A, B
<1>3. Cardinality(A \union B) = Cardinality(A) + Cardinality(B) - Cardinality(A \intersect B)
  BY <1>1, FS_Union
<1>4. Cardinality(A \intersect B) = 0
  BY <1>2, FS_EmptySet, Zenon
<1>5. Cardinality(Stored(D)) = Cardinality(A \union B)
  BY <1>2, Zenon
<1>. QED
  BY <1>1, <1>3, <1>4, <1>5 DEF dictSize

LEMMA InvWellFormed == Inv => WellFormed
<1> SUFFICES ASSUME Inv PROVE WellFormed
  OBVIOUS
<1>1. Good(d) /\ IterInv(d, it) /\ canResize \in BOOLEAN /\ scan.owed \subseteq Keys
  BY DEF Inv, ScanInv
<1>2. /\ d \in Dicts /\ Full(d.ht0) /\ Full(d.ht1) /\ Shape(d.ht0) /\ Shape(d.ht1)
      /\ d.ht0.size \in Nat
  BY <1>1, GoodFacts
<1>3. TableOK(d.ht0) /\ TableOK(d.ht1) /\ InItsBucket(d.ht0) /\ InItsBucket(d.ht1)
  BY <1>2, ShapeOK
<1>4. UsedExact(d.ht0) /\ UsedExact(d.ht1)
  BY <1>2, FullExact
<1>5. /\ it.phase \in {"off", "run", "end"} /\ it.owed \subseteq Keys /\ it.seen \subseteq Keys
      /\ d.iterators \in 0..1
  BY <1>1 DEF IterInv, Iterators
<1>6. d.rehashidx \in Nat \union {-1}
  BY <1>1, <1>2 DEF Good
<1>7. TypeOK
  BY <1>1, <1>3, <1>5, <1>6 DEF TypeOK
<1>8. IF dictIsRehashing(d)
      THEN /\ d.rehashidx < d.ht0.size /\ d.ht1.size # 0
           /\ \A i \in 0..(d.rehashidx - 1) : d.ht0.table[i] = <<>>
      ELSE d.ht1 = NoTable
  BY <1>1, <1>2 DEF Good, dictIsRehashing
<1>. QED
  BY <1>1, <1>3, <1>4, <1>7, <1>8, SizeIsStored DEF WellFormed

----------------------------------------------------------------------------
(* dictScan.  Cursors are compared by their reverse: reversed, by its       *)
(* recursion.                                                               *)
Doubling(n, f) ==
    [v \in 0..(TwoTo[n] - 1) |->
        IF v < TwoTo[n - 1] THEN 2 * f[v] ELSE 2 * f[v - TwoTo[n - 1]] + 1]
Halves(n) == [0..(TwoTo[n] - 1) -> Nat]

LEMMA DoublingType ==
    ASSUME NEW n \in 1..Bits, NEW f \in Halves(n - 1)
    PROVE  Doubling(n, f) \in Halves(n)
<1>1. /\ TwoTo[n] \in Nat /\ TwoTo[n - 1] \in Nat /\ TwoTo[n] = 2 * TwoTo[n - 1]
  BY Powers
<1>2. ASSUME NEW v \in 0..(TwoTo[n] - 1)
      PROVE  (IF v < TwoTo[n - 1] THEN 2 * f[v] ELSE 2 * f[v - TwoTo[n - 1]] + 1) \in Nat
  <2>1. CASE v < TwoTo[n - 1]
    <3>1. v \in 0..(TwoTo[n - 1] - 1)
      BY <1>1, <2>1
    <3>. QED
      BY <2>1, <3>1 DEF Halves
  <2>2. CASE ~(v < TwoTo[n - 1])
    <3>1. v - TwoTo[n - 1] \in 0..(TwoTo[n - 1] - 1)
      BY <1>1, <2>2
    <3>. QED
      BY <2>2, <3>1 DEF Halves
  <2>. QED
    BY <2>1, <2>2
<1>. QED
  BY <1>2 DEF Doubling, Halves

LEMMA ReversedDef ==
    /\ reversed[0] = [v \in 0..0 |-> 0]
    /\ \A n \in 1..Bits : reversed[n] = Doubling(n, reversed[n - 1])
    /\ \A n \in 0..Bits : reversed[n] \in Halves(n)
<1> DEFINE z == [v \in 0..0 |-> 0]
           S == {z} \union UNION {Halves(n) : n \in 0..Bits}
           g == [p \in (1..Bits) \X S |->
                    IF p[2] \in Halves(p[1] - 1) THEN Doubling(p[1], p[2]) ELSE z]
           Form(f) == [n \in 0..Bits |-> [v \in 0..(TwoTo[n] - 1) |->
                          IF n = 0 THEN 0
                          ELSE IF v < TwoTo[n - 1] THEN 2 * f[n - 1][v]
                          ELSE 2 * f[n - 1][v - TwoTo[n - 1]] + 1]]
<1>1. Bits \in Nat /\ z \in S /\ TwoTo[0] = 1
  BY Powers
<1>0. z \in Halves(0)
  <2>1. TwoTo[0] - 1 = 0
    BY <1>1
  <2>2. z \in [0..0 -> Nat]
    OBVIOUS
  <2>. QED
    BY <2>1, <2>2, Zenon DEF Halves
<1>2. g \in [(1..Bits) \X S -> S]
  <2>1. ASSUME NEW n \in 1..Bits, NEW f \in Halves(n - 1) PROVE Doubling(n, f) \in S
    <3>1. n \in 0..Bits
      BY <1>1
    <3>. QED
      BY <3>1, DoublingType
  <2> HIDE DEF S, z
  <2>. QED
    BY <1>1, <2>1
<1>3. PICK f \in [0..Bits -> S] : Solves(f, Bits, z, g)
  <2> HIDE DEF g, S, z
  <2>. QED
    BY <1>1, <1>2, Recursion
<1>4. f[0] = z /\ \A n \in 1..Bits : f[n] = g[<<n, f[n - 1]>>] /\ n - 1 \in 0..Bits
  <2> HIDE DEF g, S, z
  <2>1. \A n \in 1..Bits : n \in 0..Bits /\ n # 0 /\ n - 1 \in 0..Bits
    BY <1>1
  <2>. QED
    BY <1>1, <1>3, <2>1 DEF Solves
<1>5. ASSUME NEW n \in 1..Bits, f[n - 1] \in Halves(n - 1)
      PROVE  f[n] = Doubling(n, f[n - 1]) /\ f[n] \in Halves(n)
  <2>1. f[n - 1] \in S
    BY <1>3, <1>4
  <2>2. g[<<n, f[n - 1]>>] = Doubling(n, f[n - 1])
    <3> HIDE DEF S, z
    <3>. QED
      BY <1>5, <2>1
  <2>3. f[n] = Doubling(n, f[n - 1])
    BY <1>4, <2>2, Zenon
  <2>4. Doubling(n, f[n - 1]) \in Halves(n)
    <3> HIDE DEF S, z, g
    <3>. QED
      BY <1>5, DoublingType
  <2>. QED
    BY <2>3, <2>4, Zenon
<1> DEFINE G == {n \in 0..Bits : f[n] \in Halves(n)}
<1>6. 0 \in G
  <2>1. 0 \in 0..Bits
    BY <1>1
  <2>. QED
    BY <1>0, <1>4, <2>1, Zenon
<1>7. ASSUME NEW n \in 1..Bits, n - 1 \in G PROVE n \in G
  BY <1>1, <1>5, <1>7
<1>8. \A n \in 0..Bits : n \in G
  <2> HIDE DEF G
  <2>. QED
    BY <1>1, <1>6, <1>7, UpTo
<1>9. f = Form(f)
  <2>1. f[0] = Form(f)[0]
    BY <1>1, <1>4
  <2>2. ASSUME NEW n \in 1..Bits PROVE f[n] = Form(f)[n]
    <3>1. n \in 0..Bits /\ n # 0 /\ n - 1 \in 0..Bits
      BY <1>1
    <3>2. f[n] = Doubling(n, f[n - 1])
      BY <1>5, <1>8, <3>1
    <3>3. Form(f)[n] = Doubling(n, f[n - 1])
      BY <3>1 DEF Doubling
    <3>. QED
      BY <3>2, <3>3
  <2>3. \A n \in 0..Bits : f[n] = Form(f)[n]
    <3> HIDE DEF Form
    <3>. QED
      BY <1>1, <2>1, <2>2
  <2>4. Form(f) = [n \in 0..Bits |-> Form(f)[n]] /\ f = [n \in 0..Bits |-> f[n]]
    BY <1>3
  <2>. QED
    BY <2>3, <2>4
<1>10. reversed = Form(reversed)
  BY <1>9, Zenon DEF reversed
<1>11. reversed[0] = z
  BY <1>1, <1>10
<1>12. ASSUME NEW n \in 1..Bits PROVE reversed[n] = Doubling(n, reversed[n - 1])
  <2>1. n \in 0..Bits /\ n # 0
    BY <1>1
  <2>. QED
    BY <1>10, <2>1 DEF Doubling
<1> DEFINE H == {n \in 0..Bits : reversed[n] \in Halves(n)}
<1>13. 0 \in H
  <2>1. 0 \in 0..Bits
    BY <1>1
  <2>. QED
    BY <1>0, <1>11, <2>1, Zenon
<1>14. ASSUME NEW n \in 1..Bits, n - 1 \in H PROVE n \in H
  BY <1>1, <1>12, <1>14, DoublingType
<1>15. \A n \in 0..Bits : n \in H
  <2> HIDE DEF H
  <2>. QED
    BY <1>1, <1>13, <1>14, UpTo
<1>. QED
  BY <1>11, <1>12, <1>15

LEMMA Reversed ==
    ASSUME NEW n \in 1..Bits
    PROVE  /\ n - 1 \in 0..Bits /\ n \in 0..Bits /\ n \in Nat
           /\ TwoTo[n] = 2 * TwoTo[n - 1] /\ TwoTo[n - 1] \in Nat \ {0} /\ TwoTo[n] \in Nat \ {0}
           /\ \A u \in 0..(TwoTo[n - 1] - 1) :
                 /\ reversed[n - 1][u] \in Nat
                 /\ reversed[n][u] = 2 * reversed[n - 1][u]
                 /\ reversed[n][u + TwoTo[n - 1]] = 2 * reversed[n - 1][u] + 1
<1>1. /\ n - 1 \in 0..Bits /\ n \in 0..Bits /\ n \in Nat
      /\ TwoTo[n] = 2 * TwoTo[n - 1] /\ TwoTo[n - 1] \in Nat \ {0} /\ TwoTo[n] \in Nat \ {0}
  BY Powers
<1>2. ASSUME NEW u \in 0..(TwoTo[n - 1] - 1)
      PROVE  /\ reversed[n - 1][u] \in Nat
             /\ reversed[n][u] = 2 * reversed[n - 1][u]
             /\ reversed[n][u + TwoTo[n - 1]] = 2 * reversed[n - 1][u] + 1
  <2>1. reversed[n] = Doubling(n, reversed[n - 1]) /\ reversed[n - 1] \in Halves(n - 1)
    BY <1>1, ReversedDef
  <2>2. reversed[n - 1][u] \in Nat
    BY <2>1 DEF Halves
  <2>3. u \in 0..(TwoTo[n] - 1) /\ u < TwoTo[n - 1]
    BY <1>1
  <2>4. /\ u + TwoTo[n - 1] \in 0..(TwoTo[n] - 1) /\ ~(u + TwoTo[n - 1] < TwoTo[n - 1])
        /\ (u + TwoTo[n - 1]) - TwoTo[n - 1] = u
    BY <1>1
  <2>5. reversed[n][u] = 2 * reversed[n - 1][u]
    BY <2>1, <2>3 DEF Doubling
  <2>6. reversed[n][u + TwoTo[n - 1]] = 2 * reversed[n - 1][u] + 1
    <3> DEFINE w == u + TwoTo[n - 1]
    <3>1. w \in 0..(TwoTo[n] - 1) /\ ~(w < TwoTo[n - 1]) /\ w - TwoTo[n - 1] = u
      BY <2>4
    <3> HIDE DEF w
    <3>2. reversed[n][w] = 2 * reversed[n - 1][w - TwoTo[n - 1]] + 1
      BY <2>1, <3>1 DEF Doubling
    <3>3. reversed[n][w] = 2 * reversed[n - 1][u] + 1
      BY <3>1, <3>2, Zenon
    <3>. QED
      BY <3>3 DEF w
  <2>. QED
    BY <2>2, <2>5, <2>6
<1>. QED
  BY <1>1, <1>2

(* Every number of n bits is of one of two forms, by its highest bit.       *)
LEMMA HighBit ==
    ASSUME NEW n \in 1..Bits, NEW v \in 0..(TwoTo[n] - 1)
    PROVE  \/ v \in 0..(TwoTo[n - 1] - 1)
           \/ v - TwoTo[n - 1] \in 0..(TwoTo[n - 1] - 1) /\ (v - TwoTo[n - 1]) + TwoTo[n - 1] = v
BY Reversed

LEMMA ReversedRange ==
    \A n \in 0..Bits : \A v \in 0..(TwoTo[n] - 1) : reversed[n][v] \in 0..(TwoTo[n] - 1)
<1> DEFINE G == {n \in 0..Bits : \A v \in 0..(TwoTo[n] - 1) : reversed[n][v] \in 0..(TwoTo[n] - 1)}
<1>1. 0 \in G
  <2>1. Bits \in Nat /\ TwoTo[0] = 1
    BY Powers
  <2>. QED
    BY <2>1, ReversedDef
<1>2. ASSUME NEW n \in 1..Bits, n - 1 \in G PROVE n \in G
  <2>1. ASSUME NEW v \in 0..(TwoTo[n] - 1) PROVE reversed[n][v] \in 0..(TwoTo[n] - 1)
    <3>1. CASE v \in 0..(TwoTo[n - 1] - 1)
      <4>1. reversed[n - 1][v] \in 0..(TwoTo[n - 1] - 1)
        BY <1>2, <3>1
      <4>. QED
        BY <3>1, <4>1, Reversed
    <3>2. CASE v - TwoTo[n - 1] \in 0..(TwoTo[n - 1] - 1) /\ (v - TwoTo[n - 1]) + TwoTo[n - 1] = v
      <4> DEFINE u == v - TwoTo[n - 1]
      <4>1. u \in 0..(TwoTo[n - 1] - 1) /\ v = u + TwoTo[n - 1]
        BY <3>2
      <4>2. reversed[n - 1][u] \in 0..(TwoTo[n - 1] - 1)
        BY <1>2, <4>1
      <4> HIDE DEF u
      <4>. QED
        BY <4>1, <4>2, Reversed
    <3>. QED
      BY <3>1, <3>2, HighBit
  <2>. QED
    BY <2>1, Reversed
<1>3. \A n \in 0..Bits : n \in G
  <2> HIDE DEF G
  <2>. QED
    BY <1>1, <1>2, UpTo, Powers
<1>. QED
  BY <1>3

(* The lowest bit becomes the highest.                                      *)
LEMMA LowBit ==
    ASSUME NEW n \in 1..Bits, NEW u \in 0..(TwoTo[n - 1] - 1)
    PROVE  /\ reversed[n][2 * u] = reversed[n - 1][u]
           /\ reversed[n][2 * u + 1] = TwoTo[n - 1] + reversed[n - 1][u]
<1> DEFINE G == {m \in 0..Bits : m # 0 => \A x \in 0..(TwoTo[m - 1] - 1) :
                    /\ reversed[m][2 * x] = reversed[m - 1][x]
                    /\ reversed[m][2 * x + 1] = TwoTo[m - 1] + reversed[m - 1][x]}
<1>1. 0 \in G
  BY Powers
<1>2. ASSUME NEW m \in 1..Bits, m - 1 \in G PROVE m \in G
  <2> DEFINE t == TwoTo[m - 1]
  <2>1. /\ m - 1 \in 0..Bits /\ m \in 0..Bits /\ t \in Nat \ {0} /\ TwoTo[m] = 2 * t
    BY Reversed
  <2>2. ASSUME NEW y \in 0..(t - 1)
        PROVE  /\ reversed[m - 1][y] \in Nat
               /\ reversed[m][y] = 2 * reversed[m - 1][y]
               /\ reversed[m][y + t] = 2 * reversed[m - 1][y] + 1
    BY Reversed
  <2>3. CASE m = 1
    <3>1. t = 1 /\ reversed[0][0] = 0
      BY <2>3, Powers, ReversedDef
    <3>2. reversed[1][0] = 0 /\ reversed[1][1] = 1
      BY <2>2, <2>3, <3>1
    <3>3. ASSUME NEW x \in 0..(t - 1)
          PROVE  /\ reversed[m][2 * x] = reversed[m - 1][x]
                 /\ reversed[m][2 * x + 1] = t + reversed[m - 1][x]
      <4>1. x = 0 /\ 2 * x = 0 /\ 2 * x + 1 = 1 /\ m - 1 = 0
        BY <2>3, <3>1
      <4>. QED
        BY <2>3, <3>1, <3>2, <4>1
    <3>. QED
      BY <2>1, <3>3
  <2>4. CASE m # 1
    <3> DEFINE s == TwoTo[m - 2]
    <3>1. m - 1 \in 1..Bits /\ (m - 1) - 1 = m - 2 /\ m - 1 # 0
      BY <2>1, <2>4
    <3>2. s \in Nat \ {0} /\ t = 2 * s
      BY <3>1, Reversed
    <3>3. ASSUME NEW y \in 0..(s - 1)
          PROVE  /\ reversed[m - 2][y] \in Nat
                 /\ reversed[m - 1][y] = 2 * reversed[m - 2][y]
                 /\ reversed[m - 1][y + s] = 2 * reversed[m - 2][y] + 1
                 /\ reversed[m - 1][2 * y] = reversed[m - 2][y]
                 /\ reversed[m - 1][2 * y + 1] = s + reversed[m - 2][y]
      BY <1>2, <3>1, Reversed
    <3> HIDE DEF s
    <3>4. ASSUME NEW x \in 0..(t - 1)
          PROVE  /\ reversed[m][2 * x] = reversed[m - 1][x]
                 /\ reversed[m][2 * x + 1] = t + reversed[m - 1][x]
      <4> HIDE DEF t
      <4>1. CASE x < s
        <5>1. x \in 0..(s - 1) /\ 2 * x \in 0..(t - 1) /\ 2 * x + 1 \in 0..(t - 1)
          BY <2>1, <3>2, <4>1
        <5>2. /\ reversed[m][2 * x] = 2 * reversed[m - 1][2 * x]
              /\ reversed[m][2 * x + 1] = 2 * reversed[m - 1][2 * x + 1]
          BY <2>2, <5>1
        <5>3. /\ reversed[m][2 * x] = 2 * reversed[m - 2][x]
              /\ reversed[m][2 * x + 1] = 2 * (s + reversed[m - 2][x])
          BY <3>3, <5>1, <5>2
        <5>4. reversed[m - 1][x] = 2 * reversed[m - 2][x] /\ reversed[m - 2][x] \in Nat
          BY <3>3, <5>1
        <5>. QED
          BY <3>2, <5>3, <5>4
      <4>2. CASE ~(x < s)
        <5> DEFINE y == x - s
        <5>1. /\ y \in 0..(s - 1) /\ 2 * y \in 0..(t - 1) /\ 2 * y + 1 \in 0..(t - 1)
              /\ x = y + s /\ 2 * x = 2 * y + t /\ 2 * x + 1 = (2 * y + 1) + t
          BY <2>1, <3>2, <4>2
        <5> HIDE DEF y
        <5>2. /\ reversed[m][2 * y + t] = 2 * reversed[m - 1][2 * y] + 1
              /\ reversed[m][(2 * y + 1) + t] = 2 * reversed[m - 1][2 * y + 1] + 1
          BY <2>2, <5>1
        <5>3. /\ reversed[m][2 * x] = 2 * reversed[m - 2][y] + 1
              /\ reversed[m][2 * x + 1] = 2 * (s + reversed[m - 2][y]) + 1
          BY <3>3, <5>1, <5>2
        <5>4. reversed[m - 1][x] = 2 * reversed[m - 2][y] + 1 /\ reversed[m - 2][y] \in Nat
          BY <3>3, <5>1
        <5>. QED
          BY <3>2, <5>3, <5>4
      <4>. QED
        BY <4>1, <4>2
    <3>. QED
      BY <2>1, <3>4
  <2>. QED
    BY <2>3, <2>4
<1>3. \A m \in 0..Bits : m \in G
  <2> HIDE DEF G
  <2>. QED
    BY <1>1, <1>2, UpTo, Powers
<1>4. n \in G /\ n # 0
  BY <1>3, Reversed
<1>. QED
  BY <1>4

(* To reverse twice changes nothing.                                        *)
LEMMA Involution ==
    \A n \in 0..Bits : \A v \in 0..(TwoTo[n] - 1) : reversed[n][reversed[n][v]] = v
<1> DEFINE G == {n \in 0..Bits : \A v \in 0..(TwoTo[n] - 1) : reversed[n][reversed[n][v]] = v}
<1>1. 0 \in G
  <2>1. Bits \in Nat /\ TwoTo[0] = 1 /\ reversed[0][0] = 0
    BY Powers, ReversedDef
  <2>. QED
    BY <2>1
<1>2. ASSUME NEW n \in 1..Bits, n - 1 \in G PROVE n \in G
  <2> DEFINE t == TwoTo[n - 1]
  <2>1. ASSUME NEW v \in 0..(TwoTo[n] - 1) PROVE reversed[n][reversed[n][v]] = v
    <3>1. CASE v \in 0..(t - 1)
      <4> DEFINE x == reversed[n - 1][v]
      <4>1. x \in 0..(t - 1) /\ reversed[n - 1][x] = v
        BY <1>2, <3>1, ReversedRange
      <4>2. reversed[n][v] = 2 * x
        BY <3>1, Reversed
      <4> HIDE DEF x
      <4>. QED
        BY <4>1, <4>2, LowBit
    <3>2. CASE v - t \in 0..(t - 1) /\ (v - t) + t = v
      <4> DEFINE u == v - t
      <4>1. u \in 0..(t - 1) /\ v = u + t
        BY <3>2
      <4> HIDE DEF u
      <4> DEFINE x == reversed[n - 1][u]
      <4>2. x \in 0..(t - 1) /\ reversed[n - 1][x] = u
        BY <1>2, <4>1, ReversedRange
      <4>3. reversed[n][v] = 2 * x + 1
        BY <4>1, Reversed
      <4> HIDE DEF x
      <4>4. reversed[n][2 * x + 1] = t + u
        BY <4>2, LowBit
      <4>5. t \in Nat /\ u \in Nat
        BY <4>1, Reversed
      <4>. QED
        BY <4>1, <4>3, <4>4, <4>5
    <3>. QED
      BY <3>1, <3>2, HighBit
  <2>. QED
    BY <2>1, Reversed
<1>3. \A n \in 0..Bits : n \in G
  <2> HIDE DEF G
  <2>. QED
    BY <1>1, <1>2, UpTo, Powers
<1>. QED
  BY <1>3

(* Arithmetic with a divisor that is not a numeral.                         *)
LEMMA Scaled ==
    ASSUME NEW a \in Int, NEW b \in Int, NEW p \in Nat \ {0}
    PROVE  /\ a * p \in Int /\ a * (2 * p) = 2 * (a * p) /\ (a + 1) * p = a * p + p
           /\ a * p = p * a
           /\ a <= b => a * p <= b * p
           /\ a < b => (a + 1) * p <= b * p /\ a * p < b * p
<1>1. a * p \in Int /\ b * p \in Int
  OBVIOUS
<1>2. a * (2 * p) = 2 * (a * p)
  OBVIOUS
<1>3. (a + 1) * p = a * p + p
  OBVIOUS
<1>4. a * p = p * a
  OBVIOUS
<1>5. ASSUME NEW x \in Int, NEW y \in Int, x <= y PROVE x * p <= y * p
  <2>1. (y - x) * p >= 0
    BY <1>5
  <2>2. (y - x) * p = y * p - x * p
    OBVIOUS
  <2>. QED
    BY <2>1, <2>2
<1>6. a < b => (a + 1) * p <= b * p
  BY <1>5
<1>. QED
  BY <1>1, <1>2, <1>3, <1>4, <1>5, <1>6

LEMMA Remainder ==
    ASSUME NEW t \in Nat \ {0}, NEW x \in Nat, NEW c \in Int, NEW b \in 0..(t - 1), x = c * t + b
    PROVE  x % t = b
<1> DEFINE q == x \div t
           r == x % t
<1>1. q \in Int /\ r \in 0..(t - 1) /\ x = t * q + r
  OBVIOUS
<1> HIDE DEF q, r
<1>2. x = q * t + r
  BY <1>1, Scaled
<1>3. c * t + b = q * t + r
  BY <1>2
<1>4. ~(c < q)
  <2> SUFFICES ASSUME c < q PROVE FALSE
    OBVIOUS
  <2>1. (c + 1) * t <= q * t /\ (c + 1) * t = c * t + t /\ c * t \in Int /\ q * t \in Int
    BY <1>1, Scaled
  <2>. QED
    BY <1>1, <1>3, <2>1
<1>5. ~(q < c)
  <2> SUFFICES ASSUME q < c PROVE FALSE
    OBVIOUS
  <2>1. (q + 1) * t <= c * t /\ (q + 1) * t = q * t + t /\ c * t \in Int /\ q * t \in Int
    BY <1>1, Scaled
  <2>. QED
    BY <1>1, <1>3, <2>1
<1>6. c = q
  BY <1>1, <1>4, <1>5
<1>7. c * t \in Int
  BY Scaled
<1>8. r = b
  BY <1>1, <1>3, <1>6, <1>7
<1>. QED
  BY <1>8 DEF r

LEMMA RemainderShift ==
    ASSUME NEW t \in Nat \ {0}, NEW x \in Nat, NEW c \in Nat
    PROVE  (x + c * t) % t = x % t /\ x % t \in 0..(t - 1)
<1> DEFINE q == x \div t
           r == x % t
<1>1. q \in Int /\ r \in 0..(t - 1) /\ x = t * q + r
  OBVIOUS
<1> HIDE DEF q, r
<1>2. x = q * t + r /\ q * t \in Int /\ c * t \in Int
  BY <1>1, Scaled
<1>3. (q + c) * t = q * t + c * t
  BY <1>1
<1>4. x + c * t = (q + c) * t + r
  BY <1>1, <1>2, <1>3
<1>5. x + c * t \in Nat
  <2>1. 0 * t <= c * t /\ 0 * t = 0
    BY Scaled
  <2>. QED
    BY <1>2, <2>1
<1>6. (x + c * t) % t = r
  BY <1>1, <1>4, <1>5, Remainder
<1>. QED
  BY <1>1, <1>6 DEF r

LEMMA Product ==
    ASSUME NEW m \in 0..Bits, NEW j \in 0..(Bits - m)
    PROVE  /\ m + j \in 0..Bits /\ j \in 0..Bits
           /\ TwoTo[m] \in Nat \ {0} /\ TwoTo[j] \in Nat \ {0} /\ TwoTo[m + j] \in Nat \ {0}
           /\ TwoTo[m + j] = TwoTo[m] * TwoTo[j] /\ TwoTo[m] <= TwoTo[m + j]
<1>1. m + j \in 0..Bits /\ j \in 0..Bits /\ Bits - m \in Nat /\ Bits \in Nat
  BY Powers
<1>2. \A i \in 0..Bits : TwoTo[i] \in Nat \ {0}
  BY Powers
<1> DEFINE G == {i \in 0..(Bits - m) : TwoTo[m + i] = TwoTo[m] * TwoTo[i] /\ TwoTo[m] <= TwoTo[m + i]}
<1>3. 0 \in G
  <2>1. m + 0 = m /\ TwoTo[m] * 1 = TwoTo[m] /\ TwoTo[0] = 1
    BY <1>2, Powers
  <2>2. 0 \in 0..(Bits - m)
    BY <1>1
  <2>. QED
    BY <1>2, <2>1, <2>2
<1>4. ASSUME NEW i \in 1..(Bits - m), i - 1 \in G PROVE i \in G
  <2>1. m + i \in 1..Bits /\ i \in 1..Bits /\ (m + i) - 1 = m + (i - 1) /\ m + (i - 1) \in 0..Bits
        /\ i - 1 \in 0..Bits /\ i \in 0..(Bits - m)
    BY <1>1
  <2>2. TwoTo[m + i] = 2 * TwoTo[m + (i - 1)] /\ TwoTo[i] = 2 * TwoTo[i - 1]
    BY <2>1, Powers
  <2>3. TwoTo[m] * (2 * TwoTo[i - 1]) = 2 * (TwoTo[m] * TwoTo[i - 1])
    BY <1>2, <2>1, Scaled
  <2>4. TwoTo[m + i] = TwoTo[m] * TwoTo[i]
    BY <1>4, <2>2, <2>3
  <2>5. TwoTo[m] <= TwoTo[m + i]
    BY <1>2, <1>4, <2>1, <2>2
  <2>. QED
    BY <2>1, <2>4, <2>5
<1>5. \A i \in 0..(Bits - m) : i \in G
  <2> HIDE DEF G
  <2>. QED
    BY <1>1, <1>3, <1>4, UpTo
<1>. QED
  BY <1>1, <1>2, <1>5

(* The order of cursors of Bits bits is that of m bits, refined: numbers    *)
(* with the same lower m bits come in one block, which begins with the one  *)
(* whose higher bits are zero and ends with the one where they are set.     *)
Blocks(m, j) ==
    /\ \A v \in 0..(TwoTo[m + j] - 1) :
          /\ reversed[m][v % TwoTo[m]] * TwoTo[j] <= reversed[m + j][v]
          /\ reversed[m + j][v] < (reversed[m][v % TwoTo[m]] + 1) * TwoTo[j]
    /\ \A u \in 0..(TwoTo[m] - 1) :
          /\ reversed[m + j][u] = reversed[m][u] * TwoTo[j]
          /\ reversed[m + j][u + (TwoTo[m + j] - TwoTo[m])] + 1 = (reversed[m][u] + 1) * TwoTo[j]

LEMMA BlocksZero ==
    ASSUME NEW m \in 0..Bits
    PROVE  Blocks(m, 0)
<1> DEFINE t == TwoTo[m]
<1>1. m + 0 = m /\ t \in Nat \ {0} /\ TwoTo[0] = 1
  BY Powers
<1>2. ASSUME NEW v \in 0..(t - 1)
      PROVE  v % t = v /\ reversed[m][v] \in Nat /\ v + (t - t) = v
  <2>1. v % t = v
    <3>1. v = 0 * t + v
      BY <1>1
    <3>. QED
      BY <1>1, <3>1, Remainder
  <2>2. reversed[m][v] \in 0..(t - 1)
    BY ReversedRange
  <2>. QED
    BY <1>1, <2>1, <2>2
<1>3. \A a \in Nat : a * 1 = a /\ (a + 1) * 1 = a + 1
  OBVIOUS
<1> HIDE DEF t
<1>4. ASSUME NEW v \in 0..(t - 1)
      PROVE  /\ reversed[m][v % t] * 1 <= reversed[m][v]
             /\ reversed[m][v] < (reversed[m][v % t] + 1) * 1
             /\ reversed[m][v] = reversed[m][v] * 1
             /\ reversed[m][v + (t - t)] + 1 = (reversed[m][v] + 1) * 1
  BY <1>2, <1>3
<1>. QED
  BY <1>1, <1>4 DEF Blocks, t

LEMMA BlocksStep ==
    ASSUME NEW m \in 0..Bits, NEW j \in 1..(Bits - m), Blocks(m, j - 1)
    PROVE  Blocks(m, j)
<1> DEFINE n == m + j
           t == TwoTo[m]
           w == TwoTo[n - 1]
           p == TwoTo[j - 1]
<1>1. n \in 1..Bits /\ m + (j - 1) = n - 1 /\ j - 1 \in 0..(Bits - m) /\ j \in 1..Bits
  BY Powers
<1>2. t \in Nat \ {0} /\ p \in Nat \ {0} /\ w \in Nat \ {0} /\ w = t * p /\ t <= w
  BY <1>1, Product
<1>3. TwoTo[j] = 2 * p /\ TwoTo[n] = 2 * w
  BY <1>1, Powers
<1>4. \A v \in 0..(w - 1) :
          /\ reversed[m][v % t] * p <= reversed[n - 1][v]
          /\ reversed[n - 1][v] < (reversed[m][v % t] + 1) * p
  BY <1>1 DEF Blocks
<1>5. \A u \in 0..(t - 1) :
          /\ reversed[n - 1][u] = reversed[m][u] * p
          /\ reversed[n - 1][u + (w - t)] + 1 = (reversed[m][u] + 1) * p
  BY <1>1 DEF Blocks
<1>6. \A u \in 0..(w - 1) :
          /\ reversed[n - 1][u] \in Nat
          /\ reversed[n][u] = 2 * reversed[n - 1][u]
          /\ reversed[n][u + w] = 2 * reversed[n - 1][u] + 1
  BY <1>1, Reversed
<1>7. \A u \in 0..(t - 1) : reversed[m][u] \in 0..(t - 1) /\ reversed[m][u] \in Nat
  BY <1>2, ReversedRange
<1> HIDE DEF n, t, w, p
<1>8. ASSUME NEW u \in 0..(w - 1)
      PROVE  LET a == reversed[m][u % t] IN
             /\ a * (2 * p) <= reversed[n][u] /\ reversed[n][u] < (a + 1) * (2 * p)
             /\ a * (2 * p) <= reversed[n][u + w] /\ reversed[n][u + w] < (a + 1) * (2 * p)
  <2> DEFINE a == reversed[m][u % t]
  <2>1. u % t \in 0..(t - 1)
    BY <1>2
  <2>2. a \in Nat
    BY <1>7, <2>1
  <2>3. a * p <= reversed[n - 1][u] /\ reversed[n - 1][u] < (a + 1) * p
    BY <1>4
  <2> HIDE DEF a
  <2>4. /\ a * p \in Int /\ (a + 1) * p \in Int
        /\ a * (2 * p) = 2 * (a * p) /\ (a + 1) * (2 * p) = 2 * ((a + 1) * p)
    BY <1>2, <2>2, Scaled
  <2>5. /\ reversed[n - 1][u] \in Nat
        /\ reversed[n][u] = 2 * reversed[n - 1][u]
        /\ reversed[n][u + w] = 2 * reversed[n - 1][u] + 1
    BY <1>6
  <2>6. /\ a * (2 * p) <= reversed[n][u] /\ reversed[n][u] < (a + 1) * (2 * p)
        /\ a * (2 * p) <= reversed[n][u + w] /\ reversed[n][u + w] < (a + 1) * (2 * p)
    BY <2>3, <2>4, <2>5
  <2>. QED
    BY <2>6 DEF a
<1>9. ASSUME NEW v \in 0..(2 * w - 1)
      PROVE  /\ reversed[m][v % t] * (2 * p) <= reversed[n][v]
             /\ reversed[n][v] < (reversed[m][v % t] + 1) * (2 * p)
  <2>1. CASE v < w
    <3>1. v \in 0..(w - 1)
      BY <1>2, <2>1
    <3>. QED
      BY <1>8, <3>1
  <2>2. CASE ~(v < w)
    <3> DEFINE u == v - w
    <3>1. u \in 0..(w - 1) /\ u \in Nat /\ v = u + w /\ w = p * t
      BY <1>2, <2>2, Scaled
    <3> HIDE DEF u
    <3>2. (u + p * t) % t = u % t
      BY <1>2, <3>1, RemainderShift
    <3>3. v % t = u % t
      BY <3>1, <3>2
    <3>. QED
      BY <1>8, <3>1, <3>3
  <2>. QED
    BY <2>1, <2>2
<1>10. ASSUME NEW u \in 0..(t - 1)
       PROVE  /\ reversed[n][u] = reversed[m][u] * (2 * p)
              /\ reversed[n][u + (2 * w - t)] + 1 = (reversed[m][u] + 1) * (2 * p)
  <2> DEFINE a == reversed[m][u]
             x == u + (w - t)
  <2>1. a \in Nat
    BY <1>7
  <2>2. u \in 0..(w - 1) /\ x \in 0..(w - 1) /\ u + (2 * w - t) = x + w
    BY <1>2
  <2>3. reversed[n - 1][u] = a * p /\ reversed[n - 1][x] + 1 = (a + 1) * p
    BY <1>5
  <2>4. /\ a * p \in Int /\ (a + 1) * p \in Int
        /\ a * (2 * p) = 2 * (a * p) /\ (a + 1) * (2 * p) = 2 * ((a + 1) * p)
    BY <1>2, <2>1, Scaled
  <2> HIDE DEF x, a
  <2>5. /\ reversed[n][u] = 2 * reversed[n - 1][u]
        /\ reversed[n - 1][x] \in Nat /\ reversed[n][x + w] = 2 * reversed[n - 1][x] + 1
    BY <1>6, <2>2
  <2>6. reversed[n][u] = a * (2 * p) /\ reversed[n][x + w] + 1 = (a + 1) * (2 * p)
    BY <2>3, <2>4, <2>5
  <2>. QED
    BY <2>2, <2>6 DEF a
<1>. QED
  BY <1>3, <1>9, <1>10 DEF Blocks, n, t

LEMMA AllBlocks ==
    ASSUME NEW m \in 0..Bits
    PROVE  Blocks(m, Bits - m) /\ Bits - m \in 0..(Bits - m) /\ m + (Bits - m) = Bits
<1>1. Bits - m \in Nat /\ m + (Bits - m) = Bits
  BY Powers
<1> DEFINE G == {j \in 0..(Bits - m) : Blocks(m, j)}
<1>2. 0 \in G
  BY <1>1, BlocksZero
<1>3. ASSUME NEW j \in 1..(Bits - m), j - 1 \in G PROVE j \in G
  BY <1>1, <1>3, BlocksStep
<1>4. \A j \in 0..(Bits - m) : j \in G
  <2> HIDE DEF G
  <2>. QED
    BY <1>1, <1>2, <1>3, UpTo
<1>. QED
  BY <1>1, <1>4

LEMMA RevFacts ==
    /\ Top \in Nat \ {0} /\ 0 \in 0..(Top - 1) /\ rev[0] = 0
    /\ \A v \in 0..(Top - 1) : rev[v] \in 0..(Top - 1) /\ rev[rev[v]] = v
<1>1. Top \in Nat \ {0} /\ Bits \in 0..Bits /\ TwoTo[Bits] = Top /\ 0 \in 0..(Top - 1)
  BY Powers DEF Top
<1>2. \A v \in 0..(Top - 1) : rev[v] \in 0..(Top - 1) /\ rev[rev[v]] = v
  BY <1>1, ReversedRange, Involution DEF rev
<1>3. rev[0] = 0
  <2>1. /\ 0 \in 0..Bits /\ Bits - 0 = Bits /\ 0 + Bits = Bits /\ TwoTo[0] = 1
        /\ reversed[0][0] = 0
    BY Powers, ReversedDef
  <2>2. Blocks(0, Bits)
    BY <2>1, AllBlocks
  <2>3. reversed[0 + Bits][0] = reversed[0][0] * TwoTo[Bits]
    BY <2>1, <2>2 DEF Blocks
  <2>. QED
    BY <1>1, <2>1, <2>3 DEF rev
<1>. QED
  BY <1>1, <1>2, <1>3

(* How a scan goes through a table: a[b] is the place of bucket b in its    *)
(* order, and the cursors of a bucket are the p numbers from a[b] * p on,   *)
(* counted by their reverse.  The next cursor is the first of the next      *)
(* place, and 0 after the last one.                                         *)
Order(size, p, a) ==
    /\ size \in Nat \ {0} /\ p \in Nat \ {0} /\ Top = size * p
    /\ \A b \in 0..(size - 1) : /\ a[b] \in 0..(size - 1) /\ a[a[b]] = b
                                /\ b \in 0..(Top - 1) /\ rev[b] = a[b] * p
    /\ \A v \in 0..(Top - 1) :
          /\ v % size \in 0..(size - 1)
          /\ a[v % size] * p <= rev[v] /\ rev[v] < (a[v % size] + 1) * p
          /\ Cursor(v, size) \in 0..(Top - 1)
          /\ rev[Cursor(v, size)] = IF a[v % size] + 1 = size THEN 0 ELSE (a[v % size] + 1) * p

LEMMA OrderOf ==
    ASSUME NEW m \in 0..Bits
    PROVE  Order(TwoTo[m], TwoTo[Bits - m], reversed[m])
<1> DEFINE size == TwoTo[m]
           p == TwoTo[Bits - m]
           a == reversed[m]
<1>1. Blocks(m, Bits - m) /\ m + (Bits - m) = Bits /\ Bits - m \in 0..(Bits - m)
  BY AllBlocks
<1>2. /\ size \in Nat \ {0} /\ p \in Nat \ {0} /\ Top = size * p /\ size <= Top
  BY <1>1, Product DEF Top
<1>3. \A b \in 0..(size - 1) : a[b] \in 0..(size - 1) /\ a[a[b]] = b
  BY ReversedRange, Involution
<1>4. \A v \in 0..(Top - 1) : a[v % size] * p <= rev[v] /\ rev[v] < (a[v % size] + 1) * p
  BY <1>1 DEF Blocks, rev, Top
<1>5. \A b \in 0..(size - 1) : /\ rev[b] = a[b] * p
                               /\ rev[b + (Top - size)] + 1 = (a[b] + 1) * p
  BY <1>1 DEF Blocks, rev, Top
<1>6. \A b \in 0..(size - 1) : b \in 0..(Top - 1)
  BY <1>2, RevFacts
<1> HIDE DEF size, p, a
<1>7. ASSUME NEW v \in 0..(Top - 1)
      PROVE  /\ v % size \in 0..(size - 1)
             /\ Cursor(v, size) \in 0..(Top - 1)
             /\ rev[Cursor(v, size)]
                   = IF a[v % size] + 1 = size THEN 0 ELSE (a[v % size] + 1) * p
  <2> DEFINE b == v % size
             c == (a[b] + 1) * p
  <2>1. b \in 0..(size - 1)
    BY <1>2, RevFacts
  <2>2. a[b] \in 0..(size - 1)
    BY <1>3, <2>1
  <2>3. Cursor(v, size) = rev[c % Top]
    BY <1>5, <2>1 DEF Cursor
  <2> HIDE DEF b
  <2>4. c \in Nat /\ c <= Top /\ (a[b] + 1 # size => c < Top) /\ (a[b] + 1 = size => c = Top)
    <3>1. c \in Int /\ size * p = Top /\ 0 * p = 0
      BY <1>2, <2>2
    <3>2. 0 * p <= c /\ c <= size * p
      BY <1>2, <2>2, Scaled
    <3>3. a[b] + 1 # size => c < size * p
      <4>1. a[b] + 1 # size => a[b] + 1 < size
        BY <1>2, <2>2
      <4>. QED
        BY <1>2, <2>2, <4>1, Scaled
    <3>4. a[b] + 1 = size => c = size * p
      OBVIOUS
    <3> HIDE DEF c
    <3>. QED
      BY <3>1, <3>2, <3>3, <3>4
  <2> HIDE DEF c
  <2>5. c % Top = IF a[b] + 1 = size THEN 0 ELSE c
    <3>1. CASE a[b] + 1 = size
      <4>1. c = 1 * Top + 0 /\ 0 \in 0..(Top - 1)
        BY <2>4, <3>1, RevFacts
      <4>. QED
        BY <2>4, <3>1, <4>1, RevFacts, Remainder
    <3>2. CASE a[b] + 1 # size
      <4>1. c = 0 * Top + c /\ c \in 0..(Top - 1)
        BY <2>4, <3>2, RevFacts
      <4>. QED
        BY <2>4, <3>2, <4>1, RevFacts, Remainder
    <3>. QED
      BY <3>1, <3>2
  <2>6. c % Top \in 0..(Top - 1)
    BY <2>4, <2>5, RevFacts
  <2>7. rev[c % Top] \in 0..(Top - 1) /\ rev[rev[c % Top]] = c % Top
    BY <2>6, RevFacts
  <2>8. /\ Cursor(v, size) \in 0..(Top - 1)
        /\ rev[Cursor(v, size)] = IF a[b] + 1 = size THEN 0 ELSE c
    BY <2>3, <2>5, <2>7
  <2>. QED
    BY <2>1, <2>8 DEF b, c
<1>8. Order(size, p, a)
  BY <1>2, <1>3, <1>4, <1>5, <1>6, <1>7 DEF Order
<1>. QED
  BY <1>8 DEF size, p, a

(* The same for the sizes of tables; of two, the places of the larger one   *)
(* divide those of the smaller one.                                         *)
LEMMA TableOrder ==
    ASSUME NEW size \in TableSizes
    PROVE  \E p, a : Order(size, p, a)
<1>1. PICK m \in 0..Bits : size = TwoTo[m]
  BY DEF TableSizes
<1>. QED
  BY <1>1, OrderOf

LEMMA TwoOrders ==
    ASSUME NEW small \in TableSizes, NEW large \in TableSizes, small <= large
    PROVE  \E p, a, q, b, g : /\ Order(small, p, a) /\ Order(large, q, b)
                              /\ g \in Nat \ {0} /\ p = g * q
<1>1. PICK m \in 0..Bits : small = TwoTo[m]
  BY DEF TableSizes
<1>2. PICK n \in 0..Bits : large = TwoTo[n]
  BY DEF TableSizes
<1>3. m <= n
  <2> SUFFICES ASSUME n < m PROVE FALSE
    BY Powers
  <2>1. m - 1 \in 0..Bits /\ m \in 1..Bits /\ (m - 1) - n \in 0..(Bits - n) /\ n + ((m - 1) - n) = m - 1
    BY Powers
  <2>2. TwoTo[n] <= TwoTo[m - 1]
    BY <2>1, Product
  <2>3. TwoTo[m] = 2 * TwoTo[m - 1] /\ TwoTo[m - 1] \in Nat \ {0} /\ TwoTo[n] \in Nat
    BY <2>1, Powers
  <2>. QED
    BY <1>1, <1>2, <2>2, <2>3
<1> DEFINE x == Bits - n
           y == n - m
<1>4. /\ x \in 0..Bits /\ y \in 0..(Bits - x) /\ x + y = Bits - m
  BY <1>3, Powers
<1>5. TwoTo[x + y] = TwoTo[x] * TwoTo[y] /\ TwoTo[x] \in Nat \ {0} /\ TwoTo[y] \in Nat \ {0}
  BY <1>4, Product
<1>6. TwoTo[Bits - m] = TwoTo[y] * TwoTo[x]
  BY <1>4, <1>5, Scaled
<1>7. Order(small, TwoTo[Bits - m], reversed[m]) /\ Order(large, TwoTo[x], reversed[n])
  BY <1>1, <1>2, OrderOf
<1>. QED
  BY <1>5, <1>6, <1>7, Zenon

(* One table: what comes at v or later and is not in v's bucket comes at    *)
(* the next cursor or later, and then that is not 0.                        *)
LEMMA NextPlace ==
    ASSUME NEW size, NEW p, NEW a, Order(size, p, a),
           NEW v \in 0..(Top - 1), NEW h \in 0..(Top - 1), rev[v] <= rev[h],
           h % size # v % size
    PROVE  /\ a[v % size] + 1 < size
           /\ (a[v % size] + 1) * p <= rev[h] /\ 0 < (a[v % size] + 1) * p
<1> DEFINE i == a[v % size]
           j == a[h % size]
<1>1. size \in Nat \ {0} /\ p \in Nat \ {0}
  BY DEF Order
<1>2. /\ i \in 0..(size - 1) /\ j \in 0..(size - 1) /\ i # j
  BY DEF Order
<1>3. i * p <= rev[v] /\ j * p <= rev[h] /\ rev[h] < (j + 1) * p
  BY DEF Order
<1>4. rev[v] \in Nat /\ rev[h] \in Nat
  BY RevFacts
<1> HIDE DEF i, j
<1>5. /\ i * p \in Int /\ j * p \in Int /\ (j + 1) * p \in Int /\ (i + 1) * p \in Int
      /\ j < i => (j + 1) * p <= i * p
      /\ i < j => (i + 1) * p <= j * p
      /\ 0 < i + 1 => 0 * p < (i + 1) * p
  BY <1>1, <1>2, Scaled
<1>6. i < j
  BY <1>2, <1>3, <1>4, <1>5
<1>7. i + 1 < size /\ (i + 1) * p <= rev[h] /\ 0 < (i + 1) * p
  BY <1>1, <1>2, <1>3, <1>4, <1>5, <1>6
<1>. QED
  BY <1>7 DEF i

LEMMA CursorAfter ==
    ASSUME NEW size, NEW p, NEW a, Order(size, p, a),
           NEW v \in 0..(Top - 1), NEW h \in 0..(Top - 1), rev[v] <= rev[h],
           h % size # v % size
    PROVE  Cursor(v, size) # 0 /\ rev[Cursor(v, size)] <= rev[h]
<1> DEFINE x == (a[v % size] + 1) * p
           c == Cursor(v, size)
<1>1. a[v % size] + 1 < size /\ x <= rev[h] /\ 0 < x
  BY NextPlace
<1>2. rev[c] = IF a[v % size] + 1 = size THEN 0 ELSE x
  BY DEF Order
<1>3. a[v % size] \in Int /\ size \in Int
  BY DEF Order
<1> HIDE DEF x, c
<1>4. rev[c] = x
  BY <1>1, <1>2, <1>3
<1>5. c # 0
  BY <1>1, <1>4, RevFacts
<1>. QED
  BY <1>1, <1>4, <1>5 DEF c

(* The cursors in the larger table, one after the other.                    *)
Cycle(c, v, large) == c = [i \in 0..large |-> IF i = 0 THEN v ELSE Cursor(c[i - 1], large)]

LEMMA CycleSolved ==
    ASSUME NEW large, NEW q, NEW b, Order(large, q, b), NEW v \in 0..(Top - 1)
    PROVE  \E c : Cycle(c, v, large)
<1> DEFINE S == 0..(Top - 1)
           g == [p \in (1..large) \X S |-> Cursor(p[2], large)]
<1>1. large \in Nat /\ \A w \in S : Cursor(w, large) \in S
  BY DEF Order
<1> HIDE DEF S
<1>2. g \in [(1..large) \X S -> S] /\ v \in S
  BY <1>1 DEF S
<1>3. PICK f \in [0..large -> S] : Solves(f, large, v, g)
  <2> HIDE DEF g
  <2>. QED
    BY <1>1, <1>2, Recursion
<1>4. Cycle(f, v, large)
  <2>1. ASSUME NEW i \in 0..large, i # 0 PROVE g[<<i, f[i - 1]>>] = Cursor(f[i - 1], large)
    <3>1. <<i, f[i - 1]>> \in (1..large) \X S
      BY <1>1, <2>1
    <3>. QED
      BY <3>1
  <2> HIDE DEF g
  <2>. QED
    BY <1>3, <2>1 DEF Solves, Cycle
<1>. QED
  BY <1>4, Zenon

(* Their places follow each other, up to the last place of the table.       *)
LEMMA CyclePlaces ==
    ASSUME NEW large, NEW q, NEW b, Order(large, q, b), NEW v \in 0..(Top - 1),
           NEW c, Cycle(c, v, large), NEW x, x = b[v % large]
    PROVE  /\ x \in 0..(large - 1) /\ large - x \in 1..large /\ c[0] = v
           /\ \A i \in 0..(large - x) :
                 /\ c[i] \in 0..(Top - 1)
                 /\ i # large - x => b[c[i] % large] = x + i
                 /\ i # 0 => rev[c[i]] = IF i = large - x THEN 0 ELSE (x + i) * q
<1>1. large \in Nat \ {0} /\ q \in Nat \ {0}
  BY DEF Order
<1>2. x \in 0..(large - 1)
  BY DEF Order
<1>3. large - x \in 1..large
  BY <1>1, <1>2
<1>4. c[0] = v /\ \A i \in 1..(large - x) : c[i] = Cursor(c[i - 1], large)
  <2>1. \A i \in 1..(large - x) : i \in 0..large /\ i # 0
    BY <1>1, <1>2
  <2>. QED
    BY <1>1, <2>1 DEF Cycle
<1> DEFINE P(i) == /\ c[i] \in 0..(Top - 1)
                   /\ i # large - x => b[c[i] % large] = x + i
                   /\ i # 0 => rev[c[i]] = IF i = large - x THEN 0 ELSE (x + i) * q
           G == {i \in 0..(large - x) : P(i)}
<1>5. 0 \in G
  <2>1. 0 \in 0..(large - x) /\ x + 0 = x
    BY <1>2, <1>3
  <2>2. c[0] \in 0..(Top - 1) /\ b[c[0] % large] = x
    BY <1>4
  <2>3. P(0)
    BY <2>1, <2>2
  <2>. QED
    BY <2>1, <2>3
<1>6. ASSUME NEW i \in 1..(large - x), i - 1 \in G PROVE i \in G
  <2> DEFINE w == c[i - 1]
  <2>1. i - 1 # large - x /\ i \in 0..(large - x) /\ x + (i - 1) = (x + i) - 1 /\ x + i \in Int
        /\ (x + i = large <=> i = large - x) /\ i # 0
    BY <1>1, <1>2, <1>3
  <2>2. w \in 0..(Top - 1) /\ b[w % large] = (x + i) - 1
    BY <1>6, <2>1
  <2>3. c[i] = Cursor(w, large)
    BY <1>4
  <2> HIDE DEF w
  <2>4. /\ c[i] \in 0..(Top - 1)
        /\ rev[c[i]] = IF b[w % large] + 1 = large THEN 0 ELSE (b[w % large] + 1) * q
    BY <2>2, <2>3 DEF Order
  <2>5. b[w % large] + 1 = x + i
    BY <2>1, <2>2
  <2>6. rev[c[i]] = IF i = large - x THEN 0 ELSE (x + i) * q
    BY <2>1, <2>4, <2>5
  <2>7. ASSUME i # large - x PROVE b[c[i] % large] = x + i
    <3> DEFINE y == b[c[i] % large]
    <3>1. y \in 0..(large - 1) /\ y * q <= (x + i) * q /\ (x + i) * q < (y + 1) * q
      BY <2>4, <2>6, <2>7 DEF Order
    <3> HIDE DEF y
    <3>2. /\ y * q \in Int /\ (x + i) * q \in Int /\ (y + 1) * q \in Int
          /\ x + i < y => (x + i) * q < y * q
          /\ y + 1 <= x + i => (y + 1) * q <= (x + i) * q
      BY <1>1, <2>1, <3>1, Scaled
    <3>3. y = x + i
      BY <2>1, <3>1, <3>2
    <3>. QED
      BY <3>3 DEF y
  <2>. QED
    BY <2>1, <2>4, <2>6, <2>7
<1>7. \A i \in 0..(large - x) : i \in G
  <2>1. large - x \in Nat
    BY <1>3
  <2> HIDE DEF G
  <2>. QED
    BY <1>5, <1>6, <2>1, UpTo
<1>. QED
  BY <1>2, <1>3, <1>4, <1>7

(* Two tables: the walk over the larger one stops at the first place of the *)
(* smaller one after v's, or before.                                        *)
Finer(small, p, a, large, q, b, g) ==
    /\ Order(small, p, a) /\ Order(large, q, b) /\ small <= large
    /\ g \in Nat \ {0} /\ p = g * q

LEMMA CycleTurns ==
    ASSUME NEW small, NEW p, NEW a, NEW large, NEW q, NEW b, NEW g,
           Finer(small, p, a, large, q, b, g),
           NEW v \in 0..(Top - 1), NEW c, Cycle(c, v, large)
    PROVE  LET x == b[v % large]
               z == a[v % small]
               y == (z + 1) * g
           IN  /\ y - x \in 1..(large - x) /\ (c[y - x] % large) \div small = 0
               /\ y * q = (z + 1) * p /\ (z + 1 < small => y < large)
<1> DEFINE x == b[v % large]
           z == a[v % small]
           y == (z + 1) * g
<1>1. /\ small \in Nat \ {0} /\ large \in Nat \ {0} /\ p \in Nat \ {0} /\ q \in Nat \ {0}
      /\ g \in Nat \ {0} /\ small <= large /\ p = g * q
      /\ Top = small * p /\ Top = large * q /\ Top \in Nat
  BY RevFacts DEF Finer, Order
<1>2. x \in 0..(large - 1) /\ z \in 0..(small - 1)
  BY DEF Finer, Order
<1>3. /\ x * q <= rev[v] /\ rev[v] < (z + 1) * p /\ rev[v] \in Nat
  BY RevFacts DEF Finer, Order
<1>4. c[0] = v /\ \A i \in 0..(large - x) :
                 /\ c[i] \in 0..(Top - 1)
                 /\ i # 0 => rev[c[i]] = IF i = large - x THEN 0 ELSE (x + i) * q
  BY CyclePlaces DEF Finer
<1> HIDE DEF x, z
<1>5. y \in Nat \ {0} /\ y * q = (z + 1) * p
  <2>1. y \in Int /\ 0 * g < (z + 1) * g
    BY <1>1, <1>2, Scaled
  <2>2. ((z + 1) * g) * q = (z + 1) * (g * q)
    BY <1>1, <1>2
  <2>. QED
    BY <1>1, <2>1, <2>2
<1> HIDE DEF y
<1>6. /\ z + 1 <= small => (z + 1) * p <= small * p
      /\ z + 1 < small => (z + 1) * p < small * p
      /\ large < y => large * q < y * q
      /\ large <= y => large * q <= y * q
      /\ y < large => y * q < large * q
      /\ y <= x => y * q <= x * q
      /\ y * q \in Int /\ x * q \in Int /\ (z + 1) * p \in Int
  BY <1>1, <1>2, <1>5, Scaled
<1>7. x < y /\ y <= large /\ (z + 1 < small => y < large) /\ (z + 1 = small => y = large)
  BY <1>1, <1>2, <1>3, <1>5, <1>6
<1> DEFINE i == y - x
<1>8. i \in 0..(large - x) /\ i \in 1..(large - x) /\ i # 0 /\ x + i = y /\ (i = large - x <=> y = large)
  BY <1>1, <1>2, <1>5, <1>7
<1> DEFINE w == c[i]
<1>9. w \in 0..(Top - 1) /\ rev[w] = IF y = large THEN 0 ELSE y * q
  BY <1>4, <1>8
<1> HIDE DEF i, w
<1>10. rev[rev[w]] = w
  BY <1>9, RevFacts
<1>11. (w % large) \div small = 0
  <2>1. CASE y = large
    <3>1. w = 0
      BY <1>9, <1>10, <2>1, RevFacts
    <3>. QED
      BY <1>1, <3>1
  <2>2. CASE y # large
    <3> DEFINE u == a[z + 1]
    <3>1. z + 1 \in 0..(small - 1)
      BY <1>1, <1>2, <1>7, <2>2
    <3>2. u \in 0..(small - 1) /\ a[u] = z + 1
      BY <3>1 DEF Finer, Order
    <3> HIDE DEF u
    <3>3. u \in 0..(Top - 1) /\ rev[u] = (z + 1) * p
      BY <3>2 DEF Finer, Order
    <3>4. rev[rev[u]] = u
      BY <3>3, RevFacts
    <3>5. rev[w] = rev[u]
      BY <1>5, <1>9, <2>2, <3>3
    <3>6. w = u
      BY <1>10, <3>4, <3>5
    <3>7. w \in 0..(small - 1) /\ w \in 0..(large - 1) /\ w \in Nat
      BY <1>1, <3>2, <3>6
    <3>8. w % large = w
      <4>1. w = 0 * large + w
        BY <1>1, <3>7
      <4>. QED
        BY <1>1, <3>7, <4>1, Remainder
    <3>9. w \div small = 0
      BY <1>1, <3>7
    <3>. QED
      BY <3>8, <3>9
  <2>. QED
    BY <2>1, <2>2
<1>12. /\ y - x \in 1..(large - x) /\ (c[y - x] % large) \div small = 0
       /\ y * q = (z + 1) * p /\ (z + 1 < small => y < large)
  BY <1>5, <1>7, <1>8, <1>11 DEF i, w
<1>. QED
  BY <1>12 DEF x, y, z

(* The walk, and what it leaves for the next call.                          *)
Walk(c, n, small, large) ==
    n = Min({i \in 1..large : (c[i] % large) \div small = 0})

LEMMA WalkCovers ==
    ASSUME NEW small, NEW p, NEW a, NEW large, NEW q, NEW b, NEW g,
           Finer(small, p, a, large, q, b, g),
           NEW v \in 0..(Top - 1), NEW c, Cycle(c, v, large),
           NEW n, Walk(c, n, small, large)
    PROVE  /\ n \in Nat \ {0} /\ c[n] \in 0..(Top - 1) /\ c[0] = v
           /\ \A h \in 0..(Top - 1) :
                 /\ rev[v] <= rev[h]
                 /\ \/ h % small # v % small
                    \/ \A i \in 0..(n - 1) : h % large # c[i] % large
                 => c[n] # 0 /\ rev[c[n]] <= rev[h]
<1> DEFINE x == b[v % large]
           z == a[v % small]
           y == (z + 1) * g
           T == {i \in 1..large : (c[i] % large) \div small = 0}
<1>1. Order(small, p, a) /\ Order(large, q, b)
  BY DEF Finer
<1>2. /\ large \in Nat \ {0} /\ q \in Nat \ {0} /\ small \in Nat \ {0} /\ p \in Nat \ {0}
  BY <1>1 DEF Order
<1>3. /\ y - x \in 1..(large - x) /\ (c[y - x] % large) \div small = 0
      /\ y * q = (z + 1) * p /\ (z + 1 < small => y < large)
  BY CycleTurns
<1>4. /\ x \in 0..(large - 1) /\ large - x \in 1..large /\ c[0] = v
      /\ \A i \in 0..(large - x) :
                 /\ c[i] \in 0..(Top - 1)
                 /\ i # large - x => b[c[i] % large] = x + i
                 /\ i # 0 => rev[c[i]] = IF i = large - x THEN 0 ELSE (x + i) * q
  BY <1>1, CyclePlaces
<1>5. z \in 0..(small - 1) /\ y \in Int
  <2>1. z \in 0..(small - 1) /\ g \in Int
    BY <1>1 DEF Order, Finer
  <2>. QED
    BY <2>1
<1> HIDE DEF x, z, y
<1>6. y - x \in T /\ T \in SUBSET Nat
  BY <1>2, <1>3, <1>4
<1>7. n \in T /\ n <= y - x
  <2>1. n = Min(T)
    BY DEF Walk
  <2> HIDE DEF T
  <2>. QED
    BY <1>6, <2>1, LeastNat
<1>8. n \in 1..(large - x) /\ n \in 0..(large - x) /\ n # 0 /\ n \in Nat /\ x + n <= y
      /\ (n = large - x <=> x + n = large)
  BY <1>2, <1>3, <1>4, <1>5, <1>7
<1> HIDE DEF T
<1>9. c[n] \in 0..(Top - 1) /\ rev[c[n]] = IF x + n = large THEN 0 ELSE (x + n) * q
  BY <1>4, <1>8
<1>10. ASSUME x + n # large, NEW h, (x + n) * q <= rev[h]
       PROVE  c[n] # 0 /\ rev[c[n]] <= rev[h]
  <2>1. rev[c[n]] = (x + n) * q
    BY <1>9, <1>10
  <2>2. 0 * q < (x + n) * q
    <3>1. 0 < x + n /\ x + n \in Int
      BY <1>4, <1>8
    <3>. QED
      BY <1>2, <3>1, Scaled
  <2>3. c[n] # 0
    BY <1>2, <2>1, <2>2, RevFacts
  <2>. QED
    BY <1>10, <2>1, <2>3
<1>11. ASSUME NEW h \in 0..(Top - 1), rev[v] <= rev[h], h % small # v % small
       PROVE  c[n] # 0 /\ rev[c[n]] <= rev[h]
  <2>1. z + 1 < small /\ (z + 1) * p <= rev[h]
    BY <1>1, <1>11, NextPlace DEF z
  <2>2. x + n # large /\ x + n \in Int
    BY <1>2, <1>3, <1>4, <1>5, <1>8, <2>1
  <2>3. (x + n) * q <= y * q /\ (x + n) * q \in Int /\ y * q \in Int
    BY <1>2, <1>5, <1>8, <2>2, Scaled
  <2>4. rev[h] \in Int
    BY RevFacts
  <2>5. (x + n) * q <= rev[h]
    BY <1>3, <2>1, <2>3, <2>4
  <2>. QED
    BY <1>10, <2>2, <2>5
<1>12. ASSUME NEW h \in 0..(Top - 1), rev[v] <= rev[h],
              \A i \in 0..(n - 1) : h % large # c[i] % large
       PROVE  c[n] # 0 /\ rev[c[n]] <= rev[h]
  <2> DEFINE w == b[h % large]
  <2>1. w \in 0..(large - 1) /\ w * q <= rev[h] /\ rev[h] < (w + 1) * q
    BY <1>1 DEF Order
  <2>2. x * q <= rev[v] /\ rev[v] \in Int /\ rev[h] \in Int
    BY <1>1, RevFacts DEF Order, x
  <2>3. \A i \in 0..(n - 1) : w # x + i
    <3> SUFFICES ASSUME NEW i \in 0..(n - 1), w = x + i PROVE FALSE
      OBVIOUS
    <3>1. i \in 0..(large - x) /\ i # large - x
      BY <1>2, <1>4, <1>8
    <3>2. c[i] \in 0..(Top - 1) /\ b[c[i] % large] = x + i
      BY <1>4, <3>1
    <3>3. b[w] = h % large /\ b[b[c[i] % large]] = c[i] % large
      BY <1>1, <3>2 DEF Order
    <3>4. h % large = c[i] % large
      BY <3>2, <3>3
    <3>. QED
      BY <1>12, <3>4
  <2> HIDE DEF w
  <2>4. /\ w * q \in Int /\ x * q \in Int /\ (w + 1) * q \in Int
        /\ w < x => (w + 1) * q <= x * q
        /\ x + n <= w => (x + n) * q <= w * q /\ (x + n) * q \in Int
    BY <1>2, <1>4, <1>8, <2>1, Scaled
  <2>5. x <= w
    BY <1>4, <1>12, <2>1, <2>2, <2>4
  <2>6. x + n <= w
    <3> SUFFICES ASSUME w < x + n PROVE FALSE
      BY <1>4, <1>8, <2>1
    <3>1. w - x \in 0..(n - 1) /\ w = x + (w - x)
      BY <1>4, <1>8, <2>1, <2>5
    <3>. QED
      BY <2>3, <3>1
  <2>7. x + n # large
    BY <1>2, <1>4, <1>8, <2>1, <2>6
  <2>8. (x + n) * q <= rev[h]
    BY <2>1, <2>2, <2>4, <2>6
  <2>. QED
    BY <1>10, <2>7, <2>8
<1>. QED
  BY <1>4, <1>8, <1>9, <1>11, <1>12

LEMMA NoneStored ==
    ASSUME NEW D, Good(D)
    PROVE  Stored(D) = {} <=> dictSize(D) = 0
<1>1. Stored(D) \subseteq Keys
  BY GoodFacts
<1>2. IsFiniteSet(Stored(D))
  BY <1>1, RoomAssumption, FS_Subset
<1>3. dictSize(D) = Cardinality(Stored(D))
  BY SizeIsStored
<1>. QED
  BY <1>2, <1>3, FS_EmptySet

(* What Cursors returns: the walk from v on, with the cursor it ends at.    *)
Listed(cs, c, n) == Len(cs) = n + 1 /\ \A i \in 1..(n + 1) : cs[i] = c[i - 1]

LEMMA CursorsWalk ==
    ASSUME NEW small, NEW p, NEW a, NEW large, NEW q, NEW b, NEW g,
           Finer(small, p, a, large, q, b, g), NEW v \in 0..(Top - 1)
    PROVE  \E c, n : /\ Cycle(c, v, large) /\ Walk(c, n, small, large)
                     /\ Listed(Cursors(v, small, large), c, n)
<1> DEFINE c == CHOOSE f : Cycle(f, v, large)
           n == Min({i \in 1..large : (c[i] % large) \div small = 0})
<1>1. Cycle(c, v, large)
  BY CycleSolved, Zenon DEF Finer
<1>2. Cursors(v, small, large) = [i \in 1..(n + 1) |-> c[i - 1]]
  BY Zenon DEF Cursors, Cycle
<1> HIDE DEF c
<1>3. Walk(c, n, small, large)
  BY DEF Walk
<1> HIDE DEF n
<1>4. n \in Nat
  BY <1>1, <1>3, WalkCovers
<1>5. Listed(Cursors(v, small, large), c, n)
  BY <1>2, <1>4 DEF Listed
<1>. QED
  BY <1>1, <1>3, <1>5, Zenon

(* A key of a table is in the bucket that a cursor selects if the cursor    *)
(* agrees with its hash in the table's bits.                                *)
LEMMA BucketHas ==
    ASSUME NEW ht, Shape(ht), ht.size # 0, NEW k \in KeysIn(ht), k \in Keys, NEW v,
           Hash[k] % ht.size = v % ht.size
    PROVE  k \in KeysOf(Bucket(ht, v))
<1>1. Bucket(ht, v) = Chain(ht, k)
  BY DEF Bucket, Chain
<1>. QED
  BY <1>1, ChainHas

(* A call of dictScan with cursor v: what comes at v or later is returned,  *)
(* or comes at the cursor that is returned or later, and that is not 0.     *)
Handed(D, v, keys, w) ==
    /\ w \in 0..(Top - 1)
    /\ \A k \in Stored(D) : rev[v] <= rev[Hash[k]] /\ k \notin keys
                            => w # 0 /\ rev[w] <= rev[Hash[k]]

LEMMA HandedOne ==
    ASSUME NEW D, Good(D), ~dictIsRehashing(D), D.ht0.size # 0, NEW v \in 0..(Top - 1)
    PROVE  Handed(D, v, KeysOf(Bucket(D.ht0, v)), Cursor(v, D.ht0.size))
<1> DEFINE ht == D.ht0
           w == Cursor(v, ht.size)
           keys == KeysOf(Bucket(ht, v))
<1>1. Shape(ht) /\ Stored(D) = KeysIn(ht) /\ KeysIn(ht) \subseteq Keys
  BY GoodFacts DEF dictIsRehashing
<1>2. ht.size \in TableSizes /\ ht.size # 0
  BY <1>1 DEF Shape
<1> HIDE DEF ht
<1>3. PICK p, a : Order(ht.size, p, a)
  BY <1>2, TableOrder
<1>4. w \in 0..(Top - 1)
  BY <1>3 DEF Order
<1>5. ASSUME NEW k \in Stored(D), rev[v] <= rev[Hash[k]], k \notin keys
      PROVE  w # 0 /\ rev[w] <= rev[Hash[k]]
  <2>1. k \in KeysIn(ht) /\ k \in Keys
    BY <1>1
  <2>2. Hash[k] \in 0..(Top - 1)
    BY <2>1, HashNat
  <2>3. Hash[k] % ht.size # v % ht.size
    BY <1>1, <1>2, <1>5, <2>1, BucketHas
  <2>. QED
    BY <1>3, <1>5, <2>2, <2>3, CursorAfter
<1>. QED
  BY <1>4, <1>5 DEF Handed, ht

(* While rehashing: both tables, by size.                                   *)
BySize(D, small, large) ==
    /\ Shape(small) /\ Shape(large) /\ small.size # 0 /\ large.size # 0
    /\ small.size <= large.size /\ Stored(D) = KeysIn(small) \union KeysIn(large)
    /\ Stored(D) \subseteq Keys
IsWalk(cs, v, small, large) == cs = Cursors(v, small.size, large.size)
AllOf(cs, v, small, large) ==
    KeysOf(Bucket(small, v))
    \union UNION {KeysOf(Bucket(large, cs[i])) : i \in 1..(Len(cs) - 1)}

LEMMA HandedTwo ==
    ASSUME NEW D, NEW v \in 0..(Top - 1), NEW small, NEW large, BySize(D, small, large),
           NEW cs, IsWalk(cs, v, small, large)
    PROVE  Handed(D, v, AllOf(cs, v, small, large), cs[Len(cs)])
<1> DEFINE s == small.size
           l == large.size
           keys == AllOf(cs, v, small, large)
<1>0. /\ Shape(small) /\ Shape(large) /\ s # 0 /\ l # 0 /\ s <= l
      /\ Stored(D) = KeysIn(small) \union KeysIn(large) /\ Stored(D) \subseteq Keys
  BY DEF BySize
<1>1. s \in TableSizes /\ l \in TableSizes /\ s <= l
  BY <1>0 DEF Shape
<1>2. PICK p, a, q, b, g : Finer(s, p, a, l, q, b, g)
  <2>1. \E p, a, q, b, g : /\ Order(s, p, a) /\ Order(l, q, b)
                           /\ g \in Nat \ {0} /\ p = g * q
    <3> HIDE DEF s, l
    <3>. QED
      BY <1>1, TwoOrders
  <2>. QED
    BY <1>1, <2>1 DEF Finer
<1>3. PICK c, n : /\ Cycle(c, v, l) /\ Walk(c, n, s, l) /\ Listed(cs, c, n)
  BY <1>2, CursorsWalk DEF IsWalk
<1>4. /\ n \in Nat \ {0} /\ c[n] \in 0..(Top - 1) /\ c[0] = v
      /\ \A h \in 0..(Top - 1) :
            /\ rev[v] <= rev[h]
            /\ \/ h % s # v % s
               \/ \A i \in 0..(n - 1) : h % l # c[i] % l
            => c[n] # 0 /\ rev[c[n]] <= rev[h]
  BY <1>2, <1>3, WalkCovers
<1>5. Len(cs) = n + 1 /\ cs[Len(cs)] = c[n] /\ \A i \in 0..(n - 1) : cs[i + 1] = c[i]
  BY <1>3, <1>4 DEF Listed
<1>6. ASSUME NEW k \in Stored(D), rev[v] <= rev[Hash[k]], k \notin keys
      PROVE  c[n] # 0 /\ rev[c[n]] <= rev[Hash[k]]
  <2>1. k \in Keys /\ Hash[k] \in 0..(Top - 1)
    BY <1>0, HashNat
  <2>2. CASE k \in KeysIn(small)
    <3>1. k \notin KeysOf(Bucket(small, v))
      BY <1>6 DEF AllOf
    <3>2. Hash[k] % s # v % s
      BY <1>0, <2>1, <2>2, <3>1, BucketHas
    <3>. QED
      BY <1>4, <1>6, <2>1, <3>2
  <2>3. CASE k \in KeysIn(large)
    <3>1. ASSUME NEW i \in 0..(n - 1) PROVE Hash[k] % l # c[i] % l
      <4>1. i + 1 \in 1..(Len(cs) - 1) /\ cs[i + 1] = c[i]
        BY <1>4, <1>5
      <4>2. k \notin KeysOf(Bucket(large, cs[i + 1]))
        BY <1>6, <4>1 DEF AllOf
      <4>3. Hash[k] % l # cs[i + 1] % l
        BY <1>0, <2>1, <2>3, <4>2, BucketHas
      <4>. QED
        BY <4>1, <4>3
    <3>. QED
      BY <1>4, <1>6, <2>1, <3>1
  <2>. QED
    BY <1>0, <2>2, <2>3
<1>. QED
  BY <1>4, <1>5, <1>6 DEF Handed

LEMMA ScannedHands ==
    ASSUME NEW D, Good(D), NEW v \in 0..(Top - 1)
    PROVE  Handed(D, v, Scanned(D, v).keys, Scanned(D, v).v)
<1>1. CASE dictSize(D) = 0
  <2>1. Stored(D) = {}
    BY <1>1, NoneStored
  <2>2. Scanned(D, v) = [keys |-> {}, v |-> 0]
    BY <1>1 DEF Scanned
  <2>. QED
    BY <2>1, <2>2, RevFacts DEF Handed
<1>2. CASE dictSize(D) # 0 /\ ~dictIsRehashing(D)
  <2>1. D.ht0.size # 0
    <3> SUFFICES ASSUME D.ht0.size = 0 PROVE FALSE
      OBVIOUS
    <3>1. Stored(D) = {}
      BY <1>2, GoodFacts DEF dictIsRehashing
    <3>. QED
      BY <1>2, <3>1, NoneStored
  <2>2. Scanned(D, v) = [keys |-> KeysOf(Bucket(D.ht0, v)), v |-> Cursor(v, D.ht0.size)]
    BY <1>2 DEF Scanned
  <2>. QED
    BY <1>2, <2>1, <2>2, HandedOne
<1>3. CASE dictSize(D) # 0 /\ dictIsRehashing(D)
  <2> DEFINE small == IF D.ht0.size > D.ht1.size THEN D.ht1 ELSE D.ht0
             large == IF D.ht0.size > D.ht1.size THEN D.ht0 ELSE D.ht1
             cs == Cursors(v, small.size, large.size)
  <2>1. /\ Shape(D.ht0) /\ Shape(D.ht1) /\ D.ht0.size # 0 /\ D.ht1.size # 0
        /\ D.ht0.size \in Nat /\ D.ht1.size \in Nat
        /\ Stored(D) = KeysIn(D.ht0) \union KeysIn(D.ht1) /\ Stored(D) \subseteq Keys
    BY <1>3, GoodFacts DEF dictIsRehashing
  <2>2. BySize(D, small, large)
    <3>1. CASE D.ht0.size > D.ht1.size
      BY <2>1, <3>1 DEF BySize
    <3>2. CASE ~(D.ht0.size > D.ht1.size)
      BY <2>1, <3>2 DEF BySize
    <3>. QED
      BY <3>1, <3>2
  <2>3. Scanned(D, v) = [keys |-> AllOf(cs, v, small, large), v |-> cs[Len(cs)]]
    BY <1>3, Zenon DEF Scanned, AllOf
  <2>4. IsWalk(cs, v, small, large)
    BY DEF IsWalk
  <2> HIDE DEF small, large, cs
  <2>5. Handed(D, v, AllOf(cs, v, small, large), cs[Len(cs)])
    BY <2>2, <2>4, HandedTwo
  <2>. QED
    BY <2>3, <2>5
<1>. QED
  BY <1>1, <1>2, <1>3

(* The invariant of a scan: what it owes is stored and comes at its cursor  *)
(* or later.                                                                *)
ScanAhead ==
    /\ scan.v \in 0..(Top - 1)
    /\ \A k \in scan.owed : map[k] # None /\ rev[scan.v] <= rev[Hash[k]]
    /\ ~scan.on => scan.v = 0 /\ scan.owed = {}

LEMMA ScanCallAhead ==
    ASSUME Inv, ScanAhead, dictScan
    PROVE  ScanAhead'
<1> DEFINE v == scan.v
           keys == Scanned(d, v).keys
           w == Scanned(d, v).v
           owed == IF scan.on THEN scan.owed ELSE Stored(d)
<1>1. /\ scan' = [on |-> w # 0, v |-> w, owed |-> owed \ keys] /\ map' = map
  BY DEF dictScan
<1>2. v \in 0..(Top - 1) /\ Good(d) /\ Agrees(d, map)
  BY DEF ScanAhead, Inv
<1>3. \A k \in Keys : k \in Stored(d) <=> map[k] # None
  BY <1>2, AgreesStored
<1>4. scan.owed \subseteq Keys /\ Stored(d) \subseteq Keys
  BY <1>2, GoodFacts DEF Inv, ScanInv
<1>5. ASSUME NEW k \in owed PROVE k \in Stored(d) /\ map[k] # None /\ rev[v] <= rev[Hash[k]]
  <2>1. CASE scan.on
    BY <1>3, <1>4, <1>5, <2>1 DEF ScanAhead
  <2>2. CASE ~scan.on
    <3>1. k \in Stored(d) /\ k \in Keys /\ v = 0
      BY <1>4, <1>5, <2>2 DEF ScanAhead
    <3>2. rev[v] = 0 /\ rev[Hash[k]] \in Nat
      BY <3>1, RevFacts, HashNat
    <3>. QED
      BY <1>3, <3>1, <3>2
  <2>. QED
    BY <2>1, <2>2
<1>6. Handed(d, v, keys, w)
  BY <1>2, ScannedHands
<1> HIDE DEF v, keys, w, owed
<1>7. \A k \in owed \ keys : w # 0 /\ rev[w] <= rev[Hash[k]]
  BY <1>5, <1>6 DEF Handed
<1>8. w \in 0..(Top - 1)
  BY <1>6 DEF Handed
<1>9. (~scan'.on => scan'.v = 0 /\ scan'.owed = {})
  BY <1>1, <1>7
<1>. QED
  BY <1>1, <1>5, <1>7, <1>8, <1>9 DEF ScanAhead

LEMMA ScanAheadStep == Inv /\ ScanAhead /\ [Next]_vars => ScanAhead'
<1> SUFFICES ASSUME Inv, ScanAhead, [Next]_vars PROVE ScanAhead'
  OBVIOUS
<1>1. map \in [Keys -> Values \union {None}]
  BY DEF Inv, Agrees
<1>2. ASSUME UNCHANGED <<map, scan>> PROVE ScanAhead'
  BY <1>2 DEF ScanAhead
<1>3. ASSUME NEW p \in Pairs, map' = [map EXCEPT ![p[1]] = p[2]], scan' = scan PROVE ScanAhead'
  <2>1. p[2] # None
    BY NoneAssumption
  <2>2. \A k : map[k] # None /\ k \in Keys => map'[k] # None
    BY <1>1, <1>3, <2>1
  <2>3. scan.owed \subseteq Keys
    BY DEF Inv, ScanInv
  <2>. QED
    BY <1>3, <2>2, <2>3 DEF ScanAhead
<1>4. ASSUME NEW p \in Pairs, dictAdd(p[1], p[2]) PROVE ScanAhead'
  BY <1>2, <1>3, <1>4 DEF dictAdd
<1>5. ASSUME NEW p \in Pairs, dictReplace(p[1], p[2]) PROVE ScanAhead'
  BY <1>3, <1>5 DEF dictReplace
<1>6. ASSUME NEW k \in Keys, dictDelete(k) PROVE ScanAhead'
  <2>1. map' = [map EXCEPT ![k] = None] /\ scan' = [scan EXCEPT !.owed = scan.owed \ {k}]
    BY <1>6 DEF dictDelete, Forget
  <2>2. scan' = [on |-> scan.on, v |-> scan.v, owed |-> scan.owed \ {k}] /\ scan.owed \subseteq Keys
    BY <2>1 DEF Inv, ScanInv
  <2>3. \A j \in scan.owed \ {k} : map'[j] = map[j]
    BY <1>1, <2>1, <2>2
  <2>. QED
    BY <2>2, <2>3 DEF ScanAhead
<1>7. ASSUME dictEmpty PROVE ScanAhead'
  <2>1. scan' = [on |-> scan.on, v |-> scan.v, owed |-> {}]
    BY <1>7 DEF dictEmpty, Inv, ScanInv
  <2>. QED
    BY <2>1 DEF ScanAhead
<1>8. ASSUME dictScan PROVE ScanAhead'
  BY <1>8, ScanCallAhead
<1>9. ASSUME \/ \E k \in Keys : dictFind(k)
             \/ dictGetRandomKey \/ \E n \in Batches : dictGetSomeKeys(n)
             \/ Resize \/ Rehash \/ SetResize
             \/ dictNext \/ dictReleaseIterator \/ UNCHANGED vars
      PROVE  ScanAhead'
  <2>1. UNCHANGED <<map, scan>>
    BY <1>9 DEF dictFind, dictGetRandomKey, dictGetSomeKeys, Resize, Rehash, SetResize,
                dictNext, dictReleaseIterator, vars
  <2>. QED
    BY <1>2, <2>1
<1>. QED
  BY <1>4, <1>5, <1>6, <1>7, <1>8, <1>9 DEF Next

----------------------------------------------------------------------------
(* The tables keep their shape through every sequence of calls: `used' is   *)
(* exact, every entry is where its hash selects, no key is stored twice and *)
(* a rehash has emptied what it has passed, for any keys, hashes, sizes and *)
(* number of buckets that a step may visit (gp_dict.c 276-319).             *)
THEOREM ShapeKept == Spec => []WellFormed
BY AlwaysInv, InvWellFormed, PTL

(* A search finds what the calls so far have stored, however far a rehash   *)
(* has come and in whichever of the two tables the entry is (566-585).      *)
THEOREM DictIsMap == Spec => []IsMap
<1>1. Inv => IsMap
  BY AgreesValue DEF Inv, IsMap
<1>. QED
  BY <1>1, AlwaysInv, PTL

(* A safe iterator returns every element that stays, once, although others  *)
(* are added, deleted and looked up between its calls (652-685).            *)
THEOREM IteratesOnce == Spec => []IterateOnce
<1>1. Inv => IterateOnce
  BY DEF Inv, IterInv, Iterators, IterateOnce
<1>. QED
  BY <1>1, AlwaysInv, PTL

(* Between the call that starts a scan and the one that returns 0, dictScan *)
(* returns every element that stays, although the table grows, shrinks and  *)
(* is rehashed between its calls, for any width of hashes and cursors, any  *)
(* hashes and any sizes (gp_dict.c 952-1031).                               *)
THEOREM ScansComplete == Spec => []ScanComplete
<1>1. Init => ScanAhead
  <2> SUFFICES ASSUME Init PROVE ScanAhead
    OBVIOUS
  <2>1. scan.on = FALSE /\ scan.v = 0 /\ scan.owed = {}
    BY DEF Init, NoScan
  <2>. QED
    BY <2>1, RevFacts DEF ScanAhead
<1>2. ScanAhead => ScanComplete
  BY DEF ScanAhead, ScanComplete
<1>. QED
  BY <1>1, <1>2, AlwaysInv, ScanAheadStep, PTL DEF Spec

=============================================================================
