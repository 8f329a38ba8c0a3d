-------------------------- MODULE TimerWheelProofs --------------------------
(***************************************************************************)
(* Proofs about TimerWheel, for wheels of any sizes, any set of timers and *)
(* any clock.                                                              *)
(*                                                                         *)
(* Times are compared by D(e, j), the ticks from j to e modulo W.  First   *)
(* come facts about numbers, quotients and lists; then ListFor and cascade *)
(* (a timer's list is in reach, and a tick leaves no timer behind on it),  *)
(* gp_next_timer (what it finds is the least time although it compares     *)
(* plain numbers), the invariant Inv, one lemma per action, and at the end *)
(* the four theorems.                                                      *)
(***************************************************************************)
EXTENDS TimerWheel, FiniteSetTheorems, SequenceTheorems, WellFoundedInduction, TLAPS

----------------------------------------------------------------------------
(* Natural numbers: least elements, induction up to a bound, and functions *)
(* that are defined by recursion up to a bound.                             *)

(* A set of natural numbers has a least one, and Min is it.                 *)
LEMMA LeastNat ==
    ASSUME NEW S \in SUBSET Nat, S # {}
    PROVE  Min(S) \in S /\ \A y \in S : Min(S) <= y
<1> DEFINE rel == {ss \in Nat \X Nat : ss[1] < ss[2]}
<1>1. IsWellFoundedOn(OpToRel(<, Nat), Nat)
  BY NatLessThanWellFounded, Zenon
<1>2. rel = OpToRel(<, Nat)
  BY DEF OpToRel
<1>3. IsWellFoundedOn(rel, Nat)
  BY <1>1, <1>2, Zenon
<1>4. PICK m \in S : \A y \in S : ~(<<y, m>> \in rel)
  <2> HIDE DEF rel
  <2>. QED
    BY <1>3, WFMin
<1>5. ASSUME NEW y \in S PROVE m <= y
  <2>1. m \in Nat /\ y \in Nat /\ ~(<<y, m>> \in rel)
    BY <1>4
  <2>2. ~(y < m)
    BY <2>1
  <2>. QED
    BY <2>1, <2>2
<1>6. \E x \in S : \A y \in S : x =< y
  BY <1>5
<1>. QED
  BY <1>6 DEF Min

(* Induction over 0..n, with the property as a set.                         *)
LEMMA UpTo ==
    ASSUME NEW n \in Nat, NEW S, 0 \in S,
           \A i \in 1..n : i - 1 \in S => i \in S
    PROVE  \A i \in 0..n : i \in S
<1> SUFFICES ASSUME {i \in 0..n : i \notin S} # {} PROVE FALSE
  OBVIOUS
<1> DEFINE T == {i \in 0..n : i \notin S}
           m == Min(T)
<1>1. m \in T /\ \A y \in T : m <= y
  <2>1. T \in SUBSET Nat /\ T # {}
    OBVIOUS
  <2> HIDE DEF T
  <2>. QED
    BY <2>1, LeastNat
<1> HIDE DEF m
<1>2. m \in 1..n /\ m - 1 \in 0..n
  BY <1>1
<1>3. m - 1 \in S
  <2> SUFFICES ASSUME m - 1 \notin S PROVE FALSE
    OBVIOUS
  <2>1. m - 1 \in T
    BY <1>2
  <2>2. m <= m - 1
    BY <1>1, <2>1
  <2>. QED
    BY <1>2, <2>2
<1>. QED
  BY <1>1, <1>2, <1>3

(* A recursion over 0..n whose steps stay in a set has a solution, and the  *)
(* solution stays in the set.                                               *)
Solves(f, n, x, g) == f = [i \in 0..n |-> IF i = 0 THEN x ELSE g[<<i, f[i - 1]>>]]

LEMMA Recursion ==
    ASSUME NEW n \in Nat, NEW S, NEW x \in S, NEW g \in [(1..n) \X S -> S]
    PROVE  \E f \in [0..n -> S] : Solves(f, n, x, g)
<1> DEFINE P(m, f) == /\ f \in [0..m -> S] /\ f[0] = x
                      /\ \A i \in 1..m : f[i] = g[<<i, f[i - 1]>>]
           G == {m \in 0..n : \E f : P(m, f)}
<1>1. 0 \in G
  <2>1. P(0, [i \in 0..0 |-> x])
    OBVIOUS
  <2>2. \E f : P(0, f)
    <3> HIDE DEF P
    <3>. QED
      BY <2>1, Zenon
  <2>. QED
    BY <2>2
<1>2. ASSUME NEW m \in 1..n, m - 1 \in G PROVE m \in G
  <2>1. PICK f : P(m - 1, f)
    BY <1>2
  <2> DEFINE e == [i \in 0..m |-> IF i = m THEN g[<<m, f[m - 1]>>] ELSE f[i]]
  <2>2. m \in Nat /\ m - 1 \in 0..(m - 1) /\ f[m - 1] \in S
    BY <2>1
  <2>3. g[<<m, f[m - 1]>>] \in S
    BY <2>2
  <2>4. \A i \in 0..m : i # m => i \in 0..(m - 1) /\ f[i] \in S
    BY <2>1, <2>2
  <2>5. e \in [0..m -> S]
    BY <2>3, <2>4
  <2>6. e[0] = x
    BY <2>1, <2>2
  <2>7. ASSUME NEW i \in 1..m PROVE e[i] = g[<<i, e[i - 1]>>]
    <3>1. i - 1 \in 0..(m - 1) /\ i - 1 \in 0..m /\ i - 1 # m
      BY <2>2
    <3>2. e[i - 1] = f[i - 1]
      BY <3>1
    <3>3. CASE i = m
      <4>1. e[m] = g[<<m, f[m - 1]>>]
        BY <2>2
      <4> HIDE DEF e
      <4>. QED
        BY <3>2, <3>3, <4>1
    <3>4. CASE i # m
      BY <2>1, <3>2, <3>4
    <3>. QED
      BY <3>3, <3>4
  <2>8. P(m, e)
    <3> HIDE DEF e
    <3>. QED
      BY <2>5, <2>6, <2>7
  <2>9. \E h : P(m, h)
    <3> HIDE DEF e, P
    <3>. QED
      BY <2>8, Zenon
  <2>. QED
    BY <2>9
<1>3. n \in G
  <2> HIDE DEF G
  <2>. QED
    BY <1>1, <1>2, UpTo
<1>4. PICK f : P(n, f)
  BY <1>3
<1>5. f = [i \in 0..n |-> IF i = 0 THEN x ELSE g[<<i, f[i - 1]>>]]
  BY <1>4
<1>. QED
  BY <1>4, <1>5 DEF Solves

----------------------------------------------------------------------------
(* Products, quotients and remainders.                                      *)
LEMMA Products ==
    ASSUME NEW a \in Int, NEW b \in Int, NEW p \in Nat \ {0}
    PROVE  /\ p * a \in Int /\ p * (a + 1) = p * a + p /\ p * (a + b) = p * a + p * b
           /\ p * (a - b) = p * a - p * b
           /\ a <= b => p * a <= p * b
           /\ a < b => p * a + p <= p * b
<1>1. p * a \in Int /\ p * b \in Int /\ p * (a + 1) = p * a + p
  OBVIOUS
<1>2. p * (a + b) = p * a + p * b /\ p * (a - b) = p * a - p * b
  OBVIOUS
<1>3. ASSUME NEW x \in Int, NEW y \in Int, x <= y PROVE p * x <= p * y
  <2>1. p * (y - x) >= 0
    BY <1>3
  <2>2. p * (y - x) = p * y - p * x
    OBVIOUS
  <2>. QED
    BY <2>1, <2>2
<1>4. a < b => p * (a + 1) <= p * b
  BY <1>3
<1>. QED
  BY <1>1, <1>2, <1>3, <1>4

LEMMA Division ==
    ASSUME NEW x \in Int, NEW p \in Nat \ {0}
    PROVE  /\ x \div p \in Int /\ x % p \in 0..(p - 1) /\ x = p * (x \div p) + (x % p)
           /\ p * (x \div p) \in Int
           /\ x >= 0 => x \div p >= 0
<1>1. x \div p \in Int /\ x % p \in 0..(p - 1) /\ x = p * (x \div p) + (x % p)
  OBVIOUS
<1>2. x >= 0 => x \div p >= 0
  <2> DEFINE q == x \div p
  <2>1. q \in Int /\ x < p * q + p
    BY <1>1
  <2> HIDE DEF q
  <2>2. q < 0 => p * q + p <= p * 0
    BY <2>1, Products
  <2>. QED
    BY <2>1, <2>2 DEF q
<1>. QED
  BY <1>1, <1>2

(* The quotient and the remainder are the only ones.                        *)
LEMMA Unique ==
    ASSUME NEW p \in Nat \ {0}, NEW q \in Int, NEW r \in 0..(p - 1), NEW x \in Int, x = p * q + r
    PROVE  x \div p = q /\ x % p = r
<1> DEFINE c == x \div p
           b == x % p
<1>1. c \in Int /\ b \in 0..(p - 1) /\ x = p * c + b /\ p * c \in Int /\ p * q \in Int
  BY Division, Products
<1> HIDE DEF c, b
<1>2. c < q => p * c + p <= p * q
  BY <1>1, Products
<1>3. q < c => p * q + p <= p * c
  BY <1>1, Products
<1>4. c = q
  BY <1>1, <1>2, <1>3
<1>. QED
  BY <1>1, <1>4 DEF c, b

(* Remainders of numbers that are out of range by at most one turn.         *)
LEMMA NearMod ==
    ASSUME NEW w \in Nat \ {0}, NEW x \in Int
    PROVE  /\ x \in 0..(w - 1) => x % w = x
           /\ x \in (-w)..(-1) => x % w = x + w
           /\ x \in w..(2 * w - 1) => x % w = x - w
<1>1. ASSUME NEW q \in {-1, 0, 1}, x - w * q \in 0..(w - 1) PROVE x % w = x - w * q
  <2>1. q \in Int /\ w * q \in Int /\ x = w * q + (x - w * q)
    BY Products
  <2> DEFINE r == x - w * q
  <2>2. r \in 0..(w - 1) /\ x = w * q + r
    BY <1>1, <2>1
  <2> HIDE DEF r
  <2>3. x % w = r
    BY <2>1, <2>2, Unique
  <2>. QED
    BY <2>3 DEF r
<1>2. w * 0 = 0 /\ w * (-1) = -w /\ w * 1 = w
  OBVIOUS
<1>. QED
  BY <1>1, <1>2

----------------------------------------------------------------------------
(* The wheels: a list of one covers what the whole wheel below covers, and  *)
(* the last one covers all ticks.                                           *)
LEMMA WheelFacts ==
    /\ W \in Nat \ {0} /\ Half \in Nat \ {0} /\ W = 2 * Half /\ R < W
    /\ R \in Nat \ {0, 1} /\ N \in Nat \ {0, 1} /\ None \notin Timers
    /\ Births \subseteq 0..(W - 1) /\ Offsets \subseteq 0..(Half - 1) /\ MaxSleep \in 0..Half
    /\ MaxOps \in Nat
<1> DEFINE a == R * N
           b == a * N
           c == b * N
<1>1. R \in Nat \ {0, 1} /\ N \in Nat \ {0, 1} /\ W = c * N /\ W % 2 = 0
  BY WheelAssumption DEF W
<1>2. a \in Nat /\ R < a
  <2>1. R * N = R + R * (N - 1) /\ R * (N - 1) > 0 /\ R * N \in Nat
    BY <1>1
  <2>. QED
    BY <1>1, <2>1
<1>3. b \in Nat /\ R < b
  <2> HIDE DEF a
  <2>1. a * N = a + a * (N - 1) /\ a * (N - 1) > 0 /\ a * N \in Nat
    BY <1>1, <1>2
  <2>. QED
    BY <1>1, <1>2, <2>1
<1>4. c \in Nat /\ R < c
  <2> HIDE DEF b
  <2>1. b * N = b + b * (N - 1) /\ b * (N - 1) > 0 /\ b * N \in Nat
    BY <1>1, <1>3
  <2>. QED
    BY <1>1, <1>3, <2>1
<1>5. W \in Nat /\ R < W
  <2> HIDE DEF c
  <2>1. c * N = c + c * (N - 1) /\ c * (N - 1) > 0 /\ c * N \in Nat
    BY <1>1, <1>4
  <2>. QED
    BY <1>1, <1>4, <2>1
<1>6. Half \in Nat \ {0} /\ W = 2 * Half
  <2> HIDE DEF c
  <2>. QED
    BY <1>1, <1>5 DEF Half
<1>. QED
  BY <1>1, <1>5, <1>6, WheelAssumption

LEMMA Units ==
    /\ Unit(1) = 1 /\ Size(1) = R /\ Span(1) = R
    /\ \A k \in Wheels : /\ Unit(k) \in Nat \ {0} /\ Size(k) \in Nat \ {0, 1}
                         /\ Span(k) = Unit(k) * Size(k) /\ Span(k) \in Nat \ {0}
    /\ \A k \in 1..4 : Span(k) = Unit(k + 1)
    /\ Span(5) = W
<1> DEFINE a == R * N
           b == a * N
           c == b * N
<1>1. R \in Nat \ {0, 1} /\ N \in Nat \ {0, 1} /\ W = c * N
  BY WheelFacts DEF W
<1>2. ASSUME NEW p \in Nat \ {0}, NEW q \in Nat \ {0} PROVE p * q \in Nat \ {0}
  OBVIOUS
<1>3. /\ Unit(1) = 1 /\ Unit(2) = R /\ Unit(3) = a /\ Unit(4) = b /\ Unit(5) = c
      /\ Size(1) = R /\ Size(2) = N /\ Size(3) = N /\ Size(4) = N /\ Size(5) = N
  BY DEF Unit, Size
<1>4. a \in Nat \ {0} /\ b \in Nat \ {0} /\ c \in Nat \ {0} /\ c * N \in Nat \ {0}
  <2>1. a \in Nat \ {0}
    BY <1>1, <1>2
  <2>2. b \in Nat \ {0}
    <3> HIDE DEF a
    <3>. QED
      BY <1>1, <1>2, <2>1
  <2>3. c \in Nat \ {0}
    <3> HIDE DEF b
    <3>. QED
      BY <1>1, <1>2, <2>2
  <2> HIDE DEF c
  <2>. QED
    BY <1>1, <1>2, <2>1, <2>2, <2>3
<1>5. /\ Span(1) = 1 * R /\ Span(2) = R * N /\ Span(3) = a * N /\ Span(4) = b * N /\ Span(5) = c * N
  <2> HIDE DEF a, b, c
  <2>. QED
    BY <1>3 DEF Span
<1>6. a = R * N /\ b = a * N /\ c = b * N
  OBVIOUS
<1> HIDE DEF a, b, c
<1>7. 1 * R = R
  BY <1>1
<1>8. ASSUME NEW k \in Wheels
      PROVE  /\ Unit(k) \in Nat \ {0} /\ Size(k) \in Nat \ {0, 1}
             /\ Span(k) = Unit(k) * Size(k) /\ Span(k) \in Nat \ {0}
  <2>1. k = 1 \/ k = 2 \/ k = 3 \/ k = 4 \/ k = 5
    BY DEF Wheels
  <2>2. Unit(k) \in Nat \ {0} /\ Size(k) \in Nat \ {0, 1}
    BY <1>1, <1>3, <1>4, <2>1
  <2>3. Span(k) = Unit(k) * Size(k)
    BY DEF Span
  <2>. QED
    BY <1>2, <2>2, <2>3
<1>9. ASSUME NEW k \in 1..4 PROVE Span(k) = Unit(k + 1)
  <2>1. k = 1 \/ k = 2 \/ k = 3 \/ k = 4
    OBVIOUS
  <2>2. Unit(1 + 1) = R /\ Unit(2 + 1) = a /\ Unit(3 + 1) = b /\ Unit(4 + 1) = c
    BY <1>3
  <2>. QED
    BY <1>5, <1>6, <1>7, <2>1, <2>2
<1>. QED
  BY <1>1, <1>3, <1>5, <1>6, <1>7, <1>8, <1>9

(* The ticks are a whole number of turns of every wheel.                    *)
LEMMA Turns ==
    ASSUME NEW k \in Wheels
    PROVE  \E m \in Nat \ {0} : W = Span(k) * m
<1>1. R \in Nat \ {0, 1} /\ N \in Nat \ {0, 1} /\ 1 \in Nat \ {0}
  BY WheelFacts
<1>2. ASSUME NEW i \in 1..4, NEW m \in Nat \ {0}, W = Span(i + 1) * m
      PROVE  \E n \in Nat \ {0} : W = Span(i) * n
  <2>1. i + 1 \in Wheels
    BY DEF Wheels
  <2>2. Unit(i + 1) \in Nat \ {0} /\ Size(i + 1) \in Nat \ {0} /\ Span(i + 1) = Unit(i + 1) * Size(i + 1)
        /\ Span(i) = Unit(i + 1)
    BY <2>1, Units
  <2> DEFINE u == Unit(i + 1)
             s == Size(i + 1)
  <2>3. u \in Nat \ {0} /\ s \in Nat \ {0} /\ W = (u * s) * m /\ Span(i) = u
    BY <1>2, <2>2
  <2> HIDE DEF u, s
  <2>4. (u * s) * m = u * (s * m) /\ s * m \in Nat \ {0}
    BY <1>2, <2>3
  <2>. QED
    BY <2>3, <2>4
<1>3. W = Span(5) * 1
  BY WheelFacts, Units
<1>4. \E m \in Nat \ {0} : W = Span(4) * m
  BY <1>1, <1>2, <1>3
<1>5. \E m \in Nat \ {0} : W = Span(3) * m
  BY <1>2, <1>4
<1>6. \E m \in Nat \ {0} : W = Span(2) * m
  BY <1>2, <1>5
<1>7. \E m \in Nat \ {0} : W = Span(1) * m
  BY <1>2, <1>6
<1>8. k = 1 \/ k = 2 \/ k = 3 \/ k = 4 \/ k = 5
  BY DEF Wheels
<1>. QED
  BY <1>1, <1>3, <1>4, <1>5, <1>6, <1>7, <1>8

----------------------------------------------------------------------------
(* Distances between ticks.                                                 *)
Ticks == 0..(W - 1)
D(e, j) == (e - j) % W
After(j) == (j + 1) % W
Prior(j) == (j - 1) % W

LEMMA Dist ==
    ASSUME NEW e \in Ticks, NEW j \in Ticks
    PROVE  /\ D(e, j) = IF e >= j THEN e - j ELSE e - j + W
           /\ D(e, j) \in Ticks /\ W \in Nat \ {0} /\ e \in Nat /\ j \in Nat
<1>1. W \in Nat \ {0} /\ e \in Nat /\ j \in Nat /\ e - j \in Int
  BY WheelFacts DEF Ticks
<1>2. e >= j => e - j \in 0..(W - 1)
  BY <1>1 DEF Ticks
<1>3. e < j => e - j \in (-W)..(-1)
  BY <1>1 DEF Ticks
<1>4. D(e, j) = IF e >= j THEN e - j ELSE e - j + W
  <2> DEFINE y == e - j
  <2>1. y \in Int /\ (e >= j => y \in 0..(W - 1)) /\ (e < j => y \in (-W)..(-1)) /\ D(e, j) = y % W
    BY <1>1, <1>2, <1>3 DEF D
  <2> HIDE DEF y
  <2>2. (e >= j => y % W = y) /\ (e < j => y % W = y + W)
    BY <1>1, <2>1, NearMod
  <2>. QED
    BY <1>1, <2>1, <2>2 DEF y
<1>. QED
  BY <1>1, <1>2, <1>3, <1>4 DEF Ticks

LEMMA TickAfter ==
    ASSUME NEW j \in Ticks
    PROVE  /\ After(j) = IF j = W - 1 THEN 0 ELSE j + 1
           /\ Prior(j) = IF j = 0 THEN W - 1 ELSE j - 1
           /\ After(j) \in Ticks /\ Prior(j) \in Ticks
           /\ Prior(After(j)) = j /\ After(Prior(j)) = j
<1>1. W \in Nat \ {0} /\ R < W /\ R \in Nat \ {0, 1} /\ j \in Nat
  BY WheelFacts DEF Ticks
<1>2. ASSUME NEW x \in Ticks
      PROVE  /\ After(x) = IF x = W - 1 THEN 0 ELSE x + 1
             /\ Prior(x) = IF x = 0 THEN W - 1 ELSE x - 1
  <2>1. x \in Nat /\ x <= W - 1
    BY <1>1 DEF Ticks
  <2>2. x # W - 1 => x + 1 \in 0..(W - 1)
    BY <1>1, <2>1
  <2>3. x = W - 1 => x + 1 \in W..(2 * W - 1) /\ x + 1 - W = 0
    BY <1>1, <2>1
  <2>4. x = 0 => x - 1 \in (-W)..(-1) /\ x - 1 + W = W - 1
    BY <1>1, <2>1
  <2>5. x # 0 => x - 1 \in 0..(W - 1)
    BY <1>1, <2>1
  <2>6. After(x) = IF x = W - 1 THEN 0 ELSE x + 1
    <3> DEFINE y == x + 1
    <3>0. After(x) = y % W
      BY DEF After
    <3>1. /\ y \in Int
          /\ (x # W - 1 => y \in 0..(W - 1)) /\ (x = W - 1 => y \in W..(2 * W - 1) /\ y - W = 0)
      BY <1>1, <2>1
    <3> HIDE DEF y
    <3>2. (x # W - 1 => y % W = y) /\ (x = W - 1 => y % W = y - W)
      BY <1>1, <3>1, NearMod
    <3>. QED
      BY <3>0, <3>1, <3>2 DEF y
  <2>7. Prior(x) = IF x = 0 THEN W - 1 ELSE x - 1
    <3> DEFINE y == x - 1
    <3>1. /\ y \in Int /\ Prior(x) = y % W
          /\ (x # 0 => y \in 0..(W - 1)) /\ (x = 0 => y \in (-W)..(-1) /\ y + W = W - 1)
      BY <2>1, <2>4, <2>5 DEF Prior
    <3> HIDE DEF y
    <3>2. (x # 0 => y % W = y) /\ (x = 0 => y % W = y + W)
      BY <1>1, <3>1, NearMod
    <3>. QED
      BY <3>1, <3>2 DEF y
  <2>. QED
    BY <2>6, <2>7
<1>3. After(j) \in Ticks /\ Prior(j) \in Ticks
  BY <1>1, <1>2 DEF Ticks
<1>. QED
  BY <1>1, <1>2, <1>3 DEF Ticks

LEMMA Nearer ==
    ASSUME NEW e \in Ticks, NEW j \in Ticks
    PROVE  /\ D(e, After(j)) = IF e = j THEN W - 1 ELSE D(e, j) - 1
           /\ D(e, j) = 0 <=> e = j
           /\ D(e, Prior(j)) = IF e = Prior(j) THEN 0 ELSE D(e, j) + 1
           /\ D(e, j) = W - 1 <=> e = Prior(j)
<1>1. /\ After(j) = IF j = W - 1 THEN 0 ELSE j + 1
      /\ Prior(j) = IF j = 0 THEN W - 1 ELSE j - 1
      /\ After(j) \in Ticks /\ Prior(j) \in Ticks
  BY TickAfter
<1>2. D(e, j) = IF e >= j THEN e - j ELSE e - j + W
  BY Dist
<1>3. D(e, After(j)) = IF e >= After(j) THEN e - After(j) ELSE e - After(j) + W
  BY <1>1, Dist
<1>4. D(e, Prior(j)) = IF e >= Prior(j) THEN e - Prior(j) ELSE e - Prior(j) + W
  BY <1>1, Dist
<1>5. W \in Nat \ {0} /\ e \in 0..(W - 1) /\ j \in 0..(W - 1)
  BY WheelFacts DEF Ticks
<1>. QED
  BY <1>1, <1>2, <1>3, <1>4, <1>5

(* The remainder by R goes round with the ticks.                            *)
LEMMA Congruent ==
    ASSUME NEW a \in Ticks, NEW b \in Ticks, a % R = b % R
    PROVE  \E m \in Int : D(a, b) = R * m
<1>1. PICK n \in Nat \ {0} : W = R * n
  <2>1. 1 \in Wheels
    BY DEF Wheels
  <2>. QED
    BY <2>1, Turns, Units
<1> DEFINE p == a \div R
           q == b \div R
           r == a % R
<1>2. /\ a \in Int /\ b \in Int /\ R \in Nat \ {0}
      /\ D(a, b) = IF a >= b THEN a - b ELSE a - b + W
  BY WheelFacts, Dist
<1>3. /\ p \in Int /\ q \in Int /\ r \in Int /\ a = R * p + r /\ b = R * q + r
      /\ R * p \in Int /\ R * q \in Int
  BY <1>2, Division
<1> HIDE DEF p, q, r
<1>4. R * (p - q) = R * p - R * q /\ R * ((p - q) + n) = R * (p - q) + R * n /\ R * n \in Int
      /\ p - q \in Int /\ (p - q) + n \in Int
  BY <1>2, <1>3, Products
<1>5. a - b = R * (p - q) /\ a - b + W = R * ((p - q) + n)
  BY <1>1, <1>2, <1>3, <1>4
<1>. QED
  BY <1>2, <1>4, <1>5

LEMMA Multiples ==
    ASSUME NEW r \in Nat \ {0}, NEW m \in Int
    PROVE  /\ r * m \in 0..(r - 1) => r * m = 0
           /\ r * m \in 1..r => r * m = r
<1>1. m < 0 => r * m + r <= r * 0
  BY Products
<1>2. 0 < m => r * 0 + r <= r * m
  BY Products
<1>3. 1 < m => r * 1 + r <= r * m
  BY Products
<1>4. r * 0 = 0 /\ r * 1 = r /\ r * m \in Int
  BY Products
<1>5. m < 0 \/ m = 0 \/ m = 1 \/ 1 < m
  OBVIOUS
<1>. QED
  BY <1>1, <1>2, <1>3, <1>4, <1>5

(* The slot of a tick, seen from the tick after it.                         *)
LEMMA SlotAfter ==
    ASSUME NEW j \in Ticks
    PROVE  (After(j) - 1) % R = j % R /\ j % R \in 0..(R - 1) /\ (j - 1) % R = Prior(j) % R
<1>1. /\ R \in Nat \ {0, 1} /\ W \in Nat \ {0} /\ j \in Nat
      /\ After(j) = IF j = W - 1 THEN 0 ELSE j + 1
      /\ Prior(j) = IF j = 0 THEN W - 1 ELSE j - 1
  BY WheelFacts, TickAfter DEF Ticks
<1>2. PICK n \in Nat \ {0} : W = R * n
  <2>1. 1 \in Wheels
    BY DEF Wheels
  <2>. QED
    BY <2>1, Turns, Units
<1>3. (-1) % R = R - 1
  <2>1. -1 \in (-R)..(-1) /\ -1 + R = R - 1 /\ -1 \in Int
    BY <1>1
  <2>. QED
    BY <1>1, <2>1, NearMod
<1>4. (W - 1) % R = R - 1
  <2>1. n - 1 \in Int /\ R * (n - 1) = R * n - R * 1 /\ R * 1 = R /\ R * n \in Int
    BY <1>1, Products
  <2> DEFINE x == W - 1
             q == n - 1
             r == R - 1
  <2>2. x = R * q + r /\ r \in 0..(R - 1) /\ x \in Int /\ q \in Int
    BY <1>1, <1>2, <2>1
  <2> HIDE DEF x, q, r
  <2>3. x % R = r
    BY <1>1, <2>2, Unique
  <2>. QED
    BY <2>3 DEF x, r
<1>5. j % R \in 0..(R - 1)
  BY <1>1, Division
<1>6. CASE j = W - 1
  <2>1. After(j) - 1 = -1
    BY <1>1, <1>6
  <2>2. (j - 1) % R = Prior(j) % R
    <3>1. W > 1
      BY WheelFacts
    <3>. QED
      BY <1>1, <1>6, <3>1
  <2>. QED
    BY <1>3, <1>4, <1>5, <1>6, <2>1, <2>2
<1>7. CASE j # W - 1
  <2>1. After(j) - 1 = j
    BY <1>1, <1>7
  <2>2. (j - 1) % R = Prior(j) % R
    <3>1. CASE j = 0
      <4>1. j - 1 = -1
        BY <3>1
      <4>. QED
        BY <1>1, <1>3, <1>4, <3>1, <4>1
    <3>2. CASE j # 0
      BY <1>1, <3>2
    <3>. QED
      BY <3>1, <3>2
  <2>. QED
    BY <1>5, <2>1, <2>2
<1>. QED
  BY <1>6, <1>7

----------------------------------------------------------------------------
(* Lists, and the place of an expiry time on its wheel.                     *)
LEMMA ListParts ==
    /\ \A l \in Lists : l[1] \in Wheels /\ l[2] \in 0..(Size(l[1]) - 1) /\ l = <<l[1], l[2]>>
    /\ \A k \in Wheels : \A i \in 0..(Size(k) - 1) : <<k, i>> \in Lists
BY DEF Lists

Reached(k, e) == e - (e % Unit(k))
Hot(l, e, j) == l[1] # 1 /\ Reached(l[1], e) = j

LEMMA ReachedFacts ==
    ASSUME NEW k \in Wheels, NEW e \in Ticks
    PROVE  /\ Reached(k, e) \in Ticks /\ Reached(k, e) = Unit(k) * (e \div Unit(k))
           /\ e % Unit(k) \in 0..(Unit(k) - 1) /\ e = Reached(k, e) + (e % Unit(k))
           /\ e \div Unit(k) \in Nat /\ Unit(k) \in Nat \ {0} /\ Size(k) \in Nat \ {0, 1}
           /\ (e \div Unit(k)) % Size(k) \in 0..(Size(k) - 1)
           /\ Reached(1, e) = e
<1> DEFINE u == Unit(k)
           q == e \div u
           r == e % u
<1>1. e \in Nat /\ e <= W - 1 /\ W \in Nat
  BY WheelFacts DEF Ticks
<1>2. u \in Nat \ {0} /\ Size(k) \in Nat \ {0, 1}
  BY Units
<1>3. e \in Int /\ q \in Nat /\ r \in 0..(u - 1) /\ e = u * q + r /\ u * q \in Int
  <2> HIDE DEF u
  <2>1. e \in Int
    BY <1>1
  <2>2. /\ q \in Int /\ r \in 0..(u - 1) /\ e = u * q + r /\ u * q \in Int
        /\ (e >= 0 => q >= 0)
    BY <1>2, <2>1, Division
  <2> HIDE DEF q, r
  <2>3. q \in Nat
    BY <1>1, <2>2
  <2>. QED
    BY <2>1, <2>2, <2>3
<1>4. q % Size(k) \in 0..(Size(k) - 1)
  <2> DEFINE n == Size(k)
  <2>1. n \in Nat \ {0} /\ q \in Int
    BY <1>2, <1>3
  <2> HIDE DEF q, n
  <2>2. q % n \in 0..(n - 1)
    BY <2>1, Division
  <2>. QED
    BY <2>2 DEF n
<1>5. Reached(k, e) = e - r
  BY DEF Reached
<1>6. u * q >= 0
  <2> HIDE DEF u, q
  <2>1. u * 0 <= u * q /\ u * 0 = 0
    BY <1>2, <1>3, Products
  <2>. QED
    BY <1>3, <2>1
<1>7. Reached(1, e) = e
  <2>1. e = 1 * e + 0 /\ 0 \in 0..(1 - 1) /\ 1 \in Nat \ {0} /\ e \in Int
    BY <1>1
  <2>2. e % 1 = 0
    BY <2>1, Unique
  <2>3. Unit(1) = 1
    BY Units
  <2>. QED
    BY <1>1, <2>2, <2>3 DEF Reached
<1> HIDE DEF q, r
<1>8. Reached(k, e) \in Ticks /\ Reached(k, e) = u * q /\ e = Reached(k, e) + r
  <2> HIDE DEF u
  <2>. QED
    BY <1>1, <1>3, <1>5, <1>6 DEF Ticks
<1>. QED
  BY <1>2, <1>3, <1>4, <1>7, <1>8 DEF q, r

(* InReach in these terms.                                                  *)
LEMMA ReachIs ==
    ASSUME NEW l, NEW e, NEW j
    PROVE  InReach(l, e, j) <=> /\ l[2] = (e \div Unit(l[1])) % Size(l[1])
                                /\ D(Reached(l[1], e), j) <= D(e, j)
                                /\ D(Reached(l[1], e), j) < Span(l[1])
BY DEF InReach, D, Reached

(* The first wheel whose span reaches the distance.                         *)
LEMMA ListForReach ==
    ASSUME NEW e \in Ticks, NEW j \in Ticks, NEW l, l = ListFor(j, e)
    PROVE  l \in Lists /\ InReach(l, e, j) /\ ~Hot(l, e, j)
<1> DEFINE S == {m \in Wheels : D(e, j) < Span(m)}
           k == Min(S)
<1>1. D(e, j) \in Ticks /\ W \in Nat \ {0} /\ e \in Nat /\ j \in Nat /\ D(e, j) \in Nat /\ D(e, j) < W
  BY Dist DEF Ticks
<1>2. S \in SUBSET Nat /\ 5 \in S
  BY <1>1, Units DEF Wheels
<1>3. k \in S /\ \A y \in S : k <= y
  <2> HIDE DEF S
  <2>. QED
    BY <1>2, LeastNat
<1>4. l = <<k, (e \div Unit(k)) % Size(k)>>
  BY DEF ListFor, D
<1> HIDE DEF k
<1>5. k \in Wheels /\ D(e, j) < Span(k) /\ Span(k) \in Nat
  BY <1>3, Units
<1> DEFINE r == e % Unit(k)
           v == Reached(k, e)
<1>6. /\ v \in Ticks /\ r \in 0..(Unit(k) - 1) /\ e = v + r /\ Unit(k) \in Nat \ {0}
      /\ (e \div Unit(k)) % Size(k) \in 0..(Size(k) - 1) /\ Reached(1, e) = e
  BY <1>5, ReachedFacts
<1>7. l \in Lists /\ l[1] = k /\ l[2] = (e \div Unit(k)) % Size(k)
  BY <1>4, <1>5, <1>6, ListParts
<1> HIDE DEF r, v, S
<1>8. D(v, j) = (IF v >= j THEN v - j ELSE v - j + W) /\ v \in Nat
      /\ D(e, j) = IF e >= j THEN e - j ELSE e - j + W
  BY <1>6, Dist
<1>9. CASE k = 1
  <2>1. v = e
    BY <1>6, <1>9 DEF v
  <2>. QED
    BY <1>1, <1>5, <1>7, <1>9, <2>1, ReachIs DEF v, Hot
<1>10. CASE k # 1
  <2>1. k - 1 \in 1..4 /\ (k - 1) + 1 = k /\ k - 1 \in Wheels
    BY <1>5, <1>10 DEF Wheels
  <2>2. ~(D(e, j) < Span(k - 1)) /\ Span(k - 1) = Unit(k)
    <3>1. k - 1 \notin S
      BY <1>3, <2>1
    <3>. QED
      BY <2>1, <3>1, Units DEF S
  <2>3. r < D(e, j)
    BY <1>1, <1>6, <2>2
  <2>4. D(v, j) = D(e, j) - r /\ v # j
    BY <1>1, <1>6, <1>8, <2>3
  <2>5. D(v, j) <= D(e, j) /\ D(v, j) < Span(k)
    BY <1>1, <1>5, <1>6, <2>4
  <2>. QED
    BY <1>7, <2>4, <2>5, ReachIs DEF v, Hot
<1>. QED
  BY <1>9, <1>10

(* A tick that does not reach the list keeps it in reach.                   *)
LEMMA ReachTick ==
    ASSUME NEW l \in Lists, NEW e \in Ticks, NEW j \in Ticks, InReach(l, e, j),
           Reached(l[1], e) # j
    PROVE  InReach(l, e, After(j)) /\ e # j
<1> DEFINE v == Reached(l[1], e)
<1>1. v \in Ticks /\ l[1] \in Wheels /\ Span(l[1]) \in Nat
  BY ReachedFacts, ListParts, Units
<1>2. l[2] = (e \div Unit(l[1])) % Size(l[1]) /\ D(v, j) <= D(e, j) /\ D(v, j) < Span(l[1])
  BY ReachIs
<1> HIDE DEF v
<1>3. /\ D(v, After(j)) = (IF v = j THEN W - 1 ELSE D(v, j) - 1)
      /\ D(e, After(j)) = (IF e = j THEN W - 1 ELSE D(e, j) - 1)
      /\ (D(v, j) = 0 <=> v = j) /\ (D(e, j) = 0 <=> e = j)
  BY <1>1, Nearer
<1>4. D(v, j) \in Nat /\ D(e, j) \in Nat /\ v # j
  BY <1>1, Dist DEF Ticks, v
<1>5. e # j
  BY <1>2, <1>3, <1>4
<1>6. D(v, After(j)) <= D(e, After(j)) /\ D(v, After(j)) < Span(l[1])
  BY <1>1, <1>2, <1>3, <1>4, <1>5
<1>. QED
  BY <1>2, <1>5, <1>6, ReachIs DEF v

(* The list that a tick reaches is the one that is spread.                  *)
LEMMA HotList ==
    ASSUME NEW l \in Lists, NEW e \in Ticks, NEW j \in Ticks, InReach(l, e, j), Hot(l, e, j)
    PROVE  /\ j % Unit(l[1]) = 0 /\ l = <<l[1], INDEX(j, l[1])>> /\ l[1] \in 2..5
<1> DEFINE k == l[1]
           u == Unit(k)
           q == e \div u
<1>1. k \in Wheels /\ k # 1 /\ l = <<k, l[2]>>
  BY ListParts DEF Hot
<1>2. k \in 2..5 /\ Size(k) = N
  BY <1>1 DEF Wheels, Size
<1>3. u \in Nat \ {0} /\ q \in Nat /\ j = u * q /\ j \in Int
  BY <1>1, ReachedFacts DEF Hot, Ticks
<1>4. l[2] = q % N
  BY <1>2, ReachIs
<1>5. j \div u = q /\ j % u = 0
  <2> HIDE DEF u, q
  <2>1. j = u * q + 0 /\ 0 \in 0..(u - 1) /\ q \in Int
    BY <1>3
  <2>. QED
    BY <1>3, <2>1, Unique
<1>6. INDEX(j, k) = q % N
  BY <1>5 DEF INDEX
<1>. QED
  BY <1>1, <1>2, <1>4, <1>5, <1>6

(* On the first wheel.                                                      *)
LEMMA FirstWheel ==
    ASSUME NEW i, NEW e \in Ticks, NEW j \in Ticks, InReach(<<1, i>>, e, j)
    PROVE  /\ i = e % R /\ D(e, j) < R
           /\ i = j % R => e = j
           /\ i = Prior(j) % R => D(e, Prior(j)) = R
<1> DEFINE l == <<1, i>>
<1>1. /\ Unit(1) = 1 /\ Size(1) = R /\ Span(1) = R /\ l[1] = 1 /\ l[2] = i
      /\ Reached(1, e) = e
  <2>1. 1 \in Wheels
    BY DEF Wheels
  <2>. QED
    BY <2>1, Units, ReachedFacts
<1>2. l[2] = (e \div 1) % R /\ D(e, j) < R
  BY <1>1, ReachIs
<1>3. e \div 1 = e
  <2>1. e = 1 * e + 0 /\ 0 \in 0..(1 - 1) /\ 1 \in Nat \ {0} /\ e \in Int
    BY WheelFacts DEF Ticks
  <2>. QED
    BY <2>1, Unique
<1>4. /\ R \in Nat \ {0, 1} /\ R < W /\ W \in Nat /\ Prior(j) \in Ticks
      /\ D(e, j) \in Nat /\ D(e, Prior(j)) \in Nat
  BY WheelFacts, TickAfter, Dist DEF Ticks
<1>5. ASSUME i = j % R PROVE e = j
  <2>1. PICK m \in Int : D(e, j) = R * m
    BY <1>1, <1>2, <1>3, <1>5, Congruent
  <2>2. R * m = 0
    BY <1>2, <1>4, <2>1, Multiples
  <2>. QED
    BY <2>1, <2>2, Nearer
<1>6. ASSUME i = Prior(j) % R PROVE D(e, Prior(j)) = R
  <2>1. PICK m \in Int : D(e, Prior(j)) = R * m
    BY <1>1, <1>2, <1>3, <1>4, <1>6, Congruent
  <2>2. /\ D(e, Prior(j)) = (IF e = Prior(j) THEN 0 ELSE D(e, j) + 1)
        /\ (D(e, j) = W - 1 <=> e = Prior(j))
    BY Nearer
  <2>3. D(e, Prior(j)) = D(e, j) + 1
    BY <1>2, <1>4, <2>2
  <2>4. R * m \in 1..R
    BY <1>2, <1>4, <2>1, <2>3
  <2>. QED
    BY <1>4, <2>1, <2>4, Multiples
<1>. QED
  BY <1>1, <1>2, <1>3, <1>5, <1>6

----------------------------------------------------------------------------
(* Lists of timers: what is on them, and what comes before a timer.         *)
Chain(s) == s \in Seq(Timers) /\ \A p, q \in 1..Len(s) : s[p] = s[q] => p = q
Before(s, x) == {s[q] : q \in {i \in 1..Len(s) : \E p \in 1..Len(s) : i < p /\ s[p] = x}}

LEMMA ChainElements ==
    ASSUME NEW s, Chain(s)
    PROVE  /\ Len(s) \in Nat /\ DOMAIN s = 1..Len(s)
           /\ \A i \in 1..Len(s) : s[i] \in Timers /\ s[i] \in ToSet(s)
           /\ ToSet(s) = {s[i] : i \in 1..Len(s)}
           /\ ToSet(s) \subseteq Timers
           /\ s = <<>> <=> Len(s) = 0
<1>1. s \in Seq(Timers)
  BY DEF Chain
<1>2. \A i \in 1..Len(s) : s[i] \in Timers
  BY <1>1, ElementOfSeq
<1>3. Len(s) \in Nat /\ DOMAIN s = 1..Len(s)
  BY <1>1, LenProperties
<1>4. ToSet(s) = {s[i] : i \in 1..Len(s)}
  BY <1>3 DEF ToSet
<1>5. s = <<>> <=> Len(s) = 0
  BY <1>1, EmptySeq
<1>. QED
  BY <1>2, <1>3, <1>4, <1>5

LEMMA EmptyIs == Chain(<<>>) /\ ToSet(<<>>) = {}
<1>1. <<>> \in Seq(Timers) /\ Len(<<>>) = 0
  BY EmptySeq
<1>. QED
  BY <1>1 DEF Chain, ToSet

(* A timer taken out.                                                       *)
IsCut(b, s, p) == b = RemoveAt(s, p)

LEMMA CutAt ==
    ASSUME NEW s, Chain(s), NEW p \in 1..Len(s), NEW b, IsCut(b, s, p)
    PROVE  /\ b \in Seq(Timers) /\ Len(b) = Len(s) - 1
           /\ \A i \in 1..Len(b) : b[i] = IF i < p THEN s[i] ELSE s[i + 1]
<1>1. Len(s) \in Nat /\ \A i \in 1..Len(s) : s[i] \in Timers
  BY ChainElements
<1> DEFINE a1 == SubSeq(s, 1, p - 1)
           a2 == SubSeq(s, p + 1, Len(s))
<1>2. a1 \in Seq(Timers) /\ Len(a1) = p - 1 /\ \A i \in 1..(p - 1) : a1[i] = s[i]
  <2>1. \A i \in 1..(p - 1) : s[i] \in Timers
    BY <1>1
  <2>2. /\ a1 \in Seq(Timers) /\ Len(a1) = IF 1 <= p - 1 THEN p - 1 - 1 + 1 ELSE 0
        /\ \A i \in 1..(p - 1 - 1 + 1) : a1[i] = s[1 + i - 1]
    BY <1>1, <2>1, SubSeqProperties
  <2> HIDE DEF a1
  <2>. QED
    BY <1>1, <2>2
<1>3. a2 \in Seq(Timers) /\ Len(a2) = Len(s) - p /\ \A i \in 1..(Len(s) - p) : a2[i] = s[p + i]
  <2>1. \A i \in (p + 1)..Len(s) : s[i] \in Timers
    BY <1>1
  <2>2. /\ a2 \in Seq(Timers)
        /\ Len(a2) = IF p + 1 <= Len(s) THEN Len(s) - (p + 1) + 1 ELSE 0
        /\ \A i \in 1..(Len(s) - (p + 1) + 1) : a2[i] = s[p + 1 + i - 1]
    BY <1>1, <2>1, SubSeqProperties
  <2> HIDE DEF a2
  <2>3. Len(a2) = Len(s) - p
    BY <1>1, <2>2
  <2>4. ASSUME NEW i \in 1..(Len(s) - p) PROVE a2[i] = s[p + i]
    <3>1. p + 1 + i - 1 = p + i /\ i \in 1..(Len(s) - (p + 1) + 1)
      BY <1>1
    <3>. QED
      BY <2>2, <3>1
  <2>. QED
    BY <2>2, <2>3, <2>4
<1>4. b = a1 \o a2
  BY DEF RemoveAt, IsCut
<1> HIDE DEF a1, a2
<1>5. /\ b \in Seq(Timers) /\ Len(b) = Len(a1) + Len(a2)
      /\ \A i \in 1..(Len(a1) + Len(a2)) :
            b[i] = IF i <= Len(a1) THEN a1[i] ELSE a2[i - Len(a1)]
  <2>1. a1 \in Seq(Timers) /\ a2 \in Seq(Timers)
    BY <1>2, <1>3
  <2>2. /\ a1 \o a2 \in Seq(Timers) /\ Len(a1 \o a2) = Len(a1) + Len(a2)
        /\ \A i \in 1..(Len(a1) + Len(a2)) :
              (a1 \o a2)[i] = IF i <= Len(a1) THEN a1[i] ELSE a2[i - Len(a1)]
    BY <2>1, ConcatProperties
  <2>. QED
    BY <1>4, <2>2
<1>6. Len(b) = Len(s) - 1 /\ Len(b) \in Nat
  BY <1>1, <1>2, <1>3, <1>5
<1>7. ASSUME NEW i \in 1..Len(b) PROVE b[i] = IF i < p THEN s[i] ELSE s[i + 1]
  <2>1. CASE i < p
    BY <1>1, <1>2, <1>5, <1>6, <2>1
  <2>2. CASE ~(i < p)
    <3>1. b[i] = a2[i - (p - 1)] /\ i - (p - 1) \in 1..(Len(s) - p)
      BY <1>1, <1>2, <1>5, <1>6, <2>2
    <3>2. p + (i - (p - 1)) = i + 1
      BY <1>6
    <3>. QED
      BY <1>3, <2>2, <3>1, <3>2
  <2>. QED
    BY <2>1, <2>2
<1>. QED
  BY <1>5, <1>6, <1>7

IsWithout(b, s, t) == b = RemoveFirst(s, t)

LEMMA Without ==
    ASSUME NEW s, Chain(s), NEW t, NEW b, IsWithout(b, s, t)
    PROVE  /\ Chain(b) /\ ToSet(b) = ToSet(s) \ {t}
           /\ \A x : x # t => Before(b, x) \subseteq Before(s, x)
<1>1. Len(s) \in Nat /\ \A i \in 1..Len(s) : s[i] \in Timers
  BY ChainElements
<1>2. ToSet(s) = {s[i] : i \in 1..Len(s)}
  BY ChainElements
<1>3. CASE t \notin ToSet(s)
  <2>1. b = s
    BY <1>2, <1>3 DEF IsWithout, RemoveFirst
  <2>. QED
    BY <1>3, <2>1
<1>4. CASE t \in ToSet(s)
  <2> DEFINE I == {i \in 1..Len(s) : s[i] = t}
             p == Min(I)
  <2>1. I \in SUBSET Nat /\ I # {}
    BY <1>1, <1>2, <1>4
  <2>2. p \in I
    <3> HIDE DEF I
    <3>. QED
      BY <2>1, LeastNat
  <2>3. b = RemoveAt(s, p)
    BY <1>2, <1>4, <2>1 DEF IsWithout, RemoveFirst, SelectInSeq
  <2> HIDE DEF p
  <2>4. p \in 1..Len(s) /\ s[p] = t /\ IsCut(b, s, p)
    BY <2>2, <2>3 DEF IsCut
  <2> HIDE DEF I
  <2>5. /\ b \in Seq(Timers) /\ Len(b) = Len(s) - 1
        /\ \A i \in 1..Len(b) : b[i] = IF i < p THEN s[i] ELSE s[i + 1]
    BY <2>4, CutAt
  <2> DEFINE from(i) == IF i < p THEN i ELSE i + 1
  <2>6. ASSUME NEW i \in 1..Len(b)
        PROVE  from(i) \in 1..Len(s) /\ from(i) # p /\ b[i] = s[from(i)]
    <3>1. CASE i < p
      BY <1>1, <2>4, <2>5, <3>1
    <3>2. CASE ~(i < p)
      BY <1>1, <2>4, <2>5, <3>2
    <3>. QED
      BY <3>1, <3>2
  <2>7. ASSUME NEW i \in 1..Len(b), NEW j \in 1..Len(b)
        PROVE  (from(i) = from(j) => i = j) /\ (i < j => from(i) < from(j))
    BY <1>1, <2>4, <2>5
  <2>8. \A i, j \in 1..Len(s) : s[i] = s[j] => i = j
    BY DEF Chain
  <2>9. ASSUME NEW i \in 1..Len(s), i # p
        PROVE  \E j \in 1..Len(b) : from(j) = i
    <3>1. CASE i < p
      BY <1>1, <2>4, <2>5, <3>1
    <3>2. CASE i > p
      <4>1. i - 1 \in 1..Len(b) /\ ~(i - 1 < p) /\ (i - 1) + 1 = i
        BY <1>1, <2>4, <2>5, <3>2
      <4>. QED
        BY <4>1
    <3>. QED
      BY <1>1, <2>4, <2>9, <3>1, <3>2
  <2> HIDE DEF from
  <2>10. Chain(b)
    <3>1. ASSUME NEW i \in 1..Len(b), NEW j \in 1..Len(b), b[i] = b[j] PROVE i = j
      BY <2>6, <2>7, <2>8, <3>1
    <3>. QED
      BY <2>5, <3>1 DEF Chain
  <2>11. ToSet(b) = {b[i] : i \in 1..Len(b)}
    BY <2>10, ChainElements
  <2>12. ToSet(b) = ToSet(s) \ {t}
    <3>1. ASSUME NEW i \in 1..Len(b) PROVE b[i] \in ToSet(s) \ {t}
      BY <1>2, <2>4, <2>6, <2>8
    <3>2. ASSUME NEW i \in 1..Len(s), s[i] # t PROVE s[i] \in ToSet(b)
      <4>1. i # p
        BY <2>4, <3>2
      <4>2. PICK j \in 1..Len(b) : from(j) = i
        BY <2>9, <4>1
      <4>. QED
        BY <2>6, <2>11, <4>2
    <3>. QED
      BY <1>2, <2>11, <3>1, <3>2
  <2>13. ASSUME NEW x, NEW y \in Before(b, x) PROVE y \in Before(s, x)
    <3>1. PICK i \in 1..Len(b), j \in 1..Len(b) : y = b[i] /\ i < j /\ b[j] = x
      BY <2>13 DEF Before
    <3>2. /\ from(i) \in 1..Len(s) /\ from(j) \in 1..Len(s) /\ from(i) < from(j)
          /\ y = s[from(i)] /\ s[from(j)] = x
      BY <2>6, <2>7, <3>1
    <3>. QED
      BY <3>2 DEF Before
  <2>. QED
    BY <2>10, <2>12, <2>13
<1>. QED
  BY <1>3, <1>4

(* A timer put at the end.                                                  *)
IsAppended(b, s, t) == b = Append(s, t)

LEMMA Appended ==
    ASSUME NEW s, Chain(s), NEW t \in Timers, t \notin ToSet(s), NEW b, IsAppended(b, s, t)
    PROVE  /\ Chain(b) /\ ToSet(b) = ToSet(s) \union {t}
           /\ \A x : x # t => Before(b, x) \subseteq Before(s, x)
<1>1. s \in Seq(Timers) /\ Len(s) \in Nat /\ ToSet(s) = {s[i] : i \in 1..Len(s)}
  BY ChainElements DEF Chain
<1>2. /\ b \in Seq(Timers) /\ Len(b) = Len(s) + 1 /\ b[Len(s) + 1] = t
      /\ \A i \in 1..Len(s) : b[i] = s[i]
  BY <1>1, AppendProperties DEF IsAppended
<1>3. \A i \in 1..Len(b) : i = Len(s) + 1 \/ i \in 1..Len(s)
  BY <1>1, <1>2
<1>4. \A i \in 1..Len(s) : s[i] # t /\ i # Len(s) + 1 /\ i \in 1..Len(b)
  BY <1>1, <1>2
<1>5. Len(s) + 1 \in 1..Len(b)
  BY <1>1, <1>2
<1>6. Chain(b)
  <2>1. \A i, j \in 1..Len(s) : s[i] = s[j] => i = j
    BY DEF Chain
  <2>2. ASSUME NEW i \in 1..Len(b), NEW j \in 1..Len(b), b[i] = b[j] PROVE i = j
    BY <1>2, <1>3, <1>4, <2>1, <2>2
  <2>. QED
    BY <1>2, <2>2 DEF Chain
<1>7. ToSet(b) = {b[i] : i \in 1..Len(b)}
  BY <1>6, ChainElements
<1>8. ToSet(b) = ToSet(s) \union {t}
  BY <1>1, <1>2, <1>3, <1>4, <1>5, <1>7
<1>9. ASSUME NEW x, x # t, NEW y \in Before(b, x) PROVE y \in Before(s, x)
  <2>1. PICK i \in 1..Len(b), j \in 1..Len(b) : y = b[i] /\ i < j /\ b[j] = x
    BY <1>9 DEF Before
  <2>2. j \in 1..Len(s) /\ i \in 1..Len(s)
    BY <1>1, <1>2, <1>3, <1>9, <2>1
  <2>. QED
    BY <1>2, <2>1, <2>2 DEF Before
<1>. QED
  BY <1>6, <1>8, <1>9

(* The successor of a timer.                                                *)
LEMMA Successor ==
    ASSUME NEW lists, NEW l, Chain(lists[l]), NEW t, NEW x, x = NextOn(lists, l, t)
    PROVE  LET s == lists[l] IN
           /\ x # None => /\ x \in ToSet(s) /\ x # t /\ t \in ToSet(s)
                          /\ Before(s, x) \subseteq Before(s, t) \union {t}
           /\ x = None /\ t \in ToSet(s) => ToSet(s) \subseteq Before(s, t) \union {t}
           /\ t \notin ToSet(s) => x = None
<1> DEFINE s == lists[l]
           after == {i \in 1..Len(s) : i > 1 /\ s[i - 1] = t}
<1>0. /\ Len(s) \in Nat /\ DOMAIN s = 1..Len(s) /\ None \notin Timers
      /\ \A i \in 1..Len(s) : s[i] \in Timers /\ s[i] \in ToSet(s)
      /\ ToSet(s) = {s[i] : i \in 1..Len(s)}
  BY ChainElements, WheelFacts
<1>1. x = IF after = {} THEN None ELSE s[CHOOSE i \in after : TRUE]
  BY <1>0 DEF NextOn
<1>2. \A i, j \in 1..Len(s) : s[i] = s[j] => i = j
  BY DEF Chain
<1> HIDE DEF s
<1>3. CASE after = {}
  <2>1. x = None
    BY <1>1, <1>3
  <2>2. ASSUME NEW i \in 1..Len(s), s[i] = t, NEW j \in 1..Len(s), s[j] # t
        PROVE  s[j] \in Before(s, t)
    <3>1. i = Len(s)
      <4> SUFFICES ASSUME i # Len(s) PROVE FALSE
        OBVIOUS
      <4> DEFINE n == Len(s)
      <4>0. n \in Nat /\ i \in 1..n /\ i # n
        BY <1>0
      <4> HIDE DEF n
      <4>1. i + 1 \in 1..n /\ i + 1 > 1 /\ (i + 1) - 1 = i
        BY <4>0
      <4>2. i + 1 \in after
        BY <2>2, <4>1 DEF n
      <4>. QED
        BY <1>3, <4>2
    <3>2. j < i
      BY <1>0, <2>2, <3>1
    <3>. QED
      BY <2>2, <3>2 DEF Before
  <2>. QED
    BY <1>0, <2>1, <2>2 DEF s
<1>4. CASE after # {}
  <2>1. PICK i \in after : x = s[i]
    BY <1>1, <1>4
  <2>2. i \in 1..Len(s) /\ i > 1 /\ s[i - 1] = t /\ i - 1 \in 1..Len(s) /\ i - 1 # i
    BY <1>0, <2>1
  <2>3. x # None /\ x \in ToSet(s) /\ x # t /\ t \in ToSet(s)
    BY <1>0, <1>2, <2>1, <2>2
  <2>4. ASSUME NEW y \in Before(s, x), y # t PROVE y \in Before(s, t)
    <3>1. PICK q \in 1..Len(s), p \in 1..Len(s) : y = s[q] /\ q < p /\ s[p] = x
      BY <2>4 DEF Before
    <3>2. p = i
      BY <1>2, <2>1, <2>2, <3>1
    <3>3. q < i - 1
      <4>1. q # i - 1
        BY <2>2, <2>4, <3>1
      <4>2. q < i /\ q \in Nat /\ i \in Nat
        BY <1>0, <3>1, <3>2
      <4>. QED
        BY <4>1, <4>2
    <3>. QED
      BY <2>2, <3>1, <3>3 DEF Before
  <2>. QED
    BY <2>3, <2>4 DEF s
<1>. QED
  BY <1>3, <1>4

----------------------------------------------------------------------------
(* gp_next_timer.  X is the time of an expiry, counted on from tick j       *)
(* without wrapping.  Up is the list of wheel k where the search begins,    *)
(* First the tick at which the wheel gets there.                            *)
X(e, j) == j + D(e, j)
Up(j, k) == (j + Unit(k) - 1) \div Unit(k)
First(j, k) == Unit(k) * Up(j, k)
Home(j, k) == Up(j, k) % Size(k)
At(j, k, o) == (Home(j, k) + o) % Size(k)

LEMMA ModTurn ==
    ASSUME NEW a \in Int, NEW p \in Nat \ {0}, NEW m \in Int
    PROVE  (a + p * m) % p = a % p
<1> DEFINE c == a \div p
           i == a % p
           z == a + p * m
           e == c + m
<1>1. c \in Int /\ i \in 0..(p - 1) /\ a = p * c + i /\ p * c \in Int
  BY Division
<1>2. z \in Int /\ p * m \in Int
  BY Products
<1>3. p * (c + m) = p * c + p * m
  <2> HIDE DEF c
  <2>. QED
    BY <1>1, Products
<1>4. e \in Int
  BY <1>1
<1>5. i = a % p /\ z = a + p * m /\ e = c + m
  OBVIOUS
<1> HIDE DEF c, i, z, e
<1>6. z = p * e + i
  <2>1. p * e = p * c + p * m
    BY <1>3, <1>5
  <2> DEFINE x1 == p * c
             x2 == p * m
             x3 == p * e
  <2>0. i \in Int
    BY <1>1
  <2>2. x1 \in Int /\ x2 \in Int /\ i \in Int /\ x3 = x1 + x2 /\ a = x1 + i /\ z = a + x2
    BY <1>1, <1>2, <1>5, <2>0, <2>1, Zenon
  <2> HIDE DEF x1, x2, x3
  <2>3. z = x3 + i
    BY <2>2
  <2>. QED
    BY <2>3 DEF x3
<1>7. z % p = i
  BY <1>1, <1>2, <1>4, <1>6, Unique
<1>. QED
  BY <1>5, <1>7

LEMMA AddMod ==
    ASSUME NEW a \in Int, NEW o \in Int, NEW p \in Nat \ {0}
    PROVE  ((a % p) + o) % p = (a + o) % p
<1> DEFINE c == a \div p
           i == a % p
           m == -c
           x == a + o
<1>1. c \in Int /\ i \in 0..(p - 1) /\ a = p * c + i /\ p * c \in Int
  BY Division
<1>2. m \in Int /\ x \in Int
  BY <1>1
<1>3. p * m = -(p * c)
  <2> HIDE DEF c
  <2>1. p * (0 - c) = p * 0 - p * c /\ p * 0 = 0
    BY <1>1, Products
  <2>. QED
    BY <1>1, <2>1
<1>4. i + o = x + p * m
  <2> HIDE DEF c, i, m
  <2>. QED
    BY <1>1, <1>3
<1>5. (x + p * m) % p = x % p
  <2> HIDE DEF x, m
  <2>. QED
    BY <1>2, ModTurn, Zenon
<1>6. (i + o) % p = x % p
  <2> HIDE DEF i, m, x
  <2>. QED
    BY <1>4, <1>5, Zenon
<1>. QED
  BY <1>6

(* Up is the first list that is not behind j.                               *)
LEMMA UpFacts ==
    ASSUME NEW j \in Ticks, NEW k \in Wheels
    PROVE  /\ Up(j, k) \in Nat /\ First(j, k) \in Nat /\ First(j, k) = Unit(k) * Up(j, k)
           /\ j <= First(j, k) /\ First(j, k) < j + Unit(k)
           /\ \A m \in Int : j <= Unit(k) * m => Up(j, k) <= m
           /\ Home(j, k) \in 0..(Size(k) - 1)
<1> DEFINE u == Unit(k)
           y == j + u - 1
           a == y \div u
           r == y % u
           n == Size(k)
<1>1. u \in Nat \ {0} /\ j \in Nat /\ y \in Nat /\ n \in Nat \ {0}
  BY Units DEF Ticks
<1>2. a \in Nat /\ r \in 0..(u - 1) /\ y = u * a + r /\ u * a \in Int
  <2> HIDE DEF y, u
  <2>1. y \in Int /\ y >= 0
    BY <1>1
  <2>2. /\ a \in Int /\ r \in 0..(u - 1) /\ y = u * a + r /\ u * a \in Int
        /\ (y >= 0 => a >= 0)
    BY <1>1, <2>1, Division
  <2> HIDE DEF a, r
  <2>. QED
    BY <2>1, <2>2
<1>3. Up(j, k) = a /\ First(j, k) = u * a /\ y = j + u - 1 /\ Home(j, k) = a % n
  BY DEF Up, First, Home
<1> HIDE DEF u, y, a, r, n
<1>4. j <= u * a /\ u * a < j + u
  BY <1>1, <1>2, <1>3
<1>5. ASSUME NEW m \in Int, j <= u * m PROVE a <= m
  <2>1. m < a => u * m + u <= u * a
    BY <1>1, <1>2, Products
  <2>2. u * m \in Int
    BY <1>1, Products
  <2>. QED
    BY <1>1, <1>2, <1>4, <1>5, <2>1, <2>2
<1>6. a % n \in 0..(n - 1)
  BY <1>1, <1>2, Division
<1>. QED
  BY <1>1, <1>2, <1>3, <1>4, <1>5, <1>6 DEF u, n

(* Every list is visited once.                                              *)
LEMMA OneVisit ==
    ASSUME NEW j \in Ticks, NEW k \in Wheels
    PROVE  /\ \A o \in 0..(Size(k) - 1) : At(j, k, o) \in 0..(Size(k) - 1)
           /\ \A o, p \in 0..(Size(k) - 1) : At(j, k, o) = At(j, k, p) => o = p
<1> DEFINE n == Size(k)
           i == Home(j, k)
<1>1. n \in Nat \ {0} /\ i \in 0..(n - 1)
  BY Units, UpFacts
<1>2. \A o : At(j, k, o) = (i + o) % n
  BY DEF At
<1> HIDE DEF n, i
<1>3. ASSUME NEW o \in 0..(n - 1)
      PROVE  (i + o) % n = IF i + o < n THEN i + o ELSE i + o - n
  <2> DEFINE y == i + o
  <2>1. y \in Int /\ (y < n => y \in 0..(n - 1)) /\ (~(y < n) => y \in n..(2 * n - 1))
    BY <1>1
  <2>2. y = i + o
    OBVIOUS
  <2> HIDE DEF y
  <2>3. y % n = IF y < n THEN y ELSE y - n
    BY <1>1, <2>1, NearMod
  <2>. QED
    BY <1>1, <2>1, <2>2, <2>3
<1>4. \A o \in 0..(n - 1) : At(j, k, o) = IF i + o < n THEN i + o ELSE i + o - n
  BY <1>2, <1>3
<1>5. \A o \in 0..(n - 1) : At(j, k, o) \in 0..(n - 1)
  BY <1>1, <1>4
<1>6. \A o, p \in 0..(n - 1) : At(j, k, o) = At(j, k, p) => o = p
  BY <1>1, <1>4
<1>. QED
  BY <1>5, <1>6 DEF n

(* What a list that is in reach covers.                                     *)
LEMMA Visited ==
    ASSUME NEW l \in Lists, NEW e \in Ticks, NEW j \in Ticks, InReach(l, e, j)
    PROVE  \E o \in 0..(Size(l[1]) - 1) :
              /\ l[2] = At(j, l[1], o)
              /\ Unit(l[1]) * (Up(j, l[1]) + o) <= X(e, j)
              /\ X(e, j) < Unit(l[1]) * (Up(j, l[1]) + o) + Unit(l[1])
<1> DEFINE k == l[1]
           u == Unit(k)
           n == Size(k)
           q == e \div u
           r == e % u
           v == Reached(k, e)
           a == Up(j, k)
<1>1. k \in Wheels
  BY ListParts
<1>2. PICK m \in Nat \ {0} : W = Span(k) * m
  BY <1>1, Turns
<1>3. /\ u \in Nat \ {0} /\ n \in Nat \ {0} /\ Span(k) = u * n
      /\ v \in Ticks /\ v = u * q /\ q \in Nat /\ r \in 0..(u - 1) /\ e = v + r
  BY <1>1, Units, ReachedFacts
<1>4. l[2] = q % n /\ D(v, j) <= D(e, j) /\ D(v, j) < Span(k)
  BY ReachIs
<1>5. /\ a \in Nat /\ j <= u * a /\ \A i \in Int : j <= u * i => a <= i
      /\ u * a \in Int
  BY <1>1, UpFacts DEF First
<1>7. \A o : At(j, k, o) = ((a % n) + o) % n
  BY DEF At, Home
<1> HIDE DEF u, n, q, r, v, a
<1>6. /\ D(v, j) = (IF v >= j THEN v - j ELSE v - j + W)
      /\ D(e, j) = (IF e >= j THEN e - j ELSE e - j + W)
      /\ W \in Nat \ {0} /\ e \in Nat /\ j \in Nat /\ v \in Nat /\ e < W
  <2>1. W \in Nat \ {0} /\ e \in Nat /\ j \in Nat /\ v \in Nat /\ e < W
    BY <1>3, WheelFacts DEF Ticks
  <2>. QED
    BY <1>3, <2>1, Dist
<1>8. D(e, j) = D(v, j) + r
  BY <1>3, <1>4, <1>6
<1> DEFINE z == IF v >= j THEN q ELSE q + n * m
<1>9. z \in Nat /\ n * m \in Nat /\ u * n \in Nat
  BY <1>3
<1>10. u * z = j + D(v, j)
  <2>1. u * (q + n * m) = u * q + u * (n * m)
    BY <1>3, <1>9, Products
  <2>2. u * (n * m) = (u * n) * m
    BY <1>3
  <2>. QED
    BY <1>2, <1>3, <1>6, <2>1, <2>2
<1>11. z % n = q % n
  <2>1. q \in Int /\ m \in Int /\ n \in Nat \ {0}
    BY <1>3
  <2>2. (q + n * m) % n = q % n
    BY <2>1, ModTurn, Zenon
  <2>. QED
    BY <2>2
<1> HIDE DEF z
<1>12. D(v, j) \in Nat /\ D(v, j) < u * n
  BY <1>3, <1>4, <1>6, Dist DEF Ticks
<1>13. a <= z
  BY <1>5, <1>6, <1>9, <1>10, <1>12
<1>14. z < a + n
  <2>1. a + n <= z => u * (a + n) <= u * z
    BY <1>3, <1>5, <1>9, Products
  <2>2. u * (a + n) = u * a + u * n
    BY <1>3, <1>5, Products
  <2>. QED
    BY <1>3, <1>5, <1>6, <1>9, <1>10, <1>12, <2>1, <2>2
<1> DEFINE o == z - a
<1>15. o \in 0..(n - 1) /\ a + o = z
  BY <1>3, <1>5, <1>9, <1>13, <1>14
<1> HIDE DEF o
<1>16. l[2] = At(j, k, o)
  <2>1. a \in Int /\ o \in Int /\ n \in Nat \ {0}
    BY <1>3, <1>5, <1>15
  <2>2. ((a % n) + o) % n = (a + o) % n
    BY <2>1, AddMod, Zenon
  <2>. QED
    BY <1>4, <1>7, <1>11, <1>15, <2>2
<1>17. u * (a + o) <= X(e, j) /\ X(e, j) < u * (a + o) + u
  BY <1>3, <1>6, <1>8, <1>10, <1>12, <1>15 DEF X
<1>. QED
  BY <1>15, <1>16, <1>17 DEF u, n, a

(* Inside one block of a wheel numbers are in the order of times.           *)
LEMMA InBlock ==
    ASSUME NEW k \in Wheels, NEW j \in Ticks, NEW e \in Ticks, NEW f \in Ticks, NEW c \in Int,
           Unit(k) * c <= X(e, j), X(e, j) < Unit(k) * c + Unit(k),
           Unit(k) * c <= X(f, j), X(f, j) < Unit(k) * c + Unit(k), e <= f
    PROVE  D(e, j) <= D(f, j)
<1> DEFINE u == Unit(k)
<1>1. PICK m \in Nat \ {0} : W = Span(k) * m
  BY Turns
<1>2. u \in Nat \ {0} /\ Size(k) \in Nat \ {0} /\ Span(k) = u * Size(k)
  BY Units
<1> DEFINE n == Size(k) * m
<1>3. n \in Nat /\ W = u * n
  <2> DEFINE s == Size(k)
  <2>1. s \in Nat /\ W = (u * s) * m /\ n = s * m /\ m \in Nat
    BY <1>1, <1>2
  <2> HIDE DEF s, n, u
  <2>2. (u * s) * m = u * (s * m) /\ s * m \in Nat
    BY <1>2, <2>1
  <2>. QED
    BY <2>1, <2>2
<1> HIDE DEF n
<1>4. /\ D(e, j) = (IF e >= j THEN e - j ELSE e - j + W)
      /\ D(f, j) = (IF f >= j THEN f - j ELSE f - j + W)
      /\ e \in Nat /\ j \in Nat /\ f \in Nat /\ e < W /\ f < W /\ W \in Nat
  <2>1. e \in Nat /\ j \in Nat /\ f \in Nat /\ e < W /\ f < W /\ W \in Nat
    BY WheelFacts DEF Ticks
  <2>. QED
    BY <2>1, Dist
<1>5. u * c <= X(e, j) /\ X(e, j) < u * c + u /\ u * c <= X(f, j) /\ X(f, j) < u * c + u
  OBVIOUS
<1> HIDE DEF u
<1>6. u * c \in Int
  BY <1>2, Products
<1>7. SUFFICES ASSUME D(e, j) > D(f, j) PROVE FALSE
  BY <1>4
<1>8. X(e, j) = e + W /\ X(f, j) = f
  BY <1>4, <1>7 DEF X
<1>9. c < n
  <2>1. n <= c => u * n <= u * c
    BY <1>2, <1>3, Products
  <2>. QED
    BY <1>3, <1>4, <1>5, <1>6, <1>8, <2>1
<1>10. u * c + u <= u * n
  BY <1>2, <1>3, <1>9, Products
<1>. QED
  BY <1>2, <1>3, <1>4, <1>5, <1>6, <1>8, <1>10

(* The block of the next wheel, from the list that was found.               *)
LEMMA NextBlock ==
    ASSUME NEW j \in Ticks, NEW k \in 1..4
    PROVE  /\ First(j, k) <= First(j, k + 1)
           /\ \A o \in 0..(Size(k) - 1) :
                 LET from == Unit(k) * (Up(j, k) + o)
                     to == from + Unit(k)
                 IN  IF Turned(k, Home(j, k), o)
                       THEN First(j, k + 1) <= from /\ to <= First(j, k + 1) + Unit(k + 1)
                       ELSE to <= First(j, k + 1)
<1> DEFINE u == Unit(k)
           n == Size(k)
           a == Up(j, k)
           b == Up(j, k + 1)
           c == a \div n
           i == a % n
<1>1. k \in Wheels /\ k + 1 \in Wheels /\ j \in Nat
  BY DEF Wheels, Ticks
<1>2. u \in Nat \ {0} /\ n \in Nat \ {0, 1} /\ Unit(k + 1) = u * n
  BY <1>1, Units
<1>3. /\ a \in Nat /\ First(j, k) = u * a /\ j <= u * a /\ u * a \in Nat
      /\ \A m \in Int : j <= u * m => a <= m
  BY <1>1, UpFacts
<1>4. b \in Nat /\ First(j, k + 1) = (u * n) * b /\ j <= (u * n) * b /\ (u * n) * b < j + u * n
  BY <1>1, <1>2, UpFacts
<1>5. Home(j, k) = i /\ \A o : Turned(k, i, o) <=> i = 0 \/ i + o >= n
  BY DEF Home, Turned
<1>6. c \in Int /\ i \in 0..(n - 1) /\ a = n * c + i /\ n * c \in Int
  <2> HIDE DEF a, n
  <2>1. a \in Int /\ n \in Nat \ {0}
    BY <1>2, <1>3
  <2>. QED
    BY <2>1, Division
<1> HIDE DEF u, n, a, b, c, i
<1>7. (u * n) * b = u * (n * b) /\ n * b \in Nat /\ u * n \in Nat
  BY <1>2, <1>4
<1> DEFINE s == n * b
<1>8. s \in Nat /\ First(j, k + 1) = u * s /\ j <= u * s /\ u * s < j + u * n /\ u * s \in Int
  BY <1>4, <1>7
<1>9. a <= s
  <2> HIDE DEF s
  <2>. QED
    BY <1>3, <1>8
<1>10. s < a + n
  <2> HIDE DEF s
  <2>1. a + n <= s => u * (a + n) <= u * s
    BY <1>2, <1>3, <1>8, Products
  <2>2. u * (a + n) = u * a + u * n
    BY <1>2, <1>3, Products
  <2>. QED
    BY <1>1, <1>2, <1>3, <1>7, <1>8, <2>1, <2>2
<1>11. s = IF i = 0 THEN a ELSE a - i + n
  <2>0. s = n * b
    OBVIOUS
  <2> HIDE DEF s
  <2>1. (b < c => n * b + n <= n * c) /\ (c < b => n * c + n <= n * b)
    BY <1>2, <1>4, <1>6, Products
  <2>2. c + 1 < b => n * (c + 1) + n <= n * b
    BY <1>2, <1>4, <1>6, Products
  <2>3. n * (c + 1) = n * c + n
    BY <1>2, <1>6, Products
  <2>4. b < c \/ b = c \/ b = c + 1 \/ c + 1 < b
    BY <1>4, <1>6
  <2>5. b = c + 1 => s = n * c + n
    BY <2>0, <2>3
  <2>6. b = c => s = n * c
    BY <2>0
  <2>. QED
    BY <1>2, <1>3, <1>6, <1>8, <1>9, <1>10, <2>0, <2>1, <2>2, <2>3, <2>4, <2>5, <2>6
<1> HIDE DEF s
<1>12. First(j, k) <= First(j, k + 1)
  BY <1>2, <1>3, <1>8, <1>9, Products
<1>13. ASSUME NEW o \in 0..(n - 1)
       PROVE  IF Turned(k, i, o)
                THEN First(j, k + 1) <= u * (a + o) /\ u * (a + o) + u <= First(j, k + 1) + Unit(k + 1)
                ELSE u * (a + o) + u <= First(j, k + 1)
  <2> DEFINE x == a + o
             y == s + n
             z == x + 1
  <2>1. x \in Int /\ y \in Int /\ z \in Int
    BY <1>2, <1>3, <1>8
  <2>2. IF Turned(k, i, o) THEN s <= x /\ z <= y ELSE z <= s
    BY <1>2, <1>3, <1>5, <1>6, <1>11
  <2>3. u * z = u * x + u /\ u * y = u * s + u * n /\ u * x \in Int
    <3> HIDE DEF x
    <3>. QED
      BY <1>2, <1>8, <2>1, Products
  <2> HIDE DEF x, y, z
  <2>4. (s <= x => u * s <= u * x) /\ (z <= y => u * z <= u * y) /\ (z <= s => u * z <= u * s)
    BY <1>2, <1>8, <2>1, Products
  <2>5. IF Turned(k, i, o) THEN u * s <= u * x /\ u * x + u <= u * s + u * n ELSE u * x + u <= u * s
    BY <2>2, <2>3, <2>4
  <2>. QED
    BY <1>2, <1>8, <2>5 DEF x
<1>. QED
  BY <1>5, <1>12, <1>13 DEF u, n, a

(* The lists that are searched, and the state of the search.                *)
Times(tm) == \A t \in Timers : tm[t].expires \in Ticks
Chains(lists) == \A l \in Lists : Chain(lists[l])
Near(lists, tm, j) == \A l \in Lists : \A t \in ToSet(lists[l]) : InReach(l, tm[t].expires, j)
Accs == [expires : Ticks, found : BOOLEAN, done : BOOLEAN]

(* What is found on list i of wheel k: on wheel 1 all have one time.        *)
LEMMA FoundFacts ==
    ASSUME NEW lists, Chains(lists), NEW tm, Times(tm), NEW k \in Wheels, NEW i \in 0..(Size(k) - 1),
           lists[<<k, i>>] # <<>>
    PROVE  /\ Found(lists, tm, k, i) \in SUBSET Ticks /\ Found(lists, tm, k, i) # {}
           /\ \A y \in Found(lists, tm, k, i) : \E t \in ToSet(lists[<<k, i>>]) : y = tm[t].expires
           /\ \A j \in Ticks : Near(lists, tm, j) =>
                 \A t \in ToSet(lists[<<k, i>>]) : tm[t].expires \in Found(lists, tm, k, i)
<1> DEFINE l == <<k, i>>
           s == lists[l]
           h == Head(s)
           F == Found(lists, tm, k, i)
<1>1. l \in Lists /\ l[1] = k /\ l[2] = i
  BY ListParts
<1>2. Chain(s)
  BY <1>1 DEF Chains
<1>3. /\ Len(s) \in Nat /\ (\A p \in 1..Len(s) : s[p] \in Timers /\ s[p] \in ToSet(s))
      /\ ToSet(s) \subseteq Timers /\ Len(s) # 0 /\ s \in Seq(Timers)
  <2> HIDE DEF s
  <2>1. s # <<>>
    BY DEF s
  <2>. QED
    BY <1>2, <2>1, ChainElements DEF Chain
<1>4. h = s[1]
  <2> HIDE DEF s
  <2>1. s # <<>>
    BY DEF s
  <2>. QED
    BY <1>3, <2>1, HeadTailProperties DEF h
<1>5. h \in ToSet(s) /\ h \in Timers
  <2>1. 1 \in 1..Len(s)
    BY <1>3
  <2>. QED
    BY <1>3, <1>4, <2>1
<1>6. F = IF k = 1 THEN {tm[h].expires} ELSE {tm[t].expires : t \in ToSet(s)}
  BY DEF Found
<1>7. \A t \in ToSet(s) : tm[t].expires \in Ticks
  BY <1>3 DEF Times
<1> HIDE DEF h, s
<1>8. F \in SUBSET Ticks /\ F # {} /\ \A y \in F : \E t \in ToSet(s) : y = tm[t].expires
  <2> HIDE DEF F
  <2>1. CASE k = 1
    <3>1. F = {tm[h].expires}
      BY <1>6, <2>1
    <3>. QED
      BY <1>5, <1>7, <3>1
  <2>2. CASE k # 1
    <3>1. F = {tm[t].expires : t \in ToSet(s)}
      BY <1>6, <2>2
    <3>. QED
      BY <1>5, <1>7, <3>1
  <2>. QED
    BY <2>1, <2>2
<1>9. ASSUME NEW j \in Ticks, Near(lists, tm, j), NEW t \in ToSet(s) PROVE tm[t].expires \in F
  <2>1. CASE k # 1
    BY <1>6, <2>1
  <2>2. CASE k = 1
    <3> DEFINE e == tm[t].expires
               f == tm[h].expires
               a == Up(j, 1)
    <3>1. e \in Ticks /\ f \in Ticks /\ InReach(l, e, j) /\ InReach(l, f, j)
      BY <1>1, <1>5, <1>7, <1>9 DEF Near, s
    <3> HIDE DEF e, f
    <3>2. PICK o \in 0..(Size(l[1]) - 1) :
              /\ l[2] = At(j, l[1], o) /\ Unit(l[1]) * (Up(j, l[1]) + o) <= X(e, j)
              /\ X(e, j) < Unit(l[1]) * (Up(j, l[1]) + o) + Unit(l[1])
      BY <1>1, <3>1, Visited
    <3>3. PICK p \in 0..(Size(l[1]) - 1) :
              /\ l[2] = At(j, l[1], p) /\ Unit(l[1]) * (Up(j, l[1]) + p) <= X(f, j)
              /\ X(f, j) < Unit(l[1]) * (Up(j, l[1]) + p) + Unit(l[1])
      BY <1>1, <3>1, Visited
    <3>4. o = p
      <4>1. o \in 0..(Size(k) - 1) /\ p \in 0..(Size(k) - 1) /\ At(j, k, o) = At(j, k, p)
        BY <1>1, <3>2, <3>3
      <4>. QED
        BY <4>1, OneVisit
    <3>5. Unit(1) = 1 /\ a \in Nat /\ Size(1) \in Nat /\ Size(1) = R
      <4>1. 1 \in Wheels
        BY DEF Wheels
      <4>. QED
        BY <4>1, Units, UpFacts
    <3>6. 1 * (a + o) <= X(e, j) /\ X(e, j) < 1 * (a + o) + 1 /\ 1 * (a + o) <= X(f, j) /\ X(f, j) < 1 * (a + o) + 1
      BY <1>1, <2>2, <3>2, <3>3, <3>4, <3>5
    <3>7. /\ D(e, j) = (IF e >= j THEN e - j ELSE e - j + W) /\ D(f, j) = (IF f >= j THEN f - j ELSE f - j + W)
          /\ D(e, j) \in Ticks /\ D(f, j) \in Ticks
      BY <3>1, Dist
    <3>8. e \in Nat /\ f \in Nat /\ j \in Nat /\ W \in Nat /\ o \in Nat /\ D(e, j) \in Nat /\ D(f, j) \in Nat
          /\ e < W /\ f < W
      BY <1>1, <2>2, <3>1, <3>5, <3>7, WheelFacts DEF Ticks
    <3>9. D(e, j) = D(f, j)
      <4>1. X(e, j) = j + D(e, j) /\ X(f, j) = j + D(f, j)
        BY DEF X
      <4> HIDE DEF a
      <4>. QED
        BY <3>5, <3>6, <3>8, <4>1
    <3>10. e = f
      BY <3>7, <3>8, <3>9
    <3>. QED
      BY <1>6, <2>2, <3>10 DEF e, f
  <2>. QED
    BY <2>1, <2>2
<1>. QED
  BY <1>8, <1>9 DEF s

(* One wheel: it is passed over, or the list o further on is looked at.     *)
Looked(c, acc, j, lists, tm, k, o, seen) ==
    /\ o \in 0..(Size(k) - 1) /\ seen \in SUBSET Ticks /\ ~acc.done
    /\ c = [expires |-> c.expires, found |-> TRUE, done |-> ~Turned(k, Home(j, k), o)]
    /\ c.expires \in seen \union {acc.expires}
    /\ \A y \in seen \union {acc.expires} : c.expires <= y
    /\ acc.found => o = 0
    /\ ~acc.found => /\ seen # {}
                     /\ \A p \in 0..(o - 1) : lists[<<k, At(j, k, p)>>] = <<>>
    /\ IF lists[<<k, At(j, k, o)>>] = <<>> THEN seen = {}
                                           ELSE seen = Found(lists, tm, k, At(j, k, o))

LEMMA AccIs ==
    ASSUME NEW x \in Ticks, NEW f \in BOOLEAN, NEW d \in BOOLEAN
    PROVE  [expires |-> x, found |-> f, done |-> d] \in Accs
BY DEF Accs

LEMMA SearchIs ==
    ASSUME NEW lists, Chains(lists), NEW tm, Times(tm), NEW k \in Wheels, NEW j \in Ticks,
           NEW acc \in Accs, NEW c, c = Search(acc, j, lists, tm, k)
    PROVE  /\ c \in Accs
           /\ \/ /\ c = acc
                 /\ acc.done \/ (~acc.found /\ \A o \in 0..(Size(k) - 1) : lists[<<k, At(j, k, o)>>] = <<>>)
              \/ \E o, seen : Looked(c, acc, j, lists, tm, k, o, seen)
<1> DEFINE full == {o \in 0..(Size(k) - 1) : lists[<<k, At(j, k, o)>>] # <<>>}
           o == IF acc.found THEN 0 ELSE Min(full)
           seen == IF o \in full THEN Found(lists, tm, k, At(j, k, o)) ELSE {}
           all == seen \union {acc.expires}
<1>1. c = IF acc.done \/ (~acc.found /\ full = {}) THEN acc
          ELSE [expires |-> Min(all), found |-> TRUE, done |-> ~Turned(k, Home(j, k), o)]
  BY Zenon DEF Search, At, Home, Up
<1>2. CASE acc.done \/ (~acc.found /\ full = {})
  BY <1>1, <1>2
<1>3. CASE ~acc.done /\ (acc.found \/ full # {})
  <2>1. Size(k) \in Nat \ {0}
    BY Units
  <2>2. ~acc.found => o \in full /\ \A p \in full : o <= p
    <3>1. full \in SUBSET Nat
      BY <2>1
    <3> HIDE DEF full
    <3>. QED
      BY <1>3, <3>1, LeastNat
  <2>3. o \in 0..(Size(k) - 1)
    <3>1. 0 \in 0..(Size(k) - 1)
      BY <2>1
    <3>2. full \subseteq 0..(Size(k) - 1)
      OBVIOUS
    <3> HIDE DEF full
    <3>. QED
      BY <2>2, <3>1, <3>2
  <2>4. o \in full <=> lists[<<k, At(j, k, o)>>] # <<>>
    <3> HIDE DEF o
    <3>. QED
      BY <2>3
  <2>5. acc.found => o = 0
    OBVIOUS
  <2> HIDE DEF o
  <2>6. seen \in SUBSET Ticks /\ (~acc.found => seen # {})
    <3>1. CASE o \in full
      <4>1. At(j, k, o) \in 0..(Size(k) - 1)
        BY <2>3, OneVisit
      <4>2. Found(lists, tm, k, At(j, k, o)) \in SUBSET Ticks /\ Found(lists, tm, k, At(j, k, o)) # {}
        BY <2>4, <3>1, <4>1, FoundFacts
      <4>. QED
        BY <3>1, <4>2
    <3>2. CASE o \notin full
      BY <2>2, <3>2
    <3>. QED
      BY <3>1, <3>2
  <2>7. ASSUME ~acc.found, NEW p \in 0..(o - 1) PROVE lists[<<k, At(j, k, p)>>] = <<>>
    <3>1. p \in 0..(Size(k) - 1) /\ ~(o <= p)
      BY <2>1, <2>3
    <3>2. p \notin full
      <4> HIDE DEF full
      <4>. QED
        BY <2>2, <2>7, <3>1
    <3>. QED
      BY <3>1, <3>2
  <2>8. IF lists[<<k, At(j, k, o)>>] = <<>> THEN seen = {} ELSE seen = Found(lists, tm, k, At(j, k, o))
    BY <2>4
  <2> HIDE DEF seen, full
  <2>9. all \in SUBSET Nat /\ all # {} /\ all \subseteq Ticks
    <3>1. acc.expires \in Ticks
      BY DEF Accs
    <3>2. Ticks \subseteq Nat
      BY WheelFacts DEF Ticks
    <3>. QED
      BY <2>6, <3>1, <3>2
  <2>10. Min(all) \in all /\ \A y \in all : Min(all) <= y
    <3> HIDE DEF all
    <3>. QED
      BY <2>9, LeastNat
  <2>11. c = [expires |-> Min(all), found |-> TRUE, done |-> ~Turned(k, Home(j, k), o)]
    BY <1>1, <1>3
  <2>12. c.expires = Min(all)
    <3> HIDE DEF all
    <3>. QED
      BY <2>11
  <2>13. c.expires \in all /\ \A y \in all : c.expires <= y
    BY <2>10, <2>12
  <2>14. c = [expires |-> c.expires, found |-> TRUE, done |-> ~Turned(k, Home(j, k), o)]
    BY <2>11, <2>12
  <2>15. c \in Accs
    <3>1. c.expires \in Ticks
      BY <2>9, <2>13
    <3> DEFINE x == c.expires
               d == ~Turned(k, Home(j, k), o)
    <3>2. d \in BOOLEAN /\ TRUE \in BOOLEAN
      OBVIOUS
    <3>3. c = [expires |-> x, found |-> TRUE, done |-> d] /\ x \in Ticks
      BY <2>14, <3>1, Zenon
    <3> HIDE DEF x, d
    <3>. QED
      BY <3>2, <3>3, AccIs, Zenon
  <2>16. Looked(c, acc, j, lists, tm, k, o, seen)
    BY <1>3, <2>3, <2>5, <2>6, <2>7, <2>8, <2>13, <2>14 DEF Looked
  <2>17. \E x, y : Looked(c, acc, j, lists, tm, k, x, y)
    BY <2>16, Zenon
  <2>. QED
    BY <2>15, <2>17
<1>. QED
  BY <1>2, <1>3

LEMMA FirstUp ==
    ASSUME NEW j \in Ticks, NEW k \in Wheels, NEW m \in Wheels, k <= m
    PROVE  First(j, k) <= First(j, m)
<1>1. /\ First(j, 1) <= First(j, 1 + 1) /\ First(j, 2) <= First(j, 2 + 1)
      /\ First(j, 3) <= First(j, 3 + 1) /\ First(j, 4) <= First(j, 4 + 1)
  BY NextBlock
<1>2. First(j, 1) <= First(j, 2) /\ First(j, 2) <= First(j, 3) /\ First(j, 3) <= First(j, 4) /\ First(j, 4) <= First(j, 5)
  BY <1>1
<1>3. /\ First(j, 1) \in Nat /\ First(j, 2) \in Nat /\ First(j, 3) \in Nat
      /\ First(j, 4) \in Nat /\ First(j, 5) \in Nat
  BY UpFacts DEF Wheels
<1>4. k = 1 \/ k = 2 \/ k = 3 \/ k = 4 \/ k = 5
  BY DEF Wheels
<1>5. m = 1 \/ m = 2 \/ m = 3 \/ m = 4 \/ m = 5
  BY DEF Wheels
<1>. QED
  BY <1>2, <1>3, <1>4, <1>5

(* After wheels 1 to k: what was found is the next of their timers, and of  *)
(* all timers if the search is over; otherwise it is in the first block of  *)
(* the next wheel.                                                          *)
Searched(acc, j, lists, tm, k) ==
    /\ acc \in Accs
    /\ ~acc.found => /\ ~acc.done /\ acc.expires = W - 1
                     /\ \A l \in Lists : l[1] <= k => ToSet(lists[l]) = {}
    /\ acc.found => \A l \in Lists : l[1] <= k \/ acc.done =>
                        \A t \in ToSet(lists[l]) : D(acc.expires, j) <= D(tm[t].expires, j)
    /\ acc.found /\ ~acc.done /\ k < 5 =>
           /\ First(j, k + 1) <= X(acc.expires, j)
           /\ X(acc.expires, j) < First(j, k + 1) + Unit(k + 1)

LEMMA SearchStep ==
    ASSUME NEW lists, Chains(lists), NEW tm, Times(tm), NEW k \in Wheels, NEW j \in Ticks,
           Near(lists, tm, j), NEW acc, Searched(acc, j, lists, tm, k - 1),
           NEW c, c = Search(acc, j, lists, tm, k)
    PROVE  Searched(c, j, lists, tm, k)
<1> DEFINE u == Unit(k)
           a == Up(j, k)
           e(t) == tm[t].expires
<1>1. acc \in Accs /\ k \in Nat /\ k - 1 < 5 /\ (k - 1) + 1 = k
  BY DEF Searched, Wheels
<1>2. /\ u \in Nat \ {0} /\ a \in Nat /\ First(j, k) = u * a
      /\ \A o \in Int : u * (a + o) = u * a + u * o /\ u * (a + o) \in Int
  <2>1. u \in Nat \ {0} /\ a \in Nat /\ First(j, k) = u * a
    BY Units, UpFacts
  <2> HIDE DEF u, a
  <2>2. ASSUME NEW o \in Int PROVE u * (a + o) = u * a + u * o /\ u * (a + o) \in Int
    BY <2>1, Products
  <2>. QED
    BY <2>1, <2>2
<1>3. ASSUME NEW l \in Lists, NEW t \in ToSet(lists[l])
      PROVE  t \in Timers /\ e(t) \in Ticks /\ InReach(l, e(t), j)
  <2>1. Chain(lists[l])
    BY DEF Chains
  <2>2. t \in Timers
    <3> DEFINE s == lists[l]
    <3> HIDE DEF s
    <3>1. Chain(s) /\ t \in ToSet(s)
      BY <1>3, <2>1 DEF s
    <3>. QED
      BY <3>1, ChainElements
  <2>. QED
    BY <2>2 DEF Times, Near
<1>4. ASSUME NEW l \in Lists, l[1] = k, NEW t \in ToSet(lists[l])
      PROVE  \E p \in 0..(Size(k) - 1) :
                l[2] = At(j, k, p) /\ u * (a + p) <= X(e(t), j) /\ X(e(t), j) < u * (a + p) + u
  <2>1. InReach(l, e(t), j) /\ e(t) \in Ticks
    BY <1>3
  <2> HIDE DEF e
  <2>. QED
    BY <1>4, <2>1, Visited
<1>5. ASSUME NEW y \in Ticks PROVE X(y, j) = j + D(y, j) /\ X(y, j) \in Nat /\ D(y, j) \in Nat /\ j \in Nat
  <2>1. D(y, j) \in Ticks
    BY Dist
  <2>2. D(y, j) \in Nat /\ j \in Nat
    BY <2>1, WheelFacts DEF Ticks
  <2>. QED
    BY <2>2 DEF X
<1>6. c \in Accs
  BY <1>1, SearchIs
<1> HIDE DEF u, a
<1>7. CASE c = acc /\ acc.done
  <2>1. acc.found
    BY <1>7 DEF Searched
  <2>. QED
    BY <1>1, <1>7, <2>1 DEF Searched
<1>8. CASE c = acc /\ ~acc.found /\ \A o \in 0..(Size(k) - 1) : lists[<<k, At(j, k, o)>>] = <<>>
  <2>1. ASSUME NEW l \in Lists, l[1] <= k PROVE ToSet(lists[l]) = {}
    <3>1. CASE l[1] <= k - 1
      BY <1>8, <3>1 DEF Searched
    <3>2. CASE l[1] = k
      <4> SUFFICES ASSUME NEW t \in ToSet(lists[l]) PROVE FALSE
        OBVIOUS
      <4>1. PICK p \in 0..(Size(k) - 1) : l[2] = At(j, k, p)
        BY <1>4, <3>2
      <4>2. lists[<<k, At(j, k, p)>>] = <<>> /\ l = <<k, At(j, k, p)>>
        BY <1>8, <3>2, <4>1, ListParts
      <4>. QED
        BY <4>2, EmptyIs
    <3>3. l[1] \in Nat
      BY ListParts DEF Wheels
    <3>. QED
      BY <1>1, <2>1, <3>1, <3>2, <3>3
  <2>. QED
    BY <1>8, <2>1 DEF Searched
<1>9. ASSUME NEW o, NEW seen, Looked(c, acc, j, lists, tm, k, o, seen) PROVE Searched(c, j, lists, tm, k)
  <2> DEFINE z == c.expires
             b == u * (a + o)
  <2>1. /\ o \in 0..(Size(k) - 1) /\ o \in Nat /\ seen \subseteq Ticks /\ ~acc.done
        /\ c.found /\ c.done = ~Turned(k, Home(j, k), o)
        /\ z \in seen \union {acc.expires} /\ (\A y \in seen \union {acc.expires} : z <= y)
        /\ (acc.found => o = 0)
        /\ (~acc.found => seen # {} /\ \A p \in 0..(o - 1) : lists[<<k, At(j, k, p)>>] = <<>>)
    <3>1. Size(k) \in Nat
      BY Units
    <3>. QED
      BY <1>9, <3>1 DEF Looked
  <2>2. z \in Ticks /\ acc.expires \in Ticks
    BY <1>1, <1>6 DEF Accs
  <2>3. b \in Int
    BY <1>2, <2>1
  <2>4. ASSUME NEW y \in seen PROVE b <= X(y, j) /\ X(y, j) < b + u
    <3> DEFINE i == At(j, k, o)
               l == <<k, i>>
    <3>1. i \in 0..(Size(k) - 1) /\ l \in Lists /\ l[1] = k /\ l[2] = i
      BY <2>1, OneVisit, ListParts
    <3>2. lists[l] # <<>> /\ seen = Found(lists, tm, k, i)
      BY <1>9, <2>4 DEF Looked
    <3>3. PICK t \in ToSet(lists[l]) : y = e(t)
      <4> HIDE DEF i
      <4>. QED
        BY <2>4, <3>1, <3>2, FoundFacts
    <3>4. PICK p \in 0..(Size(k) - 1) :
                i = At(j, k, p) /\ u * (a + p) <= X(e(t), j) /\ X(e(t), j) < u * (a + p) + u
      BY <1>4, <3>1
    <3>5. p = o
      BY <2>1, <3>4, OneVisit
    <3>. QED
      BY <3>3, <3>4, <3>5
  <2>5. b <= X(z, j) /\ X(z, j) < b + u
    <3>1. CASE z \in seen
      BY <2>4, <3>1
    <3>2. CASE z \notin seen /\ acc.found
      <4>1. z = acc.expires /\ First(j, k) <= X(z, j) /\ X(z, j) < First(j, k) + Unit(k)
        BY <1>1, <2>1, <3>2 DEF Searched
      <4>2. b = First(j, k)
        <5>1. a + o = a
          BY <1>2, <2>1, <3>2
        <5>. QED
          BY <1>2, <5>1
      <4>. QED
        BY <4>1, <4>2 DEF u
    <3>3. CASE z \notin seen /\ ~acc.found
      <4>1. z = W - 1 /\ seen # {}
        BY <2>1, <3>3 DEF Searched
      <4>2. PICK y \in seen : TRUE
        BY <4>1
      <4>3. y \in Ticks /\ z <= y
        BY <2>1, <4>2
      <4>4. y = z
        BY <4>1, <4>3, WheelFacts DEF Ticks
      <4>. QED
        BY <3>3, <4>2, <4>4
    <3>. QED
      BY <3>1, <3>2, <3>3
  <2>6. ASSUME NEW y \in Ticks, b <= X(y, j), X(y, j) < b + u, z <= y PROVE D(z, j) <= D(y, j)
    <3> DEFINE n == a + o
    <3>1. n \in Int /\ Unit(k) * n <= X(y, j) /\ X(y, j) < Unit(k) * n + Unit(k)
          /\ Unit(k) * n <= X(z, j) /\ X(z, j) < Unit(k) * n + Unit(k)
      BY <1>2, <2>1, <2>5, <2>6 DEF u
    <3> HIDE DEF n, z
    <3>. QED
      BY <2>2, <2>6, <3>1, InBlock
  <2> HIDE DEF z
  <2>7. ASSUME NEW l \in Lists, l[1] = k, NEW t \in ToSet(lists[l]) PROVE D(z, j) <= D(e(t), j)
    <3>0. e(t) \in Ticks
      BY <1>3
    <3>1. PICK p \in 0..(Size(k) - 1) :
              l[2] = At(j, k, p) /\ u * (a + p) <= X(e(t), j) /\ X(e(t), j) < u * (a + p) + u
      BY <1>4, <2>7
    <3>2. p \in Nat /\ l = <<k, At(j, k, p)>>
      BY <2>7, <3>1, Units, ListParts
    <3>3. CASE p < o
      <4>1. p \in 0..(o - 1) /\ ~acc.found
        BY <2>1, <3>2, <3>3
      <4>2. lists[l] = <<>>
        BY <2>1, <3>2, <4>1
      <4>. QED
        BY <2>7, <4>2, EmptyIs
    <3>4. CASE p = o
      <4>1. lists[l] # <<>>
        BY <2>7, EmptyIs
      <4>2. seen = Found(lists, tm, k, At(j, k, o))
        BY <1>9, <3>2, <3>4, <4>1 DEF Looked
      <4>3. e(t) \in seen
        <5> DEFINE i == At(j, k, o)
        <5>1. i \in 0..(Size(k) - 1) /\ lists[<<k, i>>] # <<>> /\ t \in ToSet(lists[<<k, i>>])
          BY <2>1, <2>7, <3>2, <3>4, <4>1, OneVisit
        <5>2. seen = Found(lists, tm, k, i)
          BY <4>2
        <5> HIDE DEF i
        <5>. QED
          BY <5>1, <5>2, FoundFacts
      <4>4. z <= e(t) /\ b <= X(e(t), j) /\ X(e(t), j) < b + u
        BY <2>1, <2>4, <4>3 DEF z
      <4> HIDE DEF e, b
      <4>. QED
        BY <2>6, <3>0, <4>4
    <3>5. CASE o < p
      <4>1. a + o < a + p /\ a + o \in Int /\ a + p \in Int
        BY <1>2, <2>1, <3>2, <3>5
      <4>2. b + u <= u * (a + p)
        <5> DEFINE x == a + o
                   y == a + p
        <5>1. x \in Int /\ y \in Int /\ x < y
          BY <4>1
        <5> HIDE DEF x, y
        <5>2. u * x + u <= u * y
          BY <1>2, <5>1, Products
        <5>. QED
          BY <5>2 DEF x, y
      <4>3. X(z, j) = j + D(z, j) /\ X(e(t), j) = j + D(e(t), j)
            /\ D(z, j) \in Nat /\ D(e(t), j) \in Nat /\ j \in Nat
        BY <1>5, <2>2, <3>0 DEF z
      <4>4. u * (a + p) \in Int /\ u \in Nat
        BY <1>2, <4>1, <3>2
      <4> DEFINE x == u * (a + p)
      <4>5. x \in Int /\ b + u <= x /\ x <= X(e(t), j) /\ X(z, j) < b + u
        BY <2>5, <3>1, <4>2, <4>4 DEF z
      <4> HIDE DEF x, b, e
      <4>. QED
        BY <2>3, <4>3, <4>4, <4>5
    <3>. QED
      BY <2>1, <3>2, <3>3, <3>4, <3>5
  <2>8. ASSUME NEW l \in Lists, l[1] <= k - 1, NEW t \in ToSet(lists[l]) PROVE D(z, j) <= D(e(t), j)
    <3>1. acc.found
      BY <2>8 DEF Searched
    <3>2. /\ D(acc.expires, j) <= D(e(t), j) /\ e(t) \in Ticks
          /\ First(j, k) <= X(acc.expires, j) /\ X(acc.expires, j) < First(j, k) + u
      BY <1>1, <1>3, <2>1, <2>8, <3>1 DEF Searched, u
    <3>3. b = First(j, k)
      <4>1. a + o = a
        BY <1>2, <2>1, <3>1
      <4>. QED
        BY <1>2, <4>1
    <3>4. z <= acc.expires
      BY <2>1 DEF z
    <3>5. D(z, j) <= D(acc.expires, j)
      <4> HIDE DEF b
      <4>. QED
        BY <2>2, <2>6, <3>2, <3>3, <3>4
    <3>6. D(z, j) \in Nat /\ D(acc.expires, j) \in Nat /\ D(e(t), j) \in Nat
      BY <1>5, <2>2, <3>2 DEF z
    <3>. QED
      BY <3>2, <3>5, <3>6
  <2>9. ASSUME NEW l \in Lists, l[1] > k, c.done, NEW t \in ToSet(lists[l]) PROVE D(z, j) <= D(e(t), j)
    <3>0. e(t) \in Ticks /\ InReach(l, e(t), j) /\ l[1] \in Wheels /\ k \in 1..4 /\ k + 1 <= l[1] /\ k + 1 \in Wheels
      BY <1>3, <2>9, ListParts DEF Wheels
    <3>1. ~Turned(k, Home(j, k), o)
      BY <2>1, <2>9
    <3>2. b + u <= First(j, k + 1)
      BY <2>1, <3>0, <3>1, NextBlock DEF u, a
    <3>3. First(j, k + 1) <= First(j, l[1])
      BY <3>0, FirstUp
    <3>4. First(j, l[1]) <= X(e(t), j)
      <4> DEFINE m == l[1]
                 um == Unit(m)
                 am == Up(j, m)
      <4> HIDE DEF e
      <4>1. PICK p \in 0..(Size(m) - 1) : um * (am + p) <= X(e(t), j)
        BY <3>0, Visited
      <4>2. um \in Nat \ {0} /\ am \in Nat /\ First(j, m) = um * am /\ Size(m) \in Nat /\ p \in Nat
        <5>1. Size(m) \in Nat
          BY <3>0, Units
        <5>2. p \in Nat
          BY <4>1, <5>1
        <5>. QED
          BY <3>0, <5>1, <5>2, Units, UpFacts
      <4> HIDE DEF um, am
      <4>3. um * (am + p) = um * am + um * p /\ um * 0 <= um * p /\ um * 0 = 0 /\ um * am \in Int /\ um * p \in Int
        BY <4>2, Products
      <4>4. X(e(t), j) \in Nat
        BY <1>5, <3>0 DEF e
      <4>. QED
        BY <4>1, <4>2, <4>3, <4>4
    <3>5. /\ X(z, j) = j + D(z, j) /\ X(e(t), j) = j + D(e(t), j)
          /\ D(z, j) \in Nat /\ D(e(t), j) \in Nat /\ j \in Nat
      BY <1>5, <2>2, <3>0 DEF z
    <3>6. First(j, k + 1) \in Nat /\ First(j, l[1]) \in Nat
      BY <3>0, UpFacts
    <3>7. X(z, j) < b + u
      BY <2>5 DEF z
    <3> HIDE DEF e, b
    <3>. QED
      BY <1>2, <2>3, <3>2, <3>3, <3>4, <3>5, <3>6, <3>7
  <2>10. ASSUME ~c.done, k < 5
         PROVE  First(j, k + 1) <= X(z, j) /\ X(z, j) < First(j, k + 1) + Unit(k + 1)
    <3>0. Turned(k, Home(j, k), o)
      BY <2>1, <2>10, Zenon
    <3>1. k \in 1..4 /\ k + 1 \in Wheels /\ Turned(k, Home(j, k), o)
      BY <2>10, <3>0 DEF Wheels
    <3>2. First(j, k + 1) <= b /\ b + u <= First(j, k + 1) + Unit(k + 1)
      BY <2>1, <3>1, NextBlock DEF u, a
    <3>3. First(j, k + 1) \in Nat /\ Unit(k + 1) \in Nat /\ X(z, j) \in Nat
      BY <1>5, <2>2, <3>1, UpFacts, Units DEF z
    <3>4. b <= X(z, j) /\ X(z, j) < b + u
      BY <2>5 DEF z
    <3> HIDE DEF b
    <3>. QED
      BY <1>2, <2>3, <3>2, <3>3, <3>4
  <2>11. ASSUME NEW l \in Lists, l[1] <= k \/ c.done, NEW t \in ToSet(lists[l]) PROVE D(z, j) <= D(e(t), j)
    <3>1. l[1] \in Nat
      BY ListParts DEF Wheels
    <3>2. l[1] <= k - 1 \/ l[1] = k \/ l[1] > k
      BY <1>1, <3>1
    <3>. QED
      BY <1>1, <2>7, <2>8, <2>9, <2>11, <3>1, <3>2
  <2>. QED
    BY <1>6, <2>1, <2>10, <2>11 DEF Searched, z
<1>. QED
  BY <1>1, <1>7, <1>8, <1>9, SearchIs

(* gp_next_timer returns a tick, and the next timer's if every list is in   *)
(* reach.                                                                   *)
LEMMA NextTyped ==
    ASSUME NEW lists, Chains(lists), NEW tm, Times(tm), NEW j \in Ticks
    PROVE  gp_next_timer(j, lists, tm) \in Ticks
<1> DEFINE start == [expires |-> W - 1, found |-> FALSE, done |-> FALSE]
           c1 == Search(start, j, lists, tm, 1)
           c2 == Search(c1, j, lists, tm, 2)
           c3 == Search(c2, j, lists, tm, 3)
           c4 == Search(c3, j, lists, tm, 4)
           c5 == Search(c4, j, lists, tm, 5)
<1>1. start \in Accs
  <2>1. W - 1 \in Ticks
    BY WheelFacts DEF Ticks
  <2>. QED
    BY <2>1, AccIs
<1>2. gp_next_timer(j, lists, tm) = c5.expires
  BY DEF gp_next_timer
<1>3. ASSUME NEW acc \in Accs, NEW k \in Wheels PROVE Search(acc, j, lists, tm, k) \in Accs
  BY SearchIs
<1>4. 1 \in Wheels /\ 2 \in Wheels /\ 3 \in Wheels /\ 4 \in Wheels /\ 5 \in Wheels
  BY DEF Wheels
<1> HIDE DEF start
<1>5. c1 \in Accs
  BY <1>1, <1>3, <1>4
<1> HIDE DEF c1
<1>6. c2 \in Accs
  BY <1>3, <1>4, <1>5
<1> HIDE DEF c2
<1>7. c3 \in Accs
  BY <1>3, <1>4, <1>6
<1> HIDE DEF c3
<1>8. c4 \in Accs
  BY <1>3, <1>4, <1>7
<1> HIDE DEF c4
<1>9. c5 \in Accs
  BY <1>3, <1>4, <1>8
<1> HIDE DEF c5
<1>. QED
  BY <1>2, <1>9 DEF Accs

LEMMA NextLeast ==
    ASSUME NEW lists, Chains(lists), NEW tm, Times(tm), NEW j \in Ticks, Near(lists, tm, j),
           NEW l \in Lists, NEW t \in ToSet(lists[l])
    PROVE  D(gp_next_timer(j, lists, tm), j) <= D(tm[t].expires, j)
<1> DEFINE start == [expires |-> W - 1, found |-> FALSE, done |-> FALSE]
           c1 == Search(start, j, lists, tm, 1)
           c2 == Search(c1, j, lists, tm, 2)
           c3 == Search(c2, j, lists, tm, 3)
           c4 == Search(c3, j, lists, tm, 4)
           c5 == Search(c4, j, lists, tm, 5)
<1>1. Searched(start, j, lists, tm, 0)
  <2>1. W - 1 \in Ticks
    BY WheelFacts DEF Ticks
  <2>2. start \in Accs /\ ~start.found /\ ~start.done /\ start.expires = W - 1
    BY <2>1, AccIs
  <2>3. \A x \in Lists : ~(x[1] <= 0)
    BY ListParts DEF Wheels
  <2> HIDE DEF start
  <2>. QED
    BY <2>2, <2>3 DEF Searched
<1>2. gp_next_timer(j, lists, tm) = c5.expires
  BY DEF gp_next_timer
<1>3. ASSUME NEW acc, NEW k \in Wheels, Searched(acc, j, lists, tm, k - 1)
      PROVE  Searched(Search(acc, j, lists, tm, k), j, lists, tm, k)
  BY <1>3, SearchStep
<1>4. 1 \in Wheels /\ 2 \in Wheels /\ 3 \in Wheels /\ 4 \in Wheels /\ 5 \in Wheels
      /\ 1 - 1 = 0 /\ 2 - 1 = 1 /\ 3 - 1 = 2 /\ 4 - 1 = 3 /\ 5 - 1 = 4
  BY DEF Wheels
<1> HIDE DEF start
<1>5. Searched(c1, j, lists, tm, 1)
  BY <1>1, <1>3, <1>4
<1> HIDE DEF c1
<1>6. Searched(c2, j, lists, tm, 2)
  BY <1>3, <1>4, <1>5
<1> HIDE DEF c2
<1>7. Searched(c3, j, lists, tm, 3)
  BY <1>3, <1>4, <1>6
<1> HIDE DEF c3
<1>8. Searched(c4, j, lists, tm, 4)
  BY <1>3, <1>4, <1>7
<1> HIDE DEF c4
<1>9. Searched(c5, j, lists, tm, 5)
  BY <1>3, <1>4, <1>8
<1> HIDE DEF c5
<1>10. l[1] <= 5
  BY ListParts DEF Wheels
<1>. QED
  BY <1>2, <1>9, <1>10 DEF Searched

----------------------------------------------------------------------------
(* The lists of all wheels.                                                 *)
Tables == [Lists -> Seq(Timers)]
Linked(lists) == UNION {ToSet(lists[l]) : l \in Lists}
Bases == [j : Ticks, tv : Tables, next : Ticks]

LEMMA LinkedIs ==
    ASSUME NEW lists, NEW t
    PROVE  t \in Linked(lists) <=> \E l \in Lists : t \in ToSet(lists[l])
BY DEF Linked

LEMMA TablesChains ==
    ASSUME NEW lists \in Tables, Chains(lists)
    PROVE  Linked(lists) \subseteq Timers
<1>1. ASSUME NEW l \in Lists PROVE ToSet(lists[l]) \subseteq Timers
  <2> DEFINE s == lists[l]
  <2>1. Chain(s)
    BY DEF Chains
  <2> HIDE DEF s
  <2>2. ToSet(s) \subseteq Timers
    BY <2>1, ChainElements
  <2>. QED
    BY <2>2 DEF s
<1>. QED
  BY <1>1 DEF Linked

LEMMA RemovedIs ==
    ASSUME NEW lists \in Tables, Chains(lists), NEW t
    PROVE  /\ Removed(lists, t) \in Tables /\ Chains(Removed(lists, t))
           /\ \A l \in Lists : ToSet(Removed(lists, t)[l]) = ToSet(lists[l]) \ {t}
           /\ \A l \in Lists : \A x : x # t => Before(Removed(lists, t)[l], x) \subseteq Before(lists[l], x)
           /\ Linked(Removed(lists, t)) = Linked(lists) \ {t}
<1> DEFINE r == Removed(lists, t)
<1>1. r = [l \in Lists |-> RemoveFirst(lists[l], t)]
  BY DEF Removed
<1>2. ASSUME NEW l \in Lists
      PROVE  /\ Chain(r[l]) /\ ToSet(r[l]) = ToSet(lists[l]) \ {t} /\ r[l] \in Seq(Timers)
             /\ \A x : x # t => Before(r[l], x) \subseteq Before(lists[l], x)
  <2> DEFINE s == lists[l]
             b == r[l]
  <2>1. Chain(s) /\ IsWithout(b, s, t)
    BY <1>1 DEF Chains, IsWithout
  <2> HIDE DEF s, b
  <2>2. /\ Chain(b) /\ ToSet(b) = ToSet(s) \ {t}
        /\ \A x : x # t => Before(b, x) \subseteq Before(s, x)
    BY <2>1, Without
  <2>. QED
    BY <2>2 DEF s, b, Chain
<1>3. r \in Tables
  <2>1. ASSUME NEW l \in Lists PROVE RemoveFirst(lists[l], t) \in Seq(Timers)
    BY <1>1, <1>2
  <2>. QED
    BY <1>1, <2>1 DEF Tables
<1> HIDE DEF r
<1>4. Linked(r) = Linked(lists) \ {t}
  <2>1. ASSUME NEW x PROVE x \in Linked(r) <=> x \in Linked(lists) \ {t}
    <3>1. \A l \in Lists : x \in ToSet(r[l]) <=> x \in ToSet(lists[l]) /\ x # t
      BY <1>2
    <3>. QED
      BY <3>1, LinkedIs
  <2>. QED
    BY <2>1
<1>. QED
  BY <1>2, <1>3, <1>4 DEF Chains, r

(* gp_timer_add.                                                            *)
Added(c, b, tm, t) ==
    /\ c \in Bases /\ c.j = b.j /\ Chains(c.tv)
    /\ ListFor(b.j, tm[t].expires) \in Lists
    /\ \A l \in Lists : ToSet(c.tv[l]) = (ToSet(b.tv[l]) \ {t})
                            \union (IF l = ListFor(b.j, tm[t].expires) THEN {t} ELSE {})
    /\ \A l \in Lists : \A x : x # t => Before(c.tv[l], x) \subseteq Before(b.tv[l], x)
    /\ Linked(c.tv) = Linked(b.tv) \union {t}
    /\ c.next = gp_next_timer(b.j, c.tv, tm)

LEMMA AddIs ==
    ASSUME NEW b \in Bases, Chains(b.tv), NEW tm, Times(tm), NEW t \in Timers
    PROVE  Added(gp_timer_add(b, tm, t), b, tm, t)
<1> DEFINE e == tm[t].expires
           j == b.j
           place == ListFor(j, e)
           r == Removed(b.tv, t)
           lists == [r EXCEPT ![place] = Append(@, t)]
           next == gp_next_timer(j, lists, tm)
           c == gp_timer_add(b, tm, t)
<1>1. b = [j |-> j, tv |-> b.tv, next |-> b.next] /\ j \in Ticks /\ b.tv \in Tables /\ b.next \in Ticks
  BY DEF Bases
<1>2. e \in Ticks
  BY DEF Times
<1>3. place \in Lists
  <2> HIDE DEF e, j
  <2>. QED
    BY <1>1, <1>2, ListForReach
<1>4. /\ r \in Tables /\ Chains(r)
      /\ \A l \in Lists : ToSet(r[l]) = ToSet(b.tv[l]) \ {t}
      /\ \A l \in Lists : \A x : x # t => Before(r[l], x) \subseteq Before(b.tv[l], x)
      /\ Linked(r) = Linked(b.tv) \ {t}
  BY <1>1, RemovedIs
<1>5. c = [j |-> j, tv |-> lists, next |-> next]
  <2> HIDE DEF next, lists
  <2>1. gp_timer_add(b, tm, t) = gp_timer_internal_add([b EXCEPT !.tv = r], tm, t)
    BY DEF gp_timer_add
  <2>2. [b EXCEPT !.tv = r] = [j |-> j, tv |-> r, next |-> b.next]
    BY <1>1
  <2> DEFINE d == [j |-> j, tv |-> r, next |-> b.next]
  <2>3. d.j = j /\ d.tv = r
    OBVIOUS
  <2>4. gp_timer_internal_add(d, tm, t) = [d EXCEPT !.tv = lists, !.next = next]
    <3> HIDE DEF d
    <3>. QED
      BY <2>3 DEF gp_timer_internal_add, lists, next
  <2>. QED
    BY <2>1, <2>2, <2>4
<1> HIDE DEF place, r, e, j, c
<1>6. ASSUME NEW l \in Lists
      PROVE  /\ lists[l] = IF l = place THEN Append(r[l], t) ELSE r[l]
             /\ Chain(lists[l]) /\ lists[l] \in Seq(Timers)
             /\ ToSet(lists[l]) = ToSet(r[l]) \union (IF l = place THEN {t} ELSE {})
             /\ \A x : x # t => Before(lists[l], x) \subseteq Before(r[l], x)
  <2> DEFINE s == r[l]
             a == lists[l]
  <2>1. a = IF l = place THEN Append(s, t) ELSE s
    BY <1>3, <1>4 DEF Tables
  <2>2. Chain(s) /\ t \notin ToSet(s)
    BY <1>4 DEF Chains
  <2> HIDE DEF s, a
  <2>3. CASE l = place
    <3>1. IsAppended(a, s, t)
      BY <2>1, <2>3 DEF IsAppended
    <3>2. Chain(a) /\ ToSet(a) = ToSet(s) \union {t} /\ \A x : x # t => Before(a, x) \subseteq Before(s, x)
      BY <2>2, <3>1, Appended
    <3>3. a \in Seq(Timers)
      BY <3>2 DEF Chain
    <3>4. a = (IF l = place THEN Append(s, t) ELSE s) /\ ToSet(a) = ToSet(s) \union (IF l = place THEN {t} ELSE {})
      BY <2>1, <2>3, <3>2
    <3>. QED
      BY <3>2, <3>3, <3>4, Zenon DEF s, a
  <2>4. CASE l # place
    <3>1. a = s
      BY <2>1, <2>4
    <3>2. a \in Seq(Timers)
      BY <2>2, <3>1 DEF Chain
    <3>4. a = (IF l = place THEN Append(s, t) ELSE s) /\ ToSet(a) = ToSet(s) \union (IF l = place THEN {t} ELSE {})
      BY <2>1, <2>4, <3>1
    <3>5. Chain(a) /\ \A x : x # t => Before(a, x) \subseteq Before(s, x)
      BY <2>2, <3>1
    <3>. QED
      BY <3>2, <3>4, <3>5, Zenon DEF s, a
  <2>. QED
    BY <2>3, <2>4
<1>7. lists \in Tables
  <2>1. DOMAIN lists = Lists /\ lists = [l \in Lists |-> lists[l]]
    BY <1>4 DEF Tables
  <2> HIDE DEF lists
  <2>. QED
    BY <1>6, <2>1 DEF Tables
<1> HIDE DEF lists
<1>8. Chains(lists)
  BY <1>6 DEF Chains
<1>9. next \in Ticks
  BY <1>1, <1>8, NextTyped
<1> HIDE DEF next
<1>10. c \in Bases /\ c.j = j /\ c.tv = lists /\ c.next = next
  BY <1>1, <1>5, <1>7, <1>9 DEF Bases
<1>11. \A l \in Lists : ToSet(lists[l]) = (ToSet(b.tv[l]) \ {t}) \union (IF l = place THEN {t} ELSE {})
  BY <1>4, <1>6
<1>12. \A l \in Lists : \A x : x # t => Before(lists[l], x) \subseteq Before(b.tv[l], x)
  BY <1>4, <1>6
<1>13. Linked(lists) = Linked(b.tv) \union {t}
  <2>1. ASSUME NEW x PROVE x \in Linked(lists) <=> x \in Linked(b.tv) \union {t}
    <3>1. CASE x = t
      <4>1. t \in ToSet(lists[place])
        BY <1>3, <1>11
      <4>. QED
        BY <1>3, <3>1, <4>1 DEF Linked
    <3>2. CASE x # t
      <4>1. \A l \in Lists : x \in ToSet(lists[l]) <=> x \in ToSet(b.tv[l])
        BY <1>11, <3>2
      <4>. QED
        BY <3>2, <4>1, LinkedIs
    <3>. QED
      BY <3>1, <3>2
  <2>. QED
    BY <2>1
<1>14. c.next = gp_next_timer(j, lists, tm)
  BY <1>10 DEF next
<1>. QED
  BY <1>3, <1>8, <1>10, <1>11, <1>12, <1>13, <1>14 DEF Added, place, j, e, c

(* next_timer is not after a timer that waits, if every list is in reach.   *)
LEMMA NextSoon ==
    ASSUME NEW lists, Chains(lists), NEW tm, Times(tm), NEW j \in Ticks, Near(lists, tm, j),
           NEW l \in Lists, NEW t \in ToSet(lists[l]), D(tm[t].expires, j) < Half,
           NEW n, n = gp_next_timer(j, lists, tm)
    PROVE  D(tm[t].expires, n) < Half
<1> DEFINE e == tm[t].expires
<1>1. n \in Ticks
  BY NextTyped
<1>2. e \in Ticks
  <2>1. t \in Timers
    <3> DEFINE s == lists[l]
    <3>1. Chain(s) /\ t \in ToSet(s)
      BY DEF Chains
    <3> HIDE DEF s
    <3>. QED
      BY <3>1, ChainElements
  <2>. QED
    BY <2>1 DEF Times
<1>3. D(n, j) <= D(e, j) /\ D(e, j) < Half
  BY NextLeast
<1> HIDE DEF e
<1>4. /\ D(n, j) = (IF n >= j THEN n - j ELSE n - j + W)
      /\ D(e, j) = (IF e >= j THEN e - j ELSE e - j + W)
      /\ D(e, n) = (IF e >= n THEN e - n ELSE e - n + W)
  BY <1>1, <1>2, Dist
<1>5. n \in 0..(W - 1) /\ j \in 0..(W - 1) /\ e \in 0..(W - 1) /\ W \in Nat /\ Half \in Nat
  BY <1>1, <1>2, WheelFacts DEF Ticks
<1>6. D(e, n) < Half
  BY <1>3, <1>4, <1>5
<1>. QED
  BY <1>6 DEF e

(* A base whose lists are in reach of tick j: A is what is linked, L what   *)
(* was left behind on wheel 1, T what was armed too late.                   *)
Ready(b, j, tm, A, L, T) ==
    /\ b \in Bases /\ b.j = j /\ Chains(b.tv) /\ Linked(b.tv) = A
    /\ \A l \in Lists : \A t \in ToSet(b.tv[l]) : InReach(l, tm[t].expires, j) \/ (l[1] = 1 /\ t \in L)
    /\ L = {} => \A t \in A \ T : D(tm[t].expires, b.next) < Half
Hots(b, tm) == {p \in Lists \X Timers : /\ p[2] \in ToSet(b.tv[p[1]])
                                        /\ Hot(p[1], tm[p[2]].expires, b.j)}

LEMMA AddReady ==
    ASSUME NEW j \in Ticks, NEW tm, Times(tm), NEW A, NEW L, NEW T, NEW b, Ready(b, j, tm, A, L, T),
           L = {} => \A t \in A \ T : D(tm[t].expires, j) < Half,
           NEW t \in A, NEW c, c = gp_timer_add(b, tm, t)
    PROVE  /\ Ready(c, j, tm, A, L, T) /\ Hots(c, tm) \subseteq Hots(b, tm)
           /\ \A p \in Hots(c, tm) : p[2] # t
<1> DEFINE e == tm[t].expires
           place == ListFor(j, e)
<1>1. b \in Bases /\ b.j = j /\ Chains(b.tv) /\ Linked(b.tv) = A /\ b.tv \in Tables
  BY DEF Ready, Bases
<1>2. t \in Timers
  BY <1>1, TablesChains
<1>3. Added(c, b, tm, t)
  BY <1>1, <1>2, AddIs
<1>4. e \in Ticks
  BY <1>2 DEF Times
<1>5. InReach(place, e, j) /\ ~Hot(place, e, j) /\ place \in Lists
  <2> HIDE DEF e
  <2>. QED
    BY <1>4, ListForReach
<1>6. /\ c \in Bases /\ c.j = j /\ Chains(c.tv) /\ Linked(c.tv) = A
      /\ c.next = gp_next_timer(j, c.tv, tm)
      /\ \A l \in Lists : ToSet(c.tv[l]) = (ToSet(b.tv[l]) \ {t}) \union (IF l = place THEN {t} ELSE {})
  BY <1>1, <1>3 DEF Added
<1> HIDE DEF place
<1>7. ASSUME NEW l \in Lists, NEW u \in ToSet(c.tv[l])
      PROVE  IF u = t THEN l = place ELSE u \in ToSet(b.tv[l])
  BY <1>6, <1>7
<1>8. ASSUME NEW l \in Lists, NEW u \in ToSet(c.tv[l])
      PROVE  InReach(l, tm[u].expires, j) \/ (l[1] = 1 /\ u \in L)
  <2>1. CASE u = t
    BY <1>5, <1>7, <1>8, <2>1
  <2>2. CASE u # t
    BY <1>7, <1>8, <2>2 DEF Ready
  <2>. QED
    BY <2>1, <2>2
<1>9. ASSUME L = {}, NEW u \in A \ T PROVE D(tm[u].expires, c.next) < Half
  <2>1. Near(c.tv, tm, j)
    BY <1>8, <1>9 DEF Near
  <2>2. PICK l \in Lists : u \in ToSet(c.tv[l])
    BY <1>6, <1>9, LinkedIs
  <2> DEFINE lists == c.tv
             n == c.next
  <2>3. Chains(lists) /\ Near(lists, tm, j) /\ u \in ToSet(lists[l]) /\ D(tm[u].expires, j) < Half
        /\ n = gp_next_timer(j, lists, tm)
    BY <1>6, <1>9, <2>1, <2>2
  <2> HIDE DEF lists, n
  <2>4. D(tm[u].expires, n) < Half
    BY <2>3, NextSoon
  <2>. QED
    BY <2>4 DEF n
<1>10. Ready(c, j, tm, A, L, T)
  BY <1>6, <1>8, <1>9 DEF Ready
<1>11. ASSUME NEW p \in Hots(c, tm) PROVE p \in Hots(b, tm) /\ p[2] # t
  <2>1. p \in Lists \X Timers /\ p[1] \in Lists /\ p[2] \in ToSet(c.tv[p[1]]) /\ Hot(p[1], tm[p[2]].expires, j)
    BY <1>6 DEF Hots
  <2>2. p[2] # t
    <3> SUFFICES ASSUME p[2] = t PROVE FALSE
      OBVIOUS
    <3>1. p[1] = place
      BY <1>7, <2>1
    <3>. QED
      BY <1>5, <2>1, <3>1
  <2>3. p[2] \in ToSet(b.tv[p[1]])
    BY <1>7, <2>1, <2>2
  <2>. QED
    BY <1>1, <2>1, <2>2, <2>3 DEF Hots
<1>. QED
  BY <1>10, <1>11

(* cascade.                                                                 *)
Spreads(f, b, tm, list) ==
    f = [n \in 0..Len(list) |-> IF n = 0 THEN b ELSE gp_timer_add(f[n - 1], tm, list[n])]

LEMMA CascadeReady ==
    ASSUME NEW j \in Ticks, NEW tm, Times(tm), NEW A, NEW L, NEW T, NEW b, Ready(b, j, tm, A, L, T),
           L = {} => \A t \in A \ T : D(tm[t].expires, j) < Half,
           NEW k \in 2..5, NEW c, c = cascade(b, tm, k)
    PROVE  /\ Ready(c, j, tm, A, L, T) /\ Hots(c, tm) \subseteq Hots(b, tm)
           /\ \A p \in Hots(c, tm) : p[1][1] # k
<1> DEFINE l0 == <<k, INDEX(j, k)>>
           list == b.tv[l0]
           n == Len(list)
           spread == CHOOSE f : f = [i \in 0..Len(list) |->
                         IF i = 0 THEN b ELSE gp_timer_add(f[i - 1], tm, list[i])]
<1>0. b \in Bases /\ b.j = j /\ Chains(b.tv) /\ Linked(b.tv) = A /\ b.tv \in Tables
  BY DEF Ready, Bases
<1>1. c = IF j % Unit(k) = 0 THEN spread[n] ELSE b
  BY <1>0 DEF cascade
<1>2. ASSUME NEW p \in Hots(b, tm), p[1][1] = k
      PROVE  j % Unit(k) = 0 /\ p[1] = l0 /\ p[2] \in ToSet(list)
  <2>1. p[1] \in Lists /\ p[2] \in Timers /\ p[2] \in ToSet(b.tv[p[1]]) /\ Hot(p[1], tm[p[2]].expires, j)
    BY <1>0 DEF Hots
  <2>2. InReach(p[1], tm[p[2]].expires, j) /\ tm[p[2]].expires \in Ticks
    <3>1. p[1][1] # 1
      BY <1>2
    <3>. QED
      BY <2>1, <3>1 DEF Ready, Times
  <2> DEFINE l == p[1]
             e == tm[p[2]].expires
  <2>3. l \in Lists /\ e \in Ticks /\ InReach(l, e, j) /\ Hot(l, e, j) /\ l[1] = k
    BY <1>2, <2>1, <2>2
  <2> HIDE DEF l, e
  <2>4. j % Unit(k) = 0 /\ l = l0
    BY <2>3, HotList
  <2>. QED
    BY <2>1, <2>4 DEF l
<1>3. CASE j % Unit(k) # 0
  <2>1. c = b
    BY <1>1, <1>3
  <2>. QED
    BY <1>2, <1>3, <2>1
<1>4. CASE j % Unit(k) = 0
  <2>1. l0 \in Lists
    <3>1. k \in Wheels /\ Size(k) = N
      BY DEF Wheels, Size
    <3>2. INDEX(j, k) \in 0..(N - 1)
      <4> DEFINE q == j \div Unit(k)
      <4>1. Unit(k) \in Nat \ {0} /\ j \in Int
        BY <3>1, Units DEF Ticks
      <4>2. q \in Int /\ N \in Nat \ {0}
        BY <4>1, Division, WheelFacts
      <4> HIDE DEF q
      <4>3. q % N \in 0..(N - 1)
        BY <4>2, Division
      <4>. QED
        BY <4>3 DEF q, INDEX
    <3>. QED
      BY <3>1, <3>2, ListParts
  <2>2. Chain(list)
    BY <1>0, <2>1 DEF Chains
  <2>3. ToSet(list) \subseteq A
    <3>1. \A x \in ToSet(list) : x \in Linked(b.tv)
      BY <2>1, LinkedIs
    <3>. QED
      BY <1>0, <3>1
  <2>4. n \in Nat /\ (\A i \in 1..n : list[i] \in ToSet(list)) /\ ToSet(list) = {list[i] : i \in 1..n}
    <3> HIDE DEF list
    <3>. QED
      BY <2>2, ChainElements
  <2> HIDE DEF list
  <2> DEFINE S == {x \in Bases : Ready(x, j, tm, A, L, T) /\ Hots(x, tm) \subseteq Hots(b, tm)}
             g == [p \in (1..n) \X S |-> gp_timer_add(p[2], tm, list[p[1]])]
  <2>5. b \in S
    BY <1>0
  <2>6. ASSUME NEW i \in 1..n, NEW x \in S
        PROVE  gp_timer_add(x, tm, list[i]) \in S
    <3> DEFINE t == list[i]
               y == gp_timer_add(x, tm, t)
    <3>1. t \in A
      BY <2>3, <2>4
    <3>2. Ready(x, j, tm, A, L, T) /\ Hots(x, tm) \subseteq Hots(b, tm)
      OBVIOUS
    <3> HIDE DEF t
    <3>3. Ready(y, j, tm, A, L, T) /\ Hots(y, tm) \subseteq Hots(x, tm)
      BY <3>1, <3>2, AddReady
    <3>4. y \in Bases
      BY <3>3 DEF Ready
    <3> HIDE DEF y
    <3>5. y \in S
      BY <3>2, <3>3, <3>4
    <3>. QED
      BY <3>5 DEF y, t
  <2>7. g \in [(1..n) \X S -> S]
    <3> HIDE DEF S
    <3>. QED
      BY <2>6
  <2>8. PICK f \in [0..n -> S] : Solves(f, n, b, g)
    <3> HIDE DEF g, S, n
    <3>. QED
      BY <2>4, <2>5, <2>7, Recursion
  <2>9. Spreads(f, b, tm, list)
    <3>1. ASSUME NEW i \in 0..n, i # 0 PROVE g[<<i, f[i - 1]>>] = gp_timer_add(f[i - 1], tm, list[i])
      <4>1. i \in 1..n /\ i - 1 \in 0..n
        BY <2>4, <3>1
      <4>2. f[i - 1] \in S
        <5> HIDE DEF S
        <5>. QED
          BY <4>1
      <4>3. <<i, f[i - 1]>> \in (1..n) \X S
        <5> HIDE DEF S
        <5>. QED
          BY <4>1, <4>2
      <4> HIDE DEF S, n
      <4>. QED
        BY <4>3
    <3> HIDE DEF g
    <3>. QED
      BY <2>8, <3>1 DEF Solves, Spreads
  <2>10. Spreads(spread, b, tm, list)
    BY <2>9, Zenon DEF Spreads
  <2> HIDE DEF spread
  <2>11. spread[0] = b /\ \A i \in 1..n : spread[i] = gp_timer_add(spread[i - 1], tm, list[i])
    BY <2>4, <2>10 DEF Spreads
  <2> DEFINE G == {i \in 0..n : /\ spread[i] \in S
                                /\ \A p \in Hots(spread[i], tm) : \A m \in 1..i : p[2] # list[m]}
  <2>12. 0 \in G
    <3>1. 0 \in 0..n
      BY <2>4
    <3> HIDE DEF S
    <3>. QED
      BY <2>5, <2>11, <3>1
  <2>13. ASSUME NEW i \in 1..n, i - 1 \in G PROVE i \in G
    <3> DEFINE x == spread[i - 1]
               y == spread[i]
               t == list[i]
    <3>1. x \in S /\ \A p \in Hots(x, tm) : \A m \in 1..(i - 1) : p[2] # list[m]
      BY <2>13
    <3>2. y = gp_timer_add(x, tm, t)
      BY <2>11
    <3>3. y \in S
      BY <2>6, <3>1, <3>2, Zenon
    <3>4. t \in A
      BY <2>3, <2>4
    <3>5. Ready(x, j, tm, A, L, T)
      BY <3>1
    <3> HIDE DEF x, y, t
    <3>6. Hots(y, tm) \subseteq Hots(x, tm) /\ \A p \in Hots(y, tm) : p[2] # t
      BY <3>2, <3>4, <3>5, AddReady
    <3>7. ASSUME NEW p \in Hots(y, tm), NEW m \in 1..i PROVE p[2] # list[m]
      <4>1. m = i \/ m \in 1..(i - 1)
        BY <2>4
      <4>. QED
        BY <3>1, <3>6, <4>1 DEF t
    <3>8. i \in 0..n
      BY <2>4
    <3> HIDE DEF S
    <3>. QED
      BY <3>3, <3>7, <3>8 DEF y
  <2>14. n \in G
    <3> HIDE DEF G, n
    <3>1. \A i \in 0..n : i \in G
      BY <2>4, <2>12, <2>13, UpTo
    <3>. QED
      BY <2>4, <3>1
  <2>15. c = spread[n]
    BY <1>1, <1>4
  <2>16. c \in S /\ \A p \in Hots(c, tm) : \A m \in 1..n : p[2] # list[m]
    <3> HIDE DEF S, n
    <3>. QED
      BY <2>14, <2>15
  <2>17. ASSUME NEW p \in Hots(c, tm) PROVE p[1][1] # k
    <3>1. p \in Hots(b, tm)
      BY <2>16
    <3>2. p[2] \notin ToSet(list)
      BY <2>4, <2>16
    <3>. QED
      BY <1>2, <3>1, <3>2
  <2>. QED
    BY <2>16, <2>17
<1>. QED
  BY <1>3, <1>4

LEMMA CascadedReady ==
    ASSUME NEW j \in Ticks, NEW tm, Times(tm), NEW A, NEW L, NEW T, NEW b, Ready(b, j, tm, A, L, T),
           L = {} => \A t \in A \ T : D(tm[t].expires, j) < Half,
           NEW c, c = Cascaded(b, tm)
    PROVE  /\ Ready(c, j, tm, A, L, T)
           /\ \A l \in Lists : \A t \in ToSet(c.tv[l]) : ~Hot(l, tm[t].expires, j)
<1> DEFINE b2 == cascade(b, tm, 2)
           b3 == cascade(b2, tm, 3)
           b4 == cascade(b3, tm, 4)
<1>1. c = cascade(b4, tm, 5)
  BY DEF Cascaded
<1>2. ASSUME NEW x, Ready(x, j, tm, A, L, T), NEW k \in 2..5, NEW y, y = cascade(x, tm, k)
      PROVE  /\ Ready(y, j, tm, A, L, T) /\ Hots(y, tm) \subseteq Hots(x, tm)
             /\ \A p \in Hots(y, tm) : p[1][1] # k
  BY <1>2, CascadeReady
<1>3. 2 \in 2..5 /\ 3 \in 2..5 /\ 4 \in 2..5 /\ 5 \in 2..5
  OBVIOUS
<1>4. Ready(b2, j, tm, A, L, T) /\ \A p \in Hots(b2, tm) : p[1][1] # 2
  BY <1>2, <1>3
<1> HIDE DEF b2
<1>5. Ready(b3, j, tm, A, L, T) /\ Hots(b3, tm) \subseteq Hots(b2, tm) /\ \A p \in Hots(b3, tm) : p[1][1] # 3
  BY <1>2, <1>3, <1>4
<1> HIDE DEF b3
<1>6. Ready(b4, j, tm, A, L, T) /\ Hots(b4, tm) \subseteq Hots(b3, tm) /\ \A p \in Hots(b4, tm) : p[1][1] # 4
  BY <1>2, <1>3, <1>5
<1> HIDE DEF b4
<1>7. Ready(c, j, tm, A, L, T) /\ Hots(c, tm) \subseteq Hots(b4, tm) /\ \A p \in Hots(c, tm) : p[1][1] # 5
  BY <1>1, <1>2, <1>3, <1>6
<1>8. ASSUME NEW l \in Lists, NEW t \in ToSet(c.tv[l]), Hot(l, tm[t].expires, j) PROVE FALSE
  <2>1. t \in Timers /\ c.j = j
    <3>1. t \in Linked(c.tv)
      BY <1>8, LinkedIs
    <3>2. c.tv \in Tables /\ Chains(c.tv) /\ c.j = j
      BY <1>7 DEF Ready, Bases
    <3>. QED
      BY <3>1, <3>2, TablesChains
  <2> DEFINE p == <<l, t>>
  <2>2. p \in Hots(c, tm) /\ p[1] = l
    BY <1>8, <2>1 DEF Hots
  <2>3. l[1] \in Wheels /\ l[1] # 1
    BY <1>8, ListParts DEF Hot
  <2>4. l[1] = 2 \/ l[1] = 3 \/ l[1] = 4 \/ l[1] = 5
    BY <2>3 DEF Wheels
  <2>5. l[1] # 2 /\ l[1] # 3 /\ l[1] # 4 /\ l[1] # 5
    <3> HIDE DEF p
    <3>. QED
      BY <1>4, <1>5, <1>6, <1>7, <2>2
  <2>. QED
    BY <2>4, <2>5
<1>. QED
  BY <1>7, <1>8

----------------------------------------------------------------------------
(* Late and early, and the clock.                                           *)
Late(e, j) == D(e, Prior(j)) = 0 \/ D(e, Prior(j)) >= Half

LEMMA EarlyIs ==
    ASSUME NEW e \in Ticks, NEW j \in Ticks
    PROVE  (e - (j - 1)) % W = D(e, Prior(j))
<1> DEFINE p == Prior(j)
           x == e - (j - 1)
<1>1. p \in Ticks /\ p = IF j = 0 THEN W - 1 ELSE j - 1
  BY TickAfter
<1>2. W \in Nat \ {0} /\ e \in 0..(W - 1) /\ j \in 0..(W - 1)
  BY WheelFacts DEF Ticks
<1> HIDE DEF p
<1>3. D(e, p) = IF e >= p THEN e - p ELSE e - p + W
  BY <1>1, Dist
<1>4. /\ x \in Int /\ x \in (-W)..(2 * W - 1)
      /\ (x < 0 => x + W = D(e, p)) /\ (x >= 0 /\ x < W => x = D(e, p)) /\ (x >= W => x - W = D(e, p))
  BY <1>1, <1>2, <1>3
<1> HIDE DEF x
<1>5. x % W = D(e, p)
  <2>1. (x \in 0..(W - 1)) \/ (x \in (-W)..(-1)) \/ (x \in W..(2 * W - 1))
    BY <1>2, <1>4
  <2>2. /\ x \in 0..(W - 1) => x % W = x
        /\ x \in (-W)..(-1) => x % W = x + W
        /\ x \in W..(2 * W - 1) => x % W = x - W
    BY <1>2, <1>4, NearMod
  <2>. QED
    BY <1>2, <1>4, <2>1, <2>2
<1>. QED
  BY <1>5 DEF x, p

LEMMA SignedIs ==
    ASSUME NEW x
    PROVE  Signed(x) = IF x % W < Half THEN x % W ELSE (x % W) - W
BY DEF Signed

LEMMA LateIs ==
    ASSUME NEW e \in Ticks, jiffies \in Ticks
    PROVE  IsLate(e) <=> Late(e, jiffies)
<1> DEFINE x == e - (jiffies - 1)
           d == D(e, Prior(jiffies))
<1>1. x % W = d
  BY EarlyIs
<1>2. IsLate(e) <=> Signed(x) <= 0
  BY DEF IsLate
<1>3. Late(e, jiffies) <=> d = 0 \/ d >= Half
  BY DEF Late
<1> HIDE DEF x
<1>4. Signed(x) = IF d < Half THEN d ELSE d - W
  BY <1>1, SignedIs
<1>5. d \in 0..(W - 1) /\ W \in Nat \ {0} /\ Half \in Nat \ {0}
  <2>1. Prior(jiffies) \in Ticks
    BY TickAfter
  <2>2. d \in Ticks
    BY <2>1, Dist
  <2>. QED
    BY <2>2, WheelFacts DEF Ticks
<1> HIDE DEF d
<1>. QED
  BY <1>2, <1>3, <1>4, <1>5

LEMMA NotLate ==
    ASSUME NEW e \in Ticks, NEW j \in Ticks, ~Late(e, j)
    PROVE  /\ D(e, j) < Half /\ D(e, Prior(j)) \in 1..(Half - 1)
           /\ e # j => ~Late(e, After(j))
<1>1. /\ D(e, Prior(j)) = (IF e = Prior(j) THEN 0 ELSE D(e, j) + 1)
      /\ (D(e, j) = 0 <=> e = j)
  BY Nearer
<1>2. D(e, Prior(j)) \in Nat /\ D(e, j) \in Nat /\ Half \in Nat
  <2>1. Prior(j) \in Ticks
    BY TickAfter
  <2>2. D(e, Prior(j)) \in Ticks /\ D(e, j) \in Ticks
    BY <2>1, Dist
  <2>. QED
    BY <2>2, WheelFacts DEF Ticks
<1>3. D(e, Prior(j)) # 0 /\ D(e, Prior(j)) < Half
  BY <1>2 DEF Late
<1>4. D(e, j) < Half /\ D(e, j) + 1 < Half
  BY <1>1, <1>2, <1>3
<1>5. ASSUME e # j PROVE ~Late(e, After(j))
  <2>1. Prior(After(j)) = j
    BY TickAfter
  <2>. QED
    BY <1>1, <1>2, <1>4, <1>5, <2>1 DEF Late
<1>. QED
  BY <1>2, <1>3, <1>4, <1>5

LEMMA Clock ==
    ASSUME NEW c \in Ticks, NEW j \in Ticks, D(After(c), j) \in 0..Half
    PROVE  /\ Signed(c - j) < 0 => c = Prior(j)
           /\ Signed(c - j) >= 0 => D(After(c), After(j)) \in 0..Half
           /\ \A d \in 0..Half : c = Prior(j) => /\ (c + d) % W \in Ticks
                                                 /\ D(After((c + d) % W), j) \in 0..Half
<1> DEFINE a == After(c)
           p == Prior(j)
           s == After(j)
<1>1. /\ a = (IF c = W - 1 THEN 0 ELSE c + 1) /\ p = (IF j = 0 THEN W - 1 ELSE j - 1)
      /\ s = (IF j = W - 1 THEN 0 ELSE j + 1) /\ a \in Ticks /\ p \in Ticks /\ s \in Ticks
  BY TickAfter
<1>2. W \in Nat \ {0} /\ Half \in Nat \ {0} /\ W = 2 * Half /\ c \in 0..(W - 1) /\ j \in 0..(W - 1)
  BY WheelFacts DEF Ticks
<1>3. D(a, j) \in 0..Half
  OBVIOUS
<1> HIDE DEF a, p, s
<1>4. /\ D(a, j) = (IF a >= j THEN a - j ELSE a - j + W)
      /\ D(a, s) = (IF a >= s THEN a - s ELSE a - s + W)
      /\ D(c, j) = (IF c >= j THEN c - j ELSE c - j + W)
  BY <1>1, Dist
<1>5. Signed(c - j) = IF D(c, j) < Half THEN D(c, j) ELSE D(c, j) - W
  BY SignedIs DEF D
<1>6. a \in 0..(W - 1) /\ s \in 0..(W - 1) /\ p \in 0..(W - 1)
  BY <1>1 DEF Ticks
<1>7. Signed(c - j) < 0 => c = p
  BY <1>1, <1>2, <1>3, <1>4, <1>5
<1>8. Signed(c - j) >= 0 => D(a, s) \in 0..Half
  BY <1>1, <1>2, <1>3, <1>4, <1>5
<1>9. ASSUME NEW d \in 0..Half, c = p
      PROVE  (c + d) % W \in Ticks /\ D(After((c + d) % W), j) \in 0..Half
  <2> DEFINE x == c + d
             y == x % W
  <2>1. x \in Nat /\ x \in 0..(2 * W - 1)
    BY <1>2
  <2>2. y = IF x < W THEN x ELSE x - W
    <3> HIDE DEF x
    <3>1. x < W => x \in 0..(W - 1)
      BY <1>2, <2>1
    <3>2. ~(x < W) => x \in W..(2 * W - 1)
      BY <1>2, <2>1
    <3>0. x \in Int /\ W \in Nat \ {0}
      BY <1>2, <2>1
    <3>3. (x \in 0..(W - 1) => x % W = x) /\ (x \in W..(2 * W - 1) => x % W = x - W)
      BY <3>0, NearMod
    <3>. QED
      BY <3>1, <3>2, <3>3
  <2>3. x = c + d
    OBVIOUS
  <2> HIDE DEF x, y
  <2>4. y \in 0..(W - 1)
    BY <1>2, <2>1, <2>2
  <2>5. y \in Ticks
    BY <2>4 DEF Ticks
  <2> DEFINE z == After(y)
  <2>6. z \in Ticks /\ z = IF y = W - 1 THEN 0 ELSE y + 1
    BY <2>5, TickAfter
  <2> HIDE DEF z
  <2>7. D(z, j) = IF z >= j THEN z - j ELSE z - j + W
    BY <2>6, Dist
  <2>8. z = IF j + d < W THEN j + d ELSE j + d - W
    BY <1>1, <1>2, <1>9, <2>1, <2>2, <2>3, <2>4, <2>6
  <2>9. D(z, j) = d
    BY <1>2, <2>7, <2>8
  <2>. QED
    BY <2>3, <2>5, <2>9 DEF z, y
<1>. QED
  BY <1>7, <1>8, <1>9 DEF a, p, s

----------------------------------------------------------------------------
(* The inductive invariant.                                                 *)
InTraversal == pc \in {"fire", "callback"}
LastTick == Prior(jiffies)

TypeInv == TypeOK /\ tv \in Tables
ListInv == Chains(tv) /\ \A t \in Linked(tv) : timer[t].live

(* A traversal: what is due and not yet called is not before `saved'.       *)
Behind(t) == t = cur \/ timer[t].expires # LastTick
WalkInv ==
    /\ ~InTraversal => ~cut
    /\ InTraversal => /\ cur \in Timers /\ timer[cur].live /\ saved # cur
                      /\ saved # None => timer[saved].live
                      /\ cut /\ saved # None => saved \notin ToSet(tv[Slot])
                      /\ ~cut /\ saved = None => \A t \in ToSet(tv[Slot]) : Behind(t)
                      /\ ~cut /\ saved # None => /\ saved \in ToSet(tv[Slot])
                                                 /\ \A t \in Before(tv[Slot], saved) : Behind(t)
    /\ pc = "fire" => (cut => saved = None) /\ (~cut => cur \in ToSet(tv[Slot]))

SlotInv ==
    InTraversal => \A t \in ToSet(tv[Slot]) :
        \/ t \in left
        \/ timer[t].expires = LastTick
        \/ D(timer[t].expires, LastTick) = R /\ t \in ahead

DueInv ==
    \A l \in Lists : \A t \in ToSet(tv[l]) : t \notin late \union left =>
        \/ ~Late(timer[t].expires, jiffies)
        \/ InTraversal /\ l = Slot /\ timer[t].expires = LastTick

PlaceInv ==
    \A l \in Lists : \A t \in ToSet(tv[l]) :
        \/ InReach(l, timer[t].expires, jiffies)
        \/ l[1] = 1 /\ t \in left
        \/ InTraversal /\ l = Slot /\ timer[t].expires = LastTick

ClockInv == D(After(time), jiffies) \in 0..Half
ArmedInv == armed = Linked(tv)
NextInv ==
    ~InTraversal /\ left = {} =>
        \A t \in Linked(tv) \ late : D(timer[t].expires, next_timer) < Half

Inv == /\ TypeInv /\ ListInv /\ WalkInv /\ SlotInv /\ DueInv
       /\ PlaceInv /\ ClockInv /\ ArmedInv /\ NextInv

LEMMA TypeFacts ==
    ASSUME TypeInv
    PROVE  /\ jiffies \in Ticks /\ next_timer \in Ticks /\ time \in Ticks /\ tv \in Tables
           /\ Times(timer) /\ Base \in Bases /\ Base.j = jiffies /\ Base.tv = tv /\ Base.next = next_timer
           /\ LastTick \in Ticks /\ Slot \in Lists /\ Slot = <<1, LastTick % R>> /\ Slot[1] = 1
           /\ LastTick = (jiffies - 1) % W
<1>1. jiffies \in Ticks /\ next_timer \in Ticks /\ time \in Ticks /\ tv \in Tables
  BY DEF TypeInv, TypeOK, Ticks
<1>2. Times(timer)
  BY DEF TypeInv, TypeOK, Times, Ticks
<1>3. Base \in Bases /\ Base.j = jiffies /\ Base.tv = tv /\ Base.next = next_timer
  BY <1>1 DEF Base, Bases
<1>4. LastTick \in Ticks /\ LastTick = (jiffies - 1) % W
  BY <1>1, TickAfter DEF LastTick, Prior
<1>5. (jiffies - 1) % R = LastTick % R
  BY <1>1, SlotAfter DEF LastTick
<1>6. LastTick % R \in 0..(R - 1)
  BY <1>4, SlotAfter
<1>7. Slot = <<1, LastTick % R>>
  BY <1>5 DEF Slot
<1>8. Slot \in Lists /\ Slot[1] = 1
  <2>1. 1 \in Wheels /\ Size(1) = R
    BY DEF Wheels, Size
  <2>. QED
    BY <1>6, <1>7, <2>1, ListParts
<1>. QED
  BY <1>1, <1>2, <1>3, <1>4, <1>7, <1>8

(* Lists in reach, and no timer late: the next timer is known.              *)
LEMMA NextGood ==
    ASSUME NEW lists, Chains(lists), NEW tm, Times(tm), NEW j \in Ticks, Near(lists, tm, j), NEW T,
           \A t \in Linked(lists) \ T : D(tm[t].expires, j) < Half,
           NEW n, n = gp_next_timer(j, lists, tm)
    PROVE  \A t \in Linked(lists) \ T : D(tm[t].expires, n) < Half
<1> SUFFICES ASSUME NEW t \in Linked(lists) \ T PROVE D(tm[t].expires, n) < Half
  OBVIOUS
<1>1. PICK l \in Lists : t \in ToSet(lists[l])
  BY LinkedIs
<1>. QED
  BY <1>1, NextSoon

(* A step that takes timer t from its list, and puts it on another if `on'. *)
Moved(t, on, place) ==
    /\ tv' \in Tables /\ Chains(tv') /\ jiffies' = jiffies
    /\ \A l \in Lists : ToSet(tv'[l]) = (ToSet(tv[l]) \ {t}) \union (IF on /\ l = place THEN {t} ELSE {})
    /\ \A l \in Lists : \A x : x # t => Before(tv'[l], x) \subseteq Before(tv[l], x)
    /\ Linked(tv') = (Linked(tv) \ {t}) \union (IF on THEN {t} ELSE {})
    /\ \A u \in Timers : u # t => timer'[u] = timer[u]
    /\ on => /\ InReach(place, timer'[t].expires, jiffies) /\ place \in Lists
             /\ timer'[t].expires \in Ticks /\ timer'[t].live

LEMMA MovedOn ==
    ASSUME Inv, NEW t, NEW on, NEW place, Moved(t, on, place)
    PROVE  /\ Slot' = Slot /\ LastTick' = LastTick
           /\ \A l \in Lists : \A u \in ToSet(tv'[l]) :
                \/ u # t /\ u \in ToSet(tv[l]) /\ timer'[u] = timer[u]
                \/ /\ u = t /\ on /\ InReach(l, timer'[t].expires, jiffies)
                   /\ l = Slot => /\ D(timer'[t].expires, LastTick) = R
                                  /\ timer'[t].expires # LastTick
<1>1. Slot' = Slot /\ LastTick' = LastTick
  BY DEF Moved, Slot, LastTick
<1>2. jiffies \in Ticks /\ Slot = <<1, LastTick % R>> /\ tv \in Tables /\ Chains(tv) /\ LastTick \in Ticks
  BY TypeFacts DEF Inv, ListInv
<1>3. ASSUME NEW l \in Lists, NEW u \in ToSet(tv'[l]), u # t
      PROVE  u \in ToSet(tv[l]) /\ timer'[u] = timer[u]
  <2>1. u \in ToSet(tv[l])
    BY <1>3 DEF Moved
  <2>2. u \in Timers
    <3>1. u \in Linked(tv)
      BY <2>1, LinkedIs
    <3>. QED
      BY <1>2, <3>1, TablesChains
  <2>. QED
    BY <1>3, <2>1, <2>2 DEF Moved
<1>4. ASSUME NEW l \in Lists, t \in ToSet(tv'[l])
      PROVE  /\ on /\ InReach(l, timer'[t].expires, jiffies)
             /\ l = Slot => /\ D(timer'[t].expires, LastTick) = R
                            /\ timer'[t].expires # LastTick
  <2>1. on /\ l = place
    <3>1. ToSet(tv'[l]) = (ToSet(tv[l]) \ {t}) \union (IF on /\ l = place THEN {t} ELSE {})
      BY DEF Moved
    <3>. QED
      BY <1>4, <3>1
  <2>2. InReach(l, timer'[t].expires, jiffies) /\ timer'[t].expires \in Ticks
    BY <2>1 DEF Moved
  <2> DEFINE e == timer'[t].expires
             i == LastTick % R
  <2>3. ASSUME l = Slot PROVE D(e, LastTick) = R /\ e # LastTick
    <3>1. InReach(<<1, i>>, e, jiffies) /\ e \in Ticks /\ i = Prior(jiffies) % R
      BY <1>2, <2>2, <2>3 DEF LastTick
    <3> HIDE DEF e, i
    <3>2. D(e, LastTick) = R
      BY <1>2, <3>1, FirstWheel DEF LastTick
    <3>3. D(e, LastTick) = 0 <=> e = LastTick
      BY <1>2, <3>1, Nearer
    <3>. QED
      BY <3>2, <3>3, WheelFacts
  <2>. QED
    BY <2>1, <2>2, <2>3
<1>. QED
  BY <1>1, <1>3, <1>4

(* In a traversal, t not being `saved'.                                     *)
LEMMA MovedWalk ==
    ASSUME Inv, NEW t, NEW on, NEW place, Moved(t, on, place), InTraversal, t # saved,
           cut' = cut, saved' = saved
    PROVE  /\ cut /\ saved # None => saved \notin ToSet(tv'[Slot])
           /\ ~cut /\ saved = None => \A u \in ToSet(tv'[Slot]) :
                  (u = cur /\ u # t) \/ timer'[u].expires # LastTick
           /\ ~cut /\ saved # None => /\ saved \in ToSet(tv'[Slot])
                                      /\ \A u \in Before(tv'[Slot], saved) :
                                            (u = cur /\ u # t) \/ timer'[u].expires # LastTick
<1>1. /\ Slot \in Lists
      /\ cut /\ saved # None => saved \notin ToSet(tv[Slot])
      /\ ~cut /\ saved = None => \A u \in ToSet(tv[Slot]) : Behind(u)
      /\ ~cut /\ saved # None => /\ saved \in ToSet(tv[Slot])
                                 /\ \A u \in Before(tv[Slot], saved) : Behind(u)
  BY TypeFacts DEF Inv, WalkInv
<1>2. \A u \in ToSet(tv'[Slot]) :
         \/ u # t /\ u \in ToSet(tv[Slot]) /\ timer'[u] = timer[u]
         \/ u = t /\ timer'[u].expires # LastTick
  BY <1>1, MovedOn
<1>3. \A u \in ToSet(tv[Slot]) : u # t => u \in ToSet(tv'[Slot])
  BY <1>1 DEF Moved
<1>4. cut /\ saved # None => saved \notin ToSet(tv'[Slot])
  BY <1>1, <1>2
<1>5. ASSUME ~cut, saved = None, NEW u \in ToSet(tv'[Slot])
      PROVE  (u = cur /\ u # t) \/ timer'[u].expires # LastTick
  BY <1>1, <1>2, <1>5 DEF Behind
<1>6. ASSUME ~cut, saved # None, NEW u \in Before(tv'[Slot], saved)
      PROVE  (u = cur /\ u # t) \/ timer'[u].expires # LastTick
  <2>1. u \in Before(tv[Slot], saved)
    BY <1>1, <1>6 DEF Moved
  <2>2. u \in ToSet(tv'[Slot])
    <3> DEFINE s == tv'[Slot]
    <3>1. Chain(s) /\ u \in Before(s, saved)
      BY <1>1, <1>6 DEF Moved, Chains
    <3> HIDE DEF s
    <3>2. u \in ToSet(s)
      BY <3>1, ChainElements DEF Before
    <3>. QED
      BY <3>2 DEF s
  <2>. QED
    BY <1>1, <1>2, <1>6, <2>1, <2>2 DEF Behind
<1>. QED
  BY <1>1, <1>3, <1>4, <1>5, <1>6

LEMMA InitInv == Init => Inv
<1> SUFFICES ASSUME Init PROVE Inv
  OBVIOUS
<1>1. born \in Ticks /\ W - 1 \in Ticks /\ W \in Nat \ {0} /\ Half \in Nat \ {0} /\ W = 2 * Half /\ MaxOps \in Nat
  BY WheelFacts DEF Init, Ticks
<1>2. \A l \in Lists : tv[l] = <<>>
  BY DEF Init
<1>3. \A l \in Lists : Chain(tv[l]) /\ ToSet(tv[l]) = {} /\ tv[l] \in Seq(Timers)
  BY <1>2, EmptyIs DEF Chain
<1>4. tv \in Tables /\ DOMAIN tv = Lists
  BY <1>3 DEF Init, Tables
<1>5. Linked(tv) = {}
  BY <1>3, LinkedIs
<1>6. timer \in [Timers -> [live : BOOLEAN, expires : 0..(W - 1), interval : Offsets \union {0}, repeat : {0, 1}]]
  <2>1. 0 \in 0..(W - 1)
    BY <1>1
  <2>. QED
    BY <2>1 DEF Init, Unused
<1>7. TypeInv
  <2>1. jiffies \in 0..(W - 1) /\ next_timer \in 0..(W - 1) /\ time \in 0..(W - 1)
    BY <1>1 DEF Init, Ticks
  <2>2. \A l \in Lists : ToSet(tv[l]) \subseteq Timers
    BY <1>3
  <2>3. ops \in 0..MaxOps /\ born \in Births
    BY <1>1 DEF Init
  <2>4. /\ pc \in {"ticks", "fire", "callback", "handlers"}
        /\ cur \in Timers \union {None} /\ saved \in Timers \union {None}
        /\ armed \subseteq Timers /\ cut \in BOOLEAN
        /\ late \subseteq Timers /\ left \subseteq Timers /\ ahead \subseteq Timers
    BY DEF Init
  <2>. QED
    BY <1>4, <1>6, <2>1, <2>2, <2>3, <2>4 DEF TypeInv, TypeOK
<1>8. ListInv
  BY <1>3, <1>5 DEF ListInv, Chains
<1>9. ~InTraversal /\ ~cut /\ pc # "fire"
  BY DEF Init, InTraversal
<1>10. WalkInv /\ SlotInv /\ NextInv
  BY <1>5, <1>9 DEF WalkInv, SlotInv, NextInv
<1>11. DueInv /\ PlaceInv
  BY <1>3 DEF DueInv, PlaceInv
<1>12. ArmedInv
  BY <1>5 DEF Init, ArmedInv
<1>13. ClockInv
  <2>1. jiffies = born /\ time = born
    BY DEF Init
  <2> DEFINE a == After(born)
  <2>2. a \in Ticks /\ a = IF born = W - 1 THEN 0 ELSE born + 1
    BY <1>1, TickAfter
  <2> HIDE DEF a
  <2>3. D(a, born) = IF a >= born THEN a - born ELSE a - born + W
    BY <1>1, <2>2, Dist
  <2>4. D(a, born) = 1
    BY <1>1, <2>2, <2>3 DEF Ticks
  <2>. QED
    BY <1>1, <2>1, <2>4 DEF ClockInv, a
<1>. QED
  BY <1>7, <1>8, <1>10, <1>11, <1>12, <1>13 DEF Inv

(* What a moved timer leaves as it is.                                      *)
LEMMA MovedPlace ==
    ASSUME Inv, NEW t, NEW on, NEW place, Moved(t, on, place), pc' = pc, left \ {t} \subseteq left'
    PROVE  PlaceInv'
<1>1. InTraversal' = InTraversal /\ Slot' = Slot /\ LastTick' = LastTick /\ jiffies' = jiffies
  <2>1. InTraversal' = InTraversal
    BY Zenon DEF InTraversal
  <2>2. jiffies' = jiffies
    BY DEF Moved
  <2>3. Slot' = Slot /\ LastTick' = LastTick
    BY <2>2 DEF Slot, LastTick
  <2>. QED
    BY <2>1, <2>2, <2>3
<1>2. ASSUME NEW l \in Lists, NEW u \in ToSet(tv'[l])
      PROVE  \/ InReach(l, timer'[u].expires, jiffies)
             \/ l[1] = 1 /\ u \in left'
             \/ InTraversal /\ l = Slot /\ timer'[u].expires = LastTick
  <2>1. \/ u # t /\ u \in ToSet(tv[l]) /\ timer'[u] = timer[u]
        \/ u = t /\ InReach(l, timer'[t].expires, jiffies)
    BY <1>2, MovedOn
  <2>2. CASE u # t /\ u \in ToSet(tv[l]) /\ timer'[u] = timer[u]
    BY <2>2 DEF Inv, PlaceInv
  <2>. QED
    BY <2>1, <2>2
<1>. QED
  BY <1>1, <1>2 DEF PlaceInv

LEMMA MovedDue ==
    ASSUME Inv, NEW t, NEW on, NEW place, Moved(t, on, place), pc' = pc,
           left \ {t} \subseteq left', late \ {t} \subseteq late',
           on => t \in late' \/ ~IsLate(timer'[t].expires)
    PROVE  DueInv'
<1>1. InTraversal' = InTraversal /\ Slot' = Slot /\ LastTick' = LastTick /\ jiffies' = jiffies
  <2>1. InTraversal' = InTraversal
    BY Zenon DEF InTraversal
  <2>2. jiffies' = jiffies
    BY DEF Moved
  <2>3. Slot' = Slot /\ LastTick' = LastTick
    BY <2>2 DEF Slot, LastTick
  <2>. QED
    BY <2>1, <2>2, <2>3
<1>2. ASSUME NEW l \in Lists, NEW u \in ToSet(tv'[l]), u \notin late' \union left'
      PROVE  \/ ~Late(timer'[u].expires, jiffies)
             \/ InTraversal /\ l = Slot /\ timer'[u].expires = LastTick
  <2>1. \/ u # t /\ u \in ToSet(tv[l]) /\ timer'[u] = timer[u]
        \/ u = t /\ on
    BY <1>2, MovedOn
  <2>2. CASE u # t /\ u \in ToSet(tv[l]) /\ timer'[u] = timer[u]
    <3>1. u \notin late \union left
      BY <1>2, <2>2
    <3>. QED
      BY <2>2, <3>1 DEF Inv, DueInv
  <2>3. CASE u = t /\ on
    <3>1. timer'[t].expires \in Ticks
      BY <2>3 DEF Moved
    <3>2. ~IsLate(timer'[t].expires)
      BY <1>2, <2>3
    <3>3. jiffies \in Ticks
      BY TypeFacts DEF Inv
    <3> DEFINE e == timer'[t].expires
    <3>4. e \in Ticks /\ ~IsLate(e)
      BY <3>1, <3>2
    <3> HIDE DEF e
    <3>5. ~Late(e, jiffies)
      BY <3>3, <3>4, LateIs
    <3>. QED
      BY <2>3, <3>5 DEF e
  <2>. QED
    BY <2>1, <2>2, <2>3
<1>. QED
  BY <1>1, <1>2 DEF DueInv

LEMMA MovedList ==
    ASSUME Inv, NEW t, NEW on, NEW place, Moved(t, on, place)
    PROVE  ListInv'
<1>1. ASSUME NEW u \in Linked(tv') PROVE timer'[u].live
  <2>1. PICK l \in Lists : u \in ToSet(tv'[l])
    BY LinkedIs
  <2>2. \/ u # t /\ u \in ToSet(tv[l]) /\ timer'[u] = timer[u]
        \/ u = t /\ on
    BY <2>1, MovedOn
  <2>3. CASE u # t /\ u \in ToSet(tv[l]) /\ timer'[u] = timer[u]
    <3>1. u \in Linked(tv)
      BY <2>3, LinkedIs
    <3>. QED
      BY <2>3, <3>1 DEF Inv, ListInv
  <2>4. CASE u = t /\ on
    BY <2>4 DEF Moved
  <2>. QED
    BY <2>2, <2>3, <2>4
<1>2. Chains(tv')
  BY DEF Moved
<1>. QED
  BY <1>1, <1>2 DEF ListInv

(* After a step outside a traversal that computes next_timer.               *)
LEMMA NextKept ==
    ASSUME TypeInv', ListInv', PlaceInv', DueInv',
           next_timer' = gp_next_timer(jiffies', tv', timer')
    PROVE  NextInv'
<1> SUFFICES ASSUME ~InTraversal', left' = {}
             PROVE  \A t \in Linked(tv') \ late' : D(timer'[t].expires, next_timer') < Half
  BY DEF NextInv
<1> DEFINE j == jiffies'
           lists == tv'
           tm == timer'
           n == next_timer'
           T == late'
<1>1. j \in Ticks /\ Times(tm) /\ Chains(lists)
  BY DEF TypeInv, TypeOK, ListInv, Ticks, Times
<1>2. Near(lists, tm, j)
  BY DEF Near, PlaceInv
<1>3. n = gp_next_timer(j, lists, tm)
  OBVIOUS
<1>4. ASSUME NEW t \in Linked(lists) \ T PROVE D(tm[t].expires, j) < Half
  <2>1. PICK l \in Lists : t \in ToSet(lists[l])
    BY LinkedIs
  <2>2. ~Late(tm[t].expires, j)
    BY <2>1 DEF DueInv
  <2>3. tm[t].expires \in Ticks
    <3>1. lists \in Tables
      BY DEF TypeInv
    <3>2. t \in Timers
      BY <1>1, <3>1, TablesChains
    <3>. QED
      BY <1>1, <3>2 DEF Times
  <2> DEFINE e == tm[t].expires
  <2>4. e \in Ticks /\ ~Late(e, j)
    BY <2>2, <2>3
  <2> HIDE DEF e, j
  <2>5. D(e, j) < Half
    BY <1>1, <2>4, NotLate
  <2>. QED
    BY <2>5 DEF e
<1> HIDE DEF j, lists, tm, n, T
<1>5. \A t \in Linked(lists) \ T : D(tm[t].expires, n) < Half
  BY <1>1, <1>2, <1>3, <1>4, NextGood
<1>. QED
  BY <1>5 DEF j, lists, tm, n, T

(* gp_loop_timer_start and gp_loop_timer_mod.                               *)
Fields == [live : BOOLEAN, expires : 0..(W - 1), interval : Offsets \union {0}, repeat : {0, 1}]

LEMMA ArmKeeps ==
    ASSUME Inv, NEW t \in Timers, NEW x \in Ticks, NEW i \in Offsets, NEW r \in {0, 1},
           InUserCode, ~(pc = "callback" /\ t = saved),
           timer' = [timer EXCEPT ![t] = [live |-> TRUE, expires |-> x, interval |-> i, repeat |-> r]],
           Become(gp_timer_add(Base, timer', t)), Arm(t, timer'),
           UNCHANGED <<time, pc, cur, saved, born, cut>>
    PROVE  Inv'
<1> DEFINE c == gp_timer_add(Base, timer', t)
           place == ListFor(jiffies, x)
<1>1. /\ jiffies \in Ticks /\ next_timer \in Ticks /\ time \in Ticks /\ tv \in Tables
      /\ Base \in Bases /\ Base.j = jiffies /\ Base.tv = tv /\ Chains(tv) /\ Slot \in Lists
  BY TypeFacts DEF Inv, ListInv
<1>2. timer \in [Timers -> Fields]
  BY DEF Inv, TypeInv, TypeOK, Fields
<1>3. /\ timer' \in [Timers -> Fields] /\ timer'[t].expires = x /\ timer'[t].live
      /\ \A u \in Timers : u # t => timer'[u] = timer[u]
  <2> DEFINE f == [live |-> TRUE, expires |-> x, interval |-> i, repeat |-> r]
  <2>1. f \in Fields /\ f.expires = x /\ f.live
    BY DEF Fields, Ticks
  <2>2. timer' = [timer EXCEPT ![t] = f]
    OBVIOUS
  <2> HIDE DEF f
  <2>. QED
    BY <1>2, <2>1, <2>2
<1>4. Times(timer')
  BY <1>3 DEF Times, Fields, Ticks
<1>5. Added(c, Base, timer', t)
  BY <1>1, <1>4, AddIs
<1>6. jiffies' = c.j /\ tv' = c.tv /\ next_timer' = c.next
  BY DEF Become
<1> HIDE DEF c
<1>7. /\ jiffies' = jiffies /\ tv' \in Tables /\ Chains(tv') /\ next_timer' \in Ticks
      /\ next_timer' = gp_next_timer(jiffies, tv', timer')
      /\ place \in Lists /\ InReach(place, x, jiffies)
  BY <1>1, <1>3, <1>5, <1>6, ListForReach DEF Added, Bases
<1>8. Moved(t, TRUE, place)
  <2>1. \A l \in Lists : ToSet(tv'[l]) = (ToSet(tv[l]) \ {t}) \union (IF l = place THEN {t} ELSE {})
    BY <1>1, <1>3, <1>5, <1>6 DEF Added
  <2>2. \A l \in Lists : \A y : y # t => Before(tv'[l], y) \subseteq Before(tv[l], y)
    BY <1>1, <1>5, <1>6 DEF Added
  <2>3. Linked(tv') = (Linked(tv) \ {t}) \union {t}
    BY <1>1, <1>5, <1>6 DEF Added
  <2> HIDE DEF place
  <2>. QED
    BY <1>3, <1>7, <2>1, <2>2, <2>3 DEF Moved
<1> HIDE DEF place
<1>9. /\ armed' = armed \union {t} /\ left' = left \ {t}
      /\ late' = (IF IsLate(x) THEN late \union {t} ELSE late \ {t})
      /\ ahead' = (IF pc = "callback" /\ t \in ToSet(tv'[Slot]) THEN ahead \union {t} ELSE ahead \ {t})
  BY <1>3 DEF Arm, Note
<1>10. pc \in {"callback", "handlers"} /\ ops' \in 0..MaxOps /\ pc' = pc
  <2>1. ops \in 0..MaxOps /\ MaxOps \in Nat
    BY WheelFacts DEF Inv, TypeInv, TypeOK
  <2>. QED
    BY <2>1 DEF InUserCode
<1>11. TypeInv'
  <2>1. /\ jiffies' \in 0..(W - 1) /\ next_timer' \in 0..(W - 1) /\ time' \in 0..(W - 1)
        /\ timer' \in [Timers -> Fields] /\ ops' \in 0..MaxOps
    BY <1>1, <1>3, <1>7, <1>10 DEF Ticks
  <2>2. DOMAIN tv' = Lists /\ \A l \in Lists : ToSet(tv'[l]) \subseteq Timers
    <3>1. Linked(tv') \subseteq Timers
      BY <1>7, TablesChains
    <3>. QED
      BY <1>7, <3>1 DEF Tables, Linked
  <2>3. /\ armed' \subseteq Timers /\ late' \subseteq Timers /\ left' \subseteq Timers /\ ahead' \subseteq Timers
    BY <1>9 DEF Inv, TypeInv, TypeOK
  <2>4. /\ pc' \in {"ticks", "fire", "callback", "handlers"}
        /\ cur' \in Timers \union {None} /\ saved' \in Timers \union {None}
        /\ born' \in Births /\ cut' \in BOOLEAN
    BY DEF Inv, TypeInv, TypeOK
  <2>. QED
    BY <1>7, <2>1, <2>2, <2>3, <2>4 DEF TypeInv, TypeOK, Fields
<1>12. ListInv'
  BY <1>8, MovedList
<1>13. PlaceInv'
  BY <1>8, <1>9, <1>10, MovedPlace
<1>14. DueInv'
  <2>1. t \in late' \/ ~IsLate(timer'[t].expires)
    BY <1>3, <1>9
  <2>2. late \ {t} \subseteq late' /\ left \ {t} \subseteq left'
    BY <1>9
  <2>. QED
    BY <1>8, <1>10, <2>1, <2>2, MovedDue
<1>15. ClockInv'
  BY <1>7 DEF Inv, ClockInv
<1>16. ArmedInv'
  BY <1>8, <1>9 DEF Inv, ArmedInv, Moved
<1>17. NextInv'
  BY <1>7, <1>11, <1>12, <1>13, <1>14, NextKept
<1>18. Slot' = Slot /\ LastTick' = LastTick /\ InTraversal' = InTraversal
  BY <1>8, <1>10, MovedOn DEF InTraversal
<1>19. SlotInv'
  <2> SUFFICES ASSUME InTraversal, NEW u \in ToSet(tv'[Slot])
               PROVE  \/ u \in left'
                      \/ timer'[u].expires = LastTick
                      \/ D(timer'[u].expires, LastTick) = R /\ u \in ahead'
    BY <1>18 DEF SlotInv
  <2>1. \/ u # t /\ u \in ToSet(tv[Slot]) /\ timer'[u] = timer[u]
        \/ u = t /\ D(timer'[t].expires, LastTick) = R
    BY <1>1, <1>8, MovedOn
  <2>2. CASE u # t /\ u \in ToSet(tv[Slot]) /\ timer'[u] = timer[u]
    BY <1>9, <2>2 DEF Inv, SlotInv
  <2>3. CASE u = t /\ D(timer'[t].expires, LastTick) = R
    <3>1. pc = "callback"
      BY <1>10 DEF InTraversal
    <3>. QED
      BY <1>9, <2>3, <3>1
  <2>. QED
    BY <2>1, <2>2, <2>3
<1>20. WalkInv'
  <2>1. CASE ~InTraversal
    BY <1>10, <1>18, <2>1 DEF Inv, WalkInv, InTraversal
  <2>2. CASE InTraversal
    <3>1. pc = "callback" /\ t # saved
      BY <1>10, <2>2 DEF InTraversal
    <3>2. cur \in Timers /\ timer[cur].live /\ saved # cur /\ (saved # None => timer[saved].live)
      BY <2>2 DEF Inv, WalkInv
    <3>3. timer'[cur].live
      BY <1>3, <3>2
    <3>4. saved # None => timer'[saved].live
      BY <1>3, <3>1, <3>2 DEF Inv, TypeInv, TypeOK
    <3>5. /\ cut /\ saved # None => saved \notin ToSet(tv'[Slot])
          /\ ~cut /\ saved = None => \A u \in ToSet(tv'[Slot]) :
                 (u = cur /\ u # t) \/ timer'[u].expires # LastTick
          /\ ~cut /\ saved # None => /\ saved \in ToSet(tv'[Slot])
                                     /\ \A u \in Before(tv'[Slot], saved) :
                                           (u = cur /\ u # t) \/ timer'[u].expires # LastTick
      BY <1>8, <2>2, <3>1, MovedWalk
    <3>6. cur' = cur /\ saved' = saved /\ cut' = cut /\ pc' # "fire" /\ InTraversal'
      BY <1>18, <2>2, <3>1
    <3>. QED
      BY <1>18, <3>2, <3>3, <3>4, <3>5, <3>6 DEF WalkInv, Behind
  <2>. QED
    BY <2>1, <2>2
<1>. QED
  BY <1>11, <1>12, <1>13, <1>14, <1>15, <1>16, <1>17, <1>19, <1>20 DEF Inv

(* gp_loop_timer_stop and destruct_gp_timer.                                *)
LEMMA StopKeeps ==
    ASSUME Inv, NEW t \in Timers, gp_loop_timer_stop(t)
    PROVE  Inv'
<1>1. /\ InUserCode /\ tv' = Removed(tv, t) /\ armed' = armed \ {t}
      /\ cut' = (cut \/ (pc = "callback" /\ t = saved))
      /\ UNCHANGED <<jiffies, next_timer, timer, time, pc, cur, saved, born, late, left, ahead>>
  BY DEF gp_loop_timer_stop
<1>2. tv \in Tables /\ Chains(tv) /\ Slot \in Lists
  BY TypeFacts DEF Inv, ListInv
<1>3. /\ tv' \in Tables /\ Chains(tv')
      /\ \A l \in Lists : ToSet(tv'[l]) = ToSet(tv[l]) \ {t}
      /\ \A l \in Lists : \A x : x # t => Before(tv'[l], x) \subseteq Before(tv[l], x)
      /\ Linked(tv') = Linked(tv) \ {t}
  BY <1>1, <1>2, RemovedIs
<1>4. Moved(t, FALSE, Slot)
  BY <1>1, <1>3 DEF Moved
<1>5. pc \in {"callback", "handlers"} /\ ops' \in 0..MaxOps /\ pc' = pc
  <2>1. ops \in 0..MaxOps /\ MaxOps \in Nat
    BY WheelFacts DEF Inv, TypeInv, TypeOK
  <2>. QED
    BY <1>1, <2>1 DEF InUserCode
<1>6. Slot' = Slot /\ LastTick' = LastTick /\ InTraversal' = InTraversal
  BY <1>4, <1>5, MovedOn DEF InTraversal
<1>7. TypeInv'
  <2>1. DOMAIN tv' = Lists /\ \A l \in Lists : ToSet(tv'[l]) \subseteq Timers
    BY <1>3 DEF Tables, Inv, TypeInv, TypeOK
  <2>2. cut' \in BOOLEAN
    BY <1>1
  <2>. QED
    BY <1>1, <1>3, <1>5, <2>1, <2>2 DEF Inv, TypeInv, TypeOK
<1>8. ListInv'
  BY <1>4, MovedList
<1>9. PlaceInv'
  BY <1>1, <1>4, MovedPlace
<1>10. DueInv'
  BY <1>1, <1>4, MovedDue
<1>11. ClockInv' /\ ArmedInv'
  BY <1>1, <1>3 DEF Inv, ClockInv, ArmedInv
<1>12. NextInv'
  BY <1>1, <1>3, <1>6 DEF Inv, NextInv
<1>13. SlotInv'
  BY <1>1, <1>2, <1>3, <1>6 DEF Inv, SlotInv
<1>14. WalkInv'
  <2>1. CASE ~InTraversal
    <3>1. pc # "callback" /\ ~cut /\ pc # "fire"
      BY <2>1 DEF InTraversal, Inv, WalkInv
    <3>2. ~cut'
      BY <1>1, <3>1
    <3>. QED
      BY <1>1, <1>6, <2>1, <3>1, <3>2 DEF WalkInv
  <2>2. CASE InTraversal
    <3>1. pc = "callback"
      BY <1>5, <2>2 DEF InTraversal
    <3>2. cur \in Timers /\ timer[cur].live /\ saved # cur /\ (saved # None => timer[saved].live)
      BY <2>2 DEF Inv, WalkInv
    <3>3. CASE t = saved
      <4>1. cut' /\ saved \notin ToSet(tv'[Slot])
        BY <1>1, <1>2, <1>3, <3>1, <3>3
      <4>. QED
        BY <1>1, <1>6, <2>2, <3>1, <3>2, <4>1 DEF WalkInv
    <3>4. CASE t # saved
      <4>1. cut' = cut
        BY <1>1, <3>4 DEF Inv, TypeInv, TypeOK
      <4>2. /\ cut /\ saved # None => saved \notin ToSet(tv'[Slot])
            /\ ~cut /\ saved = None => \A u \in ToSet(tv'[Slot]) :
                   (u = cur /\ u # t) \/ timer'[u].expires # LastTick
            /\ ~cut /\ saved # None => /\ saved \in ToSet(tv'[Slot])
                                       /\ \A u \in Before(tv'[Slot], saved) :
                                             (u = cur /\ u # t) \/ timer'[u].expires # LastTick
        BY <1>1, <1>4, <2>2, <3>4, <4>1, MovedWalk
      <4>. QED
        BY <1>1, <1>6, <2>2, <3>1, <3>2, <4>1, <4>2 DEF WalkInv, Behind
    <3>. QED
      BY <3>3, <3>4
  <2>. QED
    BY <2>1, <2>2
<1>. QED
  BY <1>7, <1>8, <1>9, <1>10, <1>11, <1>12, <1>13, <1>14 DEF Inv

LEMMA DestructKeeps ==
    ASSUME Inv, NEW t \in Timers, destruct_gp_timer(t)
    PROVE  Inv'
<1>1. /\ InUserCode /\ pc = "handlers" /\ tv' = Removed(tv, t) /\ timer' = [timer EXCEPT ![t] = Unused]
      /\ armed' = armed \ {t} /\ late' = late \ {t} /\ ahead' = ahead \ {t}
      /\ UNCHANGED <<jiffies, next_timer, time, pc, cur, saved, born, cut, left>>
  BY DEF destruct_gp_timer
<1>2. tv \in Tables /\ Chains(tv) /\ Slot \in Lists
  BY TypeFacts DEF Inv, ListInv
<1>3. /\ tv' \in Tables /\ Chains(tv')
      /\ \A l \in Lists : ToSet(tv'[l]) = ToSet(tv[l]) \ {t}
      /\ \A l \in Lists : \A x : x # t => Before(tv'[l], x) \subseteq Before(tv[l], x)
      /\ Linked(tv') = Linked(tv) \ {t}
  BY <1>1, <1>2, RemovedIs
<1>4. timer' \in [Timers -> Fields] /\ \A u \in Timers : u # t => timer'[u] = timer[u]
  <2>1. timer \in [Timers -> Fields]
    BY DEF Inv, TypeInv, TypeOK, Fields
  <2>2. Unused \in Fields
    <3>1. 0 \in 0..(W - 1)
      BY WheelFacts
    <3>. QED
      BY <3>1 DEF Unused, Fields
  <2>. QED
    BY <1>1, <2>1, <2>2
<1>5. Moved(t, FALSE, Slot)
  BY <1>1, <1>3, <1>4 DEF Moved
<1>6. ops' \in 0..MaxOps /\ pc' = pc
  <2>1. ops \in 0..MaxOps /\ MaxOps \in Nat
    BY WheelFacts DEF Inv, TypeInv, TypeOK
  <2>. QED
    BY <1>1, <2>1 DEF InUserCode
<1>7. ~InTraversal /\ ~InTraversal'
  BY <1>1 DEF InTraversal
<1>8. TypeInv'
  <2>1. DOMAIN tv' = Lists /\ \A l \in Lists : ToSet(tv'[l]) \subseteq Timers
    BY <1>3 DEF Tables, Inv, TypeInv, TypeOK
  <2>2. late' \subseteq Timers /\ ahead' \subseteq Timers /\ armed' \subseteq Timers
    BY <1>1 DEF Inv, TypeInv, TypeOK
  <2>. QED
    BY <1>1, <1>3, <1>4, <1>6, <2>1, <2>2 DEF Inv, TypeInv, TypeOK, Fields
<1>9. ListInv'
  BY <1>5, MovedList
<1>10. PlaceInv'
  BY <1>1, <1>5, MovedPlace
<1>11. DueInv'
  BY <1>1, <1>5, MovedDue
<1>12. ClockInv' /\ ArmedInv'
  BY <1>1, <1>3 DEF Inv, ClockInv, ArmedInv
<1>13. NextInv'
  <2> SUFFICES ASSUME left = {}, NEW u \in Linked(tv') \ late'
               PROVE  D(timer'[u].expires, next_timer') < Half
    BY <1>1 DEF NextInv
  <2>1. u \in Linked(tv) \ late /\ u # t
    BY <1>1, <1>3
  <2>2. timer'[u] = timer[u]
    BY <1>2, <1>4, <2>1, TablesChains
  <2>. QED
    BY <1>1, <1>7, <2>1, <2>2 DEF Inv, NextInv
<1>14. SlotInv' /\ WalkInv'
  BY <1>1, <1>7 DEF Inv, SlotInv, WalkInv
<1>. QED
  BY <1>8, <1>9, <1>10, <1>11, <1>12, <1>13, <1>14 DEF Inv

(* The steps between user code and gp_run_timers.                           *)
LEMMA FireKeeps ==
    ASSUME Inv, Fire
    PROVE  Inv'
<1>1. /\ pc = "fire" /\ pc' = "callback"
      /\ UNCHANGED <<jiffies, next_timer, tv, timer, time, cur, saved, ops, born, history>>
  BY DEF Fire
<1>2. UNCHANGED <<armed, cut, late, left, ahead>>
  BY <1>1 DEF history
<1>3. InTraversal /\ InTraversal' /\ Slot' = Slot /\ LastTick' = LastTick
  BY <1>1 DEF InTraversal, Slot, LastTick
<1>4. TypeInv'
  BY <1>1, <1>2 DEF Inv, TypeInv, TypeOK
<1>5. ListInv' /\ ClockInv' /\ ArmedInv' /\ NextInv'
  BY <1>1, <1>2, <1>3 DEF Inv, ListInv, ClockInv, ArmedInv, NextInv
<1>6. SlotInv' /\ DueInv' /\ PlaceInv'
  BY <1>1, <1>2, <1>3 DEF Inv, SlotInv, DueInv, PlaceInv
<1>7. WalkInv'
  BY <1>1, <1>2, <1>3 DEF Inv, WalkInv, Behind
<1>. QED
  BY <1>4, <1>5, <1>6, <1>7 DEF Inv

LEMMA HandlersKeeps ==
    ASSUME Inv, HandlersDone
    PROVE  Inv'
<1>1. /\ pc = "handlers" /\ pc' = "ticks"
      /\ UNCHANGED <<jiffies, next_timer, tv, timer, time, cur, saved, ops, born, history>>
  BY DEF HandlersDone
<1>2. UNCHANGED <<armed, cut, late, left, ahead>>
  BY <1>1 DEF history
<1>3. ~InTraversal /\ ~InTraversal'
  BY <1>1 DEF InTraversal
<1>4. TypeInv'
  BY <1>1, <1>2 DEF Inv, TypeInv, TypeOK
<1>5. ListInv' /\ ClockInv' /\ ArmedInv' /\ NextInv'
  BY <1>1, <1>2, <1>3 DEF Inv, ListInv, ClockInv, ArmedInv, NextInv
<1>6. SlotInv' /\ DueInv' /\ PlaceInv'
  BY <1>1, <1>2, <1>3 DEF Inv, SlotInv, DueInv, PlaceInv
<1>7. WalkInv'
  BY <1>1, <1>2, <1>3 DEF Inv, WalkInv
<1>. QED
  BY <1>4, <1>5, <1>6, <1>7 DEF Inv

(* When the loop polls, the last tick that was run is the time.             *)
LEMMA PollTime ==
    ASSUME Inv, AtPoll
    PROVE  time = LastTick /\ ~InTraversal /\ pc = "ticks"
<1>1. jiffies \in Ticks /\ time \in Ticks
  BY TypeFacts DEF Inv
<1>2. pc = "ticks" /\ ~(Signed(time - jiffies) >= 0)
  BY DEF AtPoll, MoreTicks
<1>3. Signed(time - jiffies) < 0
  <2>1. Signed(time - jiffies) = IF D(time, jiffies) < Half THEN D(time, jiffies) ELSE D(time, jiffies) - W
    BY SignedIs DEF D
  <2>2. D(time, jiffies) \in Ticks
    BY <1>1, Dist
  <2>3. D(time, jiffies) \in Nat /\ W \in Nat
    BY <2>2, WheelFacts DEF Ticks
  <2>. QED
    BY <1>2, <2>1, <2>3
<1>4. D(After(time), jiffies) \in 0..Half
  BY DEF Inv, ClockInv
<1>5. time = Prior(jiffies)
  BY <1>1, <1>3, <1>4, Clock
<1>. QED
  BY <1>2, <1>5 DEF InTraversal, LastTick

LEMMA PollKeeps ==
    ASSUME Inv, Poll
    PROVE  Inv'
<1>1. PICK d \in 0..MaxSleep : time' = (time + d) % W
  BY DEF Poll
<1>2. /\ AtPoll /\ pc' = "handlers"
      /\ UNCHANGED <<jiffies, next_timer, tv, timer, cur, saved, ops, born, history>>
  BY DEF Poll
<1>3. UNCHANGED <<armed, cut, late, left, ahead>>
  BY <1>2 DEF history
<1>4. ~InTraversal /\ ~InTraversal' /\ time = LastTick
  BY <1>2, PollTime DEF InTraversal
<1>5. jiffies \in Ticks /\ time \in Ticks /\ D(After(time), jiffies) \in 0..Half
  BY TypeFacts DEF Inv, ClockInv
<1>6. d \in 0..Half
  BY <1>1, WheelFacts
<1>7. time' \in Ticks /\ D(After(time'), jiffies) \in 0..Half
  <2>1. (time + d) % W \in Ticks /\ D(After((time + d) % W), jiffies) \in 0..Half
    <3>1. time = Prior(jiffies)
      BY <1>4 DEF LastTick
    <3>2. \A x \in 0..Half : time = Prior(jiffies) => /\ (time + x) % W \in Ticks
                                                     /\ D(After((time + x) % W), jiffies) \in 0..Half
      BY <1>5, Clock
    <3>. QED
      BY <1>6, <3>1, <3>2
  <2>. QED
    BY <1>1, <2>1
<1>8. TypeInv'
  BY <1>2, <1>3, <1>7 DEF Inv, TypeInv, TypeOK, Ticks
<1>9. ListInv' /\ ClockInv' /\ ArmedInv' /\ NextInv'
  BY <1>2, <1>3, <1>4, <1>7 DEF Inv, ListInv, ClockInv, ArmedInv, NextInv
<1>10. SlotInv' /\ DueInv' /\ PlaceInv'
  BY <1>2, <1>3, <1>4 DEF Inv, SlotInv, DueInv, PlaceInv
<1>11. WalkInv'
  BY <1>2, <1>3, <1>4 DEF Inv, WalkInv, InTraversal
<1>. QED
  BY <1>8, <1>9, <1>10, <1>11 DEF Inv

(* A tick of gp_run_timers.                                                 *)
LEMMA TickKeeps ==
    ASSUME Inv, Tick
    PROVE  Inv'
<1> DEFINE j == jiffies
           b == Cascaded(Base, timer)
           slot == <<1, jiffies % R>>
           run == b.tv[slot]
<1>1. /\ pc = "ticks" /\ MoreTicks
      /\ Become([b EXCEPT !.j = (@ + 1) % W])
      /\ cur' = (IF run = <<>> THEN None ELSE Head(run))
      /\ saved' = (IF Len(run) < 2 THEN None ELSE run[2])
      /\ pc' = (IF run = <<>> THEN "ticks" ELSE "fire")
      /\ UNCHANGED <<timer, time, ops, born, history>>
  BY DEF Tick
<1>2. UNCHANGED <<armed, cut, late, left, ahead>>
  BY <1>1 DEF history
<1>3. /\ j \in Ticks /\ time \in Ticks /\ Times(timer) /\ tv \in Tables /\ Chains(tv)
      /\ Base \in Bases /\ Base.j = j /\ Base.tv = tv /\ Base.next = next_timer
  BY TypeFacts DEF Inv, ListInv
<1>4. ~InTraversal /\ ~cut
  BY <1>1 DEF InTraversal, Inv, WalkInv
<1>5. armed = Linked(tv) /\ armed \subseteq Timers
  BY <1>3, TablesChains DEF Inv, ArmedInv
<1>6. Ready(Base, j, timer, armed, left, late)
  <2>1. \A l \in Lists : \A t \in ToSet(tv[l]) : InReach(l, timer[t].expires, j) \/ (l[1] = 1 /\ t \in left)
    BY <1>4 DEF Inv, PlaceInv
  <2>2. left = {} => \A t \in armed \ late : D(timer[t].expires, next_timer) < Half
    BY <1>4, <1>5 DEF Inv, NextInv
  <2>. QED
    BY <1>3, <1>5, <2>1, <2>2 DEF Ready
<1>7. ASSUME NEW t \in armed \ (late \union left)
      PROVE  ~Late(timer[t].expires, j) /\ timer[t].expires \in Ticks
  <2>1. PICK l \in Lists : t \in ToSet(tv[l])
    BY <1>5, LinkedIs
  <2>. QED
    BY <1>3, <1>4, <1>5, <2>1 DEF Inv, DueInv, Times
<1>8. left = {} => \A t \in armed \ late : D(timer[t].expires, j) < Half
  <2> SUFFICES ASSUME left = {}, NEW t \in armed \ late PROVE D(timer[t].expires, j) < Half
    OBVIOUS
  <2> DEFINE e == timer[t].expires
  <2>1. ~Late(e, j) /\ e \in Ticks
    BY <1>7
  <2> HIDE DEF e
  <2>2. D(e, j) < Half
    BY <1>3, <2>1, NotLate
  <2>. QED
    BY <2>2 DEF e
<1>9. /\ Ready(b, j, timer, armed, left, late)
      /\ \A l \in Lists : \A t \in ToSet(b.tv[l]) : ~Hot(l, timer[t].expires, j)
  <2>1. j \in Ticks /\ Times(timer) /\ b = Cascaded(Base, timer)
    BY <1>3
  <2> HIDE DEF b, j
  <2>. QED
    BY <1>6, <1>8, <2>1, CascadedReady
<1> HIDE DEF b
<1>10. /\ b \in Bases /\ b.j = j /\ Chains(b.tv) /\ Linked(b.tv) = armed /\ b.tv \in Tables /\ b.next \in Ticks
       /\ \A l \in Lists : \A t \in ToSet(b.tv[l]) : InReach(l, timer[t].expires, j) \/ (l[1] = 1 /\ t \in left)
       /\ left = {} => \A t \in armed \ late : D(timer[t].expires, b.next) < Half
  BY <1>9 DEF Ready, Bases
<1>11. jiffies' = After(j) /\ tv' = b.tv /\ next_timer' = b.next
  <2>1. b = [j |-> j, tv |-> b.tv, next |-> b.next]
    BY <1>10 DEF Bases
  <2>2. [b EXCEPT !.j = (@ + 1) % W] = [j |-> (j + 1) % W, tv |-> b.tv, next |-> b.next]
    BY <2>1
  <2>. QED
    BY <1>1, <2>2 DEF Become, After
<1>12. /\ After(j) \in Ticks /\ Prior(After(j)) = j /\ LastTick' = j
  BY <1>3, <1>11, TickAfter DEF LastTick
<1>13. Slot' = slot /\ slot \in Lists /\ slot[1] = 1
  <2>1. (After(j) - 1) % R = j % R /\ j % R \in 0..(R - 1)
    BY <1>3, SlotAfter
  <2>2. 1 \in Wheels /\ Size(1) = R
    BY DEF Wheels, Size
  <2>. QED
    BY <1>11, <2>1, <2>2, ListParts DEF Slot
<1>14. Chain(run) /\ run = tv'[Slot']
  BY <1>10, <1>11, <1>13 DEF Chains
<1>15. ASSUME NEW l \in Lists, NEW t \in ToSet(b.tv[l]) PROVE timer[t].expires \in Ticks /\ t \in armed
  <2>1. t \in armed
    BY <1>10, <1>15, LinkedIs
  <2>. QED
    BY <1>3, <1>5, <2>1 DEF Times
<1>16. ASSUME NEW l \in Lists, NEW t \in ToSet(b.tv[l]), InReach(l, timer[t].expires, j)
       PROVE  \/ InReach(l, timer[t].expires, After(j)) /\ timer[t].expires # j
              \/ timer[t].expires = j /\ l = slot /\ InTraversal'
  <2> DEFINE e == timer[t].expires
  <2>1. e \in Ticks /\ InReach(l, e, j) /\ ~Hot(l, e, j)
    BY <1>9, <1>15, <1>16
  <2> HIDE DEF e
  <2>2. CASE Reached(l[1], e) # j
    <3>1. InReach(l, e, After(j)) /\ e # j
      BY <1>3, <2>1, <2>2, ReachTick
    <3>. QED
      BY <3>1 DEF e
  <2>3. CASE Reached(l[1], e) = j
    <3>1. l[1] = 1
      BY <2>1, <2>3 DEF Hot
    <3>2. e = j
      <4>1. 1 \in Wheels
        BY DEF Wheels
      <4>2. Reached(1, e) = e
        BY <2>1, <4>1, ReachedFacts
      <4>. QED
        BY <2>3, <3>1, <4>2
    <3> DEFINE i == l[2]
    <3>3. l = <<1, i>>
      BY <3>1, ListParts
    <3> HIDE DEF i
    <3>4. i = e % R
      BY <1>3, <2>1, <3>3, FirstWheel
    <3>5. l = slot
      BY <3>2, <3>3, <3>4
    <3>6. run # <<>>
      BY <1>16, <3>5, EmptyIs
    <3>7. InTraversal'
      BY <1>1, <3>6 DEF InTraversal
    <3>. QED
      BY <3>2, <3>5, <3>7 DEF e
  <2>. QED
    BY <2>2, <2>3
<1>17. TypeInv'
  <2>1. jiffies' \in 0..(W - 1) /\ next_timer' \in 0..(W - 1) /\ time' \in 0..(W - 1)
    BY <1>1, <1>3, <1>10, <1>11, <1>12 DEF Ticks
  <2>2. DOMAIN tv' = Lists /\ tv' \in Tables /\ \A l \in Lists : ToSet(tv'[l]) \subseteq Timers
    BY <1>5, <1>10, <1>11, <1>15 DEF Tables
  <2>3. cur' \in Timers \union {None} /\ saved' \in Timers \union {None}
    <3>1. /\ Len(run) \in Nat /\ (\A i \in 1..Len(run) : run[i] \in Timers) /\ (run = <<>> <=> Len(run) = 0)
      <4> HIDE DEF run
      <4>. QED
        BY <1>14, ChainElements
    <3>2. run # <<>> => Head(run) = run[1]
      <4>1. run \in Seq(Timers)
        BY <1>14 DEF Chain
      <4> HIDE DEF run
      <4>. QED
        BY <4>1, HeadTailProperties
    <3> HIDE DEF run
    <3>. QED
      BY <1>1, <3>1, <3>2
  <2>4. pc' \in {"ticks", "fire", "callback", "handlers"}
    BY <1>1
  <2>5. timer' = timer /\ ops' = ops /\ born' = born
    BY <1>1
  <2>. QED
    BY <1>2, <2>1, <2>2, <2>3, <2>4, <2>5 DEF Inv, TypeInv, TypeOK
<1>18. ListInv'
  BY <1>1, <1>5, <1>10, <1>11 DEF Inv, ListInv
<1>19. PlaceInv'
  <2> SUFFICES ASSUME NEW l \in Lists, NEW t \in ToSet(b.tv[l])
               PROVE  \/ InReach(l, timer[t].expires, After(j))
                      \/ l[1] = 1 /\ t \in left
                      \/ InTraversal' /\ l = slot /\ timer[t].expires = j
    BY <1>1, <1>2, <1>11, <1>12, <1>13 DEF PlaceInv
  <2>. QED
    BY <1>10, <1>16
<1>20. DueInv'
  <2> SUFFICES ASSUME NEW l \in Lists, NEW t \in ToSet(b.tv[l]), t \notin late \union left
               PROVE  \/ ~Late(timer[t].expires, After(j))
                      \/ InTraversal' /\ l = slot /\ timer[t].expires = j
    BY <1>1, <1>2, <1>11, <1>12, <1>13 DEF DueInv
  <2> DEFINE e == timer[t].expires
  <2>1. ~Late(e, j) /\ e \in Ticks
    BY <1>7, <1>15
  <2>2. InReach(l, e, j)
    BY <1>10
  <2>3. CASE e # j
    <3> HIDE DEF e
    <3>1. ~Late(e, After(j))
      BY <1>3, <2>1, <2>3, NotLate
    <3>. QED
      BY <3>1 DEF e
  <2>4. CASE e = j
    BY <1>16, <2>2, <2>4
  <2>. QED
    BY <2>3, <2>4
<1>21. SlotInv'
  <2> SUFFICES ASSUME NEW t \in ToSet(b.tv[slot]) PROVE t \in left \/ timer[t].expires = j
    BY <1>1, <1>2, <1>11, <1>12, <1>13 DEF SlotInv
  <2>1. CASE InReach(slot, timer[t].expires, j)
    <3> DEFINE e == timer[t].expires
               i == j % R
    <3>1. e \in Ticks /\ InReach(<<1, i>>, e, j) /\ i = j % R
      BY <1>13, <1>15, <2>1
    <3> HIDE DEF e, i
    <3>2. e = j
      BY <1>3, <3>1, FirstWheel
    <3>. QED
      BY <3>2 DEF e
  <2>. QED
    BY <1>10, <1>13, <2>1
<1>22. ArmedInv' /\ NextInv'
  BY <1>1, <1>2, <1>10, <1>11 DEF ArmedInv, NextInv
<1>23. ClockInv'
  <2>1. D(After(time), j) \in 0..Half /\ Signed(time - j) >= 0
    BY <1>1 DEF Inv, ClockInv, MoreTicks
  <2>2. D(After(time), After(j)) \in 0..Half
    BY <1>3, <2>1, Clock
  <2>. QED
    BY <1>1, <1>11, <2>2 DEF ClockInv
<1>24. WalkInv'
  <2>1. CASE run = <<>>
    <3>1. ~InTraversal' /\ ~cut' /\ pc' # "fire"
      BY <1>1, <1>2, <1>4, <2>1 DEF InTraversal
    <3>. QED
      BY <3>1 DEF WalkInv
  <2>2. CASE run # <<>>
    <3> DEFINE n == Len(run)
    <3>1. /\ n \in Nat \ {0} /\ (\A i \in 1..n : run[i] \in Timers /\ run[i] \in ToSet(run))
          /\ ToSet(run) = {run[i] : i \in 1..n} /\ run \in Seq(Timers)
      <4> HIDE DEF run
      <4>. QED
        BY <1>14, <2>2, ChainElements DEF Chain
    <3>2. \A p, q \in 1..n : run[p] = run[q] => p = q
      BY <1>14 DEF Chain
    <3>3. Head(run) = run[1]
      <4> HIDE DEF run
      <4>. QED
        BY <2>2, <3>1, HeadTailProperties
    <3>4. pc' = "fire" /\ cur' = run[1] /\ saved' = (IF n < 2 THEN None ELSE run[2]) /\ InTraversal' /\ ~cut'
      BY <1>1, <1>2, <1>4, <2>2, <3>3 DEF InTraversal
    <3>5. \A t \in ToSet(run) : timer'[t].live
      <4>1. \A t \in ToSet(run) : t \in armed
        BY <1>13, <1>15
      <4>. QED
        BY <1>1, <1>5, <4>1 DEF Inv, ListInv
    <3>6. Before(run, saved') \subseteq {run[1]} \/ saved' = None
      <4> SUFFICES ASSUME saved' # None, NEW y \in Before(run, saved') PROVE y = run[1]
        OBVIOUS
      <4>1. PICK q \in 1..n, p \in 1..n : y = run[q] /\ q < p /\ run[p] = saved'
        BY DEF Before
      <4>2. saved' = run[2] /\ 2 \in 1..n
        BY <3>1, <3>4
      <4>3. p = 2
        BY <3>2, <4>1, <4>2
      <4>4. q = 1
        <5>1. q \in Nat /\ q >= 1 /\ q < 2
          BY <3>1, <4>1, <4>3
        <5>. QED
          BY <5>1
      <4>. QED
        BY <4>1, <4>4
    <3> HIDE DEF run
    <3>7. cur' \in Timers /\ cur' \in ToSet(run) /\ timer'[cur'].live
      <4>1. 1 \in 1..n
        BY <3>1
      <4>. QED
        BY <3>1, <3>4, <3>5, <4>1
    <3>8. CASE n < 2
      <4>1. saved' = None /\ cur' # None
        BY <3>4, <3>7, <3>8, WheelFacts
      <4>2. \A t \in ToSet(run) : t = cur'
        <5>0. n \in Nat \ {0} /\ n < 2
          BY <3>1, <3>8
        <5>1. n = 1
          <6> HIDE DEF n
          <6>. QED
            BY <5>0
        <5>2. \A i \in 1..n : i = 1
          BY <5>1
        <5>. QED
          BY <3>1, <3>4, <5>2
      <4>. QED
        BY <1>14, <3>4, <3>7, <4>1, <4>2 DEF WalkInv, Behind
    <3>9. CASE ~(n < 2)
      <4>1. 1 \in 1..n /\ 2 \in 1..n
        BY <3>1, <3>9
      <4>2. saved' = run[2] /\ saved' \in ToSet(run) /\ saved' \in Timers /\ timer'[saved'].live
        BY <3>1, <3>4, <3>5, <3>9, <4>1
      <4>3. saved' # cur' /\ saved' # None
        <5>1. run[1] # run[2]
          BY <3>2, <4>1
        <5>. QED
          BY <3>4, <4>2, <5>1, WheelFacts
      <4>4. \A t \in Before(run, saved') : t = cur'
        BY <3>4, <3>6, <4>3
      <4>. QED
        BY <1>14, <3>4, <3>7, <4>2, <4>3, <4>4 DEF WalkInv, Behind
    <3>. QED
      BY <3>8, <3>9
  <2>. QED
    BY <2>1, <2>2
<1>. QED
  BY <1>17, <1>18, <1>19, <1>20, <1>21, <1>22, <1>23, <1>24 DEF Inv

(* Back from a callback.                                                    *)
LEMMA FiredKeeps ==
    ASSUME Inv, Fired
    PROVE  Inv'
<1> DEFINE again == timer[cur].repeat = 1
           removed == [Base EXCEPT !.tv = Removed(tv, cur)]
           tm == IF again THEN [timer EXCEPT ![cur].expires = (@ + timer[cur].interval) % W]
                          ELSE [timer EXCEPT ![cur] = Unused]
           b == IF again THEN gp_timer_add(removed, tm, cur) ELSE removed
           rest == IF saved # None \/ ~cut THEN {}
                   ELSE {t \in ToSet(b.tv[Slot]) : tm[t].expires = (jiffies - 1) % W}
           e == tm[cur].expires
           place == ListFor(jiffies, e)
<1>1. /\ pc = "callback" /\ Become([b EXCEPT !.next = gp_next_timer(jiffies, b.tv, tm)])
      /\ timer' = tm /\ armed' = Note(armed, cur, again)
      /\ late' = Note(late, cur, tm[cur].live /\ IsLate(e))
      /\ left' = rest \union (left \ {cur})
      /\ ahead' = Note(ahead, cur, cur \in ToSet(b.tv[Slot]))
      /\ cur' = saved /\ saved' = (IF saved = None THEN None ELSE NextOn(tv', Slot, saved))
      /\ cut' = (cut /\ saved # None)
      /\ pc' = (IF saved = None THEN "ticks" ELSE "fire")
      /\ UNCHANGED <<time, ops, born>>
  BY DEF Fired
<1>2. /\ jiffies \in Ticks /\ next_timer \in Ticks /\ time \in Ticks /\ tv \in Tables
      /\ Base \in Bases /\ Base.j = jiffies /\ Base.tv = tv /\ Base.next = next_timer
      /\ Chains(tv) /\ Slot \in Lists /\ Slot[1] = 1 /\ LastTick = (jiffies - 1) % W
  BY TypeFacts DEF Inv, ListInv
<1>3. InTraversal /\ cur \in Timers /\ timer[cur].live /\ saved # cur /\ (saved # None => timer[saved].live)
      /\ saved \in Timers \union {None} /\ cut \in BOOLEAN
  BY <1>1 DEF InTraversal, Inv, WalkInv, TypeInv, TypeOK
<1>4. timer \in [Timers -> Fields]
  BY DEF Inv, TypeInv, TypeOK, Fields
<1>5. /\ tm \in [Timers -> Fields] /\ (\A u \in Timers : u # cur => tm[u] = timer[u])
      /\ again => tm[cur].live
  <2>1. CASE again
    <3> DEFINE f == timer[cur]
               x == (f.expires + f.interval) % W
    <3>1. f \in Fields /\ f.live
      BY <1>3, <1>4
    <3>2. x \in 0..(W - 1)
      <4> DEFINE y == f.expires + f.interval
      <4>1. f.expires \in Int /\ f.interval \in Int
        <5> HIDE DEF f
        <5>1. f.expires \in 0..(W - 1) /\ f.interval \in Offsets \union {0}
          BY <3>1 DEF Fields
        <5>2. W \in Nat /\ Half \in Nat /\ Offsets \subseteq 0..(Half - 1)
          BY WheelFacts
        <5>3. Offsets \subseteq Int
          BY <5>2
        <5>4. f.interval \in Int
          <6> DEFINE z == f.interval
          <6>1. z \in Offsets \union {0}
            BY <5>1
          <6> HIDE DEF z
          <6>2. z \in Int
            <7>1. CASE z = 0
              BY <7>1
            <7>2. CASE z \in Offsets
              BY <5>3, <7>2
            <7>. QED
              BY <6>1, <7>1, <7>2
          <6>. QED
            BY <6>2 DEF z
        <5>5. f.expires \in Int
          <6> DEFINE z == f.expires
          <6>1. z \in 0..(W - 1)
            BY <5>1
          <6> HIDE DEF z
          <6>2. z \in Int
            BY <5>2, <6>1
          <6>. QED
            BY <6>2 DEF z
        <5>. QED
          BY <5>4, <5>5
      <4>2. y \in Int /\ W \in Nat \ {0}
        BY <4>1, WheelFacts
      <4> HIDE DEF y
      <4>3. y % W \in 0..(W - 1)
        BY <4>2, Division
      <4>. QED
        BY <4>3 DEF y
    <3>3. tm = [timer EXCEPT ![cur] = [f EXCEPT !.expires = x]]
      BY <1>3, <1>4, <2>1
    <3> HIDE DEF x, tm
    <3>4. [f EXCEPT !.expires = x] \in Fields /\ [f EXCEPT !.expires = x].live
      <4> HIDE DEF f
      <4>. QED
        BY <3>1, <3>2 DEF Fields
    <3>. QED
      BY <1>3, <1>4, <3>3, <3>4
  <2>2. CASE ~again
    <3>1. tm = [timer EXCEPT ![cur] = Unused]
      BY <2>2
    <3>2. Unused \in Fields
      <4>1. 0 \in 0..(W - 1)
        BY WheelFacts
      <4>. QED
        BY <4>1 DEF Unused, Fields
    <3> HIDE DEF tm
    <3>. QED
      BY <1>3, <1>4, <2>2, <3>1, <3>2
  <2>. QED
    BY <2>1, <2>2
<1> HIDE DEF tm
<1>6. Times(tm) /\ e \in Ticks
  BY <1>3, <1>5 DEF Times, Fields, Ticks
<1>7. /\ removed \in Bases /\ removed.j = jiffies /\ removed.tv = Removed(tv, cur)
      /\ Removed(tv, cur) \in Tables /\ Chains(Removed(tv, cur))
      /\ \A l \in Lists : ToSet(Removed(tv, cur)[l]) = ToSet(tv[l]) \ {cur}
      /\ \A l \in Lists : \A x : x # cur => Before(Removed(tv, cur)[l], x) \subseteq Before(tv[l], x)
      /\ Linked(Removed(tv, cur)) = Linked(tv) \ {cur}
  <2>1. /\ Removed(tv, cur) \in Tables /\ Chains(Removed(tv, cur))
        /\ \A l \in Lists : ToSet(Removed(tv, cur)[l]) = ToSet(tv[l]) \ {cur}
        /\ \A l \in Lists : \A x : x # cur => Before(Removed(tv, cur)[l], x) \subseteq Before(tv[l], x)
        /\ Linked(Removed(tv, cur)) = Linked(tv) \ {cur}
    BY <1>2, RemovedIs
  <2> DEFINE r == Removed(tv, cur)
  <2>2. r \in Tables
    BY <2>1
  <2> HIDE DEF r
  <2>3. [Base EXCEPT !.tv = r] \in Bases /\ [Base EXCEPT !.tv = r].j = jiffies /\ [Base EXCEPT !.tv = r].tv = r
    BY <1>2, <2>2 DEF Bases
  <2>. QED
    BY <2>1, <2>3 DEF r
<1> HIDE DEF removed
<1>8. /\ b \in Bases /\ b.j = jiffies /\ Chains(b.tv) /\ b.tv \in Tables
      /\ \A l \in Lists : ToSet(b.tv[l]) = (ToSet(tv[l]) \ {cur}) \union (IF again /\ l = place THEN {cur} ELSE {})
      /\ \A l \in Lists : \A x : x # cur => Before(b.tv[l], x) \subseteq Before(tv[l], x)
      /\ Linked(b.tv) = (Linked(tv) \ {cur}) \union (IF again THEN {cur} ELSE {})
  <2>1. CASE again
    <3>1. b = gp_timer_add(removed, tm, cur)
      BY <2>1
    <3>2. Added(b, removed, tm, cur)
      BY <1>3, <1>6, <1>7, <3>1, AddIs
    <3> HIDE DEF b, place
    <3>3. /\ b \in Bases /\ b.j = jiffies /\ Chains(b.tv) /\ b.tv \in Tables
      BY <1>7, <3>2 DEF Added, Bases
    <3>4. \A l \in Lists : ToSet(b.tv[l]) = (ToSet(removed.tv[l]) \ {cur}) \union (IF l = place THEN {cur} ELSE {})
      BY <1>7, <3>2 DEF Added, place
    <3>5. \A l \in Lists : \A x : x # cur => Before(b.tv[l], x) \subseteq Before(removed.tv[l], x)
      BY <3>2 DEF Added
    <3>6. Linked(b.tv) = Linked(removed.tv) \union {cur}
      BY <3>2 DEF Added
    <3>7. \A l \in Lists : ToSet(b.tv[l]) = (ToSet(tv[l]) \ {cur}) \union (IF again /\ l = place THEN {cur} ELSE {})
      <4> SUFFICES ASSUME NEW l \in Lists
                   PROVE  ToSet(b.tv[l]) = (ToSet(tv[l]) \ {cur}) \union (IF l = place THEN {cur} ELSE {})
        BY <2>1
      <4>1. ToSet(removed.tv[l]) = ToSet(tv[l]) \ {cur}
        BY <1>7
      <4>2. ToSet(b.tv[l]) = (ToSet(removed.tv[l]) \ {cur}) \union (IF l = place THEN {cur} ELSE {})
        BY <3>4
      <4>. QED
        BY <4>1, <4>2
    <3>8. \A l \in Lists : \A x : x # cur => Before(b.tv[l], x) \subseteq Before(tv[l], x)
      BY <1>7, <3>5
    <3>9. Linked(b.tv) = (Linked(tv) \ {cur}) \union (IF again THEN {cur} ELSE {})
      BY <1>7, <2>1, <3>6
    <3>. QED
      BY <3>3, <3>7, <3>8, <3>9
  <2>2. CASE ~again
    <3>1. b = removed
      BY <2>2
    <3> HIDE DEF b, place
    <3>. QED
      BY <1>7, <2>2, <3>1
  <2>. QED
    BY <2>1, <2>2
<1> HIDE DEF b
<1>9. jiffies' = jiffies /\ tv' = b.tv /\ next_timer' = gp_next_timer(jiffies, tv', tm)
  <2> DEFINE n == gp_next_timer(jiffies, b.tv, tm)
  <2>1. b = [j |-> jiffies, tv |-> b.tv, next |-> b.next]
    BY <1>8 DEF Bases
  <2>2. [b EXCEPT !.next = n] = [j |-> jiffies, tv |-> b.tv, next |-> n]
    <3> HIDE DEF n
    <3>. QED
      BY <2>1
  <2>. QED
    BY <1>1, <2>2 DEF Become
<1>10. next_timer' \in Ticks
  BY <1>2, <1>6, <1>8, <1>9, NextTyped
<1>11. again => place \in Lists /\ InReach(place, e, jiffies)
  <2> HIDE DEF e
  <2>. QED
    BY <1>2, <1>6, ListForReach
<1> HIDE DEF place
<1>12. Moved(cur, again, place)
  <2>1. \A u \in Timers : u # cur => timer'[u] = timer[u]
    BY <1>1, <1>5
  <2>2. again => InReach(place, timer'[cur].expires, jiffies) /\ place \in Lists
                 /\ timer'[cur].expires \in Ticks /\ timer'[cur].live
    BY <1>1, <1>5, <1>6, <1>11
  <2> HIDE DEF again
  <2>. QED
    BY <1>8, <1>9, <2>1, <2>2 DEF Moved
<1>13. /\ Slot' = Slot /\ LastTick' = LastTick
       /\ \A l \in Lists : \A u \in ToSet(tv'[l]) :
            \/ u # cur /\ u \in ToSet(tv[l]) /\ timer'[u] = timer[u]
            \/ /\ u = cur /\ again /\ InReach(l, timer'[cur].expires, jiffies)
               /\ l = Slot => D(timer'[cur].expires, LastTick) = R /\ timer'[cur].expires # LastTick
  <2> HIDE DEF again
  <2>. QED
    BY <1>12, MovedOn
<1>14. InTraversal' <=> saved # None
  BY <1>1 DEF InTraversal
<1>15. /\ left \ {cur} \subseteq left' /\ (saved # None => left' = left \ {cur})
       /\ (saved = None /\ cut => \A u \in ToSet(tv'[Slot]) : timer'[u].expires = LastTick => u \in left')
       /\ left' \subseteq Timers
  <2>1. \A l \in Lists : ToSet(tv'[l]) \subseteq Timers
    <3>1. Linked(tv') \subseteq Timers
      BY <1>8, <1>9, TablesChains
    <3>. QED
      BY <3>1 DEF Linked
  <2>2. left \subseteq Timers
    BY DEF Inv, TypeInv, TypeOK
  <2>. QED
    BY <1>1, <1>2, <1>9, <2>1, <2>2
<1> HIDE DEF rest
<1>16. /\ armed' = (IF again THEN armed \union {cur} ELSE armed \ {cur})
       /\ late' = (IF tm[cur].live /\ IsLate(e) THEN late \union {cur} ELSE late \ {cur})
       /\ ahead' = (IF cur \in ToSet(tv'[Slot]) THEN ahead \union {cur} ELSE ahead \ {cur})
  BY <1>1, <1>9 DEF Note
<1>17. \* What was due and behind has been called, or is left behind.
       ASSUME saved = None, NEW u \in ToSet(tv'[Slot]), timer'[u].expires = LastTick
       PROVE  u \in left'
  <2>1. CASE cut
    BY <1>15, <1>17, <2>1
  <2>2. CASE ~cut
    <3>1. u # cur /\ u \in ToSet(tv[Slot]) /\ timer'[u] = timer[u]
      BY <1>2, <1>13, <1>17
    <3>2. Behind(u)
      BY <1>3, <1>17, <2>2, <3>1 DEF Inv, WalkInv
    <3>. QED
      BY <1>17, <3>1, <3>2 DEF Behind
  <2>. QED
    BY <2>1, <2>2
<1>18. ListInv'
  <2> HIDE DEF again
  <2>. QED
    BY <1>12, MovedList
<1>19. PlaceInv'
  <2> SUFFICES ASSUME NEW l \in Lists, NEW u \in ToSet(tv'[l])
               PROVE  \/ InReach(l, timer'[u].expires, jiffies)
                      \/ l[1] = 1 /\ u \in left'
                      \/ InTraversal' /\ l = Slot /\ timer'[u].expires = LastTick
    BY <1>9, <1>13 DEF PlaceInv
  <2>1. CASE u # cur /\ u \in ToSet(tv[l]) /\ timer'[u] = timer[u]
    <3>1. \/ InReach(l, timer[u].expires, jiffies)
          \/ l[1] = 1 /\ u \in left
          \/ l = Slot /\ timer[u].expires = LastTick
      BY <2>1 DEF Inv, PlaceInv
    <3>2. CASE l = Slot /\ timer[u].expires = LastTick
      <4>1. CASE saved # None
        BY <1>14, <2>1, <3>2, <4>1
      <4>2. CASE saved = None
        BY <1>2, <1>17, <2>1, <3>2, <4>2
      <4>. QED
        BY <4>1, <4>2
    <3>. QED
      BY <1>15, <2>1, <3>1, <3>2
  <2>2. CASE u = cur /\ InReach(l, timer'[cur].expires, jiffies)
    BY <2>2
  <2>. QED
    BY <1>13, <2>1, <2>2
<1>20. DueInv'
  <2> SUFFICES ASSUME NEW l \in Lists, NEW u \in ToSet(tv'[l]), u \notin late' \union left'
               PROVE  \/ ~Late(timer'[u].expires, jiffies)
                      \/ InTraversal' /\ l = Slot /\ timer'[u].expires = LastTick
    BY <1>9, <1>13 DEF DueInv
  <2>1. CASE u # cur /\ u \in ToSet(tv[l]) /\ timer'[u] = timer[u]
    <3>1. u \notin late \union left
      BY <1>15, <1>16, <2>1
    <3>2. \/ ~Late(timer[u].expires, jiffies)
          \/ l = Slot /\ timer[u].expires = LastTick
      BY <2>1, <3>1 DEF Inv, DueInv
    <3>3. CASE l = Slot /\ timer[u].expires = LastTick
      <4>1. saved # None
        BY <1>17, <2>1, <3>3
      <4>. QED
        BY <1>14, <2>1, <3>3, <4>1
    <3>. QED
      BY <2>1, <3>2, <3>3
  <2>2. CASE u = cur /\ again
    <3>1. ~IsLate(e)
      BY <1>5, <1>16, <2>2
    <3> HIDE DEF e
    <3>2. ~Late(e, jiffies)
      BY <1>2, <1>6, <3>1, LateIs
    <3>. QED
      BY <1>1, <2>2, <3>2 DEF e
  <2>. QED
    BY <1>13, <2>1, <2>2
<1>21. saved' \in Timers \union {None}
  <2> DEFINE s == tv'[Slot]
             y == NextOn(tv', Slot, saved)
  <2>1. Chain(tv'[Slot])
    BY <1>2, <1>8, <1>9 DEF Chains
  <2>2. y # None => y \in ToSet(tv'[Slot])
    <3> DEFINE lists == tv'
               l == Slot
               t == saved
    <3>1. Chain(lists[l]) /\ y = NextOn(lists, l, t)
      BY <2>1
    <3> HIDE DEF y, lists, l, t
    <3>2. y # None => y \in ToSet(lists[l])
      BY <3>1, Successor
    <3>. QED
      BY <3>2 DEF lists, l
  <2>3. ToSet(tv'[Slot]) \subseteq Timers
    <3>1. Linked(tv') \subseteq Timers
      BY <1>8, <1>9, TablesChains
    <3>. QED
      BY <1>2, <3>1 DEF Linked
  <2> HIDE DEF y
  <2>. QED
    BY <1>1, <2>2, <2>3 DEF y
<1>22. TypeInv'
  <2>1. /\ jiffies' \in 0..(W - 1) /\ next_timer' \in 0..(W - 1) /\ time' \in 0..(W - 1)
        /\ timer' \in [Timers -> Fields] /\ ops' \in 0..MaxOps /\ born' \in Births
    BY <1>1, <1>2, <1>5, <1>9, <1>10 DEF Ticks, Inv, TypeInv, TypeOK
  <2>2. DOMAIN tv' = Lists /\ tv' \in Tables /\ \A l \in Lists : ToSet(tv'[l]) \subseteq Timers
    <3>1. Linked(tv') \subseteq Timers
      BY <1>8, <1>9, TablesChains
    <3>. QED
      BY <1>8, <1>9, <3>1 DEF Tables, Linked
  <2>3. armed' \subseteq Timers /\ late' \subseteq Timers /\ left' \subseteq Timers /\ ahead' \subseteq Timers
    BY <1>3, <1>15, <1>16 DEF Inv, TypeInv, TypeOK
  <2>4. pc' \in {"ticks", "fire", "callback", "handlers"} /\ cur' \in Timers \union {None} /\ cut' \in BOOLEAN
    BY <1>1, <1>3
  <2>. QED
    BY <1>21, <2>1, <2>2, <2>3, <2>4 DEF TypeInv, TypeOK, Fields
<1>23. NextInv'
  <2>1. next_timer' = gp_next_timer(jiffies', tv', timer')
    BY <1>1, <1>9
  <2>. QED
    BY <1>18, <1>19, <1>20, <1>22, <2>1, NextKept
<1>24. ClockInv' /\ ArmedInv'
  <2>1. Linked(tv') = (Linked(tv) \ {cur}) \union (IF again THEN {cur} ELSE {})
    BY <1>8, <1>9
  <2> HIDE DEF again
  <2>. QED
    BY <1>1, <1>9, <1>16, <2>1 DEF Inv, ClockInv, ArmedInv
<1>25. SlotInv'
  <2> SUFFICES ASSUME saved # None, NEW u \in ToSet(tv'[Slot])
               PROVE  \/ u \in left'
                      \/ timer'[u].expires = LastTick
                      \/ D(timer'[u].expires, LastTick) = R /\ u \in ahead'
    BY <1>13, <1>14 DEF SlotInv
  <2>1. CASE u # cur /\ u \in ToSet(tv[Slot]) /\ timer'[u] = timer[u]
    BY <1>3, <1>15, <1>16, <2>1 DEF Inv, SlotInv
  <2>2. CASE u = cur /\ D(timer'[cur].expires, LastTick) = R
    BY <1>16, <2>2
  <2>. QED
    BY <1>2, <1>13, <2>1, <2>2
<1>26. WalkInv'
  <2>1. CASE saved = None
    <3>1. ~InTraversal' /\ ~cut' /\ pc' # "fire"
      BY <1>1, <1>14, <2>1
    <3>. QED
      BY <3>1 DEF WalkInv
  <2>2. CASE saved # None
    <3>1. pc' = "fire" /\ cur' = saved /\ saved' = NextOn(tv', Slot, saved) /\ cut' = cut /\ InTraversal'
      BY <1>1, <1>3, <1>14, <2>2
    <3>2. saved \in Timers /\ timer'[saved].live
      BY <1>1, <1>3, <1>5, <2>2
    <3>3. /\ cut => saved \notin ToSet(tv'[Slot])
          /\ ~cut => saved \in ToSet(tv'[Slot])
      <4>1. saved \in ToSet(tv'[Slot]) <=> saved \in ToSet(tv[Slot])
        BY <1>2, <1>3, <1>8, <1>9
      <4>. QED
        BY <1>3, <2>2, <4>1 DEF Inv, WalkInv
    <3> DEFINE s == tv'[Slot]
               y == saved'
    <3>4. Chain(s)
      BY <1>2, <1>8, <1>9 DEF Chains
    <3>5. /\ y # None => /\ y \in ToSet(s) /\ y # saved /\ saved \in ToSet(s)
                         /\ Before(s, y) \subseteq Before(s, saved) \union {saved}
          /\ y = None /\ saved \in ToSet(s) => ToSet(s) \subseteq Before(s, saved) \union {saved}
          /\ saved \notin ToSet(s) => y = None
      <4> DEFINE lists == tv'
                 l == Slot
                 t == saved
      <4>1. Chain(lists[l]) /\ y = NextOn(lists, l, t) /\ s = lists[l]
        BY <3>1, <3>4
      <4> HIDE DEF y, lists, l, t, s
      <4>2. /\ y # None => /\ y \in ToSet(lists[l]) /\ y # t /\ t \in ToSet(lists[l])
                           /\ Before(lists[l], y) \subseteq Before(lists[l], t) \union {t}
            /\ y = None /\ t \in ToSet(lists[l]) => ToSet(lists[l]) \subseteq Before(lists[l], t) \union {t}
            /\ t \notin ToSet(lists[l]) => y = None
        BY <4>1, Successor
      <4>. QED
        BY <4>1, <4>2 DEF t
    <3>6. ASSUME ~cut, NEW u \in Before(s, saved) PROVE timer'[u].expires # LastTick
      <4>1. u \in Before(tv[Slot], saved)
        BY <1>2, <1>3, <1>8, <1>9, <3>6
      <4>2. Behind(u)
        BY <1>3, <2>2, <3>6, <4>1 DEF Inv, WalkInv
      <4>3. u \in ToSet(s)
        <5> HIDE DEF s
        <5>. QED
          BY <3>4, <3>6, ChainElements DEF Before
      <4>4. CASE u # cur /\ timer'[u] = timer[u]
        BY <4>2, <4>4 DEF Behind
      <4>. QED
        BY <1>2, <1>13, <4>3, <4>4
    <3>7. cut => saved' = None
      BY <3>3, <3>5
    <3>8. saved' # None => timer'[saved'].live
      <4>1. saved' # None => saved' \in Linked(tv')
        BY <1>2, <3>5, LinkedIs
      <4>. QED
        BY <1>18, <4>1 DEF ListInv
    <3>9. saved' # cur'
      <4>1. saved # None
        BY <2>2
      <4>. QED
        BY <3>1, <3>5, <4>1
    <3>10. ASSUME ~cut', saved' = None, NEW u \in ToSet(tv'[Slot])
           PROVE  u = cur' \/ timer'[u].expires # LastTick
      <4>1. ~cut /\ saved \in ToSet(s)
        BY <3>1, <3>3, <3>10
      <4>2. u \in Before(s, saved) \union {saved}
        BY <3>5, <3>10, <4>1
      <4>. QED
        BY <3>1, <3>6, <4>1, <4>2
    <3>11. ASSUME ~cut', saved' # None, NEW u \in Before(tv'[Slot], saved')
           PROVE  u = cur' \/ timer'[u].expires # LastTick
      <4>1. ~cut /\ u \in Before(s, saved) \union {saved}
        BY <3>1, <3>5, <3>11
      <4>. QED
        BY <3>1, <3>6, <4>1
    <3>12. saved' # None => saved' \in ToSet(tv'[Slot])
      BY <3>5
    <3> HIDE DEF s, y
    <3>13. /\ ~InTraversal' => ~cut'
           /\ cut' /\ saved' # None => saved' \notin ToSet(tv'[Slot])
           /\ (cut' => saved' = None) /\ (~cut' => cur' \in ToSet(tv'[Slot]))
      BY <3>1, <3>3, <3>7
    <3>. QED
      BY <1>13, <3>1, <3>2, <3>8, <3>9, <3>10, <3>11, <3>12, <3>13 DEF WalkInv, Behind
  <2>. QED
    BY <2>1, <2>2
<1>. QED
  BY <1>18, <1>19, <1>20, <1>22, <1>23, <1>24, <1>25, <1>26 DEF Inv

----------------------------------------------------------------------------
(* The invariant is kept by every step.                                     *)

LEMMA ExpiryTyped ==
    ASSUME time \in Ticks, NEW i \in Offsets
    PROVE  ExpiresAt(i) \in Ticks
<1> DEFINE x == time + i
<1>1. W \in Nat \ {0} /\ Half \in Nat /\ Offsets \subseteq 0..(Half - 1)
  BY WheelFacts
<1>2. i \in Int
  BY <1>1
<1>3. time \in Int
  BY <1>1 DEF Ticks
<1>4. x \in Int
  BY <1>2, <1>3
<1> HIDE DEF x
<1>5. x % W \in 0..(W - 1)
  BY <1>1, <1>4, Division
<1>. QED
  BY <1>5 DEF x, ExpiresAt, Ticks

LEMMA UserKeeps ==
    ASSUME Inv, User
    PROVE  Inv'
<1>1. /\ time \in Ticks /\ None \notin Timers
      /\ pc = "callback" /\ saved # None => timer[saved].live
      /\ timer \in [Timers -> Fields]
  BY TypeFacts, WheelFacts DEF Inv, TypeInv, TypeOK, WalkInv, InTraversal, Fields
<1>2. PICK t \in Timers :
        \/ \E i \in Offsets : \E r \in {0, 1} :
              \/ gp_loop_timer_start(t, i, r)
              \/ \E o \in Offsets : Told(o, i, r) /\ gp_loop_timer_mod(t, ExpiresAt(o), i, r)
        \/ gp_loop_timer_stop(t)
        \/ destruct_gp_timer(t)
  BY DEF User
<1>3. CASE \E i \in Offsets : \E r \in {0, 1} : gp_loop_timer_start(t, i, r)
  <2>1. PICK i \in Offsets, r \in {0, 1} : gp_loop_timer_start(t, i, r)
    BY <1>3
  <2>2. ExpiresAt(i) \in Ticks
    BY <1>1, ExpiryTyped
  <2>3. /\ InUserCode /\ ~timer[t].live
        /\ timer' = [timer EXCEPT ![t] = [live |-> TRUE, expires |-> ExpiresAt(i),
                                          interval |-> i, repeat |-> r]]
        /\ Become(gp_timer_add(Base, timer', t)) /\ Arm(t, timer')
        /\ UNCHANGED <<time, pc, cur, saved, born, cut>>
    BY <2>1 DEF gp_loop_timer_start
  <2>4. ~(pc = "callback" /\ t = saved)
    BY <1>1, <2>3
  <2>. QED
    BY <2>2, <2>3, <2>4, ArmKeeps
<1>4. CASE \E i \in Offsets : \E r \in {0, 1} : \E o \in Offsets :
             gp_loop_timer_mod(t, ExpiresAt(o), i, r)
  <2>1. PICK i \in Offsets, r \in {0, 1}, o \in Offsets : gp_loop_timer_mod(t, ExpiresAt(o), i, r)
    BY <1>4
  <2> DEFINE x == ExpiresAt(o)
  <2>2. x \in Ticks
    BY <1>1, ExpiryTyped
  <2>3. /\ InUserCode /\ ~(pc = "callback" /\ t = saved)
        /\ timer' = [timer EXCEPT ![t] = [live |-> TRUE, expires |-> x, interval |-> i, repeat |-> r]]
        /\ Become(gp_timer_add(Base, timer', t)) /\ Arm(t, timer')
        /\ UNCHANGED <<time, pc, cur, saved, born, cut>>
    BY <2>1 DEF gp_loop_timer_mod
  <2> HIDE DEF x
  <2>. QED
    BY <2>2, <2>3, ArmKeeps
<1>. QED
  BY <1>2, <1>3, <1>4, StopKeeps, DestructKeeps

LEMMA StutterKeeps ==
    ASSUME Inv, UNCHANGED vars
    PROVE  Inv'
<1>1. UNCHANGED <<jiffies, next_timer, tv, timer, time, pc, cur, saved, ops, born, armed, cut, late, left, ahead>>
  BY DEF vars, history
<1>2. TypeInv' /\ ListInv' /\ WalkInv' /\ SlotInv' /\ DueInv'
  BY <1>1 DEF Inv, TypeInv, TypeOK, ListInv, WalkInv, SlotInv, DueInv, Behind, InTraversal, LastTick, Slot
<1>3. PlaceInv' /\ ClockInv' /\ ArmedInv' /\ NextInv'
  BY <1>1 DEF Inv, PlaceInv, ClockInv, ArmedInv, NextInv, InTraversal, LastTick, Slot
<1>. QED
  BY <1>2, <1>3 DEF Inv

LEMMA InvKept == Inv /\ [Next]_vars => Inv'
<1> SUFFICES ASSUME Inv, [Next]_vars PROVE Inv'
  OBVIOUS
<1>. QED
  BY UserKeeps, TickKeeps, FireKeeps, FiredKeeps, PollKeeps, HandlersKeeps, StutterKeeps DEF Next

LEMMA InvHolds == Spec => []Inv
BY InitInv, InvKept, PTL DEF Spec

----------------------------------------------------------------------------
(* What the runs check, for every size of the wheels.                       *)

LEMMA OnTimeFrom == Inv => OnTime
<1> SUFFICES ASSUME Inv, pc = "fire" PROVE OnTime
  BY DEF OnTime
<1> DEFINE e == timer[cur].expires
           early == e - (jiffies - 1)
<1>1. /\ InTraversal /\ cur \in Timers /\ timer[cur].live
      /\ ~cut => cur \in ToSet(tv[Slot])
  BY DEF InTraversal, Inv, WalkInv
<1>2. jiffies \in Ticks /\ e \in Ticks /\ LastTick \in Ticks
  BY <1>1, TypeFacts DEF Inv, Times
<1>3. early % W = D(e, LastTick)
  <2> HIDE DEF e
  <2>. QED
    BY <1>2, EarlyIs DEF LastTick
<1>4. CASE cut \/ cur \in left
  BY <1>1, <1>4 DEF OnTime
<1>5. CASE ~cut /\ cur \notin left /\ e = LastTick
  <2>1. D(e, LastTick) = 0
    <3> HIDE DEF e
    <3>. QED
      BY <1>2, <1>5, Nearer
  <2>. QED
    BY <1>1, <1>3, <1>5, <2>1 DEF OnTime
<1>6. CASE ~cut /\ cur \notin left /\ D(e, LastTick) = R /\ cur \in ahead
  BY <1>1, <1>3, <1>6 DEF OnTime
<1>. QED
  BY <1>1, <1>4, <1>5, <1>6 DEF Inv, SlotInv

(* A timer that waits is due after the clock's reading when the loop polls. *)
LEMMA Waiting ==
    ASSUME Inv, AtPoll, NEW t \in armed, t \notin late \union left
    PROVE  LET e == timer[t].expires
           IN  /\ e \in Ticks /\ time \in Ticks /\ D(e, time) \in 1..(Half - 1)
               /\ Signed(e - time) = D(e, time)
<1> DEFINE e == timer[t].expires
<1>1. t \in Linked(tv) /\ time = LastTick /\ ~InTraversal
  BY PollTime DEF Inv, ArmedInv
<1>2. PICK l \in Lists : t \in ToSet(tv[l])
  BY <1>1, LinkedIs
<1>3. e \in Ticks /\ time \in Ticks /\ jiffies \in Ticks
  BY TypeFacts DEF Inv, Times, TypeInv, TypeOK
<1>4. ~Late(e, jiffies)
  BY <1>1, <1>2 DEF Inv, DueInv
<1> HIDE DEF e
<1>5. D(e, time) \in 1..(Half - 1)
  BY <1>1, <1>3, <1>4, NotLate DEF LastTick
<1>6. Signed(e - time) = D(e, time)
  <2>1. (e - time) % W = D(e, time)
    BY DEF D
  <2>2. Signed(e - time) = IF (e - time) % W < Half THEN (e - time) % W ELSE ((e - time) % W) - W
    BY SignedIs
  <2>3. D(e, time) < Half
    BY <1>5, WheelFacts
  <2>. QED
    BY <2>1, <2>2, <2>3
<1>. QED
  BY <1>3, <1>5, <1>6 DEF e

LEMMA AllDueFiredFrom == Inv => AllDueFired
<1> SUFFICES ASSUME Inv, AtPoll, NEW t \in armed \ (late \union left)
             PROVE  Signed(timer[t].expires - time) > 0
  BY DEF AllDueFired
<1>1. D(timer[t].expires, time) \in 1..(Half - 1) /\ Signed(timer[t].expires - time) = D(timer[t].expires, time)
  BY Waiting
<1> DEFINE d == D(timer[t].expires, time)
<1>2. d \in 1..(Half - 1)
  BY <1>1
<1> HIDE DEF d
<1>3. d > 0
  BY <1>2, WheelFacts
<1>. QED
  BY <1>1, <1>3 DEF d

LEMMA PlacedFrom == Inv => Placed
<1> SUFFICES ASSUME Inv PROVE Placed
  OBVIOUS
<1>1. TypeOK /\ LastTick = (jiffies - 1) % W
  BY TypeFacts DEF Inv, TypeInv
<1>. QED
  BY <1>1 DEF Inv, PlaceInv, Placed, InTraversal

LEMMA SleepBoundFrom == Inv => SleepBound
<1> SUFFICES ASSUME Inv, AtPoll, Timeout >= 0, left = {}, NEW t \in armed \ late
             PROVE  Timeout <= Signed(timer[t].expires - time)
  BY DEF SleepBound
<1> DEFINE e == timer[t].expires
           n == next_timer
<1>1. /\ e \in Ticks /\ time \in Ticks /\ D(e, time) \in 1..(Half - 1)
      /\ Signed(e - time) = D(e, time)
  BY Waiting
<1>2. ~InTraversal /\ t \in Linked(tv) /\ n \in Ticks
  BY PollTime, TypeFacts DEF Inv, ArmedInv
<1>3. D(e, n) < Half
  BY <1>2 DEF Inv, NextInv
<1>4. Timeout = IF D(n, time) < Half THEN D(n, time) ELSE D(n, time) - W
  BY SignedIs DEF Timeout, D
<1> HIDE DEF e, n
<1>5. /\ D(n, time) = (IF n >= time THEN n - time ELSE n - time + W)
      /\ D(e, time) = (IF e >= time THEN e - time ELSE e - time + W)
      /\ D(e, n) = (IF e >= n THEN e - n ELSE e - n + W)
      /\ D(n, time) \in Ticks
  BY <1>1, <1>2, Dist
<1>6. W \in Nat \ {0} /\ Half \in Nat /\ W = 2 * Half
  BY WheelFacts
<1> DEFINE x == D(n, time)
           y == D(e, time)
           z == D(e, n)
<1>7. x \in 0..(W - 1) /\ y \in 1..(Half - 1) /\ z < Half
  BY <1>1, <1>3, <1>5 DEF Ticks
<1>8. e \in 0..(W - 1) /\ n \in 0..(W - 1) /\ time \in 0..(W - 1)
  BY <1>1, <1>2 DEF Ticks
<1> HIDE DEF x, y, z
<1>9. /\ x = (IF n >= time THEN n - time ELSE n - time + W)
      /\ y = (IF e >= time THEN e - time ELSE e - time + W)
      /\ z = (IF e >= n THEN e - n ELSE e - n + W)
  BY <1>5 DEF x, y, z
<1>10. x < Half
  <2>1. x >= Half => Timeout < 0
    BY <1>4, <1>6, <1>7 DEF x
  <2>. QED
    BY <1>6, <1>7, <2>1, <1>4 DEF x
<1>11. x <= y
  BY <1>6, <1>7, <1>8, <1>9, <1>10
<1>. QED
  BY <1>1, <1>4, <1>10, <1>11 DEF e, x, y

(* A timer is called at its own tick, whatever the wheels' sizes and        *)
(* however the tick count wraps; what can make gp_run_timers call it at     *)
(* another one is only that its list was cut short or was being traversed   *)
(* when the timer was put on it.                                            *)
THEOREM CalledAtItsTick == Spec => []OnTime
BY InvHolds, OnTimeFrom, PTL

(* No timer is lost: when gp_loop_run polls, gp_run_timers has called every *)
(* timer that is due, but for those armed too late or left behind by a      *)
(* traversal that was cut short.                                            *)
THEOREM NoneIsLost == Spec => []AllDueFired
BY InvHolds, AllDueFiredFrom, PTL

(* gp_timer_internal_add and cascade agree: a timer of any wheel is on the   *)
(* list that is spread or run within one turn of it, and not after its tick. *)
THEOREM ListsInReach == Spec => []Placed
BY InvHolds, PlacedFrom, PTL

(* gp_next_timer is right: unless a traversal left a timer behind, a timeout *)
(* that gp_loop_run passes to epoll_wait ends before any timer is due.       *)
THEOREM WakesInTime == Spec => []SleepBound
BY InvHolds, SleepBoundFrom, PTL
=============================================================================
