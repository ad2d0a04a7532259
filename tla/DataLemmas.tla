----------------------------- MODULE DataLemmas -----------------------------
(***************************************************************************)
(* What the proofs need to know of numbers, finite sets and the folds of   *)
(* the community modules, for every value of their arguments: division     *)
(* with remainder, induction as a statement about sets, FlattenSeq of      *)
(* sequences of one length, the sum over a finite set, sequences that list *)
(* a set, and the powers of two (of whose ^ the provers know only that     *)
(* 2^k is the number of subsets of a set of k elements).                   *)
(*                                                                         *)
(* Induction: the library's theorems take the predicate as an operator     *)
(* parameter.  Here a set of numbers that contains 0 and with every number *)
(* the next one is all of Nat (EveryNumber), which follows from the        *)
(* well-foundedness of < and is used with the set of the numbers that have *)
(* the property to be shown.                                               *)
(***************************************************************************)
EXTENDS Integers, SequencesExt, FiniteSetTheorems, SequenceTheorems, WellFoundedInduction, TLAPS

-----------------------------------------------------------------------------
(* Division with remainder *)

LEMMA DivMod ==
  ASSUME NEW n \in Nat \ {0}, NEW x \in Int
  PROVE  \E q \in Int, r \in 0 .. n - 1 : r = x % n /\ x = n * q + r
  <1> DEFINE q == x \div n
             r == x % n
  <1>1. q \in Int
    OBVIOUS
  <1>2. r \in 0 .. n - 1
    OBVIOUS
  <1>3. x = n * q + r
    OBVIOUS
  <1>4. r = x % n
    OBVIOUS
  <1> HIDE DEF q, r
  <1> QED
    BY <1>1, <1>2, <1>3, <1>4

\* The remainder is unique.
LEMMA RemainderOf ==
  ASSUME NEW n \in Nat \ {0}, NEW x \in Int, NEW q \in Int, NEW r \in 0 .. n - 1, x = n * q + r
  PROVE  x % n = r
  <1>1. PICK p \in Int, s \in 0 .. n - 1 : s = x % n /\ x = n * p + s
    BY DivMod
  <1>2. n * q \in Int /\ n * p \in Int
    OBVIOUS
  <1>3. n * (q - p) = n * q - n * p
    OBVIOUS
  <1>4. n * (q - p) = s - r
    BY <1>1, <1>2, <1>3
  <1>5. ASSUME q - p >= 1 PROVE FALSE
    <2>1. PICK d \in Nat : q - p = d + 1
      <3>1. q - p - 1 \in Nat /\ q - p = (q - p - 1) + 1
        BY <1>5
      <3> QED
        BY <3>1
    <2>2. n * (d + 1) = n * d + n /\ n * d \in Nat
      OBVIOUS
    <2>3. n * (q - p) = n * d + n
      BY <2>1, <2>2
    <2> QED
      BY <1>4, <2>2, <2>3
  <1>6. ASSUME q - p <= -1 PROVE FALSE
    <2>1. PICK d \in Nat : p - q = d + 1
      <3>1. p - q - 1 \in Nat /\ p - q = (p - q - 1) + 1
        BY <1>6
      <3> QED
        BY <3>1
    <2>2. n * (d + 1) = n * d + n /\ n * d \in Nat
      OBVIOUS
    <2>3. n * (p - q) = n * d + n
      BY <2>1, <2>2
    <2>4. n * (p - q) = n * p - n * q
      OBVIOUS
    <2>5. n * (p - q) = r - s
      BY <1>1, <1>2, <2>4
    <2> QED
      BY <2>2, <2>3, <2>5
  <1>7. q = p
    BY <1>5, <1>6
  <1> QED
    BY <1>1, <1>2, <1>7

LEMMA DivModIs ==
  ASSUME NEW n \in Nat \ {0}, NEW x \in Int
  PROVE  x = n * (x \div n) + (x % n) /\ x \div n \in Int /\ x % n \in 0 .. n - 1
  OBVIOUS

\* So is the quotient.
LEMMA QuotientOf ==
  ASSUME NEW n \in Nat \ {0}, NEW x \in Int, NEW q \in Int, NEW r \in 0 .. n - 1, x = n * q + r
  PROVE  x \div n = q
  <1> DEFINE p == x \div n
  <1>1. x = n * p + r /\ p \in Int
    <2>1. x % n = r
      BY RemainderOf
    <2> QED
      BY <2>1, DivModIs
  <1> HIDE DEF p
  <1>2. n * (p - q) = n * p - n * q /\ n * p \in Int /\ n * q \in Int
    BY <1>1
  <1>3. n * (p - q) = 0
    BY <1>1, <1>2
  <1>4. ASSUME p - q - 1 \in Nat PROVE FALSE
    <2>1. n * (p - q - 1) \in Nat /\ n * (p - q - 1) = n * (p - q) - n
      BY <1>1, <1>4
    <2> QED
      BY <1>3, <2>1
  <1>5. ASSUME q - p - 1 \in Nat PROVE FALSE
    <2>1. n * (q - p - 1) \in Nat /\ n * (q - p - 1) = 0 - n * (p - q) - n
      BY <1>1, <1>5
    <2> QED
      BY <1>3, <2>1
  <1>6. p = q
    BY <1>1, <1>4, <1>5
  <1> QED
    BY <1>6 DEF p

\* One step around the circle.
LEMMA NextPlace ==
  ASSUME NEW n \in Nat \ {0}, NEW k \in Int
  PROVE  ((k % n) + 1) % n = (k + 1) % n
  <1>1. PICK q \in Int, r \in 0 .. n - 1 : r = k % n /\ k = n * q + r
    BY DivMod
  <1>2. n * q \in Int /\ k + 1 \in Int
    OBVIOUS
  <1>3. CASE r + 1 < n
    <2>1. (k + 1) % n = r + 1
      <3> DEFINE x == k + 1
                 s == r + 1
      <3>1. x \in Int /\ x = n * q + s /\ s \in 0 .. n - 1
        BY <1>1, <1>2, <1>3
      <3> HIDE DEF x, s
      <3>2. x % n = s
        BY <3>1, RemainderOf
      <3> QED
        BY <3>2 DEF x, s
    <2>2. (r + 1) % n = r + 1
      <3>1. r + 1 = n * 0 + (r + 1) /\ r + 1 \in 0 .. n - 1
        BY <1>3
      <3> QED
        BY <3>1, RemainderOf
    <2> QED
      BY <1>1, <2>1, <2>2
  <1>4. CASE r + 1 = n
    <2>1. (k + 1) % n = 0
      <3>1. n * (q + 1) = n * q + n
        OBVIOUS
      <3>2. k + 1 = n * q + n
        BY <1>1, <1>2, <1>4
      <3> DEFINE x == k + 1
                 p == q + 1
      <3>3. x \in Int /\ p \in Int /\ x = n * p
        BY <3>1, <3>2
      <3> HIDE DEF x, p
      <3>4. x = n * p + 0 /\ 0 \in 0 .. n - 1
        BY <3>3
      <3>5. x % n = 0
        BY <3>3, <3>4, RemainderOf
      <3> QED
        BY <3>5 DEF x
    <2>2. (r + 1) % n = 0
      <3>1. r + 1 = n * 1 + 0 /\ 0 \in 0 .. n - 1
        BY <1>4
      <3> QED
        BY <3>1, RemainderOf
    <2> QED
      BY <1>1, <2>1, <2>2
  <1> QED
    BY <1>3, <1>4

\* Places with the same node are a multiple of the circle apart.
LEMMA SamePlace ==
  ASSUME NEW n \in Nat \ {0}, NEW a \in Int, NEW b \in Int, a % n = b % n
  PROVE  (b - a) % n = 0
  <1>1. PICK p \in Int, r \in 0 .. n - 1 : r = a % n /\ a = n * p + r
    BY DivMod
  <1>2. PICK q \in Int, s \in 0 .. n - 1 : s = b % n /\ b = n * q + s
    BY DivMod
  <1>3. n * (q - p) = n * q - n * p /\ n * q \in Int /\ n * p \in Int
    OBVIOUS
  <1>4. b - a = n * (q - p) + 0 /\ 0 \in 0 .. n - 1 /\ q - p \in Int
    BY <1>1, <1>2, <1>3
  <1> QED
    BY <1>4, RemainderOf

LEMMA MultipleOf ==
  ASSUME NEW n \in Nat \ {0}, NEW x \in Int, x % n = 0
  PROVE  \E q \in Int : x = n * q
  <1>1. PICK q \in Int, r \in 0 .. n - 1 : r = x % n /\ x = n * q + r
    BY DivMod
  <1>2. x = n * q
    BY <1>1
  <1> QED
    BY <1>2

\* Of two multiples of v the larger is larger by at least v.
LEMMA NextMultiple ==
  ASSUME NEW v \in Nat \ {0}, NEW a \in Nat, NEW b \in Nat, a % v = 0, b % v = 0, a < b
  PROVE  a + v <= b /\ (a + v) % v = 0
  <1>0. a \in Int /\ b \in Int
    OBVIOUS
  <1>1. PICK p \in Int : a = v * p
    BY <1>0, MultipleOf
  <1>2. PICK q \in Int : b = v * q
    BY <1>0, MultipleOf
  <1>3. v * (q - p) = v * q - v * p /\ v * (p + 1) = v * p + v /\ v * p \in Int /\ v * q \in Int
    OBVIOUS
  <1>4. ASSUME q - p <= 0 PROVE FALSE
    <2>1. PICK d \in Nat : p - q = d
      <3>1. p - q \in Nat
        BY <1>4
      <3> QED
        BY <3>1
    <2>2. v * d \in Nat /\ v * (p - q) = v * p - v * q
      OBVIOUS
    <2>3. a - b \in Nat
      BY <1>1, <1>2, <2>1, <2>2
    <2> QED
      BY <2>3
  <1>5. PICK d \in Nat : q - p = d + 1
    <2>1. q - p - 1 \in Nat /\ q - p = (q - p - 1) + 1
      BY <1>4
    <2> QED
      BY <2>1
  <1>6. v * (d + 1) = v * d + v /\ v * d \in Nat
    OBVIOUS
  <1>7. a + v <= b
    <2>1. v * (q - p) = v * d + v
      BY <1>5, <1>6
    <2> QED
      BY <1>1, <1>2, <1>3, <1>6, <2>1
  <1>8. (a + v) % v = 0
    <2>1. a + v \in Int /\ a + v = v * (p + 1) + 0 /\ 0 \in 0 .. v - 1 /\ p + 1 \in Int
      BY <1>1, <1>3
    <2> QED
      BY <2>1, RemainderOf
  <1> QED
    BY <1>7, <1>8

LEMMA ZeroMultiple ==
  ASSUME NEW v \in Nat \ {0}
  PROVE  0 % v = 0
  <1>1. 0 = v * 0 + 0 /\ 0 \in 0 .. v - 1
    OBVIOUS
  <1> QED
    BY <1>1, RemainderOf

\* The quotient rounded up: its multiple covers a, and it is not more than a.
LEMMA RoundedUp ==
  ASSUME NEW s \in Nat \ {0}, NEW a \in Nat \ {0}
  PROVE  LET q == (a + s - 1) \div s IN q \in Nat \ {0} /\ a <= q * s /\ q <= a
  <1> DEFINE x == a + s - 1
             q == x \div s
             r == x % s
  <1>1. x \in Int /\ x = a + s - 1
    OBVIOUS
  <1>2. x = s * q + r /\ q \in Int /\ r \in 0 .. s - 1
    <2> HIDE DEF x
    <2> QED
      BY <1>1, DivModIs
  <1> HIDE DEF x, q, r
  <1>3. s * q = q * s /\ s * q \in Int
    BY <1>2
  <1>4. a <= q * s
    BY <1>1, <1>2, <1>3
  <1>5. q >= 1
    <2> SUFFICES ASSUME 0 - q \in Nat
                 PROVE  FALSE
      BY <1>2
    <2>1. s * (0 - q) \in Nat /\ s * (0 - q) = 0 - s * q
      BY <1>2
    <2> QED
      BY <1>3, <1>4, <2>1
  <1>6. q <= a
    <2> SUFFICES ASSUME q - a - 1 \in Nat
                 PROVE  FALSE
      BY <1>2
    <2>1. s * (q - a - 1) \in Nat /\ s * (q - a - 1) = s * q - s * a - s
      BY <1>2
    <2>2. s * a = (s - 1) * a + a /\ (s - 1) * a \in Nat /\ s - 1 \in Nat
      OBVIOUS
    <2>3. s * q <= a + s - 1
      BY <1>1, <1>2, <1>3
    <2> QED
      BY <1>3, <2>1, <2>2, <2>3
  <1> QED
    BY <1>2, <1>4, <1>5, <1>6 DEF q, x

LEMMA SumOfMultiples ==
  ASSUME NEW v \in Nat \ {0}, NEW x \in Int, NEW y \in Int, x % v = 0, y % v = 0
  PROVE  (x + y) % v = 0
  <1>1. PICK p \in Int : x = v * p
    BY MultipleOf
  <1>2. PICK q \in Int : y = v * q
    BY MultipleOf
  <1>3. x + y = v * (p + q) + 0 /\ p + q \in Int /\ x + y \in Int /\ 0 \in 0 .. v - 1
    BY <1>1, <1>2
  <1> QED
    BY <1>3, RemainderOf

LEMMA MultipleOfMultiple ==
  ASSUME NEW v \in Nat \ {0}, NEW n \in Nat \ {0}, NEW x \in Int, n % v = 0, x % n = 0
  PROVE  x % v = 0
  <1>1. PICK p \in Int : x = n * p
    BY MultipleOf
  <1>2. PICK q \in Int : n = v * q
    BY MultipleOf
  <1>3. x = v * (q * p) + 0 /\ q * p \in Int /\ 0 \in 0 .. v - 1
    BY <1>1, <1>2
  <1> HIDE <1>1, <1>2
  <1> DEFINE r == q * p
  <1>4. x = v * r + 0 /\ r \in Int
    BY <1>3
  <1> HIDE DEF r
  <1> QED
    BY <1>3, <1>4, RemainderOf

LEMMA MinIsLeast ==
  ASSUME NEW S, NEW m \in S, m \in Int, \A x \in S : x \in Int /\ m <= x
  PROVE  Min(S) = m
  <1> DEFINE Least(x) == x \in S /\ \A y \in S : x <= y
  <1>1. Least(m)
    OBVIOUS
  <1> DEFINE c == CHOOSE x : Least(x)
  <1>2. Least(c)
    BY <1>1
  <1>3. Min(S) = c
    BY DEF Min
  <1> HIDE DEF c
  <1>4. c = m
    BY <1>2
  <1> QED
    BY <1>3, <1>4

LEMMA BelowIsFinite ==
  ASSUME NEW n \in Nat \ {0}
  PROVE  /\ IsFiniteSet(1 .. n) /\ Cardinality(1 .. n) = n
         /\ IsFiniteSet(0 .. n - 1) /\ Cardinality(0 .. n - 1) = n
  BY FS_Interval

-----------------------------------------------------------------------------
(* Induction *)

LEMMA LeastNumber ==
  ASSUME NEW T \in SUBSET Nat, T # {}
  PROVE  \E m \in T : \A k \in T : m <= k
  <1> DEFINE Less == OpToRel(<, Nat)
  <1>1. IsWellFoundedOn(Less, Nat)
    BY NatLessThanWellFounded DEF OpToRel
  <1>2. PICK m \in T : \A k \in T : ~ (<<k, m>> \in Less)
    <2> HIDE DEF Less
    <2> QED
      BY <1>1, WFMin
  <1>3. \A k \in T : ~ (k < m)
    BY <1>2 DEF OpToRel
  <1> QED
    BY <1>3

\* Induction over the numbers, as a fact about sets of numbers.
LEMMA EveryNumber ==
  ASSUME NEW S \in SUBSET Nat, 0 \in S, \A k \in S : k + 1 \in S
  PROVE  S = Nat
  <1> SUFFICES ASSUME Nat \ S # {}
               PROVE  FALSE
    OBVIOUS
  <1>1. PICK m \in Nat \ S : \A k \in Nat \ S : m <= k
    <2>1. Nat \ S \in SUBSET Nat
      OBVIOUS
    <2> QED
      BY <2>1, LeastNumber
  <1>2. m - 1 \in Nat /\ m = (m - 1) + 1 /\ ~ (m <= m - 1)
    OBVIOUS
  <1>3. m - 1 \in S
    BY <1>1, <1>2
  <1> QED
    BY <1>1, <1>2, <1>3

-----------------------------------------------------------------------------
(* FlattenSeq *)

\* What FlattenSeq folds, step by step.
LEMMA FoldExists ==
  ASSUME NEW n \in Nat \ {0}, NEW s, DOMAIN s = 1 .. n
  PROVE  \E g : g = [i \in 1 .. n |-> IF i = 1 THEN s[i] ELSE g[i - 1] \o s[i]]
  <1> DEFINE Folds(g, m) == g = [i \in 1 .. m |-> IF i = 1 THEN s[i] ELSE g[i - 1] \o s[i]]
             S == {m \in Nat : \E g : Folds(g, m + 1)}
  <1>1. 0 \in S
    <2>1. Folds([i \in 1 .. 1 |-> s[i]], 1)
      OBVIOUS
    <2>2. \E g : Folds(g, 0 + 1)
      <3> HIDE DEF Folds
      <3>1. 0 + 1 = 1
        OBVIOUS
      <3> QED
        BY <2>1, <3>1
    <2> HIDE DEF Folds
    <2> QED
      BY <2>2
  <1>2. ASSUME NEW k \in S PROVE k + 1 \in S
    <2>1. PICK g : Folds(g, k + 1)
      <3>1. \E g : Folds(g, k + 1)
        <4> HIDE DEF Folds
        <4> QED
          OBVIOUS
      <3> QED
        BY <3>1
    <2> DEFINE h == [i \in 1 .. k + 2 |-> IF i = k + 2 THEN g[k + 1] \o s[k + 2] ELSE g[i]]
    <2>2. ASSUME NEW i \in 1 .. k + 2
          PROVE  h[i] = IF i = 1 THEN s[i] ELSE h[i - 1] \o s[i]
      <3>0. k \in Nat /\ k + 2 # 1 /\ (k + 2) - 1 = k + 1
        OBVIOUS
      <3>1. DOMAIN g = 1 .. k + 1
        BY <2>1
      <3>2. CASE i = k + 2
        <4>1. h[i] = g[k + 1] \o s[k + 2]
          BY <3>2
        <4>2. h[i - 1] = g[k + 1]
          BY <3>0, <3>2
        <4> HIDE DEF h
        <4> QED
          BY <3>0, <3>2, <4>1, <4>2
      <3>3. CASE i \in 1 .. k + 1
        <4>1. h[i] = g[i]
          BY <3>3
        <4>2. g[i] = IF i = 1 THEN s[i] ELSE g[i - 1] \o s[i]
          BY <2>1, <3>3
        <4>3. i # 1 => h[i - 1] = g[i - 1]
          BY <3>3
        <4> HIDE DEF h
        <4> QED
          BY <4>1, <4>2, <4>3
      <3> QED
        BY <3>0, <3>2, <3>3
    <2>3. Folds(h, k + 2)
      BY <2>2
    <2> HIDE DEF h, Folds
    <2>4. (k + 1) + 1 = k + 2 /\ k + 1 \in Nat
      OBVIOUS
    <2> QED
      BY <2>3, <2>4
  <1>3. S = Nat
    <2> HIDE DEF S
    <2>1. S \in SUBSET Nat
      BY DEF S
    <2> QED
      BY <1>1, <1>2, <2>1, EveryNumber
  <1>4. n - 1 \in Nat /\ (n - 1) + 1 = n
    OBVIOUS
  <1>5. \E g : Folds(g, n)
    <2> HIDE DEF Folds
    <2> QED
    BY <1>3, <1>4
  <1> QED
    BY <1>5

LEMMA FlattenIs ==
  ASSUME NEW n \in Nat \ {0}, NEW s, DOMAIN s = 1 .. n, Len(s) = n
  PROVE  \E g : /\ g = [i \in 1 .. n |-> IF i = 1 THEN s[i] ELSE g[i - 1] \o s[i]]
                /\ FlattenSeq(s) = g[n]
  <1> DEFINE f == CHOOSE g : g = [i \in 1 .. n |-> IF i = 1 THEN s[i] ELSE g[i - 1] \o s[i]]
  <1>1. f = [i \in 1 .. n |-> IF i = 1 THEN s[i] ELSE f[i - 1] \o s[i]]
    BY FoldExists
  <1>2. FlattenSeq(s) = f[n]
    BY DEF FlattenSeq
  <1> QED
    BY <1>1, <1>2


\* Where element j of the i-th is.
Cell(len, i, j) == (i - 1) * len + j

Behind(len, T, m, a, b) ==
  /\ a \o b \in Seq(T) /\ Len(a \o b) = (m + 1) * len
  /\ \A i \in 1 .. m + 1, j \in 1 .. len :
       (a \o b)[Cell(len, i, j)] = IF i = m + 1 THEN b[j] ELSE a[Cell(len, i, j)]

LEMMA ConcatInPlace ==
  ASSUME NEW len \in Nat, NEW T, NEW m \in Nat, NEW a \in Seq(T), NEW b \in Seq(T),
         Len(a) = m * len, Len(b) = len
  PROVE  Behind(len, T, m, a, b)
  <1> DEFINE full == m * len
  <1>1. full \in Nat /\ (m + 1) * len = full + len /\ ((m + 1) - 1) * len = full
    OBVIOUS
  <1>2. \A x \in 1 .. full + len : (a \o b)[x] = IF x <= full THEN a[x] ELSE b[x - full]
    BY ConcatProperties
  <1>3. a \o b \in Seq(T) /\ Len(a \o b) = (m + 1) * len
    <2>1. a \o b \in Seq(T) /\ Len(a \o b) = Len(a) + Len(b)
      BY ConcatProperties
    <2> QED
      BY <1>1, <2>1
  <1>4. ASSUME NEW j \in 1 .. len PROVE (a \o b)[Cell(len, m + 1, j)] = b[j]
    <2> HIDE DEF full
    <2>1. full + j \in 1 .. full + len /\ ~ (full + j <= full) /\ (full + j) - full = j
      BY <1>1
    <2>2. Cell(len, m + 1, j) = full + j
      BY <1>1 DEF Cell
    <2> QED
      BY <1>2, <2>1, <2>2
  <1>5. ASSUME NEW i \in 1 .. m, NEW j \in 1 .. len
        PROVE  (a \o b)[Cell(len, i, j)] = a[Cell(len, i, j)]
    <2> DEFINE before == (i - 1) * len
    <2>1. PICK d \in Nat : m = (i - 1) + (d + 1)
      <3>1. m - i \in Nat /\ m = (i - 1) + ((m - i) + 1)
        OBVIOUS
      <3> QED
        BY <3>1
    <2>2. before \in Nat
      <3>1. i - 1 \in Nat
        OBVIOUS
      <3> QED
        BY <3>1
    <2>3. full = before + (d * len + len) /\ d * len \in Nat
      BY <2>1
    <2> HIDE DEF full, before
    <2>4. before + j \in 1 .. full + len /\ before + j <= full
      BY <2>2, <2>3
    <2>5. Cell(len, i, j) = before + j
      BY DEF Cell, before
    <2> QED
      BY <1>2, <2>4, <2>5
  <1>6. ASSUME NEW i \in 1 .. m + 1 PROVE i = m + 1 \/ (i # m + 1 /\ i \in 1 .. m)
    OBVIOUS
  <1> HIDE DEF full
  <1> QED
    BY <1>3, <1>4, <1>5, <1>6 DEF Behind

\* Sequences of one length, put one behind the other: element j of the i-th is where
\* counting the lengths before it puts it.
LEMMA FlattenInPlace ==
  ASSUME NEW n \in Nat \ {0}, NEW len \in Nat, NEW T, NEW s, DOMAIN s = 1 .. n, Len(s) = n,
         \A i \in 1 .. n : s[i] \in Seq(T) /\ Len(s[i]) = len
  PROVE  /\ FlattenSeq(s) \in Seq(T) /\ Len(FlattenSeq(s)) = n * len
         /\ \A i \in 1 .. n, j \in 1 .. len : FlattenSeq(s)[Cell(len, i, j)] = s[i][j]
  <1>1. PICK g : /\ g = [i \in 1 .. n |-> IF i = 1 THEN s[i] ELSE g[i - 1] \o s[i]]
                 /\ FlattenSeq(s) = g[n]
    BY FlattenIs
  <1> DEFINE InPlace(m) == /\ g[m] \in Seq(T) /\ Len(g[m]) = m * len
                           /\ \A i \in 1 .. m, j \in 1 .. len : g[m][Cell(len, i, j)] = s[i][j]
             S == {m \in Nat : m + 1 <= n => InPlace(m + 1)}
  <1>2. InPlace(1)
    <2>1. g[1] = s[1]
      BY <1>1
    <2>2. \A j \in 1 .. len : Cell(len, 1, j) = j
      BY DEF Cell
    <2> QED
      BY <2>1, <2>2
  <1>3. ASSUME NEW m \in Nat, m + 2 <= n, InPlace(m + 1) PROVE InPlace(m + 2)
    <2>1. g[m + 2] = g[m + 1] \o s[m + 2]
      <3>1. m + 2 \in 1 .. n /\ m + 2 # 1 /\ (m + 2) - 1 = m + 1
        BY <1>3
      <3> QED
        BY <1>1, <3>1
    <2>2. m + 1 \in Nat /\ (m + 1) + 1 = m + 2 /\ m + 2 \in 1 .. n
      BY <1>3
    <2> DEFINE a == g[m + 1]
               b == s[m + 2]
               k == m + 1
    <2>3. k \in Nat /\ a \in Seq(T) /\ b \in Seq(T) /\ Len(a) = k * len /\ Len(b) = len
      BY <1>3, <2>2
    <2>4. /\ \A i \in 1 .. k, j \in 1 .. len : a[Cell(len, i, j)] = s[i][j]
          /\ \A j \in 1 .. len : b[j] = s[k + 1][j]
      BY <1>3, <2>2
    <2>5. k + 1 = m + 2
      OBVIOUS
    <2> HIDE DEF k
    <2>0. g[k + 1] = a \o b
      BY <2>1, <2>5
    <2> HIDE DEF a, b
    <2>6. /\ a \o b \in Seq(T) /\ Len(a \o b) = (k + 1) * len
          /\ \A i \in 1 .. k + 1, j \in 1 .. len :
               (a \o b)[Cell(len, i, j)] = IF i = k + 1 THEN b[j] ELSE a[Cell(len, i, j)]
      <3>1. Behind(len, T, k, a, b)
        BY <2>3, ConcatInPlace
      <3> QED
        BY <3>1 DEF Behind
    <2>7. ASSUME NEW i \in 1 .. k + 1, NEW j \in 1 .. len
          PROVE  (a \o b)[Cell(len, i, j)] = s[i][j]
      <3>1. i = k + 1 \/ (i # k + 1 /\ i \in 1 .. k)
        BY <2>3
      <3> QED
        BY <2>4, <2>6, <3>1
    <2>8. InPlace(k + 1)
      BY <2>0, <2>6, <2>7
    <2> HIDE DEF InPlace
    <2> QED
      BY <2>5, <2>8
  <1>4. S = Nat
    <2>1. 0 \in S
      BY <1>2
    <2>2. ASSUME NEW m \in S PROVE m + 1 \in S
      <3>1. m \in Nat /\ (m + 1) + 1 = m + 2 /\ (m + 2 <= n => m + 1 <= n)
        OBVIOUS
      <3>2. m + 1 <= n => InPlace(m + 1)
        <4> HIDE DEF InPlace
        <4> QED
          OBVIOUS
      <3>3. m + 2 <= n => InPlace(m + 2)
        <4> HIDE DEF InPlace
        <4> QED
          BY <1>3, <3>1, <3>2
      <3> HIDE DEF InPlace
      <3> QED
        BY <3>1, <3>3
    <2> HIDE DEF S
    <2>3. S \in SUBSET Nat
      BY DEF S
    <2> QED
      BY <2>1, <2>2, <2>3, EveryNumber
  <1>5. InPlace(n)
    <2> HIDE DEF InPlace
    <2>1. n - 1 \in Nat /\ (n - 1) + 1 = n /\ n <= n
      OBVIOUS
    <2>2. n - 1 \in S
      <3> HIDE DEF S
      <3> QED
        BY <1>4, <2>1
    <2> QED
      BY <2>1, <2>2
  <1>6. FlattenSeq(s) = g[n]
    BY <1>1
  <1> QED
    BY <1>5, <1>6


-----------------------------------------------------------------------------
(* The sum of f over a finite set, as MapThenSumSet folds it *)

Chosen(s) == CHOOSE x \in s : TRUE

\* g adds up f over every set of D.
Adds(g, f, D) == g = [s \in D |-> IF s = {} THEN 0 ELSE f[Chosen(s)] + g[s \ {Chosen(s)}]]

Within(S, m) == {s \in SUBSET S : Cardinality(s) <= m}

\* Taking the chosen element away leaves a smaller set.
LEMMA Smaller ==
  ASSUME NEW S, IsFiniteSet(S), NEW s \in SUBSET S, s # {}
  PROVE  /\ Chosen(s) \in s /\ s \ {Chosen(s)} \in SUBSET S
         /\ Cardinality(s) \in Nat \ {0} /\ Cardinality(s \ {Chosen(s)}) = Cardinality(s) - 1
  <1>1. Chosen(s) \in s
    BY DEF Chosen
  <1>2. IsFiniteSet(s)
    BY FS_Subset
  <1>3. Cardinality(s) \in Nat /\ Cardinality(s) # 0
    BY <1>2, FS_CardinalityType, FS_EmptySet
  <1>4. Cardinality(s \ {Chosen(s)}) = Cardinality(s) - 1
    BY <1>1, <1>2, FS_RemoveElement
  <1> QED
    BY <1>1, <1>3, <1>4

\* Induction over the subsets of a finite set.
LEMMA EverySubset ==
  ASSUME NEW S, IsFiniteSet(S), NEW F, {} \in F,
         \A s \in SUBSET S : s # {} /\ s \ {Chosen(s)} \in F => s \in F
  PROVE  SUBSET S \subseteq F
  <1> DEFINE N == {m \in Nat : Within(S, m) \subseteq F}
  <1>1. 0 \in N
    <2> SUFFICES ASSUME NEW s \in SUBSET S, Cardinality(s) <= 0
                 PROVE  s \in F
      BY DEF Within
    <2>1. s # {} => Cardinality(s) \in Nat \ {0}
      BY Smaller
    <2>2. s = {}
      BY <2>1
    <2> QED
      BY <2>2
  <1>2. ASSUME NEW m \in N PROVE m + 1 \in N
    <2> SUFFICES ASSUME NEW s \in SUBSET S, Cardinality(s) <= m + 1
                 PROVE  s \in F
      BY DEF Within
    <2>1. CASE s = {}
      BY <2>1
    <2>2. CASE s # {}
      <3>1. s \ {Chosen(s)} \in SUBSET S /\ Cardinality(s \ {Chosen(s)}) <= m
        BY <2>2, Smaller
      <3> QED
        BY <2>2, <3>1 DEF Within
    <2> QED
      BY <2>1, <2>2
  <1>3. N = Nat
    <2> HIDE DEF N
    <2>1. N \in SUBSET Nat
      BY DEF N
    <2> QED
      BY <1>1, <1>2, <2>1, EveryNumber
  <1> SUFFICES ASSUME NEW s \in SUBSET S
               PROVE  s \in F
    OBVIOUS
  <1>4. Cardinality(S) \in N /\ Cardinality(s) <= Cardinality(S)
    <2> HIDE DEF N
    <2> QED
      BY <1>3, FS_CardinalityType, FS_Subset
  <1> QED
    BY <1>4 DEF Within

\* There is such a g for every f.
LEMMA SumExists ==
  ASSUME NEW S, IsFiniteSet(S), NEW f
  PROVE  \E g : Adds(g, f, SUBSET S)
  <1> DEFINE Has(m) == \E g : Adds(g, f, Within(S, m))
             N == {m \in Nat : Has(m)}
  <1>1. Has(0)
    <2>1. \A s \in Within(S, 0) : s = {}
      <3> SUFFICES ASSUME NEW s \in SUBSET S, Cardinality(s) <= 0, s # {}
                   PROVE  FALSE
        BY DEF Within
      <3>1. Cardinality(s) \in Nat \ {0}
        BY Smaller
      <3> QED
        BY <3>1
    <2>2. Adds([s \in Within(S, 0) |-> 0], f, Within(S, 0))
      BY <2>1 DEF Adds
    <2> QED
      BY <2>2
  <1>2. ASSUME NEW m \in Nat, Has(m) PROVE Has(m + 1)
    <2>1. PICK g : Adds(g, f, Within(S, m))
      BY <1>2
    <2> DEFINE h == [s \in Within(S, m + 1) |->
                       IF s \in Within(S, m) THEN g[s] ELSE f[Chosen(s)] + g[s \ {Chosen(s)}]]
    <2>2. ASSUME NEW s \in Within(S, m + 1), s # {}
          PROVE  s \ {Chosen(s)} \in Within(S, m) /\ s \ {Chosen(s)} \in Within(S, m + 1)
      <3>1. /\ s \in SUBSET S /\ Cardinality(s) <= m + 1 /\ s \ {Chosen(s)} \in SUBSET S
            /\ Cardinality(s) \in Nat /\ Cardinality(s \ {Chosen(s)}) = Cardinality(s) - 1
        BY <2>2, Smaller DEF Within
      <3> QED
        BY <3>1 DEF Within
    <2>3. ASSUME NEW s \in Within(S, m + 1)
          PROVE  h[s] = IF s = {} THEN 0 ELSE f[Chosen(s)] + h[s \ {Chosen(s)}]
      <3>1. CASE s \in Within(S, m)
        <4>1. h[s] = g[s] /\ g[s] = IF s = {} THEN 0 ELSE f[Chosen(s)] + g[s \ {Chosen(s)}]
          BY <2>1, <3>1 DEF Adds
        <4>2. s # {} => h[s \ {Chosen(s)}] = g[s \ {Chosen(s)}]
          BY <2>2
        <4> HIDE DEF h
        <4> QED
          BY <4>1, <4>2
      <3>2. CASE s \notin Within(S, m)
        <4>1. s # {}
          <5>1. {} \in Within(S, m)
            BY FS_EmptySet DEF Within
          <5> QED
            BY <3>2, <5>1
        <4>2. h[s] = f[Chosen(s)] + g[s \ {Chosen(s)}]
          BY <3>2
        <4>3. h[s \ {Chosen(s)}] = g[s \ {Chosen(s)}]
          BY <2>2, <4>1
        <4> HIDE DEF h
        <4> QED
          BY <4>1, <4>2, <4>3
      <3> QED
        BY <3>1, <3>2
    <2>4. Adds(h, f, Within(S, m + 1))
      BY <2>3 DEF Adds
    <2> HIDE DEF h
    <2> QED
      BY <2>4
  <1>3. N = Nat
    <2> HIDE DEF Has
    <2>1. 0 \in N /\ \A m \in N : m + 1 \in N
      BY <1>1, <1>2
    <2>2. N \in SUBSET Nat
      OBVIOUS
    <2> HIDE DEF N
    <2> QED
      BY <2>1, <2>2, EveryNumber
  <1>4. Cardinality(S) \in Nat /\ Within(S, Cardinality(S)) = SUBSET S
    BY FS_CardinalityType, FS_Subset DEF Within
  <1>5. Has(Cardinality(S))
    <2> HIDE DEF Has
    <2> QED
      BY <1>3, <1>4
  <1> QED
    BY <1>4, <1>5

\* The sum is a number, and follows a change at one element.
LEMMA SumType ==
  ASSUME NEW S, IsFiniteSet(S), NEW f \in [S -> Int], NEW g, Adds(g, f, SUBSET S)
  PROVE  g[S] \in Int
  <1> DEFINE F == {s \in SUBSET S : g[s] \in Int}
  <1>1. {} \in F
    BY DEF Adds
  <1>2. ASSUME NEW s \in SUBSET S, s # {}, s \ {Chosen(s)} \in F PROVE s \in F
    <2>1. Chosen(s) \in S
      BY <1>2, Smaller
    <2>2. g[s] = f[Chosen(s)] + g[s \ {Chosen(s)}]
      BY <1>2 DEF Adds
    <2> QED
      BY <1>2, <2>1, <2>2
  <1>3. SUBSET S \subseteq F
    <2> HIDE DEF F
    <2> QED
      BY <1>1, <1>2, EverySubset
  <1> QED
    BY <1>3

\* e is f with the value at a changed by d.
Moved(e, f, a, d) == e = [f EXCEPT ![a] = f[a] + d]

LEMMA SumChange ==
  ASSUME NEW S, IsFiniteSet(S), NEW f \in [S -> Int], NEW a \in S, NEW d \in Int,
         NEW e, Moved(e, f, a, d),
         NEW g, Adds(g, f, SUBSET S),
         NEW h, Adds(h, e, SUBSET S)
  PROVE  h[S] = g[S] + d
  <1> DEFINE F == {s \in SUBSET S : g[s] \in Int /\ h[s] = g[s] + (IF a \in s THEN d ELSE 0)}
  <1>1. {} \in F
    BY DEF Adds
  <1>2. ASSUME NEW s \in SUBSET S, s # {}, s \ {Chosen(s)} \in F PROVE s \in F
    <2> DEFINE x == Chosen(s)
               rest == s \ {x}
    <2>0. x \in s
      BY <1>2, Smaller
    <2>1. x \in s /\ x \in S /\ (a \in s <=> (a = x \/ a \in rest)) /\ x \notin rest
      <3> HIDE DEF x
      <3> QED
        BY <2>0
    <2>2. g[s] = f[x] + g[rest] /\ h[s] = [f EXCEPT ![a] = f[a] + d][x] + h[rest]
      BY <1>2 DEF Adds, Moved
    <2>3. f[x] \in Int /\ [f EXCEPT ![a] = f[a] + d][x] = IF x = a THEN f[x] + d ELSE f[x]
      BY <2>1
    <2>4. g[rest] \in Int /\ h[rest] = g[rest] + (IF a \in rest THEN d ELSE 0)
      BY <1>2
    <2> HIDE DEF x, rest
    <2>5. g[s] \in Int /\ h[s] = g[s] + (IF a \in s THEN d ELSE 0)
      BY <2>1, <2>2, <2>3, <2>4
    <2> QED
      BY <2>5
  <1>3. SUBSET S \subseteq F
    <2> HIDE DEF F
    <2> QED
      BY <1>1, <1>2, EverySubset
  <1> QED
    BY <1>3

\* The sum of equal numbers.
LEMMA SumOfEqual ==
  ASSUME NEW S, IsFiniteSet(S), NEW f, NEW k \in Int, \A x \in S : f[x] = k,
         NEW g, Adds(g, f, SUBSET S)
  PROVE  g[S] = Cardinality(S) * k
  <1> DEFINE F == {s \in SUBSET S : g[s] = Cardinality(s) * k}
  <1>0. ASSUME NEW c \in Nat PROVE (c + 1) * k = c * k + k /\ c * k \in Int
    OBVIOUS
  <1>1. {} \in F
    <2>1. g[{}] = 0
      BY DEF Adds
    <2> QED
      BY <2>1, FS_EmptySet
  <1>2. ASSUME NEW s \in SUBSET S, s # {}, s \ {Chosen(s)} \in F PROVE s \in F
    <2> DEFINE rest == s \ {Chosen(s)}
               c == Cardinality(rest)
    <2>0. Chosen(s) \in s /\ Cardinality(s) \in Nat \ {0} /\ c = Cardinality(s) - 1
      BY <1>2, Smaller
    <2>1. Chosen(s) \in S /\ c \in Nat /\ Cardinality(s) = c + 1
      <3> HIDE DEF c, rest
      <3> QED
        BY <2>0
    <2>2. g[s] = k + g[rest] /\ g[rest] = c * k
      BY <1>2, <2>1 DEF Adds
    <2> HIDE DEF rest, c, F
    <2>3. (c + 1) * k = c * k + k /\ c * k \in Int
      BY <1>0, <2>1
    <2>4. g[s] = Cardinality(s) * k
      BY <2>1, <2>2, <2>3
    <2> QED
      BY <2>4 DEF F
  <1>3. SUBSET S \subseteq F
    <2> HIDE DEF F
    <2> QED
      BY <1>1, <1>2, EverySubset
  <1> QED
    BY <1>3

-----------------------------------------------------------------------------
(* Lists of sets *)

\* s has every element of S, once.
Lists(s, S) ==
  /\ s \in Seq(S)
  /\ \A x \in S : \E i \in 1 .. Len(s) : s[i] = x
  /\ \A i, j \in 1 .. Len(s) : s[i] = s[j] => i = j

LEMMA ConcatLists ==
  ASSUME NEW A, NEW B, NEW a, NEW b, Lists(a, A), Lists(b, B), A \cap B = {}
  PROVE  Lists(a \o b, A \cup B)
  <1>1. a \in Seq(A) /\ b \in Seq(B)
    BY DEF Lists
  <1>2. /\ a \in Seq(A \cup B) /\ b \in Seq(A \cup B) /\ Len(a) \in Nat /\ Len(b) \in Nat
        /\ \A i \in 1 .. Len(a) : a[i] \in A
        /\ \A i \in 1 .. Len(b) : b[i] \in B
    BY <1>1
  <1> DEFINE c == a \o b
  <1>3. /\ c \in Seq(A \cup B) /\ Len(c) = Len(a) + Len(b)
        /\ \A i \in 1 .. Len(a) + Len(b) :
             c[i] = IF i <= Len(a) THEN a[i] ELSE b[i - Len(a)]
    BY <1>2, ConcatProperties
  <1> HIDE DEF c
  <1>4. ASSUME NEW x \in A \cup B
        PROVE  \E i \in 1 .. Len(c) : c[i] = x
    <2>1. CASE x \in A
      <3>1. PICK i \in 1 .. Len(a) : a[i] = x
        BY <2>1 DEF Lists
      <3>2. i \in 1 .. Len(c) /\ c[i] = x
        BY <1>2, <1>3, <3>1
      <3> QED
        BY <3>2
    <2>2. CASE x \in B
      <3>1. PICK i \in 1 .. Len(b) : b[i] = x
        BY <2>2 DEF Lists
      <3>2. Len(a) + i \in 1 .. Len(c) /\ c[Len(a) + i] = x
        <4>1. Len(a) + i \in 1 .. Len(a) + Len(b) /\ ~ (Len(a) + i <= Len(a))
              /\ (Len(a) + i) - Len(a) = i
          BY <1>2
        <4> QED
          BY <1>3, <3>1, <4>1
      <3> QED
        BY <3>2
    <2> QED
      BY <2>1, <2>2
  <1>5. ASSUME NEW i \in 1 .. Len(c), NEW j \in 1 .. Len(c), c[i] = c[j]
        PROVE  i = j
    <2>1. CASE i <= Len(a) /\ j <= Len(a)
      <3>1. i \in 1 .. Len(a) /\ j \in 1 .. Len(a) /\ a[i] = a[j]
        BY <1>2, <1>3, <1>5, <2>1
      <3> QED
        BY <3>1 DEF Lists
    <2>2. CASE ~ (i <= Len(a)) /\ ~ (j <= Len(a))
      <3>1. i - Len(a) \in 1 .. Len(b) /\ j - Len(a) \in 1 .. Len(b)
        BY <1>2, <1>3, <2>2
      <3>2. b[i - Len(a)] = b[j - Len(a)]
        BY <1>2, <1>3, <1>5, <2>2
      <3>3. i - Len(a) = j - Len(a)
        BY <3>1, <3>2 DEF Lists
      <3> QED
        BY <1>2, <1>3, <3>3
    <2>3. ASSUME NEW k \in 1 .. Len(c), NEW l \in 1 .. Len(c), k <= Len(a), ~ (l <= Len(a))
          PROVE  c[k] # c[l]
      <3>1. k \in 1 .. Len(a) /\ l - Len(a) \in 1 .. Len(b)
        BY <1>2, <1>3, <2>3
      <3>2. c[k] \in A /\ c[l] \in B
        BY <1>2, <1>3, <2>3, <3>1
      <3> QED
        BY <3>2
    <2> QED
      BY <1>5, <2>1, <2>2, <2>3
  <1> QED
    BY <1>3, <1>4, <1>5 DEF Lists, c

\* Lists of sets that have nothing in common, put one behind the other.
LEMMA FlattenLists ==
  ASSUME NEW n \in Nat \ {0}, NEW s, DOMAIN s = 1 .. n, Len(s) = n, NEW S,
         \A i \in 1 .. n : Lists(s[i], S[i]),
         \A i, j \in 1 .. n : i # j => S[i] \cap S[j] = {}
  PROVE  Lists(FlattenSeq(s), UNION {S[i] : i \in 1 .. n})
  <1>1. PICK g : /\ g = [i \in 1 .. n |-> IF i = 1 THEN s[i] ELSE g[i - 1] \o s[i]]
                 /\ FlattenSeq(s) = g[n]
    BY FlattenIs
  <1> DEFINE All(m) == UNION {S[i] : i \in 1 .. m}
             M == {m \in Nat : m + 1 <= n => Lists(g[m + 1], All(m + 1))}
  <1>2. Lists(g[1], All(1))
    <2>1. g[1] = s[1] /\ 1 \in 1 .. n
      BY <1>1
    <2>2. All(1) = S[1]
      OBVIOUS
    <2> HIDE DEF All
    <2> QED
      BY <2>1, <2>2
  <1>3. 0 \in M
    <2>1. 0 + 1 = 1
      OBVIOUS
    <2> HIDE DEF All
    <2> QED
      BY <1>2, <2>1
  <1>4. ASSUME NEW m \in M PROVE m + 1 \in M
    <2>0. m \in Nat /\ m + 1 \in Nat
      OBVIOUS
    <2> SUFFICES ASSUME (m + 1) + 1 <= n
                 PROVE  Lists(g[(m + 1) + 1], All((m + 1) + 1))
      BY <2>0
    <2> DEFINE k == (m + 1) + 1
    <2>1. k \in 1 .. n /\ k # 1 /\ k - 1 = m + 1 /\ m + 1 <= n
      BY <2>0
    <2>2. Lists(g[m + 1], All(m + 1))
      <3> HIDE DEF All
      <3> QED
        BY <2>1
    <2>3. g[k] = g[m + 1] \o s[k]
      <3> HIDE DEF k
      <3> QED
        BY <1>1, <2>1
    <2>4. All(k) = All(m + 1) \cup S[k]
      <3>1. 1 .. k = (1 .. m + 1) \cup {k}
        BY <2>0
      <3> HIDE DEF k
      <3> QED
        BY <3>1
    <2>5. All(m + 1) \cap S[k] = {}
      <3> SUFFICES ASSUME NEW i \in 1 .. m + 1
                   PROVE  S[i] \cap S[k] = {}
        OBVIOUS
      <3>1. i \in 1 .. n /\ i # k
        BY <2>0, <2>1
      <3> HIDE DEF k
      <3> QED
        BY <2>1, <3>1
    <2> HIDE DEF All, k
    <2>6. Lists(g[m + 1] \o s[k], All(m + 1) \cup S[k])
      BY <2>1, <2>2, <2>5, ConcatLists
    <2> QED
      BY <2>3, <2>4, <2>6 DEF k
  <1>5. M = Nat
    <2> HIDE DEF M
    <2>1. M \in SUBSET Nat
      BY DEF M
    <2> QED
      BY <1>3, <1>4, <2>1, EveryNumber
  <1>6. Lists(g[n], All(n))
    <2>1. n - 1 \in M /\ (n - 1) + 1 = n
      <3> HIDE DEF M
      <3> QED
        BY <1>5
    <2> HIDE DEF All
    <2>2. (n - 1) + 1 <= n
      BY <2>1
    <2> QED
      BY <2>1, <2>2
  <1> QED
    BY <1>1, <1>6

\* Numbers dealt round a list: no element gets two more than another.
LEMMA DealtEvenly ==
  ASSUME NEW A, NEW list, Lists(list, A), NEW count \in Int, NEW c \in A, NEW d \in A,
         NEW C, \A t : t \in C <=> t \in 0 .. count - 1 /\ list[(t % Len(list)) + 1] = c,
         NEW D, \A t : t \in D <=> t \in 0 .. count - 1 /\ list[(t % Len(list)) + 1] = d
  PROVE  Cardinality(C) <= Cardinality(D) + 1
  <1> DEFINE n == Len(list)
             On(x) == {t \in 0 .. count - 1 : list[(t % n) + 1] = x}
  <1>0. C = On(c) /\ D = On(d)
    OBVIOUS
  <1>1. PICK i \in 1 .. n : list[i] = c
    BY DEF Lists
  <1>2. PICK j \in 1 .. n : list[j] = d
    BY DEF Lists
  <1>3. n \in Nat \ {0} /\ i \in Int /\ j \in Int
    <2>1. n \in Nat
      BY DEF Lists
    <2> QED
      BY <1>1, <2>1
  <1>4. \A k, l \in 1 .. n : list[k] = list[l] => k = l
    BY DEF Lists
  <1> HIDE DEF n
  <1>5. ASSUME NEW t \in On(c) PROVE t \in Nat /\ t < count /\ t % n = i - 1
    <2>1. t \in Nat /\ t < count /\ list[(t % n) + 1] = c
      OBVIOUS
    <2>2. (t % n) \in 0 .. n - 1
      BY <1>3, <2>1, DivModIs
    <2>3. (t % n) + 1 = i
      BY <1>1, <1>3, <1>4, <2>1, <2>2
    <2> QED
      BY <1>3, <2>1, <2>2, <2>3
  <1> DEFINE first == i - 1
             rest == On(c) \ {first}
             f == [t \in rest |-> t - n - i + j]
  <1>6. ASSUME NEW t \in rest PROVE f[t] \in On(d)
    <2>1. t \in Nat /\ t < count /\ t % n = i - 1 /\ t # i - 1
      BY <1>5
    <2>2. PICK q \in Int : t = n * q + (i - 1)
      <3>1. t \in Int
        BY <2>1
      <3>2. t = n * (t \div n) + (t % n) /\ t \div n \in Int
        BY <1>3, <3>1, DivModIs
      <3> QED
        BY <2>1, <3>2
    <2>3. q >= 1
      <3> SUFFICES ASSUME q <= 0
                   PROVE  FALSE
        BY <2>2
      <3>1. q # 0
        BY <1>3, <2>1, <2>2
      <3>2. -1 - q \in Nat
        BY <3>1
      <3>3. n * (-1 - q) \in Nat /\ n * (-1 - q) = 0 - n - n * q /\ n * q \in Int
        BY <1>3, <3>2
      <3> QED
        BY <1>3, <2>1, <2>2, <3>3
    <2>4. n * (q - 1) \in Nat /\ n * (q - 1) = n * q - n /\ n * q \in Int
      <3>1. q - 1 \in Nat
        BY <2>3
      <3> QED
        BY <1>3, <3>1
    <2> DEFINE u == t - n - i + j
    <2>5. u = n * (q - 1) + (j - 1) /\ u \in Int /\ j - 1 \in 0 .. n - 1 /\ q - 1 \in Int
      BY <1>3, <2>1, <2>2, <2>4
    <2>6. u \in 0 .. count - 1
      BY <1>3, <2>1, <2>4, <2>5
    <2> HIDE DEF u
    <2>7. u % n = j - 1
      BY <1>3, <2>5, RemainderOf
    <2>8. list[(u % n) + 1] = d
      BY <1>2, <1>3, <2>7
    <2> QED
      BY <2>6, <2>8 DEF u
  <1>7. \A t \in On(c) : t \in Int
    BY <1>5
  <1>8. IsFiniteSet(On(c)) /\ IsFiniteSet(On(d))
    <2>1. IsFiniteSet(0 .. count - 1)
      BY FS_Interval
    <2> QED
      BY <2>1, FS_Subset
  <1>9. Cardinality(rest) <= Cardinality(On(d))
    <2>1. f \in [rest -> On(d)]
      BY <1>6
    <2>2. \A s, t \in rest : f[s] = f[t] => s = t
      BY <1>3, <1>7
    <2>3. f \in Injection(rest, On(d))
      <3> HIDE DEF f, rest, On
      <3>1. DOMAIN f = rest
        BY <2>1
      <3> QED
        BY <2>1, <2>2, <3>1 DEF Injection, IsInjective
    <2> HIDE DEF f, rest, On
    <2> QED
      BY <1>8, <2>3, FS_Injection
  <1> HIDE DEF On, first
  <1>10. Cardinality(On(c)) <= Cardinality(rest) + 1
    <2>1. Cardinality(rest) = IF first \in On(c) THEN Cardinality(On(c)) - 1
                              ELSE Cardinality(On(c))
      BY <1>8, FS_RemoveElement
    <2>2. Cardinality(On(c)) \in Nat
      BY <1>8, FS_CardinalityType
    <2> QED
      BY <2>1, <2>2
  <1>11. {Cardinality(On(c)), Cardinality(On(d)), Cardinality(rest)} \subseteq Nat
    <2>1. IsFiniteSet(rest)
      BY <1>8, FS_RemoveElement
    <2> QED
      BY <1>8, <2>1, FS_CardinalityType
  <1>12. Cardinality(On(c)) <= Cardinality(On(d)) + 1
    BY <1>9, <1>10, <1>11
  <1> QED
    BY <1>0, <1>12

-----------------------------------------------------------------------------
(* Powers of two, as numbers of subsets *)

LEMMA SubsetsOfOneMore ==
  ASSUME NEW S, IsFiniteSet(S), NEW x, x \notin S
  PROVE  Cardinality(SUBSET (S \cup {x})) = 2 * Cardinality(SUBSET S)
  <1> DEFINE A == SUBSET S
             B == {T \cup {x} : T \in A}
             f == [T \in A |-> T \cup {x}]
  <1>1. IsFiniteSet(A)
    BY FS_SUBSET
  <1>2. f \in Bijection(A, B)
    <2>1. f \in [A -> B] /\ \A b \in B : \E a \in A : f[a] = b
      OBVIOUS
    <2>2. \A a, b \in A : f[a] = f[b] => a = b
      <3> SUFFICES ASSUME NEW a \in A, NEW b \in A, a \cup {x} = b \cup {x}
                   PROVE  a = b
        OBVIOUS
      <3>1. x \notin a /\ x \notin b
        OBVIOUS
      <3> QED
        BY <3>1
    <2> HIDE DEF f, A, B
    <2>3. DOMAIN f = A
      BY <2>1
    <2> QED
      BY <2>1, <2>2, <2>3 DEF Bijection, Injection, Surjection, IsInjective
  <1>3. IsFiniteSet(B) /\ Cardinality(B) = Cardinality(A)
    <2> HIDE DEF A, B, f
    <2>1. ExistsBijection(A, B)
      BY <1>2 DEF ExistsBijection
    <2> QED
      BY <1>1, <2>1, FS_Bijection
  <1>4. A \cap B = {}
    OBVIOUS
  <1>5. SUBSET (S \cup {x}) = A \cup B
    <2> SUFFICES ASSUME NEW T \in SUBSET (S \cup {x}), x \in T
                 PROVE  T \in B
      OBVIOUS
    <2>1. T \ {x} \in A /\ T = (T \ {x}) \cup {x}
      OBVIOUS
    <2> QED
      BY <2>1
  <1> HIDE DEF A, B
  <1>6. Cardinality(A \cup B) = Cardinality(A) + Cardinality(B) - Cardinality(A \cap B)
    BY <1>1, <1>3, FS_Union
  <1>7. Cardinality(A \cap B) = 0
    BY <1>4, FS_EmptySet
  <1>8. Cardinality(A) \in Nat
    BY <1>1, FS_CardinalityType
  <1>9. Cardinality(A \cup B) = 2 * Cardinality(A)
    BY <1>3, <1>6, <1>7, <1>8
  <1> QED
    BY <1>5, <1>9 DEF A

\* The next power is twice this one.
LEMMA NextPower ==
  ASSUME NEW k \in Nat
  PROVE  2 ^ k \in Nat \ {0} /\ 2 ^ (k + 1) = 2 * 2 ^ k
  <1> DEFINE S == 1 .. k
  <1>1. IsFiniteSet(S) /\ Cardinality(S) = k
    <2>1. CASE k = 0
      <3>1. S = {}
        BY <2>1
      <3> QED
        BY <2>1, <3>1, FS_EmptySet
    <2>2. CASE k # 0
      BY <2>2, BelowIsFinite
    <2> QED
      BY <2>1, <2>2
  <1>2. S \cup {k + 1} = 1 .. k + 1 /\ k + 1 \notin S
    OBVIOUS
  <1>3. IsFiniteSet(1 .. k + 1) /\ Cardinality(1 .. k + 1) = k + 1
    BY BelowIsFinite
  <1> HIDE DEF S
  <1>4. Cardinality(SUBSET S) = 2 ^ k /\ IsFiniteSet(SUBSET S)
    BY <1>1, FS_SUBSET
  <1>5. Cardinality(SUBSET (1 .. k + 1)) = 2 ^ (k + 1)
    BY <1>3, FS_SUBSET
  <1>6. Cardinality(SUBSET (1 .. k + 1)) = 2 * Cardinality(SUBSET S)
    BY <1>1, <1>2, SubsetsOfOneMore
  <1>7. Cardinality(SUBSET S) \in Nat
    BY <1>4, FS_CardinalityType
  <1>8. Cardinality(SUBSET S) # 0
    <2>1. S \in SUBSET S
      OBVIOUS
    <2> QED
      BY <1>4, <2>1, FS_EmptySet
  <1> QED
    BY <1>4, <1>5, <1>6, <1>7, <1>8

LEMMA FirstPower == 2 ^ 0 = 1
  OBVIOUS

\* A power has the powers of greater exponents at or behind it, and exceeds its exponent.
LEMMA PowersGrow ==
  ASSUME NEW j \in Nat, NEW d \in Nat
  PROVE  2 ^ j <= 2 ^ (j + d) /\ j < 2 ^ j
  <1> DEFINE M == {e \in Nat : 2 ^ j <= 2 ^ (j + e)}
             L == {e \in Nat : e < 2 ^ e}
  <1>1. M = Nat
    <2>1. 0 \in M
      <3>1. j + 0 = j /\ 2 ^ j \in Nat
        BY NextPower
      <3> QED
        BY <3>1
    <2>2. ASSUME NEW e \in M PROVE e + 1 \in M
      <3>1. j + e \in Nat /\ j + (e + 1) = (j + e) + 1 /\ e + 1 \in Nat
        OBVIOUS
      <3>2. 2 ^ (j + e) \in Nat /\ 2 ^ ((j + e) + 1) = 2 * 2 ^ (j + e) /\ 2 ^ j \in Nat
        BY <3>1, NextPower
      <3>3. 2 ^ j <= 2 ^ (j + e)
        OBVIOUS
      <3> QED
        BY <3>1, <3>2, <3>3
    <2>3. M \in SUBSET Nat
      OBVIOUS
    <2> HIDE DEF M
    <2> QED
      BY <2>1, <2>2, <2>3, EveryNumber
  <1>2. L = Nat
    <2>1. 0 \in L
      BY FirstPower
    <2>2. ASSUME NEW e \in L PROVE e + 1 \in L
      <3>1. e \in Nat /\ e < 2 ^ e /\ e + 1 \in Nat
        OBVIOUS
      <3>2. 2 ^ e \in Nat /\ 2 ^ (e + 1) = 2 * 2 ^ e
        BY <3>1, NextPower
      <3> QED
        BY <3>1, <3>2
    <2>3. L \in SUBSET Nat
      OBVIOUS
    <2> HIDE DEF L
    <2> QED
      BY <2>1, <2>2, <2>3, EveryNumber
  <1>3. d \in M /\ j \in L
    BY <1>1, <1>2
  <1> QED
    BY <1>3

IsPower(n) == \E k \in Nat : n = 2 ^ k

\* Between a power and its double there is none.
LEMMA PowersApart ==
  ASSUME NEW a, NEW b, IsPower(a), IsPower(b), a < b
  PROVE  2 * a <= b
  <1>1. PICK j \in Nat : a = 2 ^ j
    BY DEF IsPower
  <1>2. PICK k \in Nat : b = 2 ^ k
    BY DEF IsPower
  <1>3. a \in Nat /\ b \in Nat
    BY <1>1, <1>2, NextPower
  <1>4. CASE k <= j
    <2>1. PICK d \in Nat : j = k + d
      BY <1>4
    <2>2. b <= a
      BY <1>1, <1>2, <2>1, PowersGrow
    <2> QED
      BY <1>3, <2>2
  <1>5. CASE j < k
    <2>1. PICK d \in Nat : k = (j + 1) + d /\ j + 1 \in Nat
      <3>1. k - (j + 1) \in Nat /\ k = (j + 1) + (k - (j + 1))
        BY <1>5
      <3> QED
        BY <3>1
    <2>2. 2 ^ (j + 1) <= 2 ^ k
      BY <2>1, PowersGrow
    <2> QED
      BY <1>1, <1>2, <2>2, NextPower
  <1> QED
    BY <1>4, <1>5
=============================================================================
