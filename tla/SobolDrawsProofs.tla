-------------------------- MODULE SobolDrawsProofs --------------------------
(***************************************************************************)
(* What TLAPS proves of SobolDraws, for words of any length, any number of *)
(* nested digits and any hash.                                             *)
(***************************************************************************)
EXTENDS SobolDraws, FiniteSetTheorems, WellFoundedInduction, TLAPS

-----------------------------------------------------------------------------
(* Induction over the numbers, and powers of two.                          *)

\* A set that has 0 and with each number the next has them all.
LEMMA Induction ==
  ASSUME NEW S, 0 \in S, \A n \in Nat : n \in S => n + 1 \in S
  PROVE  \A n \in Nat : n \in S
<1> DEFINE Bad == Nat \ S
<1>1. SUFFICES ASSUME Bad # {} PROVE FALSE
  OBVIOUS
<1>2. PICK n \in Bad : \A m \in Bad : <<m, n>> \notin OpToRel(<, Nat)
  <2> HIDE DEF Bad
  <2> QED
    BY <1>1, NatLessThanWellFounded, WFMin, Bad \subseteq Nat DEF Bad
<1>3. \A m \in Bad : ~(m < n)
  BY <1>2 DEF OpToRel
<1>4. n # 0 /\ n - 1 \in Nat /\ n - 1 \notin Bad
  BY <1>3
<1>5. (n - 1) + 1 = n
  OBVIOUS
<1> QED
  BY <1>4, <1>5

\* Powers of two double.
LEMMA Doubling ==
  ASSUME NEW n \in Nat
  PROVE  2^n \in Nat \ {0} /\ 2^(n + 1) = 2 * 2^n
<1> DEFINE S == 1..n
           Small == SUBSET S
           T == {A \cup {n + 1} : A \in Small}
           All == SUBSET (1..(n + 1))
           f == [A \in Small |-> A \cup {n + 1}]
<1>1. IsFiniteSet(S) /\ Cardinality(S) = n
  BY FS_Interval
<1>2. IsFiniteSet(1..(n + 1)) /\ Cardinality(1..(n + 1)) = n + 1
  BY FS_Interval, n + 1 \in Nat
<1>3. /\ IsFiniteSet(Small) /\ Cardinality(Small) = 2^n
      /\ IsFiniteSet(All) /\ Cardinality(All) = 2^(n + 1)
  BY <1>1, <1>2, FS_SUBSET
<1>a. n + 1 \notin S /\ 1..(n + 1) = S \cup {n + 1}
  OBVIOUS
<1> HIDE DEF S
<1>4. IsFiniteSet(T) /\ Cardinality(T) = Cardinality(Small)
  <2>1. \A A, B \in Small : f[A] = f[B] => A = B
    <3> SUFFICES ASSUME NEW A \in SUBSET S, NEW B \in SUBSET S,
                        A \cup {n + 1} = B \cup {n + 1}
                 PROVE  A = B
      OBVIOUS
    <3>1. n + 1 \notin A /\ n + 1 \notin B
      BY <1>a
    <3> QED
      BY <3>1
  <2>2. f \in [Small -> T] /\ \A t \in T : \E A \in Small : f[A] = t
    OBVIOUS
  <2>3. f \in Bijection(Small, T)
    BY <2>1, <2>2 DEF Bijection, Injection, Surjection, IsInjective
  <2> QED
    BY <1>3, <2>3, FS_Bijection DEF ExistsBijection
<1>5. All = Small \cup T
  <2>1. ASSUME NEW A \in SUBSET (S \cup {n + 1}), n + 1 \in A
        PROVE  A \in T
    <3>1. A = (A \ {n + 1}) \cup {n + 1} /\ A \ {n + 1} \in SUBSET S
      BY <2>1
    <3> QED
      BY <3>1
  <2>2. ASSUME NEW A \in SUBSET (S \cup {n + 1}), n + 1 \notin A
        PROVE  A \in Small
    BY <2>2
  <2>3. ASSUME NEW A \in T
        PROVE  A \in SUBSET (S \cup {n + 1})
    OBVIOUS
  <2>4. ASSUME NEW A \in Small
        PROVE  A \in SUBSET (S \cup {n + 1})
    OBVIOUS
  <2>5. All = SUBSET (S \cup {n + 1})
    BY <1>a
  <2> DEFINE Both == SUBSET (S \cup {n + 1})
  <2>6. ASSUME NEW A \in Both
        PROVE  A \in Small \cup T
    <3> HIDE DEF Small, T
    <3> QED
      BY <2>1, <2>2
  <2>7. ASSUME NEW A \in Small \cup T
        PROVE  A \in Both
    <3> HIDE DEF Small, T
    <3> QED
      BY <2>3, <2>4
  <2> HIDE DEF Small, T, Both, All
  <2> QED
    BY <2>5, <2>6, <2>7 DEF Both
<1>6. Small \cap T = {}
  <2> SUFFICES ASSUME NEW A \in Small, A \in T PROVE FALSE
    OBVIOUS
  <2>1. PICK B \in Small : A = B \cup {n + 1}
    OBVIOUS
  <2> QED
    BY <1>a, <2>1
<1> HIDE DEF Small, T, All
<1>7. Cardinality(Small \cap T) = 0
  BY <1>6, FS_EmptySet
<1>8. 2^(n + 1) = 2^n + 2^n
  <2>1. Cardinality(Small \cup T)
          = Cardinality(Small) + Cardinality(T) - Cardinality(Small \cap T)
    BY <1>3, <1>4, FS_Union
  <2>2. Cardinality(Small) \in Nat
    BY <1>3, FS_CardinalityType
  <2> QED
    BY <1>3, <1>4, <1>5, <1>7, <2>1, <2>2
<1>9. 2^n \in Nat /\ 2^n # 0
  <2>1. {} \in Small
    BY DEF Small
  <2> QED
    BY <1>3, <2>1, FS_EmptySet, FS_CardinalityType
<1> QED
  BY <1>8, <1>9

\* And each divides the larger ones.
LEMMA PowerOf ==
  ASSUME NEW a \in Nat, NEW b \in Nat
  PROVE  2^(a + b) = 2^a * 2^b
<1> DEFINE S == {n \in Nat : 2^(a + n) = 2^a * 2^n}
<1>1. 0 \in S
  BY Doubling
<1>2. ASSUME NEW n \in Nat, n \in S
      PROVE  n + 1 \in S
  <2>1. 2^(a + (n + 1)) = 2 * 2^(a + n) /\ 2^(n + 1) = 2 * 2^n
    BY Doubling, a + n \in Nat, a + (n + 1) = (a + n) + 1
  <2>2. 2^a \in Nat /\ 2^n \in Nat
    BY Doubling
  <2> QED
    BY <1>2, <2>1, <2>2
<1> HIDE DEF S
<1>3. b \in S
  BY <1>1, <1>2, Induction
<1> QED
  BY <1>3 DEF S

-----------------------------------------------------------------------------
(* The number that a point's first digits are.                             *)

BitOf(p, k) == IF k \in p THEN 1 ELSE 0

\* f has the numbers of all beginnings of p, of up to n digits.
Reads(p, f, n) == f = [k \in 0..n |-> IF k = 0 THEN 0 ELSE 2 * f[k - 1] + BitOf(p, k)]

\* There is such a function.
LEMMA ReadsExist ==
  ASSUME NEW p
  PROVE  \A n \in Nat : \E f : Reads(p, f, n)
<1> DEFINE S == {n \in Nat : \E f : Reads(p, f, n)}
<1>1. 0 \in S
  <2> DEFINE f == [k \in 0..0 |-> 0]
  <2>1. f = [k \in 0..0 |-> IF k = 0 THEN 0 ELSE 2 * f[k - 1] + BitOf(p, k)]
    OBVIOUS
  <2> QED
    BY <2>1 DEF Reads
<1>2. ASSUME NEW n \in Nat, n \in S
      PROVE  n + 1 \in S
  <2>1. PICK f : Reads(p, f, n)
    BY <1>2
  <2> DEFINE g == [k \in 0..(n + 1) |->
                     IF k <= n THEN f[k] ELSE 2 * f[n] + BitOf(p, n + 1)]
  <2>2. ASSUME NEW k \in 0..(n + 1)
        PROVE  g[k] = IF k = 0 THEN 0 ELSE 2 * g[k - 1] + BitOf(p, k)
    <3>1. \A j \in 0..n : f[j] = IF j = 0 THEN 0 ELSE 2 * f[j - 1] + BitOf(p, j)
      BY <2>1 DEF Reads
    <3>2. CASE k = n + 1
      BY <3>2
    <3>3. CASE k # n + 1 /\ k # 0
      <4>1. k \in 0..n /\ k - 1 \in 0..n /\ k <= n /\ k - 1 <= n
        BY <3>3
      <4> QED
        BY <3>1, <3>3, <4>1
    <3>4. CASE k = 0
      BY <3>1, <3>4
    <3> QED
      BY <3>2, <3>3, <3>4
  <2>3. Reads(p, g, n + 1)
    BY <2>2 DEF Reads
  <2> QED
    BY <2>3
<1> HIDE DEF S
<1>3. \A n \in Nat : n \in S
  BY <1>1, <1>2, Induction
<1> QED
  BY <1>3 DEF S

\* The number of n digits is what any such function says.
LEMMA ReadsAgree ==
  ASSUME NEW p, NEW f, NEW g, NEW n \in Nat, NEW m \in Nat,
         Reads(p, f, n), Reads(p, g, m)
  PROVE  \A k \in Nat : k <= n /\ k <= m => f[k] = g[k] /\ f[k] \in Nat
<1> DEFINE S == {k \in Nat : k <= n /\ k <= m => f[k] = g[k] /\ f[k] \in Nat}
<1>0. /\ \A k \in 0..n : f[k] = IF k = 0 THEN 0 ELSE 2 * f[k - 1] + BitOf(p, k)
      /\ \A k \in 0..m : g[k] = IF k = 0 THEN 0 ELSE 2 * g[k - 1] + BitOf(p, k)
  BY DEF Reads
<1>1. 0 \in S
  BY <1>0
<1>2. ASSUME NEW k \in Nat, k \in S
      PROVE  k + 1 \in S
  <2> SUFFICES ASSUME k + 1 <= n, k + 1 <= m
               PROVE  f[k + 1] = g[k + 1] /\ f[k + 1] \in Nat
    OBVIOUS
  <2>1. f[k] = g[k] /\ f[k] \in Nat
    BY <1>2
  <2>2. f[k + 1] = 2 * f[k] + BitOf(p, k + 1) /\ g[k + 1] = 2 * g[k] + BitOf(p, k + 1)
    BY <1>0, (k + 1) - 1 = k
  <2>3. BitOf(p, k + 1) \in Nat
    BY DEF BitOf
  <2> QED
    BY <2>1, <2>2, <2>3
<1> HIDE DEF S
<1>3. \A k \in Nat : k \in S
  BY <1>1, <1>2, Induction
<1> QED
  BY <1>3 DEF S

\* A digit more doubles the number and adds the digit.
LEMMA LeadingStep ==
  ASSUME NEW p, NEW n \in Nat
  PROVE  /\ Leading(p, 0) = 0
         /\ Leading(p, n) \in Nat
         /\ Leading(p, n + 1) = 2 * Leading(p, n) + BitOf(p, n + 1)
<1> DEFINE F(c) == CHOOSE f : Reads(p, f, c)
<1>1. \A c \in Nat : Reads(p, F(c), c)
  BY ReadsExist
<1>2. \A c : Leading(p, c) = F(c)[c]
  BY DEF Leading, Reads, BitOf
<1>3. F(n)[n] \in Nat /\ F(n + 1)[n] = F(n)[n]
  BY <1>1, ReadsAgree, n + 1 \in Nat, n <= n + 1
<1>4. F(n + 1)[n + 1] = 2 * F(n + 1)[n] + BitOf(p, n + 1)
  <2>1. Reads(p, F(n + 1), n + 1)
    BY <1>1
  <2> HIDE DEF F
  <2> QED
    BY <2>1, (n + 1) - 1 = n DEF Reads
<1>5. F(0)[0] = 0
  <2>1. Reads(p, F(0), 0)
    BY <1>1
  <2> HIDE DEF F
  <2> QED
    BY <2>1 DEF Reads
<1> HIDE DEF F
<1> QED
  BY <1>2, <1>3, <1>4, <1>5

\* n digits are a number below 2^n.
LEMMA LeadingBound ==
  ASSUME NEW p
  PROVE  \A n \in Nat : Leading(p, n) \in 0..(2^n - 1)
<1> DEFINE S == {n \in Nat : Leading(p, n) \in 0..(2^n - 1)}
<1>1. 0 \in S
  BY LeadingStep, Doubling
<1>2. ASSUME NEW n \in Nat, n \in S
      PROVE  n + 1 \in S
  <2>1. Leading(p, n + 1) = 2 * Leading(p, n) + BitOf(p, n + 1) /\ BitOf(p, n + 1) \in {0, 1}
    BY LeadingStep DEF BitOf
  <2>2. 2^(n + 1) = 2 * 2^n /\ 2^n \in Nat
    BY Doubling
  <2> QED
    BY <1>2, <2>1, <2>2
<1> HIDE DEF S
<1>3. \A n \in Nat : n \in S
  BY <1>1, <1>2, Induction
<1> QED
  BY <1>3 DEF S

\* The first n digits are what is left of n + d without the last d.
LEMMA LeadingSplits ==
  ASSUME NEW p, NEW n \in Nat
  PROVE  \A d \in Nat : \E rest \in 0..(2^d - 1) :
           Leading(p, n + d) = 2^d * Leading(p, n) + rest
<1> DEFINE S == {d \in Nat : \E rest \in 0..(2^d - 1) :
                   Leading(p, n + d) = 2^d * Leading(p, n) + rest}
<1>1. 0 \in S
  BY LeadingStep, Doubling
<1>2. ASSUME NEW d \in Nat, d \in S
      PROVE  d + 1 \in S
  <2>1. PICK rest \in 0..(2^d - 1) : Leading(p, n + d) = 2^d * Leading(p, n) + rest
    BY <1>2
  <2>2. /\ Leading(p, n + (d + 1)) = 2 * Leading(p, n + d) + BitOf(p, n + d + 1)
        /\ BitOf(p, n + d + 1) \in {0, 1} /\ Leading(p, n) \in Nat
    BY LeadingStep, n + d \in Nat, n + (d + 1) = (n + d) + 1 DEF BitOf
  <2>3. 2^(d + 1) = 2 * 2^d /\ 2^d \in Nat
    BY Doubling
  <2>4. Leading(p, n + (d + 1))
          = 2^(d + 1) * Leading(p, n) + (2 * rest + BitOf(p, n + d + 1))
    <3>1. 2 * (2^d * Leading(p, n)) = (2 * 2^d) * Leading(p, n)
      BY <2>2, <2>3
    <3>2. 2^d * Leading(p, n) \in Nat
      BY <2>2, <2>3
    <3> QED
      BY <2>1, <2>2, <2>3, <3>1, <3>2
  <2>5. 2 * rest + BitOf(p, n + d + 1) \in 0..(2^(d + 1) - 1)
    BY <2>1, <2>2, <2>3
  <2> QED
    BY <2>4, <2>5
<1> HIDE DEF S
<1>3. \A d \in Nat : d \in S
  BY <1>1, <1>2, Induction
<1> QED
  BY <1>3 DEF S

\* Points have the same number to n digits if they agree in those, and only then.
LEMMA LeadingTells ==
  ASSUME NEW p, NEW q
  PROVE  \A n \in Nat : Leading(p, n) = Leading(q, n) <=> \A k \in 1..n : k \in p <=> k \in q
<1> DEFINE S == {n \in Nat : Leading(p, n) = Leading(q, n)
                               <=> \A k \in 1..n : k \in p <=> k \in q}
<1>1. 0 \in S
  BY LeadingStep
<1>2. ASSUME NEW n \in Nat, n \in S
      PROVE  n + 1 \in S
  <2>1. /\ Leading(p, n + 1) = 2 * Leading(p, n) + BitOf(p, n + 1)
        /\ Leading(q, n + 1) = 2 * Leading(q, n) + BitOf(q, n + 1)
        /\ Leading(p, n) \in Nat /\ Leading(q, n) \in Nat
    BY LeadingStep
  <2>2. BitOf(p, n + 1) \in {0, 1} /\ BitOf(q, n + 1) \in {0, 1}
        /\ (BitOf(p, n + 1) = BitOf(q, n + 1) <=> (n + 1 \in p <=> n + 1 \in q))
    BY DEF BitOf
  <2>3. Leading(p, n + 1) = Leading(q, n + 1)
          <=> Leading(p, n) = Leading(q, n) /\ (n + 1 \in p <=> n + 1 \in q)
    BY <2>1, <2>2
  <2>4. (\A k \in 1..(n + 1) : k \in p <=> k \in q)
          <=> (\A k \in 1..n : k \in p <=> k \in q) /\ (n + 1 \in p <=> n + 1 \in q)
    <3>1. 1..(n + 1) = 1..n \cup {n + 1}
      OBVIOUS
    <3> QED
      BY <3>1
  <2> QED
    BY <1>2, <2>3, <2>4
<1> HIDE DEF S
<1>3. \A n \in Nat : n \in S
  BY <1>1, <1>2, Induction
<1> QED
  BY <1>3 DEF S

-----------------------------------------------------------------------------
(* Divisions.                                                              *)

\* A quotient is what leaves a remainder below the divisor.
LEMMA QuotientOf ==
  ASSUME NEW c \in Nat \ {0}, NEW q \in Nat, NEW rest \in 0..(c - 1)
  PROVE  (c * q + rest) \div c = q
<1> DEFINE v == c * q + rest
           w == v \div c
<1>1. c * q \in Nat /\ v \in Nat
  OBVIOUS
<1>2. w \in Int /\ c * w <= v /\ v < c * (w + 1)
  OBVIOUS
<1>3. c * (w + 1) = c * w + c
  BY <1>2
<1> HIDE DEF w
<1>4. ~(w < q)
  <2> SUFFICES ASSUME w < q PROVE FALSE
    OBVIOUS
  <2>1. PICK e \in Nat : q = w + 1 + e
    BY <1>2, q - w - 1 \in Nat, q = w + 1 + (q - w - 1)
  <2>2. c * q = c * (w + 1) + c * e /\ c * e \in Nat
    BY <1>2, <2>1
  <2> QED
    BY <1>1, <1>2, <2>2
<1>5. ~(w > q)
  <2> SUFFICES ASSUME w > q PROVE FALSE
    OBVIOUS
  <2>1. PICK e \in Nat : w = q + 1 + e
    BY <1>2, w - q - 1 \in Nat, w = q + 1 + (w - q - 1)
  <2>2. c * w = c * q + c + c * e /\ c * e \in Nat
    BY <1>2, <2>1
  <2> QED
    BY <1>1, <1>2, <2>2
<1>6. w = q
  BY <1>2, <1>4, <1>5
<1> QED
  BY <1>6 DEF w

\* The least member of a set that has one.
LEMMA MinOf ==
  ASSUME NEW E \in SUBSET Int, NEW l \in E, \A i \in E : l <= i
  PROVE  Min(E) = l
<1>1. \E i \in E : \A j \in E : i <= j
  OBVIOUS
<1>2. Min(E) \in E /\ \A j \in E : Min(E) <= j
  BY <1>1 DEF Min
<1>3. l \in Int /\ Min(E) \in Int /\ Min(E) <= l /\ l <= Min(E)
  BY <1>2
<1> QED
  BY <1>3

Divides(k, t) == \E c \in Nat : t = 2^k * c

\* A multiple of a power of two is one of the smaller powers.
LEMMA DividesLess ==
  ASSUME NEW k \in Nat, NEW n \in Nat, NEW t, k <= n, Divides(n, t)
  PROVE  Divides(k, t)
<1>1. PICK c \in Nat : t = 2^n * c
  BY DEF Divides
<1>2. 2^n = 2^k * 2^(n - k) /\ 2^k \in Nat /\ 2^(n - k) \in Nat
  BY PowerOf, Doubling, n - k \in Nat, k + (n - k) = n
<1>3. 2^(n - k) * c \in Nat /\ (2^k * 2^(n - k)) * c = 2^k * (2^(n - k) * c)
  BY <1>2
<1> QED
  BY <1>1, <1>2, <1>3 DEF Divides

\* Between two odd multiples of a power of two lies an even one.
LEMMA EvenBetween ==
  ASSUME NEW k \in Nat, NEW s \in Nat, NEW t \in Nat, s < t,
         Divides(k, s), Divides(k, t), ~Divides(k + 1, s), ~Divides(k + 1, t)
  PROVE  \E e \in Nat : s < e /\ e < t /\ Divides(k + 1, e)
<1>1. PICK c \in Nat : s = 2^k * c
  BY DEF Divides
<1>2. PICK d \in Nat : t = 2^k * d
  BY DEF Divides
<1>3. 2^k \in Nat \ {0} /\ 2^(k + 1) = 2 * 2^k
  BY Doubling
<1>4. \A h \in Nat : 2^k * (2 * h) = 2^(k + 1) * h
  <2> DEFINE w == 2^k
  <2>1. w \in Nat
    BY <1>3
  <2> HIDE DEF w
  <2>2. \A h \in Nat : w * (2 * h) = (2 * w) * h
    BY <2>1
  <2> QED
    BY <1>3, <2>2 DEF w
<1>5. c % 2 = 1 /\ d % 2 = 1
  <2>1. ASSUME NEW i \in Nat, i % 2 # 1
        PROVE  \E h \in Nat : i = 2 * h
    BY <2>1, i \div 2 \in Nat, i = 2 * (i \div 2)
  <2>2. \A h \in Nat : c # 2 * h
    BY <1>1, <1>4 DEF Divides
  <2>3. \A h \in Nat : d # 2 * h
    BY <1>2, <1>4 DEF Divides
  <2> QED
    BY <2>1, <2>2, <2>3
<1>6. c < d
  <2> SUFFICES ASSUME d <= c PROVE FALSE
    OBVIOUS
  <2>1. c - d \in Nat /\ c = d + (c - d)
    OBVIOUS
  <2>2. 2^k * c = 2^k * d + 2^k * (c - d) /\ 2^k * (c - d) \in Nat
    BY <1>3, <2>1
  <2> QED
    BY <1>1, <1>2, <2>2
<1>7. PICK h \in Nat : c + 1 = 2 * h
  BY <1>5, (c + 1) \div 2 \in Nat, c + 1 = 2 * ((c + 1) \div 2)
<1>8. c + 1 < d
  BY <1>5, <1>6
<1>9. 2^k * (c + 1) \in Nat /\ s < 2^k * (c + 1) /\ 2^k * (c + 1) < t
  <2>1. 2^k * (c + 1) = 2^k * c + 2^k
    BY <1>3
  <2>2. 2^k * d = 2^k * (c + 1) + 2^k * (d - c - 1) /\ 2^k * (d - c - 1) # 0
        /\ 2^k * (d - c - 1) \in Nat
    BY <1>3, <1>8
  <2> QED
    BY <1>1, <1>2, <1>3, <2>1, <2>2
<1>10. Divides(k + 1, 2^k * (c + 1))
  BY <1>4, <1>7 DEF Divides
<1> QED
  BY <1>9, <1>10

-----------------------------------------------------------------------------
(* The lowest digit of a draw's number.                                    *)

\* A number of n digits that is not zero is an odd multiple of a power of two.
LEMMA OddPart ==
  \A n \in Nat : \A v \in 1..(2^n - 1) :
    \E l \in 0..(n - 1) : \E c \in Nat : c % 2 = 1 /\ v = 2^l * c
<1> DEFINE S == {n \in Nat : \A v \in 1..(2^n - 1) :
                   \E l \in 0..(n - 1) : \E c \in Nat : c % 2 = 1 /\ v = 2^l * c}
<1>0. 2^0 = 1
  OBVIOUS
<1>1. 0 \in S
  BY <1>0
<1>2. ASSUME NEW n \in Nat, n \in S
      PROVE  n + 1 \in S
  <2> SUFFICES ASSUME NEW v \in 1..(2^(n + 1) - 1)
               PROVE  \E l \in 0..n : \E c \in Nat : c % 2 = 1 /\ v = 2^l * c
    OBVIOUS
  <2>1. 2^(n + 1) = 2 * 2^n /\ 2^n \in Nat
    BY Doubling
  <2>2. CASE v % 2 = 1
    <3>1. v = 2^0 * v /\ v \in Nat /\ 0 \in 0..n
      BY <1>0
    <3> QED
      BY <2>2, <3>1
  <2>3. CASE v % 2 # 1
    <3>1. PICK w \in 1..(2^n - 1) : v = 2 * w
      <4>1. v \in Nat /\ v = 2 * (v \div 2) /\ v \div 2 \in Nat
        BY <2>1, <2>3
      <4> QED
        BY <2>1, <4>1
    <3>2. PICK l \in 0..(n - 1), c \in Nat : c % 2 = 1 /\ w = 2^l * c
      BY <1>2
    <3>3. 2^(l + 1) = 2 * 2^l /\ 2^l \in Nat
      BY Doubling
    <3>4. (2 * 2^l) * c = 2 * (2^l * c)
      BY <3>3
    <3>5. l + 1 \in 0..n /\ v = 2^(l + 1) * c
      BY <3>1, <3>2, <3>3, <3>4
    <3> QED
      BY <3>2, <3>5
  <2> QED
    BY <2>2, <2>3
<1> HIDE DEF S
<1>3. \A n \in Nat : n \in S
  BY <1>1, <1>2, Induction
<1> QED
  BY <1>3 DEF S

\* The lowest set bit of a draw's number says which powers of two divide it.
LEMMA LowestSetOf ==
  ASSUME NEW v \in 1..(2^Digits - 1)
  PROVE  /\ LowestSet(v) \in 0..(Digits - 1)
         /\ Divides(LowestSet(v), v) /\ ~Divides(LowestSet(v) + 1, v)
<1>0. Digits \in Nat
  BY DrawsAssumption
<1>1. PICK l \in 0..(Digits - 1), c \in Nat : c % 2 = 1 /\ v = 2^l * c
  BY <1>0, OddPart
<1>2. 2^l \in Nat \ {0} /\ 2^(l + 1) = 2 * 2^l
  BY <1>1, Doubling
<1>3. Bit(v, l)
  <2>1. 0 \in 0..(2^l - 1) /\ 2^l * c \in Nat
    BY <1>1, <1>2
  <2>2. (2^l * c + 0) \div 2^l = c
    BY <1>2, <2>1, QuotientOf
  <2> QED
    BY <1>1, <2>1, <2>2 DEF Bit
<1>4. ASSUME NEW i \in 0..(l - 1)
      PROVE  ~Bit(v, i)
  <2>1. i \in Nat /\ l - 1 - i \in Nat /\ (i + 1) + (l - 1 - i) = l /\ i + 1 \in Nat
    BY <1>1
  <2>2. 2^i \in Nat \ {0} /\ 2^(i + 1) = 2 * 2^i /\ 2^(l - 1 - i) \in Nat
    BY <2>1, Doubling
  <2>3. 2^l = 2^(i + 1) * 2^(l - 1 - i)
    BY <2>1, PowerOf
  <2> DEFINE half == 2^(l - 1 - i) * c
  <2>4. half \in Nat
    BY <1>1, <2>2
  <2>5. v = 2^i * (2 * half) + 0
    <3>1. ((2 * 2^i) * 2^(l - 1 - i)) * c = 2^i * (2 * (2^(l - 1 - i) * c))
      BY <2>2
    <3>2. 2^i * (2 * half) \in Nat
      BY <2>2, <2>4
    <3> QED
      BY <1>1, <2>2, <2>3, <3>1, <3>2
  <2> HIDE DEF half
  <2>6. v \div 2^i = 2 * half
    BY <2>2, <2>4, <2>5, QuotientOf, 0 \in 0..(2^i - 1), 2 * half \in Nat
  <2>7. (2 * half) % 2 = 0
    BY <2>4
  <2> QED
    BY <2>2, <2>4, <2>6, <2>7 DEF Bit
<1>5. LowestSet(v) = l
  <2> DEFINE E == {i \in 0..Digits : Bit(v, i)}
  <2>1. l \in E
    BY <1>0, <1>1, <1>3
  <2>2. \A i \in E : l <= i
    BY <1>0, <1>1, <1>4
  <2>3. E \subseteq Int
    OBVIOUS
  <2> HIDE DEF E
  <2>4. Min(E) = l
    BY <2>1, <2>2, <2>3, MinOf
  <2> QED
    BY <2>4 DEF LowestSet, E
<1>6. Divides(l, v)
  BY <1>1 DEF Divides
<1>7. ~Divides(l + 1, v)
  <2> SUFFICES ASSUME NEW e \in Nat, v = (2 * 2^l) * e PROVE FALSE
    BY <1>2 DEF Divides
  <2> DEFINE w == 2^l
  <2>1. w \in Nat \ {0} /\ w * c = w * (2 * e)
    BY <1>1, <1>2
  <2> HIDE DEF w
  <2>2. c = 2 * e
    BY <1>1, <2>1
  <2> QED
    BY <1>1, <2>2
<1> QED
  BY <1>1, <1>5, <1>6, <1>7

-----------------------------------------------------------------------------
(* A draw as a double.                                                     *)

\* The half after a draw's digits still fits the double: nothing is rounded.
LEMMA ToUniformExact ==
  ASSUME NEW h \in Nat, 2 * h + 1 < 2^Mantissa
  PROVE  ToUniform(h) = 2 * h + 1
<1> DEFINE v == 2 * h + 1
           E == {e \in 0..(Mantissa + 2) : v < 2^(Mantissa + e)}
<1>1. Mantissa \in Nat /\ Mantissa + 0 = Mantissa
  BY DrawsAssumption DEF Mantissa
<1>2. Min(E) = 0
  <2>1. 0 \in E /\ E \subseteq Int /\ \A e \in E : 0 <= e
    BY <1>1
  <2> HIDE DEF E
  <2> QED
    BY <2>1, MinOf
<1>3. v \in Nat /\ v \div 1 = v /\ 2^0 = 1
  OBVIOUS
<1> HIDE DEF v
<1>4. Rounded(v) = v
  <2> DEFINE excess == Min({e \in 0..(Mantissa + 2) : v < 2^(Mantissa + e)})
             unit == 2^excess
             down == (v \div unit) * unit
             more == \/ 2 * (v - down) > unit
                     \/ 2 * (v - down) = unit /\ (down \div unit) % 2 = 1
  <2>1. unit = 1
    BY <1>2, <1>3
  <2>2. down = v
    BY <1>3, <2>1
  <2>3. ~more
    BY <1>3, <2>1, <2>2
  <2>4. Rounded(v) = IF more THEN down + unit ELSE down
    BY DEF Rounded
  <2> HIDE DEF more, down
  <2> QED
    BY <2>2, <2>3, <2>4
<1> QED
  BY <1>4 DEF ToUniform, v

\* A draw that starts with a point's digits: inside the unit interval, and
\* its first m digits are the point's.
LEMMA DrawOf ==
  ASSUME NEW q, NEW tail \in 0..(2^Low - 1)
  PROVE  LET w == ToUniform(Value(q) * 2^Low + tail)
         IN /\ w \in Nat /\ w > 0 /\ w < 2^Mantissa
            /\ \A m \in 0..Digits : w \div 2^(Mantissa - m) = Leading(q, m)
<1> DEFINE scale == 2^Low
           h == Value(q) * scale + tail
           w == ToUniform(h)
<1>1. Low \in Nat /\ Digits \in Nat /\ scale \in Nat \ {0} /\ tail \in 0..(scale - 1)
  BY DrawsAssumption, Doubling
<1>2. 2^Mantissa = 2 * (2^Digits * scale) /\ 2^Digits \in Nat \ {0}
  BY <1>1, PowerOf, Doubling, Digits + Low \in Nat DEF Mantissa
<1>3. Value(q) \in 0..(2^Digits - 1)
  BY <1>1, LeadingBound DEF Value
<1> HIDE DEF scale
<1>4. h \in Nat /\ h < 2^Digits * scale /\ 2^Digits * scale \in Nat
  <2> DEFINE full == 2^Digits
             rest == full - 1 - Value(q)
  <2>1. full \in Nat /\ rest \in Nat /\ full = Value(q) + 1 + rest /\ Value(q) \in Nat
    BY <1>2, <1>3
  <2> HIDE DEF full, rest
  <2>2. full * scale = Value(q) * scale + scale + rest * scale
        /\ rest * scale \in Nat /\ Value(q) * scale \in Nat
    BY <1>1, <2>1
  <2>3. h \in Nat /\ h < full * scale /\ full * scale \in Nat
    BY <1>1, <2>2
  <2> QED
    BY <2>3 DEF full
<1> HIDE DEF h
<1>5. w = 2 * h + 1
  BY <1>2, <1>4, ToUniformExact
<1>6. w \in Nat /\ w > 0 /\ w < 2^Mantissa
  BY <1>2, <1>4, <1>5
<1>7. ASSUME NEW m \in 0..Digits
      PROVE  w \div 2^(Mantissa - m) = Leading(q, m)
  <2> DEFINE d == Digits - m
             below == 2^d
             lead == Leading(q, m)
  <2>1. d \in Nat /\ m \in Nat /\ m + d = Digits /\ Mantissa - m = (d + Low) + 1
    BY <1>1 DEF Mantissa
  <2>2. below \in Nat \ {0} /\ lead \in Nat
    BY <2>1, Doubling, LeadingStep
  <2>3. 2^(Mantissa - m) = 2 * (below * scale)
    BY <1>1, <2>1, PowerOf, Doubling, d + Low \in Nat DEF scale
  <2>4. PICK rest \in 0..(below - 1) : Value(q) = below * lead + rest
    BY <2>1, LeadingSplits DEF Value
  <2> HIDE DEF d, below, lead
  <2>5. below * scale \in Nat \ {0} /\ rest * scale + tail \in 0..(below * scale - 1)
    <3>1. PICK e \in Nat : below = rest + 1 + e
      BY <2>2, <2>4, below - rest - 1 \in Nat, below = rest + 1 + (below - rest - 1)
    <3>2. below * scale = rest * scale + scale + e * scale
          /\ rest * scale \in Nat /\ e * scale \in Nat
      BY <1>1, <2>4, <3>1
    <3> QED
      BY <1>1, <3>2
  <2>6. h = (below * scale) * lead + (rest * scale + tail)
    <3>1. (below * lead + rest) * scale = (below * scale) * lead + rest * scale
      BY <1>1, <2>2, <2>4
    <3>2. (below * scale) * lead \in Nat /\ rest * scale \in Nat
      BY <1>1, <2>2, <2>4, <2>5
    <3> QED
      BY <1>1, <2>4, <3>1, <3>2 DEF h
  <2> DEFINE unit == below * scale
             after == rest * scale + tail
  <2> HIDE DEF unit, after
  <2>7. unit \in Nat \ {0} /\ after \in 0..(unit - 1) /\ h = unit * lead + after
    BY <2>5, <2>6 DEF unit, after
  <2>8. w = (2 * unit) * lead + (2 * after + 1)
    <3>1. 2 * (unit * lead) = (2 * unit) * lead /\ unit * lead \in Nat
      BY <2>2, <2>7
    <3> QED
      BY <1>5, <2>7, <3>1
  <2>9. 2 * after + 1 \in 0..(2 * unit - 1) /\ 2 * unit \in Nat \ {0}
    BY <2>7
  <2>10. w \div (2 * unit) = lead
    BY <2>2, <2>8, <2>9, QuotientOf
  <2> QED
    BY <2>3, <2>10 DEF unit, lead
<1> QED
  BY <1>6, <1>7 DEF h, w, scale

\* An independent draw is inside the unit interval as well.
LEMMA OwnDrawOf ==
  ASSUME NEW h \in 0..(2^(Digits + Low) - 1)
  PROVE  ToUniform(h) \in Nat /\ ToUniform(h) > 0 /\ ToUniform(h) < 2^Mantissa
<1>1. Digits + Low \in Nat /\ (Digits + Low) + 1 = Mantissa
  BY DrawsAssumption DEF Mantissa
<1>2. 2^Mantissa = 2 * 2^(Digits + Low) /\ 2^(Digits + Low) \in Nat \ {0}
  BY <1>1, Doubling
<1>3. ToUniform(h) = 2 * h + 1
  BY <1>2, ToUniformExact
<1> QED
  BY <1>2, <1>3

\* The digits below a point's are what is left of the draw's own hash.
LEMMA LowDigitsOf ==
  ASSUME NEW k, own[k] \in 0..(2^(Digits + Low) - 1)
  PROVE  LowDigits(k) \in 0..(2^Low - 1)
<1> DEFINE v == own[k]
           unit == 2^Digits
           d == v \div unit
<1>1. /\ unit \in Nat \ {0} /\ 2^Low \in Nat \ {0} /\ v \in Nat
      /\ v < unit * 2^Low
  <2>1. Digits \in Nat /\ Low \in Nat /\ Digits + Low \in Nat
    BY DrawsAssumption
  <2>2. unit \in Nat \ {0} /\ 2^Low \in Nat \ {0} /\ 2^(Digits + Low) \in Nat
    BY <2>1, Doubling
  <2>3. 2^(Digits + Low) = unit * 2^Low
    BY <2>1, PowerOf
  <2>4. v \in Nat /\ v < 2^(Digits + Low)
    BY <2>2
  <2> QED
    BY <2>2, <2>3, <2>4
<1> HIDE DEF v, unit
<1>2. d \in Nat /\ unit * d <= v
  BY <1>1
<1> HIDE DEF d
<1>3. ~(d >= 2^Low)
  <2> SUFFICES ASSUME d >= 2^Low PROVE FALSE
    OBVIOUS
  <2> DEFINE size == 2^Low
             more == d - size
  <2>1. size \in Nat /\ more \in Nat /\ d = size + more
    BY <1>1, <1>2
  <2>2. v < unit * size
    BY <1>1
  <2> HIDE DEF size, more
  <2>3. unit * d = unit * size + unit * more /\ unit * more \in Nat /\ unit * size \in Nat
    BY <1>1, <2>1
  <2> QED
    BY <1>1, <1>2, <2>2, <2>3
<1>4. d \in 0..(2^Low - 1)
  BY <1>1, <1>2, <1>3
<1> QED
  BY <1>4 DEF LowDigits, d, v, unit

-----------------------------------------------------------------------------
(* Scrambling.                                                             *)

\* A digit is flipped where the hash has a one.
LEMMA Flipped ==
  ASSUME NEW A, NEW H, NEW k, NEW j
  PROVE  ((k \in A) # (j \in H)) <=> IF j \in H THEN k \notin A ELSE k \in A
<1>1. CASE j \in H
  BY <1>1
<1>2. CASE j \notin H
  BY <1>2
<1> QED
  BY <1>1, <1>2

\* Whatever the hash, points whose scrambled digits agree to n have agreed to n.
LEMMA ScrambleTells ==
  ASSUME NEW p, NEW q
  PROVE  \A n \in 0..Digits :
           Leading(OwenScramble(p), n) = Leading(OwenScramble(q), n)
             => Leading(p, n) = Leading(q, n)
<1> DEFINE sp == OwenScramble(p)
           sq == OwenScramble(q)
           S == {n \in Nat : n <= Digits /\ Leading(sp, n) = Leading(sq, n)
                               => Leading(p, n) = Leading(q, n)}
<1>0. Digits \in Nat /\ Nested \in Nat /\ Nested <= Digits
  BY DrawsAssumption
<1>1. 0 \in S
  BY LeadingStep
<1>2. ASSUME NEW n \in Nat, n \in S
      PROVE  n + 1 \in S
  <2> SUFFICES ASSUME n + 1 <= Digits, Leading(sp, n + 1) = Leading(sq, n + 1)
               PROVE  Leading(p, n + 1) = Leading(q, n + 1)
    OBVIOUS
  <2> DEFINE k == n + 1
  <2>1. k \in 1..Digits /\ k \in Nat
    BY <1>0
  <2>2. \A j \in 1..k : j \in sp <=> j \in sq
    <3> HIDE DEF sp, sq, k
    <3> QED
      BY <2>1, LeadingTells DEF k
  <2>3. Leading(sp, n) = Leading(sq, n)
    <3>1. \A j \in 1..n : j \in sp <=> j \in sq
      BY <2>2
    <3> HIDE DEF sp, sq
    <3> QED
      BY <3>1, LeadingTells
  <2>4. Leading(p, n) = Leading(q, n)
    BY <1>0, <1>2, <2>3
  <2>5. \A j \in 1..n : j \in p <=> j \in q
    BY <2>4, LeadingTells
  <2>6. k \in sp <=> k \in sq
    BY <2>1, <2>2
  <2>7. k \in p <=> k \in q
    <3>1. CASE k <= Nested
      <4>1. k \in 1..Nested /\ k \notin (Nested + 1)..Digits /\ k - 1 = n
        BY <1>0, <2>1, <3>1
      <4>2. Prefix(p, k - 1) = Prefix(q, k - 1)
        BY <2>4, <4>1 DEF Prefix
      <4>3. /\ k \in sp <=> (k \in p) # (1 \in hash[Prefix(p, k - 1)])
            /\ k \in sq <=> (k \in q) # (1 \in hash[Prefix(q, k - 1)])
        BY <4>1, Zenon DEF OwenScramble
      <4> HIDE DEF sp, sq, k
      <4> QED
        BY <2>6, <4>2, <4>3, Flipped
    <3>2. CASE ~(k <= Nested)
      <4>1. k \notin 1..Nested /\ k \in (Nested + 1)..Digits
        BY <1>0, <2>1, <3>2
      <4>2. Prefix(p, Nested) = Prefix(q, Nested)
        <5>1. \A j \in 1..Nested : j \in p <=> j \in q
          BY <1>0, <2>5, <3>2
        <5> QED
          BY <1>0, <5>1, LeadingTells DEF Prefix
      <4>3. /\ k \in sp <=> (k \in p) # ((k - Nested) \in hash[Prefix(p, Nested)])
            /\ k \in sq <=> (k \in q) # ((k - Nested) \in hash[Prefix(q, Nested)])
        BY <4>1, Zenon DEF OwenScramble
      <4> HIDE DEF sp, sq, k
      <4> QED
        BY <2>6, <4>2, <4>3, Flipped
    <3> QED
      BY <3>1, <3>2
  <2>8. \A j \in 1..k : j \in p <=> j \in q
    BY <2>5, <2>7
  <2> QED
    BY <2>1, <2>8, LeadingTells
<1> HIDE DEF S
<1>3. \A n \in Nat : n \in S
  BY <1>1, <1>2, Induction
<1> QED
  BY <1>0, <1>3 DEF S

-----------------------------------------------------------------------------
(* The points of the Gray code.                                            *)

\* W is a direction number that opens digit i: it has that digit and none after it.
Opens(W, i) == W \in SUBSET Int /\ i \in W /\ \A k \in W : k <= i

\* The points p and q of draws a and b, counted from 1: the last digit they
\* differ in is the highest power of two that divides a draw's number on the
\* way from one to the other.
Apart(p, q, a, b) ==
  \E d \in 0..(Digits - 1) :
    /\ \E t \in a..(b - 1) : Divides(d, t)
    /\ \A t \in a..(b - 1) : ~Divides(d + 1, t)
    /\ d + 1 \in p <=> d + 1 \notin q
    /\ \A k \in (d + 2)..Digits : k \in p <=> k \in q

\* The direction number of the lowest set bit takes the Gray code to a point
\* that is so apart from all before it.
LEMMA NextPoint ==
  ASSUME NEW n \in 1..(2^Digits - 1), NEW W,
         \A i \in 1..Digits : Opens(W[i], i),
         NEW p, NEW q, NEW y, y = SymDiff(q, W[LowestSet(n) + 1]),
         NEW a \in 1..n, a < n => Apart(p, q, a, n), a = n => p = q
  PROVE  Apart(p, y, a, n + 1)
<1> DEFINE l == LowestSet(n)
<1>0. Digits \in Nat /\ n \in Nat
  BY DrawsAssumption, Doubling
<1>1. l \in 0..(Digits - 1) /\ Divides(l, n) /\ ~Divides(l + 1, n)
  BY LowestSetOf
<1> HIDE DEF l
<1>2. Opens(W[l + 1], l + 1)
  BY <1>0, <1>1
<1>3. (l + 1 \in q <=> l + 1 \notin y) /\ \A k \in (l + 2)..Digits : k \in q <=> k \in y
  BY <1>0, <1>1, <1>2 DEF Opens, SymDiff, l
<1>4. (n + 1) - 1 = n /\ a..n = a..(n - 1) \cup {n}
  BY <1>0
<1>5. CASE a = n
  <2>1. a..n = {n} /\ p = q
    BY <1>0, <1>5
  <2> QED
    BY <1>1, <1>3, <1>4, <2>1 DEF Apart
<1>6. CASE a < n
  <2>1. PICK d \in 0..(Digits - 1) :
          /\ \E t \in a..(n - 1) : Divides(d, t)
          /\ \A t \in a..(n - 1) : ~Divides(d + 1, t)
          /\ d + 1 \in p <=> d + 1 \notin q
          /\ \A k \in (d + 2)..Digits : k \in p <=> k \in q
    BY <1>6 DEF Apart
  <2>2. CASE l < d
    <3>1. ~Divides(d + 1, n)
      BY <1>0, <1>1, <2>2, DividesLess, l + 1 \in Nat, d + 1 \in Nat, l + 1 <= d + 1
    <3>2. \A k \in (d + 1)..Digits : k \in q <=> k \in y
      BY <1>0, <1>1, <1>3, <2>2
    <3>3. (d + 1 \in p <=> d + 1 \notin y) /\ \A k \in (d + 2)..Digits : k \in p <=> k \in y
      BY <1>0, <2>1, <3>2
    <3>4. (\E t \in a..n : Divides(d, t)) /\ \A t \in a..n : ~Divides(d + 1, t)
      BY <1>4, <2>1, <3>1
    <3> QED
      BY <1>4, <3>3, <3>4 DEF Apart
  <2>3. CASE l > d
    <3>1. \A t \in a..(n - 1) : ~Divides(l + 1, t)
      BY <1>1, <2>1, <2>3, DividesLess, l + 1 \in Nat, d + 1 \in Nat, d + 1 <= l + 1
    <3>2. (\E t \in a..n : Divides(l, t)) /\ \A t \in a..n : ~Divides(l + 1, t)
      BY <1>0, <1>1, <1>4, <3>1
    <3>3. \A k \in (l + 1)..Digits : k \in p <=> k \in q
      BY <1>0, <1>1, <2>1, <2>3
    <3>4. (l + 1 \in p <=> l + 1 \notin y) /\ \A k \in (l + 2)..Digits : k \in p <=> k \in y
      BY <1>0, <1>1, <1>3, <3>3
    <3> QED
      BY <1>1, <1>4, <3>2, <3>4 DEF Apart
  <2>4. CASE l = d
    <3>1. PICK t \in a..(n - 1) : Divides(d, t)
      BY <2>1
    <3>2. t \in Nat /\ t < n /\ ~Divides(d + 1, t) /\ d \in Nat
      BY <1>0, <2>1, <3>1
    <3>3. PICK e \in Nat : t < e /\ e < n /\ Divides(d + 1, e)
      BY <1>0, <1>1, <2>4, <3>1, <3>2, EvenBetween
    <3>4. e \in a..(n - 1)
      BY <1>0, <3>1, <3>3
    <3> QED
      BY <2>1, <3>3, <3>4
  <2> QED
    BY <1>1, <2>1, <2>2, <2>3, <2>4
<1> QED
  BY <1>0, <1>5, <1>6

\* In an aligned block of 2^m draws no two points agree in their first m digits.
LEMMA BlockApart ==
  ASSUME NEW m \in 0..Digits, NEW b \in Nat, NEW i \in 1..(2^m), NEW j \in 1..(2^m),
         i < j, NEW p, NEW q, Apart(p, q, b * 2^m + i, b * 2^m + j)
  PROVE  Leading(p, m) # Leading(q, m)
<1> DEFINE size == 2^m
           start == b * size
<1>0. Digits \in Nat /\ m \in Nat /\ size \in Nat /\ start \in Nat
  BY DrawsAssumption, Doubling
<1> HIDE DEF size
<1>1. PICK d \in 0..(Digits - 1) :
        /\ \E t \in (start + i)..(start + j - 1) : Divides(d, t)
        /\ d + 1 \in p <=> d + 1 \notin q
  BY DEF Apart, size
<1> HIDE DEF start
<1>2. PICK t \in (start + i)..(start + j - 1) : Divides(d, t)
  BY <1>1
<1>3. ~(d >= m)
  <2> SUFFICES ASSUME d >= m PROVE FALSE
    OBVIOUS
  <2>1. i \in Nat /\ j \in Nat /\ i >= 1 /\ j <= size
    BY <1>0 DEF size
  <2>2. t \in Nat /\ start < t /\ t < start + size
    BY <1>0, <1>2, <2>1
  <2>3. Divides(m, t)
    BY <1>0, <1>1, <1>2, DividesLess
  <2>4. PICK c \in Nat : t = size * c
    BY <2>3 DEF Divides, size
  <2>5. CASE c <= b
    <3>1. size * b = size * c + size * (b - c) /\ size * (b - c) \in Nat /\ size * c \in Nat
      BY <1>0, <2>5
    <3> QED
      BY <1>0, <2>2, <2>4, <3>1 DEF start
  <2>6. CASE c > b
    <3>1. size * c = size * b + size + size * (c - b - 1) /\ size * (c - b - 1) \in Nat
      BY <1>0, <2>6
    <3> QED
      BY <1>0, <2>2, <2>4, <3>1 DEF start
  <2> QED
    BY <2>5, <2>6
<1>4. d + 1 \in 1..m
  BY <1>0, <1>1, <1>3
<1> QED
  BY <1>0, <1>1, <1>4, LeadingTells

\* Different values below 2^m, as many as there are, are all of them.
LEMMA AllValues ==
  ASSUME NEW m \in Nat, NEW f \in [1..(2^m) -> 0..(2^m - 1)],
         \A i, j \in 1..(2^m) : i < j => f[i] # f[j]
  PROVE  {f[k] : k \in 1..(2^m)} = 0..(2^m - 1)
<1> DEFINE size == 2^m
           S == 1..size
           T == 0..(size - 1)
<1>1. size \in Nat \ {0}
  BY Doubling
<1> HIDE DEF size
<1>2. IsFiniteSet(S) /\ IsFiniteSet(T) /\ Cardinality(S) = size /\ Cardinality(T) = size
  BY <1>1, FS_Interval
<1>3. \A i, j \in S : f[i] = f[j] => i = j
  <2> SUFFICES ASSUME NEW i \in S, NEW j \in S, f[i] = f[j], i # j PROVE FALSE
    OBVIOUS
  <2>1. i < j \/ j < i
    OBVIOUS
  <2> QED
    BY <2>1 DEF size
<1>4. f \in Injection(S, T)
  BY <1>3 DEF Injection, IsInjective, size
<1>5. f \in Surjection(S, T)
  BY <1>2, <1>4, FS_Injection
<1>6. \A t \in T : \E k \in S : f[k] = t
  BY <1>5 DEF Surjection
<1>7. \A k \in S : f[k] \in T
  BY DEF size
<1> QED
  BY <1>6, <1>7 DEF size

-----------------------------------------------------------------------------
(* The direction numbers.                                                  *)

\* The direction numbers that are built are of their word, each opening its digit.
DirectionsSoFar ==
  /\ V \in Seq(SUBSET (1..Word)) /\ Len(V) <= Word
  /\ \A i \in 1..Len(V) : Opens(V[i], i)

\* An initial number m of the table, which is odd, opens the digit it is for.
LEMMA ScaledOpens ==
  ASSUME NEW m \in Nat, m % 2 = 1, NEW i \in 0..(Word - 1)
  PROVE  Scaled(m, i) \in SUBSET (1..Word) /\ Opens(Scaled(m, i), i + 1)
<1>1. i + 1 \in 1..Word /\ (i + 1) - (i + 1) = 0 /\ i + 1 <= i + 1
  BY DrawsAssumption
<1>2. Bit(m, 0)
  <2>1. m \div 2^0 = m
    OBVIOUS
  <2> QED
    BY <2>1 DEF Bit
<1>3. i + 1 \in Scaled(m, i)
  BY <1>1, <1>2 DEF Scaled
<1>4. Scaled(m, i) \in SUBSET (1..Word) /\ \A k \in Scaled(m, i) : k <= i + 1
  BY DEF Scaled
<1> QED
  BY <1>3, <1>4 DEF Opens

\* A sum of three numbers opens the digit that only one of them opens.
LEMMA TopOf ==
  ASSUME NEW n \in Nat, NEW A \in SUBSET (1..Word), NEW B \in SUBSET (1..Word),
         NEW C \in SUBSET (1..Word),
         \A k \in A : k <= n, n + 1 \in B, \A k \in B : k <= n + 1, \A k \in C : k <= n
  PROVE  LET W == SymDiff(SymDiff(A, B), C)
         IN W \in SUBSET (1..Word) /\ Opens(W, n + 1)
<1> DEFINE W == SymDiff(SymDiff(A, B), C)
<1>1. n + 1 \notin A /\ n + 1 \notin C
  OBVIOUS
<1>2. W \subseteq A \cup B \cup C /\ n + 1 \in W
  BY <1>1 DEF SymDiff
<1> HIDE DEF W
<1>3. \A k \in W : k <= n + 1
  <2> SUFFICES ASSUME NEW k \in W PROVE k <= n + 1
    OBVIOUS
  <2>1. k \in Int /\ (k \in A \/ k \in B \/ k \in C)
    BY <1>2
  <2>2. k <= n \/ k <= n + 1
    BY <2>1
  <2> QED
    BY <2>1, <2>2
<1>4. W \in SUBSET (1..Word)
  BY <1>2
<1> QED
  BY <1>2, <1>3, <1>4 DEF Opens, W

\* The recurrence opens the next digit: only its shifted term reaches so far.
LEMMA RecurrenceOpens ==
  ASSUME DirectionsSoFar, Len(V) < Word, NEW row, row[1] \in Nat \ {0}, Len(V) >= row[1]
  PROVE  LET W == Recurrence(row, Len(V))
         IN W \in SUBSET (1..Word) /\ Opens(W, Len(V) + 1)
<1> DEFINE i == Len(V)
           s == row[1]
           back(k) == V[i - k + 1]
           taps == {k \in 1..(s - 1) : Bit(row[2], s - 1 - k)}
           tapped(digit) == Cardinality({t \in taps : digit \in back(t)})
           odd == {k \in 1..Word : tapped(k) % 2 = 1}
           shifted == {k + s : k \in back(s)} \cap (1..Word)
           W == SymDiff(SymDiff(back(s), shifted), odd)
<1>0. i \in Nat /\ s \in Nat \ {0} /\ s <= i /\ i + 1 \in 1..Word
  BY DrawsAssumption DEF DirectionsSoFar
<1>1. \A t \in 1..s : i - t + 1 \in 1..i /\ i - t + 1 <= i
  BY <1>0
<1>2. \A t \in 1..s : back(t) \in SUBSET (1..Word) /\ \A k \in back(t) : k <= i
  <2> SUFFICES ASSUME NEW t \in 1..s
               PROVE  back(t) \in SUBSET (1..Word) /\ \A k \in back(t) : k <= i
    OBVIOUS
  <2>1. i - t + 1 \in 1..Len(V) /\ i - t + 1 <= i
    BY <1>1
  <2>2. Opens(back(t), i - t + 1) /\ back(t) \in SUBSET (1..Word)
    BY <2>1 DEF DirectionsSoFar
  <2> QED
    BY <1>0, <2>1, <2>2 DEF Opens
<1>3. \A k \in odd : k <= i
  <2> SUFFICES ASSUME NEW k \in odd, k > i PROVE FALSE
    BY <1>0
  <2>1. {t \in taps : k \in back(t)} = {}
    <3> SUFFICES ASSUME NEW t \in taps, k \in back(t) PROVE FALSE
      OBVIOUS
    <3>1. t \in 1..s
      BY <1>0
    <3>2. k <= i
      BY <1>2, <3>1
    <3> QED
      BY <1>0, <3>2
  <2>2. tapped(k) = 0
    BY <2>1, FS_EmptySet
  <2>3. tapped(k) % 2 = 1
    BY k \in odd
  <2> HIDE DEF tapped
  <2> QED
    BY <2>2, <2>3
<1>4. s \in 1..s /\ Opens(back(s), i - s + 1) /\ i - s + 1 + s = i + 1
  BY <1>0, <1>1 DEF DirectionsSoFar
<1>5. i + 1 \in shifted /\ \A k \in shifted : k <= i + 1
  <2>1. i - s + 1 \in back(s) /\ \A k \in back(s) : k \in Int /\ k <= i - s + 1
    BY <1>4 DEF Opens
  <2> QED
    BY <1>0, <1>4, <2>1
<1>6. \A k \in back(s) : k <= i
  BY <1>2, <1>4
<1>7. back(s) \in SUBSET (1..Word) /\ shifted \in SUBSET (1..Word) /\ odd \in SUBSET (1..Word)
  BY <1>2, <1>4
<1> HIDE DEF shifted, odd, back
<1>8. W \in SUBSET (1..Word) /\ Opens(W, i + 1)
  BY <1>0, <1>3, <1>5, <1>6, <1>7, TopOf
<1>9. Recurrence(row, i) = W
  BY DEF Recurrence, back, odd, shifted
<1> HIDE DEF W
<1> QED
  BY <1>8, <1>9

\* So does every direction number.
LEMMA DirectionOpens ==
  ASSUME DirectionsSoFar, step \in Nat, step < kDims, Len(V) < Word
  PROVE  LET W == Direction(step, Len(V))
         IN W \in SUBSET (1..Word) /\ Opens(W, Len(V) + 1)
<1>0. Len(V) \in 0..(Word - 1) /\ Word \in Nat
  BY DrawsAssumption DEF DirectionsSoFar
<1>1. CASE step = 0
  <2>1. Direction(step, Len(V)) = {Len(V) + 1}
    BY <1>1 DEF Direction
  <2> QED
    BY <1>0, <2>1 DEF Opens
<1> DEFINE row == kRows[step]
<1>2. CASE step > 0
  <2>1. step \in 1..(kDims - 1)
    BY <1>2 DEF kDims
  <2>2. row[1] \in Nat \ {0} /\ \A i \in 1..row[1] : row[3][i] \in Nat /\ row[3][i] % 2 = 1
    BY <2>1, TableAssumption
  <2> HIDE DEF row
  <2>3. CASE Len(V) < row[1]
    <3>1. Direction(step, Len(V)) = Scaled(row[3][Len(V) + 1], Len(V))
      BY <1>2, <2>3 DEF Direction, row
    <3>2. row[3][Len(V) + 1] \in Nat /\ row[3][Len(V) + 1] % 2 = 1
      BY <1>0, <2>2, <2>3
    <3> QED
      BY <1>0, <3>1, <3>2, ScaledOpens
  <2>4. CASE ~(Len(V) < row[1])
    <3>1. Direction(step, Len(V)) = Recurrence(row, Len(V))
      BY <1>2, <2>4 DEF Direction, row
    <3> QED
      BY <1>0, <2>2, <2>4, <3>1, RecurrenceOpens
  <2> QED
    BY <2>3, <2>4
<1> QED
  BY <1>1, <1>2

-----------------------------------------------------------------------------
(* The invariant.                                                          *)

UnitInterval == 1..(2^Mantissa - 1)

Shape ==
  /\ step \in Nat /\ sobol_dims \in Int
  /\ pc \in {"build", "call", "refused", "draw", "done"}
  /\ pc \in {"build", "call", "refused"} => r = 0 /\ x = {} /\ u = <<>>
  /\ pc \in {"build", "call"} => DirectionsSoFar
  /\ pc = "call" /\ step < kDims => Len(V) = Word
  /\ pc \in {"draw", "done"} =>
       own \in Owns /\ n_draws \in Draws /\ n_draws \in Nat \ {0} /\ r \in 0..n_draws
  /\ pc = "done" => r = n_draws
  /\ pc \in {"draw", "done"} /\ step < sobol_dims =>
       /\ n_draws <= 2^Digits
       /\ \A i \in 1..Digits : Opens(V[i], i) /\ V[i] \in SUBSET (1..Digits)
  /\ u \in Seq(UnitInterval) /\ Len(u) = r

\* P has the points of the draws so far: each draw starts with the scrambled
\* digits of its point, and the points are as far apart as their numbers say.
Points(P) ==
  /\ P \in [1..r -> SUBSET (1..Digits)]
  /\ x = IF r = 0 THEN {} ELSE P[r]
  /\ \A k \in 1..r : \A m \in 0..Digits :
       u[k] \div 2^(Mantissa - m) = Leading(OwenScramble(P[k]), m)
  /\ \A a, b \in 1..r : a < b => Apart(P[a], P[b], a, b)

History == pc \in {"draw", "done"} /\ step < sobol_dims => \E P : Points(P)

\* The build begins in the shape it keeps.
LEMMA ShapeInit == Init => Shape /\ History
<1> SUFFICES ASSUME Init PROVE Shape /\ History
  OBVIOUS
<1>1. V \in Seq(SUBSET (1..Word)) /\ Len(V) = 0 /\ u \in Seq(UnitInterval) /\ Len(u) = 0
  BY DEF Init
<1>2. step \in Nat
  BY DrawsAssumption DEF Init
<1>3. DirectionsSoFar
  BY <1>1, DrawsAssumption DEF DirectionsSoFar
<1> QED
  BY <1>1, <1>2, <1>3 DEF Init, Shape, History

\* Building adds a direction number that opens its digit, until there are all.
LEMMA ShapeBuild ==
  ASSUME Shape, Build
  PROVE  Shape' /\ History'
<1>0. pc = "build" /\ DirectionsSoFar /\ step \in Nat /\ r = 0 /\ x = {} /\ u = <<>>
  BY DEF Shape, Build
<1>1. CASE step < kDims /\ Len(V) < Word
  <2> DEFINE W == Direction(step, Len(V))
  <2>1. W \in SUBSET (1..Word) /\ Opens(W, Len(V) + 1)
    BY <1>0, <1>1, DirectionOpens
  <2> HIDE DEF W
  <2>2. V' = Append(V, W) /\ pc' = pc
    BY <1>1 DEF Build, W
  <2>3. V \in Seq(SUBSET (1..Word)) /\ Len(V) \in Nat /\ \A i \in 1..Len(V) : Opens(V[i], i)
    BY <1>0 DEF DirectionsSoFar
  <2>4. V' \in Seq(SUBSET (1..Word)) /\ Len(V') = Len(V) + 1
        /\ \A i \in 1..Len(V') : V'[i] = IF i <= Len(V) THEN V[i] ELSE W
    BY <2>1, <2>2, <2>3
  <2>5. \A i \in 1..Len(V') : Opens(V'[i], i)
    <3> SUFFICES ASSUME NEW i \in 1..Len(V') PROVE Opens(V'[i], i)
      OBVIOUS
    <3>1. CASE i <= Len(V)
      BY <2>3, <2>4, <3>1
    <3>2. CASE ~(i <= Len(V))
      <4>1. i = Len(V) + 1
        BY <2>3, <2>4, <3>2
      <4> QED
        BY <2>1, <2>4, <3>2, <4>1
    <3> QED
      BY <3>1, <3>2
  <2>6. DirectionsSoFar'
    BY <1>1, <2>3, <2>4, <2>5, DrawsAssumption DEF DirectionsSoFar
  <2> QED
    BY <1>0, <2>2, <2>6 DEF Shape, Build, History, input
<1>2. CASE ~(step < kDims /\ Len(V) < Word)
  <2>1. pc' = "call" /\ V' = V
    BY <1>2 DEF Build
  <2>2. DirectionsSoFar'
    BY <1>0, <2>1 DEF DirectionsSoFar
  <2>3. step < kDims => Len(V) = Word
    BY <1>0, <1>2, DrawsAssumption DEF DirectionsSoFar
  <2> QED
    BY <1>0, <2>1, <2>2, <2>3 DEF Shape, Build, History, input
<1> QED
  BY <1>1, <1>2

\* A call within the limits finds a number for every digit it draws.
LEMMA ShapeBegin ==
  ASSUME Shape, Begin
  PROVE  Shape' /\ History'
<1>0. /\ pc = "call" /\ DirectionsSoFar /\ step \in Nat /\ r = 0 /\ x = {} /\ u = <<>>
      /\ step < kDims => Len(V) = Word
      /\ u \in Seq(UnitInterval) /\ Len(u) = r
  BY DEF Shape, Begin
<1>1. /\ step' = step /\ r' = 0 /\ x' = {} /\ u' = u
      /\ n_draws' \in Draws /\ n_draws' \in Int /\ sobol_dims' \in Int
  BY <1>0, DrawsAssumption DEF Begin
<1>2. CASE BadArguments(n_draws', sobol_dims')
  <2>1. pc' = "refused"
    BY <1>2 DEF Begin
  <2> QED
    BY <1>0, <1>1, <2>1 DEF Shape, History
<1>3. CASE ~BadArguments(n_draws', sobol_dims')
  <2>1. pc' = "draw" /\ own' \in Owns
    BY <1>3 DEF Begin
  <2>2. n_draws' \in Nat \ {0} /\ sobol_dims' <= kDims
        /\ (sobol_dims' > 0 => n_draws' <= 2^Digits)
    BY <1>1, <1>3, DrawsAssumption, Doubling DEF BadArguments, kDims
  <2>3. ASSUME step' < sobol_dims'
        PROVE  /\ n_draws' <= 2^Digits
               /\ \A i \in 1..Digits : Opens(V'[i], i) /\ V'[i] \in SUBSET (1..Digits)
    <3>1. step < kDims /\ Len(V) = Word
      BY <1>0, <1>1, <2>2, <2>3 DEF kDims
    <3>2. Min({Len(V), Digits}) = Digits
      <4> DEFINE both == {Len(V), Digits}
      <4>1. both \in SUBSET Int /\ Digits \in both /\ \A i \in both : Digits <= i
        BY <3>1, DrawsAssumption
      <4> HIDE DEF both
      <4>2. Min(both) = Digits
        BY <4>1, MinOf
      <4> QED
        BY <4>2 DEF both
    <3>3. V' = [i \in 1..Digits |-> V[i] \cap (1..Digits)]
      BY <3>2 DEF Begin
    <3>4. \A i \in 1..Digits : Opens(V[i], i)
      BY <1>0, <3>1, DrawsAssumption DEF DirectionsSoFar
    <3>5. \A i \in 1..Digits : Opens(V'[i], i) /\ V'[i] \in SUBSET (1..Digits)
      BY <3>3, <3>4 DEF Opens
    <3>6. sobol_dims' > 0
      BY <1>0, <1>1, <2>3
    <3> QED
      BY <2>2, <3>5, <3>6
  <2>4. Shape'
    BY <1>0, <1>1, <2>1, <2>2, <2>3 DEF Shape
  <2>5. History'
    <3> DEFINE none == [k \in 1..0 |-> {}]
    <3>1. none \in [1..0 -> SUBSET (1..Digits)] /\ 1..0 = {}
      OBVIOUS
    <3> HIDE DEF none
    <3>2. Points(none)'
      BY <1>1, <3>1 DEF Points
    <3> QED
      BY <3>2 DEF History
  <2> QED
    BY <2>4, <2>5
<1> QED
  BY <1>2, <1>3

\* A Sobol' draw: the Gray code's next point.
LEMMA ShapeSobolPoint ==
  ASSUME Shape, History, SobolPoint
  PROVE  Shape' /\ History'
<1>0. /\ pc = "draw" /\ r < n_draws /\ step < sobol_dims
      /\ own \in Owns /\ n_draws \in Draws /\ n_draws \in Nat \ {0} /\ r \in Nat
      /\ n_draws <= 2^Digits
      /\ \A i \in 1..Digits : Opens(V[i], i) /\ V[i] \in SUBSET (1..Digits)
      /\ u \in Seq(UnitInterval) /\ Len(u) = r
  BY DEF Shape, SobolPoint
<1>a. own[r] \in 0..(2^(Digits + Low) - 1)
  BY <1>0, DrawsAssumption
<1> DEFINE w == ToUniform(Value(OwenScramble(x')) * 2^Low + LowDigits(r))
<1>1. w \in Nat /\ w > 0 /\ w < 2^Mantissa
      /\ \A m \in 0..Digits : w \div 2^(Mantissa - m) = Leading(OwenScramble(x'), m)
  BY <1>a, LowDigitsOf, DrawOf
<1> HIDE DEF w
<1>2. /\ u' = Append(u, w) /\ r' = r + 1
      /\ x' = IF r > 0 THEN SymDiff(x, V[LowestSet(r) + 1]) ELSE x
      /\ UNCHANGED <<input, pc, V>>
  BY DEF SobolPoint, w
<1>3. 2^Mantissa \in Nat /\ 2^Digits \in Nat /\ Digits \in Nat
  BY Doubling, DrawsAssumption DEF Mantissa
<1>4. w \in UnitInterval
  BY <1>1, <1>3 DEF UnitInterval
<1>5. u' \in Seq(UnitInterval) /\ Len(u') = r'
      /\ \A k \in 1..r' : u'[k] = IF k <= r THEN u[k] ELSE w
  BY <1>0, <1>2, <1>4
<1>6. Shape'
  <2>1. r' \in 0..n_draws /\ pc' = "draw"
    BY <1>0, <1>2
  <2>2. step' = step /\ n_draws' = n_draws /\ sobol_dims' = sobol_dims /\ own' = own
        /\ V' = V /\ step \in Nat
    BY <1>2 DEF input, Shape
  <2> QED
    BY <1>0, <1>5, <2>1, <2>2 DEF Shape
<1>7. PICK P : Points(P)
  BY <1>0 DEF History
<1>8. P \in [1..r -> SUBSET (1..Digits)] /\ x = IF r = 0 THEN {} ELSE P[r]
  BY <1>7 DEF Points
<1>9. x' \in SUBSET (1..Digits)
  <2>1. x \in SUBSET (1..Digits)
    BY <1>0, <1>8
  <2>2. CASE r > 0
    <3>1. r \in 1..(2^Digits - 1)
      BY <1>0, <1>3, <2>2
    <3>2. LowestSet(r) + 1 \in 1..Digits
      BY <1>3, <3>1, LowestSetOf
    <3>3. V[LowestSet(r) + 1] \in SUBSET (1..Digits)
      BY <1>0, <3>2
    <3> QED
      BY <1>2, <2>1, <2>2, <3>3 DEF SymDiff
  <2> QED
    BY <1>0, <1>2, <2>1, <2>2
<1>10. PICK Q \in [1..r' -> SUBSET (1..Digits)] :
         \A k \in 1..r' : Q[k] = IF k <= r THEN P[k] ELSE x'
  <2> DEFINE f == [k \in 1..r' |-> IF k <= r THEN P[k] ELSE x']
  <2>1. f \in [1..r' -> SUBSET (1..Digits)]
    BY <1>0, <1>2, <1>8, <1>9
  <2>2. \A k \in 1..r' : f[k] = IF k <= r THEN P[k] ELSE x'
    OBVIOUS
  <2> HIDE DEF f
  <2> QED
    BY <2>1, <2>2
<1>11. x' = IF r' = 0 THEN {} ELSE Q[r']
  BY <1>0, <1>2, <1>10
<1>12. \A p : OwenScramble(p)' = OwenScramble(p)
  BY <1>2 DEF OwenScramble, input
<1>13. ASSUME NEW k \in 1..r', NEW m \in 0..Digits
       PROVE  u'[k] \div 2^(Mantissa - m) = Leading(OwenScramble(Q[k]), m)'
  <2>1. CASE k <= r
    <3>1. k \in 1..r
      BY <1>0, <1>2, <2>1
    <3>2. u[k] \div 2^(Mantissa - m) = Leading(OwenScramble(P[k]), m)
      BY <1>7, <3>1 DEF Points
    <3>3. u'[k] = u[k] /\ Q[k] = P[k]
      BY <1>5, <1>10, <2>1
    <3> QED
      BY <1>12, <3>2, <3>3
  <2>2. CASE ~(k <= r)
    <3>1. u'[k] = w /\ Q[k] = x'
      BY <1>5, <1>10, <2>2
    <3> QED
      BY <1>1, <1>12, <3>1
  <2> QED
    BY <2>1, <2>2
<1>14. ASSUME NEW a \in 1..r', NEW b \in 1..r', a < b
       PROVE  Apart(Q[a], Q[b], a, b)
  <2>1. a \in 1..r /\ Q[a] = P[a]
    BY <1>0, <1>2, <1>10, <1>14
  <2>2. CASE b <= r
    <3>1. b \in 1..r /\ Q[b] = P[b]
      BY <1>0, <1>2, <1>10, <2>2
    <3> QED
      BY <1>7, <1>14, <2>1, <3>1 DEF Points
  <2>3. CASE ~(b <= r)
    <3>1. b = r + 1 /\ Q[b] = x' /\ r > 0 /\ r \in 1..r
      BY <1>0, <1>2, <1>10, <2>1, <2>3
    <3>2. r \in 1..(2^Digits - 1)
      BY <1>0, <1>3, <3>1
    <3>3. x' = SymDiff(P[r], V[LowestSet(r) + 1])
      BY <1>2, <1>8, <3>1
    <3>4. a < r => Apart(P[a], P[r], a, r)
      BY <1>7, <2>1, <3>1 DEF Points
    <3>5. a = r => P[a] = P[r]
      OBVIOUS
    <3>6. \A i \in 1..Digits : Opens(V[i], i)
      BY <1>0
    <3>7. Apart(P[a], x', a, r + 1)
      BY <2>1, <3>2, <3>3, <3>4, <3>5, <3>6, NextPoint
    <3> QED
      BY <2>1, <3>1, <3>7
  <2> QED
    BY <2>2, <2>3
<1>15. Points(Q)'
  BY <1>10, <1>11, <1>13, <1>14 DEF Points, Apart, Divides, Mantissa
<1> QED
  BY <1>6, <1>15 DEF History

\* A draw of a step past sobol_dims.
LEMMA ShapeIndependentPoint ==
  ASSUME Shape, History, IndependentPoint
  PROVE  Shape' /\ History'
<1>0. /\ pc = "draw" /\ r < n_draws /\ ~(step < sobol_dims)
      /\ own \in Owns /\ n_draws \in Draws /\ n_draws \in Nat \ {0} /\ r \in Nat
      /\ u \in Seq(UnitInterval) /\ Len(u) = r
  <2>1. pc = "draw" /\ r < n_draws /\ step >= sobol_dims
    BY DEF IndependentPoint
  <2>2. step \in Nat /\ sobol_dims \in Int
    BY <2>1 DEF Shape
  <2> QED
    BY <2>1, <2>2 DEF Shape
<1>a. own[r] \in 0..(2^(Digits + Low) - 1)
  BY <1>0, DrawsAssumption
<1> DEFINE w == ToUniform(own[r])
<1>1. w \in Nat /\ w > 0 /\ w < 2^Mantissa
  BY <1>a, OwnDrawOf
<1> HIDE DEF w
<1>2. u' = Append(u, w) /\ r' = r + 1 /\ UNCHANGED <<input, pc, V, x>>
  BY DEF IndependentPoint, w
<1>3. w \in UnitInterval
  BY <1>1, Doubling, DrawsAssumption DEF UnitInterval, Mantissa
<1>4. u' \in Seq(UnitInterval) /\ Len(u') = r'
  BY <1>0, <1>2, <1>3
<1>5. step' = step /\ n_draws' = n_draws /\ sobol_dims' = sobol_dims /\ own' = own
      /\ pc' = "draw" /\ r' \in 0..n_draws
  BY <1>0, <1>2 DEF input
<1> QED
  BY <1>0, <1>4, <1>5 DEF Shape, History

\* The return, and steps that change nothing.
LEMMA ShapeReturn ==
  ASSUME Shape, History, Return \/ UNCHANGED vars
  PROVE  Shape' /\ History'
<1>1. UNCHANGED <<input, V, r, x, u>>
  BY DEF Return, vars, input
<1>2. pc' = pc \/ (pc = "draw" /\ r = n_draws /\ pc' = "done")
  <2>1. CASE Return
    BY <2>1 DEF Return
  <2>2. CASE UNCHANGED vars
    BY <2>2 DEF vars
  <2> QED
    BY <2>1, <2>2
<1>3. DirectionsSoFar' <=> DirectionsSoFar
  BY <1>1 DEF DirectionsSoFar
<1>4. Shape'
  BY <1>1, <1>2, <1>3 DEF Shape, input
<1>5. \A p : OwenScramble(p)' = OwenScramble(p)
  BY <1>1 DEF OwenScramble, input
<1>6. \A P : Points(P)' <=> Points(P)
  <2> SUFFICES ASSUME NEW P PROVE Points(P)' <=> Points(P)
    OBVIOUS
  <2>1. r' = r /\ x' = x /\ u' = u
    BY <1>1
  <2>2. \A k \in 1..r, m \in 0..Digits :
          Leading(OwenScramble(P[k]), m)' = Leading(OwenScramble(P[k]), m)
    BY <1>5
  <2> QED
    BY <2>1, <2>2 DEF Points
<1>7. History'
  BY <1>1, <1>2, <1>6 DEF History, input
<1> QED
  BY <1>4, <1>7

\* Every reachable state keeps the shape, and its draws are of points so far apart.
THEOREM Reachable == Spec => [](Shape /\ History)
<1>1. ASSUME Shape, History, [Next]_vars
      PROVE  Shape' /\ History'
  BY <1>1, ShapeBuild, ShapeBegin, ShapeSobolPoint, ShapeIndependentPoint, ShapeReturn DEF Next
<1> QED
  BY <1>1, ShapeInit, PTL DEF Spec

-----------------------------------------------------------------------------

\* step_uniforms never returns 0 or 1, which norm_quantile would take to an infinity.
THEOREM NeverZeroNorOne == Spec => []InsideUnitInterval
<1>1. ASSUME Shape PROVE InsideUnitInterval
  <2> SUFFICES ASSUME NEW k \in 1..Len(u) PROVE u[k] > 0 /\ u[k] < 2^Mantissa
    BY DEF InsideUnitInterval
  <2>1. u[k] \in UnitInterval
    BY <1>1 DEF Shape
  <2>2. 2^Mantissa \in Nat
    BY Doubling, DrawsAssumption DEF Mantissa
  <2> QED
    BY <2>1, <2>2 DEF UnitInterval
<1> QED
  BY <1>1, Reachable, PTL

\* Once they are built, each of a dimension's direction numbers opens its own
\* digit, so that the Gray code visits every point once.
THEOREM DirectionNumbersOpen ==
  Spec => [](pc = "call" /\ step < kDims => \A i \in 1..Word : Max(V[i]) = i)
<1>1. ASSUME Shape, pc = "call", step < kDims, NEW i \in 1..Word
      PROVE  Max(V[i]) = i
  <2>1. Opens(V[i], i)
    BY <1>1 DEF Shape, DirectionsSoFar
  <2>2. \E k \in V[i] : \A j \in V[i] : k >= j
    BY <2>1 DEF Opens
  <2>3. Max(V[i]) \in V[i] /\ \A j \in V[i] : Max(V[i]) >= j
    BY <2>2 DEF Max
  <2>4. Max(V[i]) \in Int /\ Max(V[i]) >= i /\ Max(V[i]) <= i
    BY <2>1, <2>3 DEF Opens
  <2> QED
    BY <2>4
<1>2. Shape => (pc = "call" /\ step < kDims => \A i \in 1..Word : Max(V[i]) = i)
  BY <1>1
<1> QED
  BY <1>2, Reachable, PTL

\* Every aligned block of 2^m draws that owen_scramble returns has one in each
\* interval of length 2^-m, whatever the hash and however many digits there are.
THEOREM DrawsAreBalanced == Spec => []BlocksBalanced
<1>1. ASSUME Shape, History PROVE BlocksBalanced
  <2> SUFFICES ASSUME pc = "done", step < sobol_dims, NEW m \in 0..Digits,
                      NEW b \in 0..(n_draws \div 2^m - 1)
               PROVE  {u[b * 2^m + k] \div 2^(Mantissa - m) : k \in 1..(2^m)} = 0..(2^m - 1)
    BY DEF BlocksBalanced
  <2> DEFINE size == 2^m
             start == b * size
  <2>1. PICK P : Points(P)
    BY <1>1 DEF History
  <2>2. m \in Nat /\ size \in Nat \ {0} /\ n_draws \in Nat /\ r = n_draws
    <3>1. m \in Nat
      BY DrawsAssumption
    <3>2. n_draws \in Nat /\ r = n_draws
      BY <1>1 DEF Shape
    <3> QED
      BY <3>1, <3>2, Doubling
  <2>3. start \in Nat /\ b \in Nat /\ \A k \in 1..size : start + k \in 1..r
    <3> HIDE DEF size
    <3> DEFINE blocks == n_draws \div size
    <3>1. blocks \in Nat /\ size * blocks <= n_draws
      BY <2>2
    <3> HIDE DEF blocks
    <3>2. b \in Nat /\ blocks - b - 1 \in Nat /\ blocks = b + 1 + (blocks - b - 1)
      BY <3>1 DEF blocks, size
    <3>3. size * blocks = b * size + size + size * (blocks - b - 1)
          /\ size * (blocks - b - 1) \in Nat /\ b * size \in Nat
      BY <2>2, <3>2
    <3> QED
      BY <2>2, <3>1, <3>2, <3>3
  <2> HIDE DEF start
  <2> DEFINE f == [k \in 1..(2^m) |-> Leading(OwenScramble(P[start + k]), m)]
  <2>4. \A k \in 1..size : u[start + k] \div 2^(Mantissa - m) = f[k]
    BY <2>1, <2>3 DEF Points
  <2>5. f \in [1..(2^m) -> 0..(2^m - 1)]
    BY <2>2, LeadingBound
  <2>6. ASSUME NEW i \in 1..(2^m), NEW j \in 1..(2^m), i < j
        PROVE  f[i] # f[j]
    <3> DEFINE p == P[start + i]
               q == P[start + j]
    <3>1. start + i \in 1..r /\ start + j \in 1..r /\ start + i < start + j
      BY <2>2, <2>3, <2>6
    <3>2. Apart(p, q, start + i, start + j)
      BY <2>1, <3>1 DEF Points
    <3> HIDE DEF p, q
    <3>3. Leading(p, m) # Leading(q, m)
      BY <2>3, <2>6, <3>2, BlockApart DEF start
    <3>4. Leading(OwenScramble(p), m) # Leading(OwenScramble(q), m)
      BY <3>3, ScrambleTells
    <3> QED
      BY <3>4 DEF p, q
  <2> HIDE DEF f
  <2>7. {f[k] : k \in 1..(2^m)} = 0..(2^m - 1)
    BY <2>2, <2>5, <2>6, AllValues
  <2> QED
    BY <2>4, <2>7 DEF start
<1> QED
  BY <1>1, Reachable, PTL
=============================================================================
