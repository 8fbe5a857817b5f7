---------------------------- MODULE CooCscProofs ----------------------------
(***************************************************************************)
(* What TLAPS proves of CooCsc, for matrices of any size, patterns of any  *)
(* length and any entries, in both kinds of backend.                       *)
(***************************************************************************)
EXTENDS CooCsc, FiniteSetTheorems, WellFoundedInduction, TLAPS

-----------------------------------------------------------------------------
(* Sums over finite sets, which MapThenSumSet forms by taking an element at *)
(* a time: the order it takes them in does not matter.                      *)

Sum(a, S) == MapThenSumSet(LAMBDA k : a[k], S)

Picked(S) == CHOOSE k \in S : TRUE

\* g sums the subsets of T by the definition.
SumsBy(a, g, T) ==
  g = [s \in SUBSET T |->
         IF s = {} THEN 0 ELSE a[Picked(s)] + g[s \ {Picked(s)}]]

\* Induction over finite sets: among bad ones there is one whose subsets are good.
LEMMA SmallestBad ==
  ASSUME NEW D, NEW Bad \in SUBSET SUBSET D, \A S \in Bad : IsFiniteSet(S),
         Bad # {}
  PROVE  \E S \in Bad : \A T \in SUBSET S : T # S => T \notin Bad
<1>1. IsWellFoundedOn(StrictSubsetOrdering(D), FiniteSubsetsOf(D))
  BY FS_StrictSubsetOrderingWellFounded
<1>2. Bad \subseteq FiniteSubsetsOf(D)
  BY DEF FiniteSubsetsOf
<1>3. PICK S \in Bad : \A T \in Bad : <<T, S>> \notin StrictSubsetOrdering(D)
  BY <1>1, <1>2, WFMin
<1>4. \A T \in Bad : T \subseteq S => T = S
  BY <1>3 DEF StrictSubsetOrdering
<1> QED
  BY <1>4

\* What is picked is an element.
LEMMA PickedIsElement ==
  ASSUME NEW S, S # {}
  PROVE  Picked(S) \in S
  BY DEF Picked

\* The sum of a set is what a function that sums its subsets says.
LEMMA SumBySubsets ==
  ASSUME NEW a, NEW S
  PROVE  Sum(a, S) = (CHOOSE g : SumsBy(a, g, S))[S]
  BY DEF Sum, MapThenSumSet, MapThenFoldSet, SumsBy, Picked

\* Two functions that sum subsets agree where they overlap.
LEMMA SumsAgree ==
  ASSUME NEW a, NEW S, NEW T, NEW g, NEW h, SumsBy(a, g, S), SumsBy(a, h, T),
         NEW U, U \subseteq S, U \subseteq T, IsFiniteSet(U)
  PROVE  g[U] = h[U]
<1> DEFINE Bad == {V \in SUBSET U : g[V] # h[V]}
<1>1. SUFFICES ASSUME Bad # {} PROVE FALSE
  OBVIOUS
<1>2. \A V \in Bad : IsFiniteSet(V)
  BY FS_Subset
<1>3. PICK V \in Bad : \A W \in SUBSET V : W # V => W \notin Bad
  <2> HIDE DEF Bad
  <2>1. Bad \in SUBSET SUBSET U
    BY DEF Bad
  <2> QED
    BY <1>1, <1>2, <2>1, SmallestBad
<1>4. V \in SUBSET S /\ V \in SUBSET T
  OBVIOUS
<1>5. g[V] = (IF V = {} THEN 0 ELSE a[Picked(V)] + g[V \ {Picked(V)}])
  BY <1>4 DEF SumsBy
<1>6. h[V] = (IF V = {} THEN 0 ELSE a[Picked(V)] + h[V \ {Picked(V)}])
  BY <1>4 DEF SumsBy
<1>7. V # {}
  BY <1>5, <1>6
<1>8. V \ {Picked(V)} # V /\ V \ {Picked(V)} \in SUBSET V
  BY <1>7, PickedIsElement
<1>9. g[V \ {Picked(V)}] = h[V \ {Picked(V)}]
  BY <1>3, <1>8
<1> QED
  BY <1>5, <1>6, <1>9

\* Every finite set has a function that sums its subsets.
LEMMA SumsExist ==
  ASSUME NEW a, NEW S, IsFiniteSet(S)
  PROVE  \E g : SumsBy(a, g, S)
<1> DEFINE Bad == {T \in SUBSET S : ~\E g : SumsBy(a, g, T)}
<1>1. SUFFICES ASSUME Bad # {} PROVE FALSE
  OBVIOUS
<1>2. \A T \in Bad : IsFiniteSet(T)
  BY FS_Subset
<1>3. PICK T \in Bad : \A U \in SUBSET T : U # T => U \notin Bad
  <2> HIDE DEF Bad
  <2>1. Bad \in SUBSET SUBSET S
    BY DEF Bad
  <2> QED
    BY <1>1, <1>2, <2>1, SmallestBad
<1> DEFINE f(U) == CHOOSE g : SumsBy(a, g, U)
           total(U) == IF U = {} THEN 0
                       ELSE a[Picked(U)] + f(U \ {Picked(U)})[U \ {Picked(U)}]
           g == [U \in SUBSET T |-> total(U)]
<1>4. ASSUME NEW U \in SUBSET T, U # T
      PROVE  f(U)[U] = total(U)
  <2>1. SumsBy(a, f(U), U)
    <3>1. \E h : SumsBy(a, h, U)
      BY <1>3, <1>4
    <3> QED
      BY <3>1
  <2>2. f(U)[U] = (IF U = {} THEN 0 ELSE a[Picked(U)] + f(U)[U \ {Picked(U)}])
    BY <2>1 DEF SumsBy
  <2>3. CASE U # {}
    <3> DEFINE W == U \ {Picked(U)}
    <3>1. W \in SUBSET U /\ W # T /\ IsFiniteSet(W) /\ W \in SUBSET T
      <4>1. W \in SUBSET U /\ W # T /\ W \in SUBSET T
        BY <1>4, <2>3, PickedIsElement
      <4>2. IsFiniteSet(T)
        BY <1>2
      <4> QED
        BY <4>1, <4>2, FS_Subset
    <3>2. SumsBy(a, f(W), W)
      <4>1. \E h : SumsBy(a, h, W)
        BY <1>3, <3>1
      <4> HIDE DEF W
      <4> QED
        BY <4>1
    <3>3. f(U)[W] = f(W)[W]
      <4> HIDE DEF W, f
      <4> QED
        BY <2>1, <3>1, <3>2, SumsAgree
    <3> QED
      BY <2>2, <2>3, <3>3
  <2> QED
    BY <2>2, <2>3
<1>5. \A U \in SUBSET T :
        g[U] = IF U = {} THEN 0 ELSE a[Picked(U)] + g[U \ {Picked(U)}]
  <2> SUFFICES ASSUME NEW U \in SUBSET T
               PROVE  g[U] = IF U = {} THEN 0 ELSE a[Picked(U)] + g[U \ {Picked(U)}]
    <3> HIDE DEF g
    <3> QED
      OBVIOUS
  <2>0. CASE U = {}
    BY <2>0
  <2>a. CASE U # {}
    <3> DEFINE W == U \ {Picked(U)}
    <3>1. W \in SUBSET T /\ W # T
      BY <2>a, PickedIsElement
    <3>2. g[W] = total(W) /\ f(W)[W] = total(W)
      BY <1>4, <3>1
    <3>3. g[U] = total(U)
      <4> HIDE DEF total
      <4> QED
        OBVIOUS
    <3>4. total(U) = a[Picked(U)] + f(W)[W]
      <4> HIDE DEF f
      <4> QED
        BY <2>a
    <3> HIDE DEF g, f, total
    <3> QED
      BY <2>a, <3>2, <3>3, <3>4
  <2> QED
    BY <2>0, <2>a
<1>6. SumsBy(a, g, T)
  <2>1. g = [U \in SUBSET T |->
               IF U = {} THEN 0 ELSE a[Picked(U)] + g[U \ {Picked(U)}]]
    <3>1. g = [U \in SUBSET T |-> g[U]]
      OBVIOUS
    <3> HIDE DEF g
    <3> QED
      BY <1>5, <3>1
  <2> HIDE DEF g
  <2> QED
    BY <2>1 DEF SumsBy
<1> QED
  BY <1>6

\* The definition, one element at a time.
LEMMA SumUnfolds ==
  ASSUME NEW a, NEW S, IsFiniteSet(S)
  PROVE  Sum(a, S) = IF S = {} THEN 0
                     ELSE a[Picked(S)] + Sum(a, S \ {Picked(S)})
<1> DEFINE f(U) == CHOOSE g : SumsBy(a, g, U)
           W == S \ {Picked(S)}
<1>1. SumsBy(a, f(S), S)
  BY SumsExist
<1>2. f(S)[S] = IF S = {} THEN 0 ELSE a[Picked(S)] + f(S)[W]
  BY <1>1 DEF SumsBy
<1>3. IsFiniteSet(W) /\ W \subseteq S
  BY FS_Subset
<1>4. SumsBy(a, f(W), W)
  <2> HIDE DEF W
  <2> QED
    BY <1>3, SumsExist
<1>5. f(S)[W] = f(W)[W]
  <2> HIDE DEF W, f
  <2> QED
    BY <1>1, <1>3, <1>4, SumsAgree
<1>6. Sum(a, S) = f(S)[S] /\ Sum(a, W) = f(W)[W]
  <2> HIDE DEF W
  <2> QED
    BY SumBySubsets
<1> QED
  BY <1>2, <1>5, <1>6

\* Of nothing, and of one.
LEMMA SumOfFew ==
  ASSUME NEW a
  PROVE  /\ Sum(a, {}) = 0
         /\ \A k : a[k] \in Int => Sum(a, {k}) = a[k]
<1>1. Sum(a, {}) = 0
  BY FS_EmptySet, SumUnfolds
<1>2. ASSUME NEW k, a[k] \in Int PROVE Sum(a, {k}) = a[k]
  <2>1. Picked({k}) = k
    BY DEF Picked
  <2>2. IsFiniteSet({k}) /\ {k} \ {k} = {}
    BY FS_Singleton
  <2>3. Sum(a, {k}) = a[k] + Sum(a, {k} \ {Picked({k})})
    <3> DEFINE S == {k}
    <3>1. IsFiniteSet(S) /\ S # {}
      BY <2>2
    <3> HIDE DEF S
    <3>2. Sum(a, S) = a[k] + Sum(a, S \ {Picked(S)})
      <4>1. Picked(S) = k
        BY <2>1 DEF S
      <4> QED
        BY <3>1, <4>1, SumUnfolds
    <3> QED
      BY <3>2 DEF S
  <2>4. Sum(a, {k} \ {Picked({k})}) = 0
    BY <1>1, <2>1, <2>2
  <2> HIDE DEF Picked
  <2>5. a[k] + 0 = a[k]
    BY <1>2
  <2> QED
    BY <2>3, <2>4, <2>5
<1> QED
  BY <1>1, <1>2

\* Sums of integers are integers.
LEMMA SumType ==
  ASSUME NEW a, NEW S, IsFiniteSet(S), \A k \in S : a[k] \in Int
  PROVE  Sum(a, S) \in Int
<1> DEFINE Bad == {T \in SUBSET S : Sum(a, T) \notin Int}
<1>1. SUFFICES ASSUME Bad # {} PROVE FALSE
  OBVIOUS
<1>2. \A T \in Bad : IsFiniteSet(T)
  BY FS_Subset
<1>3. PICK T \in Bad : \A U \in SUBSET T : U # T => U \notin Bad
  <2> HIDE DEF Bad
  <2>1. Bad \in SUBSET SUBSET S
    BY DEF Bad
  <2> QED
    BY <1>1, <1>2, <2>1, SmallestBad
<1>4. Sum(a, T) = IF T = {} THEN 0 ELSE a[Picked(T)] + Sum(a, T \ {Picked(T)})
  BY <1>2, SumUnfolds
<1>5. T # {}
  BY <1>4
<1>6. Picked(T) \in S /\ T \ {Picked(T)} \in SUBSET T /\ T \ {Picked(T)} # T
  BY <1>5, PickedIsElement
<1>7. Sum(a, T \ {Picked(T)}) \in Int
  BY <1>3, <1>6
<1> QED
  BY <1>4, <1>5, <1>6, <1>7

\* Any element may be taken first.
LEMMA SumTakes ==
  ASSUME NEW a, NEW S, IsFiniteSet(S), \A j \in S : a[j] \in Int, NEW k \in S
  PROVE  Sum(a, S) = a[k] + Sum(a, S \ {k})
<1> DEFINE Bad == {T \in SUBSET S :
                     \E j \in T : Sum(a, T) # a[j] + Sum(a, T \ {j})}
<1>1. SUFFICES ASSUME Bad # {} PROVE FALSE
  OBVIOUS
<1>2. \A T \in SUBSET S : IsFiniteSet(T)
  BY FS_Subset
<1>3. PICK T \in Bad : \A U \in SUBSET T : U # T => U \notin Bad
  <2> HIDE DEF Bad
  <2>1. Bad \in SUBSET SUBSET S /\ \A U \in Bad : IsFiniteSet(U)
    BY <1>2 DEF Bad
  <2> QED
    BY <1>1, <2>1, SmallestBad
<1>4. PICK j \in T : Sum(a, T) # a[j] + Sum(a, T \ {j})
  OBVIOUS
<1> DEFINE p == Picked(T)
<1>5. p \in T /\ T \subseteq S
  BY <1>4, PickedIsElement
<1>6. Sum(a, T) = a[p] + Sum(a, T \ {p})
  BY <1>2, <1>5, SumUnfolds
<1>7. p # j
  BY <1>4, <1>6
<1>8. Sum(a, T \ {p}) = a[j] + Sum(a, (T \ {p}) \ {j})
  <2>1. T \ {p} \in SUBSET T /\ T \ {p} # T /\ j \in T \ {p}
    BY <1>5, <1>7
  <2> HIDE DEF p
  <2> QED
    BY <1>3, <1>5, <2>1
<1>9. Sum(a, T \ {j}) = a[p] + Sum(a, (T \ {j}) \ {p})
  <2>1. T \ {j} \in SUBSET T /\ T \ {j} # T /\ p \in T \ {j}
    BY <1>5, <1>7
  <2> HIDE DEF p
  <2> QED
    BY <1>3, <1>5, <2>1
<1>10. (T \ {p}) \ {j} = (T \ {j}) \ {p}
  OBVIOUS
<1>11. Sum(a, (T \ {j}) \ {p}) \in Int
  <2>1. (T \ {j}) \ {p} \in SUBSET S
    BY <1>5
  <2> HIDE DEF p
  <2> QED
    BY <1>2, <2>1, SumType
<1>12. a[p] \in Int /\ a[j] \in Int
  BY <1>5
<1> HIDE DEF p
<1> DEFINE rest == Sum(a, (T \ {j}) \ {p})
<1>13. Sum(a, T) = a[p] + (a[j] + rest)
  BY <1>6, <1>8, <1>10
<1>14. a[j] + Sum(a, T \ {j}) = a[j] + (a[p] + rest)
  BY <1>9
<1> HIDE DEF rest
<1>15. a[p] + (a[j] + rest) = a[j] + (a[p] + rest)
  BY <1>11, <1>12 DEF rest
<1> QED
  BY <1>4, <1>13, <1>14, <1>15

\* One more element.
LEMMA SumAdds ==
  ASSUME NEW a, NEW S, IsFiniteSet(S), NEW k, k \notin S,
         \A j \in S \cup {k} : a[j] \in Int
  PROVE  Sum(a, S \cup {k}) = Sum(a, S) + a[k]
<1>1. IsFiniteSet(S \cup {k}) /\ (S \cup {k}) \ {k} = S
  BY FS_AddElement
<1>2. Sum(a, S \cup {k}) = a[k] + Sum(a, (S \cup {k}) \ {k})
  BY <1>1, SumTakes
<1>3. Sum(a, S) \in Int /\ a[k] \in Int
  BY SumType
<1>4. \A u, v \in Int : u + v = v + u
  OBVIOUS
<1> QED
  BY <1>1, <1>2, <1>3, <1>4, Zenon

-----------------------------------------------------------------------------
(* What the two passes over the sorted entries come to.  The entries that  *)
(* open a slot do so in their order, so a slot is the number of openings   *)
(* before its own.                                                         *)

\* The positions before t that open a slot, and how many they are.
Opened(t) == {u \in 0..(t - 1) : Opens(u)}
Rank(t) == Cardinality(Opened(t))

\* Those of column j, and those of the columns before it.
OpenedIn(t, j) == {u \in Opened(t) : Aj[trips[u]] = j}
OpenedBefore(j) == {u \in Opened(len) : Aj[trips[u]] < j}

Kept == {k \in Coo : Keeps(k)}

\* Two entries of one element.
Same(k, l) == Ai[k] = Ai[l] /\ Aj[k] = Aj[l]

Input ==
  /\ n \in Nat
  /\ nnz \in Nat
  /\ Ai \in [Coo -> Int]
  /\ Aj \in [Coo -> Int]
  /\ kind \in {"full", "upper"}
  /\ pc \in {"check", "refused", "count", "place", "sum", "ready", "scatter",
             "loaded"}

\* What std::sort leaves: each kept entry once, none after a later one.
Sorted ==
  /\ \A k \in Coo : InRange(k)
  /\ len \in Nat
  /\ trips \in [0..(len - 1) -> Kept]
  /\ len = Cardinality(Kept)
  /\ \A u, v \in 0..(len - 1) :
        u < v => trips[u] # trips[v] /\ ~Earlier(trips[v], trips[u])

\* The slots of the first t entries, in row indices ar and slots p.
SlotsIn(t, ar, p) ==
  /\ \A u \in Opened(t) : ar[Rank(u)] = Ai[trips[u]]
  /\ \A s \in 0..(Rank(t) - 1) : \E u \in Opened(t) : Rank(u) = s
  /\ \A u \in 0..(t - 1) :
        /\ p[trips[u]] = Rank(u + 1) - 1
        /\ \E v \in Opened(u + 1) :
              Rank(v) = Rank(u + 1) - 1 /\ Same(trips[v], trips[u])
  /\ \A k \in Coo : (\A u \in 0..(t - 1) : trips[u] # k) => p[k] = -1

Slots(t) == SlotsIn(t, Ar, pos)

Arrays ==
  /\ nnzCsc = Rank(len)
  /\ Ap \in [0..n -> Int]
  /\ Ar \in [0..(Room(nnzCsc) - 1) -> Int]
  /\ pos \in [Coo -> Int]

Counting ==
  /\ at \in 0..len
  /\ slot = Rank(at) - 1
  /\ Slots(at)
  /\ Ap[0] = 0
  /\ \A j \in 0..(n - 1) : Ap[j + 1] = Cardinality(OpenedIn(at, j))

Summing ==
  /\ at \in 0..n
  /\ \A j \in 0..at : Ap[j] = Cardinality(OpenedBefore(j))
  /\ \A j \in at..(n - 1) : Ap[j + 1] = Cardinality(OpenedIn(len, j))

Pointers == \A j \in 0..n : Ap[j] = Cardinality(OpenedBefore(j))

\* The buffer after the first t entries.
Partial(t) ==
  /\ Ax \in [Coo -> Int]
  /\ x \in [0..(Room(nnzCsc) - 1) -> Int]
  /\ \A s \in 0..(nnzCsc - 1) : x[s] = Sum(Ax, {k \in 0..(t - 1) : pos[k] = s})

Structured ==
  /\ Sorted
  /\ Arrays
  /\ slot = nnzCsc - 1
  /\ Slots(len)

CscInv ==
  /\ Input
  /\ pc = "check" => pos = [k \in Coo |-> -1]
  /\ pc = "count" => Sorted /\ pos = [k \in Coo |-> -1]
  /\ pc = "place" => Sorted /\ Arrays /\ Counting
  /\ pc = "sum" => Structured /\ Summing
  /\ pc \in {"ready", "scatter", "loaded"} => Structured /\ Pointers
  /\ pc = "scatter" => at \in 0..nnz /\ Partial(at)
  /\ pc = "loaded" => Partial(nnz)

-----------------------------------------------------------------------------
(* The sorted entries.                                                     *)

\* Each position of the sort is a kept entry of the matrix.
LEMMA SortedEntries ==
  ASSUME Input, Sorted, NEW u \in 0..(len - 1)
  PROVE  /\ trips[u] \in Kept /\ trips[u] \in Coo
         /\ Ai[trips[u]] \in 0..(n - 1) /\ Aj[trips[u]] \in 0..(n - 1)
         /\ kind = "upper" => Ai[trips[u]] <= Aj[trips[u]]
<1>1. trips[u] \in Kept
  BY DEF Sorted
<1>2. trips[u] \in Coo /\ Keeps(trips[u])
  BY <1>1 DEF Kept
<1>3. InRange(trips[u]) /\ Ai[trips[u]] \in Int /\ Aj[trips[u]] \in Int /\ n \in Nat
  BY <1>2 DEF Sorted, Input
<1>4. Ai[trips[u]] \in 0..(n - 1) /\ Aj[trips[u]] \in 0..(n - 1)
  BY <1>3 DEF InRange
<1> QED
  BY <1>1, <1>2, <1>4 DEF Keeps

\* Columns rise along the sort, and rows within a column.
LEMMA SortRises ==
  ASSUME Input, Sorted, NEW u \in 0..(len - 1), NEW v \in 0..(len - 1), u <= v
  PROVE  /\ Aj[trips[u]] <= Aj[trips[v]]
         /\ Aj[trips[u]] = Aj[trips[v]] => Ai[trips[u]] <= Ai[trips[v]]
<1>1. /\ Ai[trips[u]] \in Int /\ Aj[trips[u]] \in Int
      /\ Ai[trips[v]] \in Int /\ Aj[trips[v]] \in Int
  BY SortedEntries
<1>2. CASE u = v
  BY <1>1, <1>2
<1>3. CASE u < v
  <2>1. ~Earlier(trips[v], trips[u])
    BY <1>3 DEF Sorted
  <2> QED
    BY <1>1, <2>1 DEF Earlier, Before
<1>4. len \in Nat
  BY DEF Sorted
<1> QED
  BY <1>2, <1>3, <1>4

\* An entry that opens a slot comes after all before it, and is none of theirs.
LEMMA OpenersRise ==
  ASSUME Input, Sorted, NEW u \in 0..(len - 1), NEW v \in 0..(len - 1), u < v,
         Opens(v)
  PROVE  Earlier(trips[u], trips[v])
<1> DEFINE w == v - 1
<1>1. len \in Nat /\ w \in 0..(len - 1) /\ u <= w /\ w <= v /\ v > 0
  BY DEF Sorted
<1>2. /\ Ai[trips[u]] \in Int /\ Aj[trips[u]] \in Int
      /\ Ai[trips[v]] \in Int /\ Aj[trips[v]] \in Int
      /\ Ai[trips[w]] \in Int /\ Aj[trips[w]] \in Int
  BY <1>1, SortedEntries
<1>3. Ai[trips[v]] # Ai[trips[w]] \/ Aj[trips[v]] # Aj[trips[w]]
  BY <1>1 DEF Opens
<1> HIDE DEF w
<1>4. /\ Aj[trips[u]] <= Aj[trips[w]]
      /\ Aj[trips[u]] = Aj[trips[w]] => Ai[trips[u]] <= Ai[trips[w]]
  BY <1>1, SortRises
<1>5. /\ Aj[trips[w]] <= Aj[trips[v]]
      /\ Aj[trips[w]] = Aj[trips[v]] => Ai[trips[w]] <= Ai[trips[v]]
  BY <1>1, SortRises
<1> QED
  BY <1>2, <1>3, <1>4, <1>5 DEF Earlier, Before

\* The sort leaves out no entry that is kept.
LEMMA AllSorted ==
  ASSUME Input, Sorted, NEW k \in Kept
  PROVE  \E u \in 0..(len - 1) : trips[u] = k
<1>1. SUFFICES ASSUME \A u \in 0..(len - 1) : trips[u] # k PROVE FALSE
  OBVIOUS
<1> DEFINE S == 0..(len - 1)
           T == Kept \ {k}
<1>2. len \in Nat /\ len = Cardinality(Kept) /\ trips \in [S -> Kept]
  BY DEF Sorted
<1>3. IsFiniteSet(S) /\ Cardinality(S) = len
  <2>1. 0 \in Int /\ len - 1 \in Int
    BY <1>2
  <2>2. IsFiniteSet(S) /\ Cardinality(S) = IF 0 > len - 1 THEN 0 ELSE len - 1 - 0 + 1
    BY <2>1, FS_Interval
  <2> QED
    BY <1>2, <2>2
<1>4. IsFiniteSet(Kept)
  <2>1. 0 \in Int /\ nnz - 1 \in Int
    BY DEF Input
  <2>2. IsFiniteSet(Coo)
    BY <2>1, FS_Interval DEF Coo
  <2>3. Kept \in SUBSET Coo
    BY DEF Kept
  <2> QED
    BY <2>2, <2>3, FS_Subset
<1>5. IsFiniteSet(T) /\ Cardinality(T) = len - 1
  BY <1>2, <1>4, FS_RemoveElement
<1>6. trips \in [S -> T]
  BY <1>1, <1>2
<1>7. Cardinality(T) < Cardinality(S)
  BY <1>2, <1>3, <1>5
<1>8. PICK u \in S, v \in S : u # v /\ trips[u] = trips[v]
  <2> HIDE DEF S, T
  <2> QED
    BY <1>3, <1>5, <1>6, <1>7, FS_PigeonHole
<1>9. u < v \/ v < u
  BY <1>2, <1>8
<1> QED
  BY <1>8, <1>9 DEF Sorted

-----------------------------------------------------------------------------
(* Ranks.                                                                  *)

\* One position more.
LEMMA RankSteps ==
  ASSUME NEW t \in Nat
  PROVE  /\ IsFiniteSet(Opened(t)) /\ Rank(t) \in Nat
         /\ Opened(t + 1) = IF Opens(t) THEN Opened(t) \cup {t} ELSE Opened(t)
         /\ Rank(t + 1) = IF Opens(t) THEN Rank(t) + 1 ELSE Rank(t)
<1>1. IsFiniteSet(Opened(t))
  <2>1. 0 \in Int /\ t - 1 \in Int
    OBVIOUS
  <2>2. IsFiniteSet(0..(t - 1))
    BY <2>1, FS_Interval
  <2>3. Opened(t) \in SUBSET (0..(t - 1))
    BY DEF Opened
  <2> QED
    BY <2>2, <2>3, FS_Subset
<1>2. Rank(t) \in Nat
  BY <1>1, FS_CardinalityType DEF Rank
<1>3. 0..((t + 1) - 1) = 0..(t - 1) \cup {t}
  OBVIOUS
<1>4. Opened(t + 1) = IF Opens(t) THEN Opened(t) \cup {t} ELSE Opened(t)
  BY <1>3 DEF Opened
<1>5. t \notin Opened(t)
  BY DEF Opened
<1>6. Cardinality(Opened(t) \cup {t}) = Cardinality(Opened(t)) + 1
  BY <1>1, <1>5, FS_AddElement
<1> QED
  BY <1>1, <1>2, <1>4, <1>6 DEF Rank

\* Nothing is opened before the first position.
LEMMA RankZero ==
  /\ Opened(0) = {} /\ Rank(0) = 0
  BY FS_EmptySet DEF Opened, Rank

\* Ranks rise, and past a position that opens a slot by one.
LEMMA RankRises ==
  ASSUME NEW t \in Nat, NEW v \in Nat, v <= t
  PROVE  /\ Opened(v) \subseteq Opened(t) /\ Rank(v) <= Rank(t)
         /\ \A u \in Opened(t) : u \in Nat /\ u < t /\ Rank(u) < Rank(t)
<1>1. ASSUME NEW u \in Nat, u <= t
      PROVE  Opened(u) \subseteq Opened(t) /\ Rank(u) <= Rank(t)
  <2>1. Opened(u) \in SUBSET Opened(t)
    BY <1>1 DEF Opened
  <2>2. IsFiniteSet(Opened(t))
    BY RankSteps
  <2> QED
    BY <2>1, <2>2, FS_Subset DEF Rank
<1>2. ASSUME NEW u \in Opened(t)
      PROVE  u \in Nat /\ u < t /\ Rank(u) < Rank(t)
  <2>1. u \in Nat /\ u < t /\ Opens(u)
    BY DEF Opened
  <2>2. Rank(u + 1) = Rank(u) + 1 /\ Rank(u) \in Nat /\ Rank(t) \in Nat
    BY <2>1, RankSteps
  <2>3. Rank(u + 1) <= Rank(t)
    <3>1. u + 1 \in Nat /\ u + 1 <= t
      BY <2>1
    <3> QED
      BY <1>1, <3>1
  <2> QED
    BY <2>1, <2>2, <2>3
<1> QED
  BY <1>1, <1>2

\* A slot is opened at one position.
LEMMA RankOrders ==
  ASSUME NEW t \in Nat, NEW u \in Opened(t), NEW v \in Opened(t)
  PROVE  /\ u < v => Rank(u) < Rank(v)
         /\ Rank(u) = Rank(v) => u = v
<1>1. u \in Nat /\ v \in Nat /\ Opens(u) /\ Opens(v)
  BY DEF Opened
<1>2. Rank(u) \in Nat /\ Rank(v) \in Nat
  BY <1>1, RankSteps
<1>3. ASSUME NEW a \in Nat, NEW b \in Nat, Opens(a), a < b
      PROVE  Rank(a) < Rank(b)
  <2>1. a \in Opened(b)
    BY <1>3 DEF Opened
  <2> QED
    BY <2>1, RankRises
<1>4. u < v => Rank(u) < Rank(v)
  BY <1>1, <1>3
<1>5. v < u => Rank(v) < Rank(u)
  BY <1>1, <1>3
<1>6. u < v \/ v < u \/ u = v
  BY <1>1
<1> QED
  BY <1>2, <1>4, <1>5, <1>6

-----------------------------------------------------------------------------
(* Columns.                                                                *)

\* The openings of a column are finitely many, those before it too, and the
\* latter grow by the former.
LEMMA ColumnsAdd ==
  ASSUME Input, Sorted, NEW j \in 0..(n - 1)
  PROVE  /\ Cardinality(OpenedBefore(j)) \in Nat
         /\ Cardinality(OpenedIn(len, j)) \in Nat
         /\ Cardinality(OpenedBefore(j + 1))
              = Cardinality(OpenedIn(len, j)) + Cardinality(OpenedBefore(j))
<1>1. len \in Nat /\ n \in Nat
  BY DEF Sorted, Input
<1>2. IsFiniteSet(Opened(len))
  BY <1>1, RankSteps
<1>3. OpenedBefore(j) \in SUBSET Opened(len) /\ OpenedIn(len, j) \in SUBSET Opened(len)
  BY DEF OpenedBefore, OpenedIn
<1>4. IsFiniteSet(OpenedBefore(j)) /\ IsFiniteSet(OpenedIn(len, j))
  BY <1>2, <1>3, FS_Subset
<1>5. \A u \in Opened(len) : Aj[trips[u]] \in Int
  <2> SUFFICES ASSUME NEW u \in Opened(len) PROVE Aj[trips[u]] \in Int
    OBVIOUS
  <2>1. u \in 0..(len - 1)
    BY DEF Opened
  <2> QED
    BY <2>1, SortedEntries
<1>6. OpenedBefore(j + 1) = OpenedIn(len, j) \cup OpenedBefore(j)
  BY <1>5 DEF OpenedBefore, OpenedIn
<1>7. OpenedIn(len, j) \cap OpenedBefore(j) = {}
  BY <1>5 DEF OpenedBefore, OpenedIn
<1>8. Cardinality(OpenedIn(len, j) \cup OpenedBefore(j))
        = Cardinality(OpenedIn(len, j)) + Cardinality(OpenedBefore(j))
            - Cardinality(OpenedIn(len, j) \cap OpenedBefore(j))
  BY <1>4, FS_Union
<1>9. Cardinality(OpenedIn(len, j) \cap OpenedBefore(j)) = 0
  BY <1>7, FS_EmptySet
<1>10. Cardinality(OpenedBefore(j)) \in Nat /\ Cardinality(OpenedIn(len, j)) \in Nat
  BY <1>4, FS_CardinalityType
<1>11. Cardinality(OpenedIn(len, j) \cup OpenedBefore(j))
         = Cardinality(OpenedIn(len, j)) + Cardinality(OpenedBefore(j)) - 0
  BY <1>8, <1>9
<1>12. Cardinality(OpenedIn(len, j) \cup OpenedBefore(j))
         = Cardinality(OpenedIn(len, j)) + Cardinality(OpenedBefore(j))
  BY <1>10, <1>11
<1> QED
  BY <1>6, <1>10, <1>12

\* No opening is before the first column, and all are before the end.
LEMMA ColumnEnds ==
  ASSUME Input, Sorted
  PROVE  Cardinality(OpenedBefore(0)) = 0 /\ Cardinality(OpenedBefore(n)) = Rank(len)
<1>1. ASSUME NEW u \in Opened(len) PROVE Aj[trips[u]] \in 0..(n - 1)
  <2>1. u \in 0..(len - 1)
    BY DEF Opened
  <2> QED
    BY <2>1, SortedEntries
<1>2. OpenedBefore(0) = {}
  BY <1>1 DEF OpenedBefore
<1>3. n \in Nat
  BY DEF Input
<1>4. OpenedBefore(n) = Opened(len)
  BY <1>1, <1>3 DEF OpenedBefore
<1> QED
  BY <1>2, <1>4, FS_EmptySet DEF Rank

\* The openings of the columns before an opening's own come before it.
LEMMA OpenedInColumn ==
  ASSUME Input, Sorted, NEW u \in Opened(len), NEW j \in 0..(n - 1)
  PROVE  Aj[trips[u]] = j <=> /\ Cardinality(OpenedBefore(j)) <= Rank(u)
                              /\ Rank(u) < Cardinality(OpenedBefore(j + 1))
<1>1. u \in 0..(len - 1) /\ Opens(u) /\ len \in Nat /\ u \in Nat
  BY DEF Opened, Sorted
<1>2. Aj[trips[u]] \in 0..(n - 1) /\ n \in Nat
  BY <1>1, SortedEntries DEF Input
<1>3. \A v \in Opened(len) : v \in 0..(len - 1)
  BY DEF Opened
<1>4. \A v \in Opened(len) : Aj[trips[v]] \in Int
  BY <1>3, SortedEntries
<1>5. IsFiniteSet(Opened(len)) /\ IsFiniteSet(Opened(u + 1)) /\ IsFiniteSet(Opened(u))
      /\ Rank(u) \in Nat /\ Rank(u + 1) = Rank(u) + 1
  <2>1. IsFiniteSet(Opened(u)) /\ Rank(u) \in Nat /\ Rank(u + 1) = Rank(u) + 1
    BY <1>1, RankSteps
  <2>2. IsFiniteSet(Opened(len))
    BY <1>1, RankSteps
  <2>3. u + 1 \in Nat
    BY <1>1
  <2>4. IsFiniteSet(Opened(u + 1))
    BY <2>3, RankSteps
  <2> QED
    BY <2>1, <2>2, <2>4
<1>6. ASSUME NEW c \in Int, c <= Aj[trips[u]]
      PROVE  Cardinality(OpenedBefore(c)) <= Rank(u)
  <2>1. \A v \in Opened(len) : Aj[trips[v]] < c => v < u
    BY <1>1, <1>2, <1>3, <1>4, <1>6, SortRises
  <2>2. OpenedBefore(c) \in SUBSET Opened(u)
    BY <1>1, <2>1 DEF OpenedBefore, Opened
  <2> QED
    BY <1>5, <2>2, FS_Subset DEF Rank
<1>7. ASSUME NEW c \in Int, Aj[trips[u]] < c
      PROVE  Rank(u) < Cardinality(OpenedBefore(c))
  <2>1. \A v \in 0..(len - 1) : v <= u => Aj[trips[v]] <= Aj[trips[u]]
    BY <1>1, SortRises
  <2>2. Opened(u + 1) \in SUBSET OpenedBefore(c)
    <3> SUFFICES ASSUME NEW v \in Opened(u + 1)
                 PROVE  v \in OpenedBefore(c)
      OBVIOUS
    <3>1. v \in 0..(len - 1) /\ v <= u /\ Opens(v)
      BY <1>1 DEF Opened
    <3>2. v \in Opened(len)
      BY <3>1 DEF Opened
    <3>3. Aj[trips[v]] < c
      BY <1>2, <1>4, <1>7, <2>1, <3>1, <3>2
    <3> QED
      BY <3>2, <3>3 DEF OpenedBefore
  <2>3. IsFiniteSet(OpenedBefore(c))
    <3>1. OpenedBefore(c) \in SUBSET Opened(len)
      BY DEF OpenedBefore
    <3> QED
      BY <1>5, <3>1, FS_Subset
  <2>4. Cardinality(Opened(u + 1)) <= Cardinality(OpenedBefore(c))
    BY <2>2, <2>3, FS_Subset
  <2>5. Cardinality(OpenedBefore(c)) \in Nat
    BY <2>3, FS_CardinalityType
  <2> QED
    BY <1>5, <2>4, <2>5 DEF Rank
<1>8. \A c \in Int : /\ c <= Aj[trips[u]] => Cardinality(OpenedBefore(c)) <= Rank(u)
                     /\ Aj[trips[u]] < c => Rank(u) < Cardinality(OpenedBefore(c))
  BY <1>6, <1>7
<1>9. \A c \in Int : Cardinality(OpenedBefore(c)) \in Nat
  <2> SUFFICES ASSUME NEW c \in Int PROVE Cardinality(OpenedBefore(c)) \in Nat
    OBVIOUS
  <2>1. OpenedBefore(c) \in SUBSET Opened(len)
    BY DEF OpenedBefore
  <2> QED
    BY <1>5, <2>1, FS_Subset, FS_CardinalityType
<1>10. j \in Int /\ j + 1 \in Int
  OBVIOUS
<1>11. CASE Aj[trips[u]] = j
  BY <1>2, <1>8, <1>10, <1>11
<1>12. CASE Aj[trips[u]] < j
  <2>1. Rank(u) < Cardinality(OpenedBefore(j))
    BY <1>8, <1>10, <1>12
  <2> QED
    BY <1>5, <1>9, <1>10, <1>12, <2>1
<1>13. CASE Aj[trips[u]] > j
  <2>1. Cardinality(OpenedBefore(j + 1)) <= Rank(u)
    BY <1>2, <1>8, <1>10, <1>13
  <2> QED
    BY <1>5, <1>9, <1>10, <1>13, <2>1
<1> QED
  BY <1>2, <1>11, <1>12, <1>13

-----------------------------------------------------------------------------
(* The steps.                                                              *)

\* What the first t entries come to depends on the sort and on what the second
\* pass wrote, and on nothing else.
LEMMA SortStays ==
  ASSUME UNCHANGED <<input, trips, len>>
  PROVE  /\ Sorted => Sorted'
         /\ \A t : Opened(t)' = Opened(t) /\ Rank(t)' = Rank(t)
         /\ \A t, j : OpenedIn(t, j)' = OpenedIn(t, j)
         /\ \A j : OpenedBefore(j)' = OpenedBefore(j)
         /\ \A t, ar, p : SlotsIn(t, ar, p)' <=> SlotsIn(t, ar, p)
<1> USE DEF input
<1>1. Coo' = Coo /\ Kept' = Kept
  BY DEF Coo, Kept, Keeps
<1>2. Sorted => Sorted'
  BY <1>1 DEF Sorted, InRange, Earlier, Before
<1>3. \A t : Opened(t)' = Opened(t) /\ Rank(t)' = Rank(t)
  BY DEF Opened, Rank, Opens
<1>4. \A t, j : OpenedIn(t, j)' = OpenedIn(t, j)
  BY <1>3 DEF OpenedIn
<1>5. \A j : OpenedBefore(j)' = OpenedBefore(j)
  BY <1>3 DEF OpenedBefore
<1>6. \A t, ar, p : SlotsIn(t, ar, p)' <=> SlotsIn(t, ar, p)
  BY <1>1, <1>3 DEF SlotsIn, Same
<1> QED
  BY <1>2, <1>3, <1>4, <1>5, <1>6

\* One entry placed is one more entry in its slot.
LEMMA PlaceSlots ==
  ASSUME Input, Sorted, Arrays, Counting, Place
  PROVE  /\ slot' = Rank(at + 1) - 1
         /\ SlotsIn(at + 1, Ar', pos')
         /\ Ar' \in [0..(Room(nnzCsc) - 1) -> Int]
         /\ pos' \in [Coo -> Int]
<1> DEFINE t == at
           k == trips[at]
<1>1. t \in Nat /\ t \in 0..(len - 1) /\ len \in Nat /\ k \in Coo
      /\ Ai[k] \in Int
  <2>1. at < len /\ len \in Nat /\ at \in 0..len
    BY DEF Place, Counting, Sorted
  <2>2. at \in 0..(len - 1)
    BY <2>1
  <2> QED
    BY <2>1, <2>2, SortedEntries
<1>2. Rank(t) \in Nat /\ slot = Rank(t) - 1 /\ nnzCsc \in Nat /\ Rank(t) <= nnzCsc
  <2>1. Rank(t) \in Nat /\ Rank(len) \in Nat
    BY <1>1, RankSteps
  <2>2. Rank(t) <= Rank(len)
    <3>1. t <= len
      BY <1>1
    <3> QED
      BY <1>1, <3>1, RankRises
  <2> QED
    BY <2>1, <2>2 DEF Counting, Arrays
<1>3. /\ Rank(t + 1) = IF Opens(t) THEN Rank(t) + 1 ELSE Rank(t)
      /\ Opened(t + 1) = IF Opens(t) THEN Opened(t) \cup {t} ELSE Opened(t)
  BY <1>1, RankSteps
<1>4. slot' = Rank(t + 1) - 1
  BY <1>2, <1>3 DEF Place
<1>5. pos' = [pos EXCEPT ![k] = slot'] /\ pos' \in [Coo -> Int]
  BY <1>1, <1>2, <1>3, <1>4 DEF Place, Arrays
<1>6. Ar \in [0..(Room(nnzCsc) - 1) -> Int] /\ Slots(t)
  BY DEF Arrays, Counting
<1>7. Opens(t) => Rank(t) \in 0..(Room(nnzCsc) - 1) /\ Ar' = [Ar EXCEPT ![Rank(t)] = Ai[k]]
  <2> SUFFICES ASSUME Opens(t)
               PROVE  Rank(t) \in 0..(Room(nnzCsc) - 1)
                      /\ Ar' = [Ar EXCEPT ![Rank(t)] = Ai[k]]
    OBVIOUS
  <2>1. t \in Opened(len)
    BY <1>1 DEF Opened
  <2>2. Rank(t) < nnzCsc
    BY <1>1, <2>1, RankRises DEF Arrays
  <2>3. slot + 1 = Rank(t)
    BY <1>2
  <2> QED
    BY <1>2, <2>2, <2>3 DEF Place, Room
<1>8. ~Opens(t) => Ar' = Ar
  BY DEF Place
<1>9. Ar' \in [0..(Room(nnzCsc) - 1) -> Int]
  BY <1>1, <1>6, <1>7, <1>8
<1>10. \A u \in Opened(t) : u \in Nat /\ Rank(u) < Rank(t) /\ Rank(u) \in Nat
  <2> SUFFICES ASSUME NEW u \in Opened(t)
               PROVE  u \in Nat /\ Rank(u) < Rank(t) /\ Rank(u) \in Nat
    OBVIOUS
  <2>1. u \in Nat /\ Rank(u) < Rank(t)
    BY <1>1, RankRises
  <2> QED
    BY <2>1, RankSteps
<1>11. \A u \in Opened(t) : Rank(u) \in 0..(Room(nnzCsc) - 1)
  BY <1>2, <1>10 DEF Room
<1>12. \A u \in Opened(t + 1) : Ar'[Rank(u)] = Ai[trips[u]]
  <2> SUFFICES ASSUME NEW u \in Opened(t + 1)
               PROVE  Ar'[Rank(u)] = Ai[trips[u]]
    OBVIOUS
  <2>1. CASE u \in Opened(t)
    <3>1. Ar[Rank(u)] = Ai[trips[u]]
      BY <1>6, <2>1 DEF Slots, SlotsIn
    <3>2. Rank(u) # Rank(t)
      BY <1>2, <1>10, <2>1
    <3> QED
      BY <1>6, <1>7, <1>8, <1>11, <2>1, <3>1, <3>2
  <2>2. CASE u \notin Opened(t)
    <3>1. u = t /\ Opens(t)
      BY <1>3, <2>2
    <3> QED
      BY <1>6, <1>7, <3>1
  <2> QED
    BY <2>1, <2>2
<1>13. \A s \in 0..(Rank(t + 1) - 1) : \E u \in Opened(t + 1) : Rank(u) = s
  <2> SUFFICES ASSUME NEW s \in 0..(Rank(t + 1) - 1)
               PROVE  \E u \in Opened(t + 1) : Rank(u) = s
    OBVIOUS
  <2>1. CASE s \in 0..(Rank(t) - 1)
    BY <1>3, <1>6, <2>1 DEF Slots, SlotsIn
  <2>2. CASE s \notin 0..(Rank(t) - 1)
    <3>1. Opens(t) /\ s = Rank(t)
      BY <1>2, <1>3, <2>2
    <3> QED
      BY <1>3, <3>1
  <2> QED
    BY <2>1, <2>2
<1>14. \A u \in 0..(t - 1) : trips[u] \in Coo /\ trips[u] # k
  <2> SUFFICES ASSUME NEW u \in 0..(t - 1)
               PROVE  trips[u] \in Coo /\ trips[u] # k
    OBVIOUS
  <2>1. u \in 0..(len - 1) /\ u < t
    BY <1>1
  <2> QED
    BY <1>1, <2>1, SortedEntries DEF Sorted
<1>15. ASSUME NEW u \in 0..t
       PROVE  /\ pos'[trips[u]] = Rank(u + 1) - 1
              /\ \E v \in Opened(u + 1) :
                    Rank(v) = Rank(u + 1) - 1 /\ Same(trips[v], trips[u])
  <2>1. CASE u # t
    <3>1. u \in 0..(t - 1)
      BY <1>1, <2>1
    <3>2. pos'[trips[u]] = pos[trips[u]]
      BY <1>5, <1>14, <3>1 DEF Arrays
    <3> QED
      BY <1>6, <3>1, <3>2 DEF Slots, SlotsIn
  <2>2. CASE u = t /\ Opens(t)
    <3>1. pos'[k] = Rank(t + 1) - 1
      BY <1>1, <1>4, <1>5 DEF Arrays
    <3>2. t \in Opened(t + 1) /\ Rank(t) = Rank(t + 1) - 1 /\ Same(k, k)
      BY <1>2, <1>3, <2>2 DEF Same
    <3> QED
      BY <2>2, <3>1, <3>2
  <2>3. CASE u = t /\ ~Opens(t)
    <3>1. pos'[k] = Rank(t + 1) - 1
      BY <1>1, <1>4, <1>5 DEF Arrays
    <3>2. t > 0 /\ Same(trips[t - 1], k)
      BY <1>1, <2>3 DEF Opens, Same
    <3>3. t - 1 \in 0..(t - 1) /\ t - 1 + 1 = t
      BY <1>1, <3>2
    <3>4. PICK v \in Opened(t) : Rank(v) = Rank(t) - 1 /\ Same(trips[v], trips[t - 1])
      <4>1. \E v \in Opened(t - 1 + 1) :
               Rank(v) = Rank(t - 1 + 1) - 1 /\ Same(trips[v], trips[t - 1])
        BY <1>6, <3>3 DEF Slots, SlotsIn
      <4> QED
        BY <3>3, <4>1
    <3>5. Same(trips[v], k)
      BY <3>2, <3>4 DEF Same
    <3> QED
      BY <1>3, <2>3, <3>1, <3>4, <3>5
  <2> QED
    BY <2>1, <2>2, <2>3
<1>16. ASSUME NEW l \in Coo, \A u \in 0..t : trips[u] # l
       PROVE  pos'[l] = -1
  <2>1. l # k /\ \A u \in 0..(t - 1) : trips[u] # l
    BY <1>1, <1>16
  <2>2. pos[l] = -1
    BY <1>6, <2>1 DEF Slots, SlotsIn
  <2> QED
    BY <1>5, <2>1, <2>2 DEF Arrays
<1>17. 0..((t + 1) - 1) = 0..t
  BY <1>1
<1>18. SlotsIn(t + 1, Ar', pos')
  <2>1. \A u \in 0..((t + 1) - 1) :
          /\ pos'[trips[u]] = Rank(u + 1) - 1
          /\ \E v \in Opened(u + 1) :
                Rank(v) = Rank(u + 1) - 1 /\ Same(trips[v], trips[u])
    BY <1>15, <1>17
  <2>2. \A l \in Coo : (\A u \in 0..((t + 1) - 1) : trips[u] # l) => pos'[l] = -1
    BY <1>16, <1>17
  <2> QED
    BY <1>12, <1>13, <2>1, <2>2 DEF SlotsIn
<1> QED
  BY <1>4, <1>5, <1>9, <1>18

\* And one opening more in its column.
LEMMA PlaceColumns ==
  ASSUME Input, Sorted, Arrays, Counting, Place
  PROVE  /\ Ap' \in [0..n -> Int]
         /\ Ap'[0] = 0
         /\ \A j \in 0..(n - 1) : Ap'[j + 1] = Cardinality(OpenedIn(at + 1, j))
<1> DEFINE t == at
           c == Aj[trips[at]]
<1>1. t \in Nat /\ t \in 0..(len - 1) /\ c \in 0..(n - 1) /\ n \in Nat
  <2>1. at < len /\ len \in Nat /\ at \in 0..len
    BY DEF Place, Counting, Sorted
  <2>2. at \in 0..(len - 1)
    BY <2>1
  <2> QED
    BY <2>1, <2>2, SortedEntries DEF Input
<1>2. Opened(t + 1) = IF Opens(t) THEN Opened(t) \cup {t} ELSE Opened(t)
  BY <1>1, RankSteps
<1>3. Ap \in [0..n -> Int] /\ Ap[0] = 0
      /\ \A j \in 0..(n - 1) : Ap[j + 1] = Cardinality(OpenedIn(t, j))
  BY DEF Arrays, Counting
<1>4. CASE ~Opens(t)
  <2>1. Ap' = Ap /\ \A j : OpenedIn(t + 1, j) = OpenedIn(t, j)
    BY <1>2, <1>4 DEF Place, OpenedIn
  <2> QED
    BY <1>3, <2>1
<1>5. CASE Opens(t)
  <2>1. Ap' = [Ap EXCEPT ![c + 1] = Ap[c + 1] + 1] /\ c + 1 \in 0..n
    BY <1>1, <1>5 DEF Place
  <2>2. OpenedIn(t + 1, c) = OpenedIn(t, c) \cup {t}
    BY <1>2, <1>5 DEF OpenedIn
  <2>3. IsFiniteSet(OpenedIn(t, c)) /\ t \notin OpenedIn(t, c)
    <3>1. OpenedIn(t, c) \in SUBSET Opened(t)
      BY DEF OpenedIn
    <3>2. IsFiniteSet(Opened(t))
      BY <1>1, RankSteps
    <3>3. t \notin Opened(t)
      BY <1>1 DEF Opened
    <3> QED
      BY <3>1, <3>2, <3>3, FS_Subset
  <2>4. Cardinality(OpenedIn(t + 1, c)) = Cardinality(OpenedIn(t, c)) + 1
    BY <2>2, <2>3, FS_AddElement
  <2>5. \A j : j # c => OpenedIn(t + 1, j) = OpenedIn(t, j)
    BY <1>2, <1>5 DEF OpenedIn
  <2>6. ASSUME NEW j \in 0..(n - 1)
        PROVE  Ap'[j + 1] = Cardinality(OpenedIn(t + 1, j))
    <3>1. j + 1 \in 0..n /\ Ap[j + 1] = Cardinality(OpenedIn(t, j))
      BY <1>1, <1>3
    <3>2. CASE j = c
      <4>1. Ap'[c + 1] = Ap[c + 1] + 1
        BY <1>3, <2>1
      <4> QED
        BY <2>4, <3>1, <3>2, <4>1
    <3>3. CASE j # c
      <4>1. Ap'[j + 1] = Ap[j + 1]
        <5> HIDE DEF c
        <5>1. j + 1 # c + 1
          BY <1>1, <3>3
        <5> QED
          BY <1>3, <2>1, <3>1, <5>1
      <4> QED
        BY <2>5, <3>1, <3>3, <4>1
    <3> QED
      BY <3>2, <3>3
  <2>7. Ap' \in [0..n -> Int] /\ Ap'[0] = 0
    <3>1. Ap[c + 1] + 1 \in Int
      BY <1>3, <2>1
    <3> HIDE DEF c
    <3>2. c + 1 # 0
      BY <1>1
    <3> QED
      BY <1>1, <1>3, <2>1, <3>1, <3>2
  <2> QED
    BY <2>6, <2>7
<1> QED
  BY <1>4, <1>5

\* The counts of one column more are summed up.
LEMMA SumUpColumns ==
  ASSUME Input, Sorted, Arrays, Summing, SumUp
  PROVE  /\ Ap' \in [0..n -> Int]
         /\ \A j \in 0..(at + 1) : Ap'[j] = Cardinality(OpenedBefore(j))
         /\ \A j \in (at + 1)..(n - 1) : Ap'[j + 1] = Cardinality(OpenedIn(len, j))
<1> DEFINE c == at
<1>1. c \in 0..(n - 1) /\ n \in Nat
  BY DEF SumUp, Summing, Input
<1>2. Ap' = [Ap EXCEPT ![c + 1] = Ap[c + 1] + Ap[c]] /\ Ap \in [0..n -> Int]
  BY DEF SumUp, Arrays
<1>3. /\ \A j \in 0..c : Ap[j] = Cardinality(OpenedBefore(j))
      /\ \A j \in c..(n - 1) : Ap[j + 1] = Cardinality(OpenedIn(len, j))
  BY DEF Summing
<1> HIDE DEF c
<1>4. c + 1 \in 0..n /\ c \in 0..n /\ c \in 0..c /\ c \in c..(n - 1) /\ c + 1 # c
  BY <1>1
<1>5. Ap[c + 1] + Ap[c] = Cardinality(OpenedBefore(c + 1))
  <2>1. Ap[c + 1] = Cardinality(OpenedIn(len, c)) /\ Ap[c] = Cardinality(OpenedBefore(c))
    BY <1>3, <1>4
  <2> QED
    BY <1>1, <2>1, ColumnsAdd
<1>6. Ap' \in [0..n -> Int]
  <2>1. Ap[c + 1] + Ap[c] \in Int
    BY <1>2, <1>4
  <2> QED
    BY <1>2, <2>1
<1>7. Ap'[c + 1] = Cardinality(OpenedBefore(c + 1))
      /\ \A j \in 0..n : j # c + 1 => Ap'[j] = Ap[j]
  BY <1>2, <1>4, <1>5
<1>8. ASSUME NEW j \in 0..(c + 1)
      PROVE  Ap'[j] = Cardinality(OpenedBefore(j))
  <2>1. CASE j = c + 1
    BY <1>7, <2>1
  <2>2. CASE j # c + 1
    <3>1. j \in 0..c /\ j \in 0..n
      BY <1>1, <2>2
    <3> QED
      BY <1>3, <1>7, <2>2, <3>1
  <2> QED
    BY <2>1, <2>2
<1>9. ASSUME NEW j \in (c + 1)..(n - 1)
      PROVE  Ap'[j + 1] = Cardinality(OpenedIn(len, j))
  <2>1. j \in c..(n - 1) /\ j + 1 \in 0..n /\ j + 1 # c + 1
    BY <1>1
  <2> QED
    BY <1>3, <1>7, <2>1
<1> QED
  BY <1>6, <1>8, <1>9 DEF c

\* An entry's slot is in the buffer.
LEMMA SlotInBuffer ==
  ASSUME Input, Structured, NEW k \in Coo
  PROVE  pos[k] \in -1..(nnzCsc - 1) /\ nnzCsc \in Nat
<1>1. len \in Nat /\ nnzCsc = Rank(len) /\ nnzCsc \in Nat
  BY RankSteps DEF Structured, Sorted, Arrays
<1>2. CASE \E u \in 0..(len - 1) : trips[u] = k
  <2>1. PICK u \in 0..(len - 1) : trips[u] = k
    BY <1>2
  <2>2. pos[k] = Rank(u + 1) - 1
    BY <2>1 DEF Structured, Slots, SlotsIn
  <2>3. u + 1 \in Nat /\ u + 1 <= len
    BY <1>1
  <2>4. Rank(u + 1) <= nnzCsc /\ Rank(u + 1) \in Nat
    BY <1>1, <2>3, RankRises, RankSteps
  <2> QED
    BY <1>1, <2>2, <2>4
<1>3. CASE \A u \in 0..(len - 1) : trips[u] # k
  <2>1. pos[k] = -1
    BY <1>3 DEF Structured, Slots, SlotsIn
  <2> QED
    BY <1>1, <2>1
<1> QED
  BY <1>1, <1>2, <1>3

\* The entries that one slot has taken in, one entry later.
LEMMA ScatterSums ==
  ASSUME Input, Structured, at \in 0..nnz, Partial(at), Scatter
  PROVE  /\ x' \in [0..(Room(nnzCsc) - 1) -> Int]
         /\ \A s \in 0..(nnzCsc - 1) :
              x'[s] = Sum(Ax, {k \in 0..((at + 1) - 1) : pos[k] = s})
<1> DEFINE t == at
           In(s) == {k \in 0..(t - 1) : pos[k] = s}
<1>1. t \in Coo /\ t \in Nat /\ nnz \in Nat
  BY DEF Scatter, Input, Coo
<1>2. pos[t] \in -1..(nnzCsc - 1) /\ nnzCsc \in Nat
  BY <1>1, SlotInBuffer
<1>3. /\ Ax \in [Coo -> Int] /\ x \in [0..(Room(nnzCsc) - 1) -> Int]
      /\ \A s \in 0..(nnzCsc - 1) : x[s] = Sum(Ax, In(s))
  BY DEF Partial
<1>4. 0..(nnzCsc - 1) \subseteq 0..(Room(nnzCsc) - 1)
  BY <1>2 DEF Room
<1>5. x' = IF pos[t] >= 0 THEN [x EXCEPT ![pos[t]] = x[pos[t]] + Ax[t]] ELSE x
  BY DEF Scatter
<1>6. Ax[t] \in Int
  BY <1>1, <1>3
<1>7. x' \in [0..(Room(nnzCsc) - 1) -> Int]
  <2>1. CASE pos[t] >= 0
    <3>1. pos[t] \in 0..(nnzCsc - 1)
      BY <1>2, <2>1
    <3>2. pos[t] \in 0..(Room(nnzCsc) - 1)
      BY <1>4, <3>1
    <3>3. x[pos[t]] + Ax[t] \in Int
      BY <1>3, <1>6, <3>2
    <3> QED
      BY <1>3, <1>5, <2>1, <3>2, <3>3
  <2>2. CASE ~(pos[t] >= 0)
    BY <1>3, <1>5, <2>2
  <2> QED
    BY <2>1, <2>2
<1>8. ASSUME NEW s \in 0..(nnzCsc - 1)
      PROVE  x'[s] = Sum(Ax, {k \in 0..t : pos[k] = s})
  <2>1. CASE pos[t] = s
    <3>1. {k \in 0..t : pos[k] = s} = In(s) \cup {t}
      BY <1>1, <2>1
    <3>2. IsFiniteSet(In(s))
      <4>1. 0 \in Int /\ t - 1 \in Int
        BY <1>1
      <4>2. IsFiniteSet(0..(t - 1))
        BY <4>1, FS_Interval
      <4> QED
        BY <4>2, FS_Subset
    <3>3. t \notin In(s) /\ \A k \in In(s) \cup {t} : Ax[k] \in Int
      BY <1>1, <1>3 DEF Coo
    <3>4. Sum(Ax, In(s) \cup {t}) = Sum(Ax, In(s)) + Ax[t]
      <4> HIDE DEF In
      <4> QED
        BY <3>2, <3>3, SumAdds
    <3>5. x'[s] = x[s] + Ax[t]
      <4>1. s \in 0..(Room(nnzCsc) - 1) /\ s >= 0
        BY <1>4
      <4>2. x' = [x EXCEPT ![s] = x[s] + Ax[t]]
        BY <1>5, <2>1, <4>1
      <4> QED
        BY <1>3, <4>1, <4>2
    <3>6. x[s] = Sum(Ax, In(s))
      BY <1>3
    <3> HIDE DEF In
    <3> QED
      BY <3>1, <3>4, <3>5, <3>6
  <2>2. CASE pos[t] # s
    <3>1. {k \in 0..t : pos[k] = s} = In(s)
      BY <1>1, <2>2
    <3>2. x'[s] = x[s]
      BY <1>3, <1>4, <1>5, <2>2
    <3>3. x[s] = Sum(Ax, In(s))
      BY <1>3
    <3> HIDE DEF In
    <3> QED
      BY <3>1, <3>2, <3>3
  <2> QED
    BY <2>1, <2>2
<1>9. 0..((t + 1) - 1) = 0..t
  BY <1>1
<1> QED
  BY <1>7, <1>8, <1>9

\* Nothing has been built before the first pass.
LEMMA InitCsc == Init => CscInv
<1> SUFFICES ASSUME Init PROVE CscInv
  OBVIOUS
<1>1. n \in Nat /\ nnz \in Nat
  BY CooAssumption DEF Init
<1>2. Ai \in [Coo -> Int] /\ Aj \in [Coo -> Int]
  BY CooAssumption DEF Init
<1>3. kind \in {"full", "upper"} /\ pc = "check" /\ pos = [k \in Coo |-> -1]
  BY CooAssumption DEF Init
<1> QED
  BY <1>1, <1>2, <1>3 DEF CscInv, Input

\* An empty pattern has no slots yet.
LEMMA CountStarts ==
  ASSUME Input, Sorted, pos = [k \in Coo |-> -1], Count
  PROVE  (Sorted /\ Arrays /\ Counting)'
<1>1. /\ nnzCsc' = Rank(len) /\ Ap' = [i \in 0..((n + 1) - 1) |-> 0]
      /\ Ar' = [i \in 0..(Room(nnzCsc') - 1) |-> 0]
      /\ slot' = -1 /\ at' = 0 /\ UNCHANGED <<input, trips, len, pos>>
  BY DEF Count, Rank, Opened, Zeros
<1>2. /\ Sorted'
      /\ \A t : Opened(t)' = Opened(t) /\ Rank(t)' = Rank(t)
      /\ \A t, j : OpenedIn(t, j)' = OpenedIn(t, j)
      /\ \A t, ar, p : SlotsIn(t, ar, p)' <=> SlotsIn(t, ar, p)
  BY <1>1, SortStays
<1>3. n' = n /\ n \in Nat /\ Coo' = Coo /\ len' = len /\ len \in Nat /\ pos' = pos
  BY <1>1 DEF input, Input, Coo, Sorted
<1>4. Ap' \in [0..n -> Int] /\ Ap'[0] = 0 /\ \A j \in 0..(n - 1) : Ap'[j + 1] = 0
  BY <1>1, <1>3
<1>5. Ar' \in [0..(Room(nnzCsc') - 1) -> Int]
  BY <1>1
<1>6. Arrays'
  <2>1. nnzCsc' = Rank(len)'
    BY <1>1, <1>2
  <2>2. pos' \in [Coo -> Int]
    BY <1>3
  <2>3. Room(nnzCsc)' = Room(nnzCsc')
    BY DEF Room
  <2> QED
    BY <1>3, <1>4, <1>5, <2>1, <2>2, <2>3 DEF Arrays
<1>7. SlotsIn(0, Ar', pos')
  <2>1. Opened(0) = {} /\ Rank(0) = 0 /\ 0..(0 - 1) = {}
    BY RankZero
  <2>2. \A k \in Coo : pos'[k] = -1
    BY <1>3
  <2> QED
    BY <2>1, <2>2 DEF SlotsIn
<1>8. \A j : OpenedIn(0, j) = {}
  BY RankZero DEF OpenedIn
<1>9. Counting'
  <2>1. Slots(at)'
    BY <1>1, <1>2, <1>7 DEF Slots
  <2>2. slot' = Rank(at)' - 1
    BY <1>1, <1>2, RankZero
  <2>3. \A j : OpenedIn(at, j)' = {}
    BY <1>1, <1>2, <1>8
  <2>4. \A j \in 0..(n - 1) : Ap'[j + 1] = Cardinality(OpenedIn(at, j)')
    BY <1>4, <2>3, FS_EmptySet
  <2>5. at' \in 0..len' /\ Ap'[0] = 0
    BY <1>1, <1>3, <1>4
  <2> QED
    BY <1>3, <2>1, <2>2, <2>4, <2>5 DEF Counting
<1> QED
  BY <1>2, <1>6, <1>9

\* What a sum comes to depends on nothing but its terms.
LEMMA SumStays == \A a, S : Sum(a, S)' = Sum(a, S)
  BY DEF Sum, MapThenSumSet, MapThenFoldSet

\* Every step keeps the matrix in the making what the sorted entries say.
LEMMA NextCsc == CscInv /\ [Next]_vars => CscInv'
<1> SUFFICES ASSUME CscInv, [Next]_vars PROVE CscInv'
  OBVIOUS
<1>0. Input
  BY DEF CscInv
<1>a. ASSUME UNCHANGED input,
             pc' \in {"check", "refused", "count", "place", "sum", "ready",
                      "scatter", "loaded"}
      PROVE  Input'
  BY <1>0, <1>a DEF Input, input, Coo
<1>b. ASSUME UNCHANGED <<input, built>>
      PROVE  /\ Structured => Structured'
             /\ Pointers => Pointers'
             /\ \A j : OpenedIn(len, j)' = OpenedIn(len, j)
             /\ \A j : OpenedBefore(j)' = OpenedBefore(j)
             /\ Room(nnzCsc)' = Room(nnzCsc) /\ Coo' = Coo
  <2>1. UNCHANGED <<input, trips, len, nnzCsc, slot, Ap, Ar, pos, n, nnz>>
    BY <1>b DEF built, input
  <2>2. /\ Sorted => Sorted'
        /\ \A t : Opened(t)' = Opened(t) /\ Rank(t)' = Rank(t)
        /\ \A t, j : OpenedIn(t, j)' = OpenedIn(t, j)
        /\ \A j : OpenedBefore(j)' = OpenedBefore(j)
        /\ \A t, ar, p : SlotsIn(t, ar, p)' <=> SlotsIn(t, ar, p)
    BY <2>1, SortStays
  <2>3. \A j : OpenedIn(len, j)' = OpenedIn(len, j)
    BY <2>1, <2>2
  <2>4. Room(nnzCsc)' = Room(nnzCsc) /\ Coo' = Coo
    BY <2>1 DEF Room, Coo
  <2>5. Slots(len) => Slots(len)'
    BY <2>1, <2>2 DEF Slots
  <2>6. Rank(len)' = Rank(len)
    BY <2>1, <2>2
  <2>7. Arrays => Arrays'
    BY <2>1, <2>4, <2>6 DEF Arrays
  <2>8. Structured => Structured'
    BY <2>1, <2>2, <2>5, <2>7 DEF Structured
  <2>9. Pointers => Pointers'
    <3>1. \A j : Cardinality(OpenedBefore(j))' = Cardinality(OpenedBefore(j))
      BY <2>2
    <3> QED
      BY <2>1, <3>1 DEF Pointers
  <2> QED
    BY <2>2, <2>3, <2>4, <2>8, <2>9
<1>1. CASE Refuse
  <2>1. pc' = "refused" /\ UNCHANGED input
    BY <1>1 DEF Refuse
  <2> QED
    BY <1>a, <2>1 DEF CscInv
<1>2. CASE Sort
  <2>1. pc = "check" /\ pc' = "count" /\ UNCHANGED <<input, pos>>
        /\ \A k \in Coo : InRange(k)
    BY <1>2 DEF Sort
  <2>2. Input' /\ Coo' = Coo /\ Kept' = Kept /\ \A k \in Coo : InRange(k)'
    BY <1>a, <2>1 DEF input, Coo, Kept, Keeps, InRange
  <2> DEFINE m == Cardinality(Kept)
  <2>3. m \in Nat
    <3>1. 0 \in Int /\ nnz - 1 \in Int
      BY <1>0 DEF Input
    <3>2. IsFiniteSet(Coo)
      BY <3>1, FS_Interval DEF Coo
    <3>3. Kept \in SUBSET Coo
      BY DEF Kept
    <3> QED
      BY <3>2, <3>3, FS_Subset, FS_CardinalityType
  <2>4. /\ trips' \in [0..(m - 1) -> Kept] /\ len' = m
        /\ \A u, v \in 0..(m - 1) :
              u < v => trips'[u] # trips'[v] /\ ~Earlier(trips'[v], trips'[u])
    BY <1>2 DEF Sort, Kept
  <2>5. \A k, l : Earlier(k, l)' <=> Earlier(k, l)
    BY <2>1 DEF Earlier, Before, input
  <2>6. Sorted'
    <3>1. Cardinality(Kept)' = m
      BY <2>2
    <3>2. \A u, v \in 0..(len' - 1) :
              u < v => trips'[u] # trips'[v] /\ ~Earlier(trips[v], trips[u])'
      <4>1. \A u, v : Earlier(trips[v], trips[u])' <=> Earlier(trips'[v], trips'[u])
        BY <2>1 DEF Earlier, Before, input
      <4> QED
        BY <2>4, <4>1
    <3> HIDE DEF m
    <3> QED
      BY <2>2, <2>3, <2>4, <3>1, <3>2 DEF Sorted
  <2>7. pos' = [k \in Coo |-> -1]' 
    BY <2>1, <2>2 DEF CscInv
  <2> QED
    BY <2>1, <2>2, <2>6, <2>7 DEF CscInv
<1>3. CASE Count
  <2>1. pc = "count" /\ pc' = "place" /\ UNCHANGED input
    BY <1>3 DEF Count
  <2>2. (Sorted /\ Arrays /\ Counting)'
    BY <1>0, <1>3, <2>1, CountStarts DEF CscInv
  <2> QED
    BY <1>a, <2>1, <2>2 DEF CscInv
<1>4. CASE Place
  <2>1. pc = "place" /\ pc' = "place" /\ UNCHANGED <<input, trips, len, nnzCsc, n>>
        /\ at' = at + 1 /\ at < len
    BY <1>4 DEF Place, input
  <2>2. Sorted /\ Arrays /\ Counting
    BY <2>1 DEF CscInv
  <2>3. /\ slot' = Rank(at + 1) - 1
        /\ SlotsIn(at + 1, Ar', pos')
        /\ Ar' \in [0..(Room(nnzCsc) - 1) -> Int]
        /\ pos' \in [Coo -> Int]
    BY <1>0, <1>4, <2>2, PlaceSlots
  <2>4. /\ Ap' \in [0..n -> Int]
        /\ Ap'[0] = 0
        /\ \A j \in 0..(n - 1) : Ap'[j + 1] = Cardinality(OpenedIn(at + 1, j))
    BY <1>0, <1>4, <2>2, PlaceColumns
  <2>5. /\ Sorted'
        /\ \A t : Opened(t)' = Opened(t) /\ Rank(t)' = Rank(t)
        /\ \A t, j : OpenedIn(t, j)' = OpenedIn(t, j)
        /\ \A t, ar, p : SlotsIn(t, ar, p)' <=> SlotsIn(t, ar, p)
    BY <2>1, <2>2, SortStays
  <2>6. Arrays'
    <3>1. nnzCsc' = Rank(len)'
      BY <2>1, <2>2, <2>5 DEF Arrays
    <3>2. Room(nnzCsc)' = Room(nnzCsc) /\ Coo' = Coo
      BY <2>1 DEF Room, Coo, input
    <3> QED
      BY <2>1, <2>3, <2>4, <3>1, <3>2 DEF Arrays
  <2>7. Counting'
    <3>1. Slots(at)'
      BY <2>1, <2>3, <2>5 DEF Slots
    <3>2. slot' = Rank(at)' - 1
      BY <2>1, <2>3, <2>5
    <3>3. \A j : OpenedIn(at, j)' = OpenedIn(at + 1, j)
      BY <2>1, <2>5
    <3>4. \A j \in 0..(n - 1) : Ap'[j + 1] = Cardinality(OpenedIn(at, j)')
      BY <2>4, <3>3
    <3>5. at' \in 0..len' /\ Ap'[0] = 0 /\ n' = n
      BY <2>1, <2>2, <2>4 DEF Counting, Sorted
    <3> QED
      BY <3>1, <3>2, <3>4, <3>5 DEF Counting
  <2> QED
    BY <1>a, <2>1, <2>5, <2>6, <2>7 DEF CscInv
<1>5. CASE Placed
  <2>1. pc = "place" /\ pc' = "sum" /\ at = len /\ at' = 0
        /\ UNCHANGED <<input, built>>
    BY <1>5 DEF Placed
  <2>2. Sorted /\ Arrays /\ Counting
    BY <2>1 DEF CscInv
  <2>3. Structured
    BY <2>1, <2>2 DEF Structured, Counting, Arrays
  <2>4. n' = n /\ Ap' = Ap /\ n \in Nat
    BY <1>0, <2>1 DEF input, built, Input
  <2>5. /\ \A j \in 0..0 : Ap[j] = Cardinality(OpenedBefore(j))
        /\ \A j \in 0..(n - 1) : Ap[j + 1] = Cardinality(OpenedIn(len, j))
    BY <1>0, <2>1, <2>2, ColumnEnds DEF Counting
  <2>6. /\ \A j : Cardinality(OpenedBefore(j))' = Cardinality(OpenedBefore(j))
        /\ \A j : Cardinality(OpenedIn(len, j))' = Cardinality(OpenedIn(len, j))
    BY <1>b, <2>1
  <2>7. Summing'
    BY <2>1, <2>4, <2>5, <2>6 DEF Summing
  <2> QED
    BY <1>a, <1>b, <2>1, <2>3, <2>7 DEF CscInv
<1>6. CASE SumUp
  <2>1. pc = "sum" /\ pc' = "sum" /\ at < n /\ at' = at + 1
        /\ UNCHANGED <<input, trips, len, nnzCsc, slot, Ar, pos, n>>
    BY <1>6 DEF SumUp, input
  <2>2. Structured /\ Sorted /\ Arrays /\ Summing
    BY <2>1 DEF CscInv, Structured
  <2>3. /\ Ap' \in [0..n -> Int]
        /\ \A j \in 0..(at + 1) : Ap'[j] = Cardinality(OpenedBefore(j))
        /\ \A j \in (at + 1)..(n - 1) : Ap'[j + 1] = Cardinality(OpenedIn(len, j))
    BY <1>0, <1>6, <2>2, SumUpColumns
  <2>4. /\ Sorted'
        /\ \A t : Opened(t)' = Opened(t) /\ Rank(t)' = Rank(t)
        /\ \A t, j : OpenedIn(t, j)' = OpenedIn(t, j)
        /\ \A j : OpenedBefore(j)' = OpenedBefore(j)
        /\ \A t, ar, p : SlotsIn(t, ar, p)' <=> SlotsIn(t, ar, p)
    BY <2>1, <2>2, SortStays
  <2>5. Structured'
    <3>1. nnzCsc' = Rank(len)'
      BY <2>1, <2>2, <2>4 DEF Arrays
    <3>2. Room(nnzCsc)' = Room(nnzCsc) /\ Coo' = Coo
      BY <2>1 DEF Room, Coo, input
    <3>3. Arrays'
      BY <2>1, <2>2, <2>3, <3>1, <3>2 DEF Arrays
    <3>4. Slots(len)'
      BY <2>1, <2>2, <2>4 DEF Slots, Structured
    <3>5. slot' = nnzCsc' - 1
      BY <2>1, <2>2 DEF Structured
    <3> QED
      BY <2>4, <3>3, <3>4, <3>5 DEF Structured
  <2>6. /\ \A j : Cardinality(OpenedBefore(j))' = Cardinality(OpenedBefore(j))
        /\ \A j : Cardinality(OpenedIn(len, j))' = Cardinality(OpenedIn(len, j))
    BY <2>1, <2>4
  <2>7. at' \in 0..n
    BY <1>0, <2>1, <2>2 DEF Summing, Input
  <2>8. Summing'
    BY <2>1, <2>3, <2>6, <2>7 DEF Summing
  <2> QED
    BY <1>a, <2>1, <2>5, <2>8 DEF CscInv
<1>7. CASE Summed
  <2>1. pc = "sum" /\ pc' = "ready" /\ at = n /\ UNCHANGED <<input, built>>
    BY <1>7 DEF Summed
  <2>2. Structured /\ Pointers
    BY <2>1 DEF CscInv, Summing, Pointers
  <2> QED
    BY <1>a, <1>b, <2>1, <2>2 DEF CscInv
<1>8. CASE Load
  <2>1. pc \in {"ready", "loaded"} /\ pc' = "scatter" /\ at' = 0
        /\ UNCHANGED <<input, built, nnz, nnzCsc, pos>>
        /\ Ax' \in [Coo -> Entries] /\ x' = [i \in 0..(Room(nnzCsc) - 1) |-> 0]
    BY <1>8 DEF Load, Zeros, input, built
  <2>2. Structured /\ Pointers
    BY <2>1 DEF CscInv
  <2>3. Ax' \in [Coo -> Int] /\ x' \in [0..(Room(nnzCsc) - 1) -> Int]
    <3>1. Ax' \in [Coo -> Int]
      BY <2>1, CooAssumption
    <3> QED
      BY <2>1, <3>1
  <2>4. nnzCsc \in Nat
    BY <2>2, RankSteps DEF Structured, Sorted, Arrays
  <2>5. \A s \in 0..(nnzCsc - 1) : x'[s] = 0
    BY <2>1, <2>4 DEF Room
  <2>6. \A s : {k \in 0..(0 - 1) : pos[k] = s} = {}
    OBVIOUS
  <2>7. \A s \in 0..(nnzCsc - 1) : x'[s] = Sum(Ax', {k \in 0..(0 - 1) : pos[k] = s})
    BY <2>5, <2>6, SumOfFew
  <2>8. Room(nnzCsc)' = Room(nnzCsc) /\ Coo' = Coo
    BY <1>b, <2>1
  <2>10. Partial(at)'
    BY <2>1, <2>3, <2>7, <2>8, SumStays DEF Partial
  <2>11. at' \in 0..nnz'
    BY <1>0, <2>1 DEF Input
  <2> QED
    BY <1>a, <1>b, <2>1, <2>2, <2>10, <2>11 DEF CscInv
<1>9. CASE Scatter
  <2>1. pc = "scatter" /\ pc' = "scatter" /\ at' = at + 1 /\ at < nnz
        /\ UNCHANGED <<input, built, nnz, nnzCsc, pos, Ax>>
    BY <1>9 DEF Scatter, input, built
  <2>2. Structured /\ Pointers /\ at \in 0..nnz /\ Partial(at)
    BY <2>1 DEF CscInv
  <2>3. /\ x' \in [0..(Room(nnzCsc) - 1) -> Int]
        /\ \A s \in 0..(nnzCsc - 1) :
             x'[s] = Sum(Ax, {k \in 0..((at + 1) - 1) : pos[k] = s})
    BY <1>0, <1>9, <2>2, ScatterSums
  <2>4. Room(nnzCsc)' = Room(nnzCsc) /\ Coo' = Coo
    BY <1>b, <2>1
  <2>5. Partial(at)'
    BY <2>1, <2>2, <2>3, <2>4, SumStays DEF Partial
  <2>6. at' \in 0..nnz'
    BY <1>0, <2>1, <2>2 DEF Input
  <2> QED
    BY <1>a, <1>b, <2>1, <2>2, <2>5, <2>6 DEF CscInv
<1>10. CASE Scattered
  <2>1. pc = "scatter" /\ pc' = "loaded" /\ at = nnz
        /\ UNCHANGED <<input, built, nnz, nnzCsc, pos, Ax, x>>
    BY <1>10 DEF Scattered, input, built
  <2>2. Structured /\ Pointers /\ Partial(nnz)
    BY <2>1 DEF CscInv
  <2>3. Room(nnzCsc)' = Room(nnzCsc) /\ Coo' = Coo
    BY <1>b, <2>1
  <2>4. Partial(nnz)'
    BY <2>1, <2>2, <2>3, SumStays DEF Partial
  <2> QED
    BY <1>a, <1>b, <2>1, <2>2, <2>4 DEF CscInv
<1>11. CASE UNCHANGED vars
  <2>1. UNCHANGED <<input, built, pc, at, Ax, x, n, nnz, kind, trips, len, nnzCsc,
                    slot, Ap, Ar, pos>>
    BY <1>11 DEF vars, input, built
  <2>2. Input'
    BY <1>0, <1>a, <2>1 DEF Input
  <2>3. Coo' = Coo /\ Room(nnzCsc)' = Room(nnzCsc)
    BY <1>b, <2>1
  <2>4. /\ Sorted => Sorted'
        /\ \A t : Opened(t)' = Opened(t) /\ Rank(t)' = Rank(t)
        /\ \A t, j : OpenedIn(t, j)' = OpenedIn(t, j)
        /\ \A j : OpenedBefore(j)' = OpenedBefore(j)
        /\ \A t, ar, p : SlotsIn(t, ar, p)' <=> SlotsIn(t, ar, p)
    BY <2>1, SortStays
  <2>5. Arrays => Arrays'
    <3>1. Rank(len)' = Rank(len)
      BY <2>1, <2>4
    <3> QED
      BY <2>1, <2>3, <3>1 DEF Arrays
  <2>6. Counting => Counting'
    <3>1. Slots(at) => Slots(at)'
      BY <2>1, <2>4 DEF Slots
    <3>2. Rank(at)' = Rank(at)
      BY <2>1, <2>4
    <3>3. \A j : Cardinality(OpenedIn(at, j))' = Cardinality(OpenedIn(at, j))
      BY <2>1, <2>4
    <3> QED
      BY <2>1, <3>1, <3>2, <3>3 DEF Counting
  <2>7. Summing => Summing'
    <3>1. /\ \A j : Cardinality(OpenedBefore(j))' = Cardinality(OpenedBefore(j))
          /\ \A j : Cardinality(OpenedIn(len, j))' = Cardinality(OpenedIn(len, j))
      BY <2>1, <2>4
    <3> QED
      BY <2>1, <3>1 DEF Summing
  <2>8. (Partial(at) => Partial(at)') /\ (Partial(nnz) => Partial(nnz)')
    BY <2>1, <2>3, SumStays DEF Partial
  <2> QED
    BY <1>b, <2>1, <2>2, <2>3, <2>4, <2>5, <2>6, <2>7, <2>8 DEF CscInv
<1> QED
  BY <1>1, <1>2, <1>3, <1>4, <1>5, <1>6, <1>7, <1>8, <1>9, <1>10, <1>11 DEF Next

\* So it is an invariant.
LEMMA CscInvariant == Spec => []CscInv
  BY InitCsc, NextCsc, PTL DEF Spec

-----------------------------------------------------------------------------
\* A slot between two column pointers was opened by an entry of that column,
\* whose row it has.
LEMMA SlotOpener ==
  ASSUME Input, Structured, Pointers,
         NEW j \in 0..(n - 1), NEW s \in Ap[j]..(Ap[j + 1] - 1)
  PROVE  \E u \in Opened(len) :
            Rank(u) = s /\ Aj[trips[u]] = j /\ Ar[s] = Ai[trips[u]]
<1>1. len \in Nat /\ n \in Nat /\ Sorted /\ nnzCsc = Rank(len)
  BY DEF Structured, Sorted, Arrays, Input
<1>2. j \in 0..n /\ j + 1 \in 0..n
  BY <1>1
<1>3. Ap[j] = Cardinality(OpenedBefore(j)) /\ Ap[j + 1] = Cardinality(OpenedBefore(j + 1))
  BY <1>2 DEF Pointers
<1>4. Ap[j] \in Nat /\ Ap[j + 1] \in Int /\ Ap[j + 1] <= Rank(len) /\ Rank(len) \in Nat
  <2>1. OpenedBefore(j + 1) \in SUBSET Opened(len)
    BY DEF OpenedBefore
  <2>2. IsFiniteSet(Opened(len)) /\ Rank(len) \in Nat
    BY <1>1, RankSteps
  <2>3. Cardinality(OpenedBefore(j + 1)) <= Rank(len)
    BY <2>1, <2>2, FS_Subset DEF Rank
  <2>4. IsFiniteSet(OpenedBefore(j + 1))
    BY <2>1, <2>2, FS_Subset
  <2>5. Cardinality(OpenedBefore(j + 1)) \in Nat
    BY <2>4, FS_CardinalityType
  <2>6. Cardinality(OpenedBefore(j)) \in Nat
    BY <1>1, ColumnsAdd
  <2> QED
    BY <1>3, <2>2, <2>3, <2>5, <2>6
<1>5. s \in 0..(Rank(len) - 1) /\ Ap[j] <= s /\ s < Ap[j + 1]
  BY <1>4
<1>6. PICK u \in Opened(len) : Rank(u) = s
  BY <1>5 DEF Structured, Slots, SlotsIn
<1>7. Ar[s] = Ai[trips[u]]
  BY <1>6 DEF Structured, Slots, SlotsIn
<1>8. Aj[trips[u]] = j
  BY <1>1, <1>3, <1>5, <1>6, OpenedInColumn
<1> QED
  BY <1>6, <1>7, <1>8

\* What is built is sorted and packed, and nothing is written outside of it.
THEOREM PackedMatrix == Spec => []SortedAndPacked
<1>1. CscInv => SortedAndPacked
  <2> SUFFICES ASSUME CscInv PROVE SortedAndPacked
    OBVIOUS
  <2>0. Input
    BY DEF CscInv
  <2>1. ASSUME pc \in {"place", "sum"} PROVE slot < nnzCsc
    <3>1. CASE pc = "place"
      <4>1. Sorted /\ Arrays /\ Counting
        BY <3>1 DEF CscInv
      <4>2. len \in Nat /\ at \in Nat /\ at <= len
        BY <4>1 DEF Sorted, Counting
      <4>3. Rank(at) <= Rank(len)
        BY <4>2, RankRises
      <4>4. Rank(at) \in Nat /\ Rank(len) \in Nat
        BY <4>2, RankSteps
      <4> QED
        BY <4>1, <4>3, <4>4 DEF Arrays, Counting
    <3>2. CASE pc = "sum"
      <4>1. Sorted /\ Arrays /\ slot = nnzCsc - 1
        BY <3>2 DEF CscInv, Structured
      <4>2. nnzCsc \in Nat
        BY <4>1, RankSteps DEF Sorted, Arrays
      <4> QED
        BY <4>1, <4>2
    <3> QED
      BY <2>1, <3>1, <3>2
  <2>2. ASSUME pc \in {"ready", "scatter", "loaded"}
        PROVE  /\ Ap[0] = 0
               /\ Ap[n] = nnzCsc
               /\ \A j \in 0..(n - 1) :
                    /\ Ap[j] <= Ap[j + 1]
                    /\ \A s \in Ap[j]..(Ap[j + 1] - 1) :
                         /\ Ar[s] \in 0..(n - 1)
                         /\ kind = "upper" => Ar[s] <= j
                         /\ s > Ap[j] => Ar[s - 1] < Ar[s]
    <3>1. Structured /\ Pointers /\ Sorted /\ Arrays /\ n \in Nat /\ len \in Nat
      BY <2>0, <2>2 DEF CscInv, Structured, Input, Sorted
    <3>2. Ap[0] = 0 /\ Ap[n] = nnzCsc
      <4>1. 0 \in 0..n /\ n \in 0..n
        BY <3>1
      <4> QED
        BY <2>0, <3>1, <4>1, ColumnEnds DEF Pointers, Arrays
    <3>3. ASSUME NEW j \in 0..(n - 1)
          PROVE  Ap[j] <= Ap[j + 1]
      <4>1. j \in 0..n /\ j + 1 \in 0..n
        BY <3>1
      <4>2. Ap[j] = Cardinality(OpenedBefore(j))
            /\ Ap[j + 1] = Cardinality(OpenedBefore(j + 1))
        BY <3>1, <4>1 DEF Pointers
      <4>3. /\ Cardinality(OpenedBefore(j)) \in Nat
            /\ Cardinality(OpenedIn(len, j)) \in Nat
            /\ Cardinality(OpenedBefore(j + 1))
                 = Cardinality(OpenedIn(len, j)) + Cardinality(OpenedBefore(j))
        BY <2>0, <3>1, ColumnsAdd
      <4> DEFINE before == Cardinality(OpenedBefore(j))
                 in == Cardinality(OpenedIn(len, j))
      <4>4. Ap[j] = before /\ Ap[j + 1] = in + before
        BY <4>2, <4>3
      <4>5. in \in Nat /\ before \in Nat
        BY <4>3
      <4> HIDE DEF before, in
      <4> QED
        BY <4>4, <4>5
    <3>4. ASSUME NEW j \in 0..(n - 1), NEW s \in Ap[j]..(Ap[j + 1] - 1)
          PROVE  /\ Ar[s] \in 0..(n - 1)
                 /\ kind = "upper" => Ar[s] <= j
                 /\ s > Ap[j] => Ar[s - 1] < Ar[s]
      <4>1. PICK u \in Opened(len) :
              Rank(u) = s /\ Aj[trips[u]] = j /\ Ar[s] = Ai[trips[u]]
        BY <2>0, <3>1, SlotOpener
      <4>2. u \in 0..(len - 1) /\ Opens(u)
        BY DEF Opened
      <4>3. Ai[trips[u]] \in 0..(n - 1) /\ (kind = "upper" => Ai[trips[u]] <= j)
        BY <2>0, <3>1, <4>1, <4>2, SortedEntries
      <4>4. ASSUME s > Ap[j] PROVE Ar[s - 1] < Ar[s]
        <5>1. Ap[j] \in Int /\ Ap[j + 1] \in Int
          BY <3>1 DEF Arrays
        <5>2. s - 1 \in Ap[j]..(Ap[j + 1] - 1)
          BY <4>4, <5>1
        <5>3. PICK v \in Opened(len) :
                Rank(v) = s - 1 /\ Aj[trips[v]] = j /\ Ar[s - 1] = Ai[trips[v]]
          BY <2>0, <3>1, <5>2, SlotOpener
        <5>4. v \in 0..(len - 1)
          BY DEF Opened
        <5>5. v < u
          <6>1. u < v => Rank(u) < Rank(v)
            BY <3>1, RankOrders
          <6>2. Rank(u) = s /\ Rank(v) = s - 1 /\ s \in Int
            BY <4>1, <5>1, <5>3
          <6> QED
            BY <3>1, <4>2, <5>4, <6>1, <6>2
        <5>6. Earlier(trips[v], trips[u])
          BY <2>0, <3>1, <4>2, <5>4, <5>5, OpenersRise
        <5>7. j \in Int
          OBVIOUS
        <5> QED
          BY <4>1, <5>3, <5>6, <5>7 DEF Earlier, Before
      <4> QED
        BY <4>1, <4>3, <4>4
    <3> QED
      BY <3>2, <3>3, <3>4
  <2> QED
    BY <2>1, <2>2 DEF SortedAndPacked
<1> QED
  BY <1>1, CscInvariant, PTL

\* The entries of one element share a slot, which no other entry has.
LEMMA OneSlot ==
  ASSUME Input, Structured, Pointers, NEW i \in 0..(n - 1), NEW j \in 0..(n - 1),
         NEW k \in Kept, Ai[k] = i, Aj[k] = j
  PROVE  /\ pos[k] \in 0..(nnzCsc - 1)
         /\ {s \in Ap[j]..(Ap[j + 1] - 1) : Ar[s] = i} = {pos[k]}
         /\ {l \in Coo : Ai[l] = i /\ Aj[l] = j /\ Keeps(l)}
              = {l \in Coo : pos[l] = pos[k]}
<1>1. Sorted /\ Arrays /\ len \in Nat /\ n \in Nat /\ nnzCsc = Rank(len)
  BY DEF Structured, Sorted, Arrays, Input
\* The position that opened the slot of an entry at position u.
<1>2. ASSUME NEW u \in 0..(len - 1)
      PROVE  \E v \in Opened(len) : Rank(v) = pos[trips[u]] /\ Same(trips[v], trips[u])
  <2>1. PICK v \in Opened(u + 1) : Rank(v) = Rank(u + 1) - 1 /\ Same(trips[v], trips[u])
    BY DEF Structured, Slots, SlotsIn
  <2>2. pos[trips[u]] = Rank(u + 1) - 1
    BY DEF Structured, Slots, SlotsIn
  <2>3. u + 1 \in Nat /\ u + 1 <= len
    BY <1>1
  <2>4. v \in Opened(len)
    BY <1>1, <2>3, RankRises
  <2> QED
    BY <2>1, <2>2, <2>4
<1>3. PICK u0 \in 0..(len - 1) : trips[u0] = k
  BY <1>1, AllSorted
<1>4. PICK v0 \in Opened(len) : Rank(v0) = pos[k] /\ Same(trips[v0], k)
  BY <1>2, <1>3
<1>5. Ai[trips[v0]] = i /\ Aj[trips[v0]] = j
  BY <1>4 DEF Same
\* No other position opens a slot for this element.
<1>6. ASSUME NEW v \in Opened(len), Ai[trips[v]] = i, Aj[trips[v]] = j
      PROVE  v = v0
  <2>1. v \in 0..(len - 1) /\ v0 \in 0..(len - 1) /\ Opens(v) /\ Opens(v0)
    BY DEF Opened
  <2>2. ~Earlier(trips[v], trips[v0]) /\ ~Earlier(trips[v0], trips[v])
    BY <1>5, <1>6 DEF Earlier, Before
  <2>3. ~(v < v0) /\ ~(v0 < v)
    BY <1>1, <2>1, <2>2, OpenersRise
  <2> QED
    BY <1>1, <2>1, <2>3
<1>7. pos[k] \in 0..(nnzCsc - 1)
  <2>1. Rank(v0) < Rank(len) /\ v0 \in Nat
    BY <1>1, RankRises
  <2>2. Rank(v0) \in Nat /\ Rank(len) \in Nat
    BY <1>1, <2>1, RankSteps
  <2> QED
    BY <1>1, <1>4, <2>1, <2>2
<1>8. {s \in Ap[j]..(Ap[j + 1] - 1) : Ar[s] = i} = {pos[k]}
  <2>1. pos[k] \in Ap[j]..(Ap[j + 1] - 1) /\ Ar[pos[k]] = i
    <3>1. Ar[Rank(v0)] = Ai[trips[v0]]
      BY DEF Structured, Slots, SlotsIn
    <3>2. Cardinality(OpenedBefore(j)) <= Rank(v0)
          /\ Rank(v0) < Cardinality(OpenedBefore(j + 1))
      BY <1>1, <1>5, OpenedInColumn
    <3>3. j \in 0..n /\ j + 1 \in 0..n
      BY <1>1
    <3>4. Ap[j] <= pos[k] /\ pos[k] < Ap[j + 1]
      BY <1>4, <3>2, <3>3 DEF Pointers
    <3>5. Ap[j] \in Int /\ Ap[j + 1] \in Int /\ pos[k] \in Int
      BY <1>1, <1>7, <3>3 DEF Arrays
    <3> QED
      BY <1>4, <1>5, <3>1, <3>4, <3>5
  <2>2. ASSUME NEW s \in Ap[j]..(Ap[j + 1] - 1), Ar[s] = i
        PROVE  s = pos[k]
    <3>1. PICK v \in Opened(len) :
            Rank(v) = s /\ Aj[trips[v]] = j /\ Ar[s] = Ai[trips[v]]
      BY SlotOpener
    <3> QED
      BY <1>4, <1>6, <2>2, <3>1
  <2> QED
    BY <2>1, <2>2
<1>9. ASSUME NEW l \in Coo, Ai[l] = i, Aj[l] = j, Keeps(l)
      PROVE  pos[l] = pos[k]
  <2>1. PICK u \in 0..(len - 1) : trips[u] = l
    BY <1>1, <1>9, AllSorted DEF Kept
  <2>2. PICK v \in Opened(len) : Rank(v) = pos[l] /\ Same(trips[v], l)
    BY <1>2, <2>1
  <2>3. v = v0
    BY <1>6, <1>9, <2>2 DEF Same
  <2> QED
    BY <1>4, <2>2, <2>3
<1>10. ASSUME NEW l \in Coo, pos[l] = pos[k]
       PROVE  Ai[l] = i /\ Aj[l] = j /\ Keeps(l)
  <2>1. pos[l] # -1
    BY <1>1, <1>7, <1>10 DEF Arrays
  <2>2. PICK u \in 0..(len - 1) : trips[u] = l
    BY <2>1 DEF Structured, Slots, SlotsIn
  <2>3. PICK v \in Opened(len) : Rank(v) = pos[l] /\ Same(trips[v], l)
    BY <1>2, <2>2
  <2>4. v = v0
    BY <1>1, <1>4, <1>10, <2>3, RankOrders
  <2>5. Keeps(l)
    BY <1>1, <2>2, SortedEntries DEF Kept
  <2> QED
    BY <1>5, <2>3, <2>4, <2>5 DEF Same
<1>11. {l \in Coo : Ai[l] = i /\ Aj[l] = j /\ Keeps(l)} = {l \in Coo : pos[l] = pos[k]}
  BY <1>9, <1>10
<1> QED
  BY <1>7, <1>8, <1>11

\* What the library factors is the matrix of the entries, duplicates summed, for
\* every pattern and all values.
THEOREM EntriesSummed == Spec => []MatrixIsSumOfEntries
<1>1. CscInv => MatrixIsSumOfEntries
  <2> SUFFICES ASSUME CscInv, pc = "loaded",
                      NEW i \in 0..(n - 1), NEW j \in 0..(n - 1)
               PROVE  Sum(x, {s \in Ap[j]..(Ap[j + 1] - 1) : Ar[s] = i})
                        = Sum(Ax, {k \in Coo : Ai[k] = i /\ Aj[k] = j /\ Keeps(k)})
    BY DEF MatrixIsSumOfEntries, Sum
  <2> DEFINE here == {s \in Ap[j]..(Ap[j + 1] - 1) : Ar[s] = i}
             coo == {k \in Coo : Ai[k] = i /\ Aj[k] = j /\ Keeps(k)}
  <2>1. Input /\ Structured /\ Pointers /\ Partial(nnz)
    BY DEF CscInv
  <2>2. CASE coo = {}
    <3>1. here = {}
      <4> SUFFICES ASSUME NEW s \in Ap[j]..(Ap[j + 1] - 1), Ar[s] = i
                   PROVE  FALSE
        OBVIOUS
      <4>1. PICK u \in Opened(len) :
              Rank(u) = s /\ Aj[trips[u]] = j /\ Ar[s] = Ai[trips[u]]
        BY <2>1, SlotOpener
      <4>2. u \in 0..(len - 1) /\ Sorted
        BY <2>1 DEF Opened, Structured
      <4>3. trips[u] \in Coo /\ Keeps(trips[u])
        BY <2>1, <4>2, SortedEntries DEF Kept
      <4> QED
        BY <2>2, <4>1, <4>3
    <3> HIDE DEF here, coo
    <3>2. Sum(x, here) = Sum(x, {}) /\ Sum(Ax, coo) = Sum(Ax, {})
      BY <2>2, <3>1
    <3>3. Sum(x, {}) = 0 /\ Sum(Ax, {}) = 0
      BY SumOfFew
    <3>4. Sum(x, here) = Sum(Ax, coo)
      BY <3>2, <3>3
    <3> QED
      BY <3>4 DEF here, coo
  <2>3. CASE coo # {}
    <3>1. PICK k \in coo : TRUE
      BY <2>3
    <3>2. k \in Kept /\ Ai[k] = i /\ Aj[k] = j
      BY DEF Kept
    <3>3. /\ pos[k] \in 0..(nnzCsc - 1)
          /\ here = {pos[k]}
          /\ coo = {l \in Coo : pos[l] = pos[k]}
      BY <2>1, <3>2, OneSlot
    <3>4. x[pos[k]] = Sum(Ax, {l \in Coo : pos[l] = pos[k]})
      BY <2>1, <3>3 DEF Partial, Coo
    <3>5. x[pos[k]] \in Int
      <4>1. nnzCsc \in Nat
        BY <2>1, RankSteps DEF Structured, Sorted, Arrays
      <4>2. pos[k] \in 0..(Room(nnzCsc) - 1)
        BY <3>3, <4>1 DEF Room
      <4> QED
        BY <2>1, <4>2 DEF Partial
    <3>6. Sum(x, {pos[k]}) = x[pos[k]]
      BY <3>5, SumOfFew
    <3> HIDE DEF here, coo
    <3>7. Sum(x, here) = Sum(Ax, coo)
      BY <3>3, <3>4, <3>6
    <3> QED
      BY <3>7 DEF here, coo
  <2> QED
    BY <2>2, <2>3
<1> QED
  BY <1>1, CscInvariant, PTL
=============================================================================
