------------------------------- MODULE CooCsc -------------------------------
(***************************************************************************)
(* How a backend turns the COO entries of a call into the compressed       *)
(* columns its library factors: the structure once per pattern             *)
(* (build_csc_from_coo for KLU and UMFPACK, chol_create_pattern_locked for *)
(* CHOLMOD, which keeps the upper triangle only), and the values again for *)
(* every factorization, scattered through pos into a buffer the thread     *)
(* keeps.  Duplicate entries are summed.                                   *)
(*                                                                         *)
(* Arrays count from 0, as in the code.  Values are integers: only sums of *)
(* them are formed here.                                                   *)
(***************************************************************************)
EXTENDS Integers, FiniteSets, FiniteSetsExt

CONSTANTS
  Dims,     \* matrix dimensions a call may pass
  Indices,  \* row and column indices it may pass, good or bad
  MaxNnz,   \* bound: entries of a pattern
  Entries,  \* values an entry may have
  Kinds     \* "full" (KLU and UMFPACK) or "upper" (CHOLMOD)

ASSUME CooAssumption ==
  /\ Dims \subseteq Nat
  /\ Indices \subseteq Int
  /\ MaxNnz \in Nat
  /\ Entries \subseteq Int
  /\ Kinds \subseteq {"full", "upper"}

VARIABLES
  n, nnz, Ai, Aj,  \* the pattern of the call
  kind,            \* what its backend keeps
  pc,
  trips,           \* the entries kept, sorted: position -> COO entry
  len,             \* how many they are
  nnzCsc,          \* nnz_csc
  at,              \* the loop variable: t, j or k
  slot,
  Ap, Ar,          \* column pointers and row indices (Ci for KLU, UMFPACK)
  pos,             \* COO entry -> CSC slot
  Ax, x            \* the values of a call, and the thread's buffer

input == <<n, nnz, Ai, Aj, kind>>
built == <<trips, len, nnzCsc, slot, Ap, Ar, pos>>
vars == <<input, pc, built, at, Ax, x>>

Coo == 0..(nnz - 1)

\* A (row, column) pair goes before another in column order.
Before(i, j, i2, j2) == j < j2 \/ (j = j2 /\ i < i2)

\* [mutant of Earlier] entries are sorted by row
EarlierByRow(k, l) == Before(Aj[k], Ai[k], Aj[l], Ai[l])

\* std::sort's comparison.
Earlier(k, l) == Before(Ai[k], Aj[k], Ai[l], Aj[l])

Keeps(k) == kind = "full" \/ Ai[k] <= Aj[k]

InRange(k) == Ai[k] >= 0 /\ Ai[k] < n /\ Aj[k] >= 0 /\ Aj[k] < n

\* The entry at position u is not a duplicate of the one before it.
Opens(u) ==
  u > 0 => \/ Ai[trips[u]] # Ai[trips[u - 1]]
           \/ Aj[trips[u]] # Aj[trips[u - 1]]

Zeros(size) == [i \in 0..(size - 1) |-> 0]
Room(size) == IF size > 0 THEN size ELSE 1

Init ==
  /\ n \in Dims
  /\ nnz \in 0..MaxNnz
  /\ Ai \in [Coo -> Indices]
  /\ Aj \in [Coo -> Indices]
  /\ kind \in Kinds
  /\ pc = "check"
  /\ trips = Zeros(0)
  /\ len = 0
  /\ nnzCsc = 0
  /\ at = 0
  /\ slot = -1
  /\ Ap = Zeros(0)
  /\ Ar = Zeros(0)
  /\ pos = [k \in Coo |-> -1]
  /\ Ax = Zeros(0)
  /\ x = Zeros(0)

-----------------------------------------------------------------------------
(* The structure, under the registry's lock.                               *)

Refuse ==
  /\ pc = "check"
  /\ \E k \in Coo : ~InRange(k)
  /\ pc' = "refused"
  /\ UNCHANGED <<input, built, at, Ax, x>>

\* Entries with the same row and column stay in any order: the sort is not
\* stable, and the comparison does not look at k.
Sort ==
  LET kept == {k \in Coo : Keeps(k)}
      m == Cardinality(kept)
  IN /\ pc = "check"
     /\ \A k \in Coo : InRange(k)
     /\ \E s \in [0..(m - 1) -> kept] :
          /\ \A u, v \in 0..(m - 1) :
               u < v => s[u] # s[v] /\ ~Earlier(s[v], s[u])
          /\ trips' = s
     /\ len' = m
     /\ pc' = "count"
     /\ UNCHANGED <<input, nnzCsc, at, slot, Ap, Ar, pos, Ax, x>>

\* The first pass counts the slots, and the arrays are made to fit.
Count ==
  /\ pc = "count"
  /\ nnzCsc' = Cardinality({u \in 0..(len - 1) : Opens(u)})
  /\ Ap' = Zeros(n + 1)
  /\ Ar' = Zeros(Room(nnzCsc'))
  /\ slot' = -1
  /\ at' = 0
  /\ pc' = "place"
  /\ UNCHANGED <<input, trips, len, pos, Ax, x>>

\* The second pass: a slot for each run of duplicates, counted in its column.
Place ==
  LET k == trips[at]
  IN /\ pc = "place"
     /\ at < len
     /\ \/ /\ Opens(at)
           /\ slot' = slot + 1
           /\ Ar' = [Ar EXCEPT ![slot + 1] = Ai[k]]
           /\ Ap' = [Ap EXCEPT ![Aj[k] + 1] = @ + 1]
        \/ /\ ~Opens(at)
           /\ UNCHANGED <<slot, Ar, Ap>>
     /\ pos' = [pos EXCEPT ![k] = slot']
     /\ at' = at + 1
     /\ UNCHANGED <<input, pc, trips, len, nnzCsc, Ax, x>>

Placed ==
  /\ pc = "place"
  /\ at = len
  /\ at' = 0
  /\ pc' = "sum"
  /\ UNCHANGED <<input, built, Ax, x>>

\* The counts become column pointers.
SumUp ==
  /\ pc = "sum"
  /\ at < n
  /\ Ap' = [Ap EXCEPT ![at + 1] = @ + Ap[at]]
  /\ at' = at + 1
  /\ UNCHANGED <<input, pc, trips, len, nnzCsc, slot, Ar, pos, Ax, x>>

Summed ==
  /\ pc = "sum"
  /\ at = n
  /\ at' = 0
  /\ pc' = "ready"
  /\ UNCHANGED <<input, built, Ax, x>>

-----------------------------------------------------------------------------
(* The values, for every factorization that misses the cache.              *)

\* [mutant of Load] the buffer keeps what the last factorization left in it
LoadOver ==
  /\ pc \in {"ready", "loaded"}
  /\ Ax' \in [Coo -> Entries]
  /\ x' = IF pc = "loaded" THEN x ELSE Zeros(Room(nnzCsc))
  /\ at' = 0
  /\ pc' = "scatter"
  /\ UNCHANGED <<input, built>>

Load ==
  /\ pc \in {"ready", "loaded"}
  /\ Ax' \in [Coo -> Entries]
  /\ x' = Zeros(Room(nnzCsc))
  /\ at' = 0
  /\ pc' = "scatter"
  /\ UNCHANGED <<input, built>>

Scatter ==
  /\ pc = "scatter"
  /\ at < nnz
  /\ x' = IF pos[at] >= 0 THEN [x EXCEPT ![pos[at]] = @ + Ax[at]] ELSE x
  /\ at' = at + 1
  /\ UNCHANGED <<input, pc, built, Ax>>

Scattered ==
  /\ pc = "scatter"
  /\ at = nnz
  /\ pc' = "loaded"
  /\ at' = 0
  /\ UNCHANGED <<input, built, Ax, x>>

Next ==
  \/ Refuse \/ Sort \/ Count \/ Place \/ Placed \/ SumUp \/ Summed
  \/ Load \/ Scatter \/ Scattered

Spec == Init /\ [][Next]_vars

-----------------------------------------------------------------------------
TypeOK ==
  /\ n \in Nat
  /\ nnz \in Nat
  /\ Ai \in [Coo -> Int]
  /\ Aj \in [Coo -> Int]
  /\ kind \in {"full", "upper"}
  /\ pc \in {"check", "refused", "count", "place", "sum", "ready", "scatter",
             "loaded"}
  /\ len \in Nat
  /\ trips \in [0..(len - 1) -> Coo]
  /\ nnzCsc \in Nat
  /\ at \in Nat
  /\ slot \in Int
  /\ pos \in [Coo -> Int]

\* The libraries are told that the matrix is sorted and packed
\* (chol_upper_view): column pointers from 0 to nnz_csc, and row indices that
\* rise within a column, up to the diagonal in an upper triangle -- and the
\* second pass, whose index nothing checks, writes to no slot the first did not
\* count.
SortedAndPacked ==
  /\ pc \in {"place", "sum"} => slot < nnzCsc
  /\ pc \in {"ready", "scatter", "loaded"} =>
      /\ Ap[0] = 0
      /\ Ap[n] = nnzCsc
      /\ \A j \in 0..(n - 1) :
           /\ Ap[j] <= Ap[j + 1]
           /\ \A s \in Ap[j]..(Ap[j + 1] - 1) :
                /\ Ar[s] \in 0..(n - 1)
                /\ kind = "upper" => Ar[s] <= j
                /\ s > Ap[j] => Ar[s - 1] < Ar[s]

\* What the library factors is the matrix of the COO entries: each element the
\* sum of its duplicates, zero where there is none, whatever the buffer was
\* used for before.
MatrixIsSumOfEntries ==
  pc = "loaded" =>
    \A i, j \in 0..(n - 1) :
      LET here == {s \in Ap[j]..(Ap[j + 1] - 1) : Ar[s] = i}
          coo == {k \in Coo : Ai[k] = i /\ Aj[k] = j /\ Keeps(k)}
      IN MapThenSumSet(LAMBDA s : x[s], here) = MapThenSumSet(LAMBDA k : Ax[k], coo)
=============================================================================
