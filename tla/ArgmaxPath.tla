----------------------------- MODULE ArgmaxPath -----------------------------
(***************************************************************************)
(* The argmax log-probability: how path_logprob builds, from the LDL'      *)
(* factor of A, the triangular factor of the precision of the differences  *)
(* that the chosen alternative wins by, draws one variable after the       *)
(* other, and goes back through the draws for the gradient; path after     *)
(* path, in the work arrays of one thread.                                 *)
(*                                                                         *)
(* Numbers are those of PrimeField, so that the algebra is exact.  There   *)
(* is one draw (R = 1), and what it does to its bound, which the code      *)
(* computes from a uniform number, is a line:                              *)
(* z = z0 + dz b, and ml b is added to logw.  The gradient depends on the  *)
(* normal distribution through the slopes dz and ml alone, and these are   *)
(* left open.                                                              *)
(*                                                                         *)
(* A position 0..n-1 is a row of the permuted matrix.  The code keeps      *)
(* arrays for positions (eN, w, Gd) and for competitors (eC, wC, GdC);     *)
(* here competitor slot a is variable n + a of the same arrays, so that    *)
(* variables are eliminated in ascending order and drawn in descending     *)
(* order.                                                                  *)
(***************************************************************************)
EXTENDS PrimeField

CONSTANTS
  n,
  Coos,      \* A's entries: sequences of [i, j, x]
  Perms,     \* position -> original index
  Inputs,    \* rows of chosen and competitors: [chosen, comp]
  NumPaths, Mean,
  Draws,     \* what a draw may be: [z0, dz, ml]
  None, NaN

Index == 0..(n - 1)
Paths == 1..NumPaths

\* What the code checks of its arguments, or CHOLMOD gives it; an instance
\* assumes it.
ArgmaxAssumption ==
  /\ n \in Nat \ {0, 1} /\ NumPaths \in Nat \ {0}
  /\ \A coo \in Coos : \A e \in Range(coo) : e.i \in Index /\ e.j \in Index
  /\ \A input \in Inputs : input.chosen \in Int /\ input.comp \in Seq(Int)
  /\ Mean \in [Paths -> [Index -> Field]]

VARIABLES
  coo, Perm, input,      \* the call: entries, ordering, a row per path
  nan_on_failure, want_grad,
  dense,                 \* history: DenseFactor of each path
  A,                     \* A, full symmetric: column -> its rows -> value
  pc, p, k,              \* where the thread is, its path, entry or variable
  wk,                    \* its Work arrays
  L,                     \* of the factor with rows deleted
  logp, grad, status     \* per path, and whether the call failed

call == <<coo, Perm, input, nan_on_failure, want_grad>>
inputs == <<call, dense>>
vars == <<inputs, A, pc, p, k, wk, L, logp, grad, status>>

-----------------------------------------------------------------------------
(* What the properties compare a path's answer with, from the definition:  *)
(* the dense factor of the precision of the differences.                   *)

Minors(M) == [S \in SUBSET Index |-> Minor(M, S) % Prime]

\* The unit lower triangle and the pivots of M = L D L'.
UnitLower(minor) ==
  [u \in Index |-> [t \in Index |-> IF u < t THEN 0
                                    ELSE Div(minor[0..(t - 1) \cup {u}], minor[0..t])]]
Pivots(minor) == [t \in Index |-> Div(minor[0..t], minor[0..(t - 1)])]
PositivePivots(minor) == \A t \in Index : Positive(Pivots(minor)[t])

Listed(q) == SelectSeq(input[q].comp, LAMBDA i : i >= 0)

ValidPath(q) ==
  /\ input[q].chosen \in Index
  /\ Range(Listed(q)) \subseteq Index \ {input[q].chosen}
  /\ IsInjective(Listed(q))

Full(i, j) ==
  Sum({m \in DOMAIN coo : coo[m].i = Min({i, j}) /\ coo[m].j = Max({i, j})},
      LAMBDA m : coo[m].x)
Ones(i) == Sum(Index, LAMBDA j : Full(i, j))
OnesAOnes == Sum(Index, LAMBDA i : Ones(i))

\* Kept alternatives in the order of the factor, and then the competitors,
\* the most competitive last.
Order(q) ==
  SelectSeq([t \in 1..n |-> Perm[t - 1]],
            LAMBDA i : i \notin {input[q].chosen} \cup Range(Listed(q)))
    \o Reverse(Listed(q))

\* A without the chosen alternative, in that order, less c v v'; with c = 0,
\* without the rank-one term.  The last row and column only fill it up.
Differences(q, c) ==
  [u \in Index |-> [t \in Index |->
     IF n - 1 \in {u, t} THEN IF u = t THEN 1 ELSE 0
     ELSE LET i == Order(q)[u + 1]
              j == Order(q)[t + 1]
          IN (Full(i, j) - c * Ones(i) * Ones(j)) % Prime]]

DenseFactor(q) ==
  IF ~ValidPath(q) THEN None
  ELSE LET minor == Minors(Differences(q, Reciprocal[OnesAOnes]))
           lower == UnitLower(minor)
           D == Pivots(minor)
       IN [order |-> Order(q),
           definite |-> PositivePivots(Minors(Differences(q, 0))) /\ PositivePivots(minor),
           C |-> [u \in Index |-> [t \in Index |-> (lower[u][t] * Sqrt(D[t])) % Prime]]]

-----------------------------------------------------------------------------
Zeros(S) == [x \in S |-> 0]
Everything == 0..(2 * n - 1)

Init ==
  /\ coo \in Coos /\ Perm \in Perms
  /\ input \in [Paths -> Inputs]
  /\ nan_on_failure \in BOOLEAN /\ want_grad \in BOOLEAN
  /\ dense = None
  /\ A = None /\ L = None
  /\ pc = "build" /\ p = 1 /\ k = 0
  /\ wk = [del |-> {}, Celim |-> <<>>, Dsqrt |-> Zeros(Index), X |-> None,
           Lcc |-> None, w |-> Zeros(Everything), gd |-> Zeros(Everything),
           beta |-> Zeros(Everything), mu |-> Zeros(Everything),
           e |-> Zeros(Everything), s |-> 0, logw |-> 0,
           draw |-> [v \in Everything |-> None], ebar |-> Zeros(Everything),
           sbar |-> 0, gsum |-> 0]
  /\ logp = [q \in Paths |-> None]
  /\ grad = [q \in Paths |-> None]
  /\ status = "running"

chosen == input[p].chosen
comp == input[p].comp
iperm(q) == CHOOSE t \in Index : Perm[t] = q

Error ==
  /\ pc' = "done" /\ status' = "error"
  /\ UNCHANGED <<inputs, A, p, k, wk, L, logp, grad>>

NextPath ==
  /\ pc = "path"
  /\ k' = 1
  /\ \/ /\ p < NumPaths
        /\ p' = p + 1 /\ pc' = "read"
        /\ UNCHANGED status
     \/ /\ p = NumPaths
        /\ pc' = "done" /\ status' = "ok"
        /\ UNCHANGED p
  /\ UNCHANGED <<inputs, A, wk, L, logp, grad>>

\* Positive definiteness lost on this path: its answer, or an error.
NumericFailure ==
  \/ /\ ~nan_on_failure
     /\ Error
  \/ /\ nan_on_failure
     /\ logp' = [logp EXCEPT ![p] = NaN]
     /\ grad' = [grad EXCEPT ![p] = IF want_grad THEN NaN ELSE @]
     /\ pc' = "path"
     /\ UNCHANGED <<inputs, A, p, k, wk, L, status>>

-----------------------------------------------------------------------------
(* build_sym_csc: entries with i <= j, mirrored, duplicates summed.        *)

Upper == {m \in DOMAIN coo : coo[m].i <= coo[m].j}

\* The entries that add up to row r of column c, and to row c of column r.
Touching(c, r) == {m \in Upper : {coo[m].i, coo[m].j} = {c, r}}

SymCSC ==
  [c \in Index |-> [r \in {r \in Index : Touching(c, r) # {}} |->
                      Sum(Touching(c, r), LAMBDA m : coo[m].x)]]

rowsum(q) == Sum(DOMAIN A[q], LAMBDA r : A[q][r])
total == Sum(Index, LAMBDA q : rowsum(q))

BuildSymCSC ==
  /\ pc = "build"
  /\ A' = SymCSC
  /\ dense' = [q \in Paths |-> DenseFactor(q)]
  /\ pc' = "total"
  /\ UNCHANGED <<call, p, k, wk, L, logp, grad, status>>

CheckTotal ==
  /\ pc = "total"
  /\ \/ /\ ~Positive(total)
        /\ Error
     \/ /\ Positive(total)
        /\ pc' = "read" /\ k' = 1
        /\ UNCHANGED <<inputs, A, p, wk, L, logp, grad, status>>

-----------------------------------------------------------------------------
(* The competitors, and the factor without their rows and the chosen one.  *)

\* [mutant of Eliminated] the most competitive is eliminated first
EliminatedAsListed(q) == q

\* Elimination order is the reverse of the listed order.
Eliminated(q) == Reverse(q)

listed == SelectSeq(SubSeq(comp, 1, k - 1), LAMBDA q : q >= 0)

ReadCompetitor ==
  /\ pc = "read"
  /\ chosen \in Index
  /\ k <= Len(comp)
  /\ LET q == comp[k]
     IN \/ /\ q >= 0
           /\ q >= n \/ q = chosen \/ q \in Range(listed)
           /\ Error
        \/ /\ q < 0 \/ (q \in Index \ {chosen} /\ q \notin Range(listed))
           /\ k' = k + 1
           /\ UNCHANGED <<inputs, A, pc, p, wk, L, logp, grad, status>>

RefusePath ==
  /\ pc = "read"
  /\ chosen \notin Index
  /\ Error

\* cholmod_rowdel: the factor of A with the deleted rows those of the identity.
WithoutRows(del) ==
  [u \in Index |-> [t \in Index |->
     CASE {u, t} \cap del # {} -> IF u = t THEN 1 ELSE 0
       [] {u, t} \cap del = {} /\ Perm[u] \in DOMAIN A[Perm[t]] -> A[Perm[t]][Perm[u]]
       [] OTHER -> 0]]

DropRows ==
  /\ pc = "read"
  /\ chosen \in Index
  /\ k > Len(comp)   \* Kp < n: they are distinct, and none is the chosen one
  /\ LET del == {iperm(q) : q \in {chosen} \cup Range(listed)}
         minor == Minors(WithoutRows(del))
         D == Pivots(minor)
     IN \/ /\ \E t \in Index \ del : ~Positive(D[t])
           /\ NumericFailure
        \/ /\ \A t \in Index \ del : Positive(D[t])
           /\ L' = UnitLower(minor)
           /\ wk' = [wk EXCEPT !.del = del, !.Celim = Eliminated(listed),
                               !.Dsqrt = [t \in Index |->
                                            IF t \in del THEN 0 ELSE Sqrt(D[t])]]
           /\ pc' = "schur"
           /\ UNCHANGED <<inputs, A, p, k, logp, grad, status>>

Kp == Len(wk.Celim)
Kept == Index \ wk.del
Slots == 0..(Kp - 1)
Competitor(a) == wk.Celim[a + 1]

\* forward: D^{-1/2} L^{-1} b over the kept positions.
Forward(b) ==
  LET y[t \in Index] ==
        IF t \notin Kept THEN 0
        ELSE (b[t] - Sum({q \in Kept : q < t}, LAMBDA q : L[t][q] * y[q])) % Prime
  IN [t \in Index |-> IF t \in Kept THEN Div(y[t], wk.Dsqrt[t]) ELSE 0]

\* Lcc Lcc' = A_CC - X X'.
SchurColumn(a) ==
  LET column == A[Competitor(a)]
  IN Forward([t \in Index |-> IF t \in Kept /\ Perm[t] \in DOMAIN column
                              THEN column[Perm[t]] ELSE 0])

Entry(a, b) == IF Competitor(b) \in DOMAIN A[Competitor(a)]
               THEN A[Competitor(a)][Competitor(b)] ELSE 0

\* dense_chol, with the number whose root a diagonal entry is.
DenseChol(S) ==
  LET c[a \in Slots, b \in Slots] ==
        LET rest == S[a][b] - Sum(0..(b - 1), LAMBDA m : c[a, m] * c[b, m])
        IN IF a = b THEN Sqrt(rest) ELSE Div(rest, c[b, b])
      Radicand(a) == S[a][a] - Sum(0..(a - 1), LAMBDA m : c[a, m] * c[a, m])
  IN [ok |-> \A a \in Slots : Positive(Radicand(a)),
      L |-> [a \in Slots |-> [b \in 0..a |-> c[a, b]]]]

Schur ==
  /\ pc = "schur"
  /\ LET X == [a \in Slots |-> SchurColumn(a)]
         Scc == [a \in Slots |-> [b \in 0..a |->
                   (Entry(a, b) - Sum(Index, LAMBDA t : X[a][t] * X[b][t])) % Prime]]
         chol == DenseChol(Scc)
     IN \/ ~chol.ok /\ NumericFailure
        \/ /\ chol.ok
           /\ wk' = [wk EXCEPT !.X = X, !.Lcc = chol.L]
           /\ pc' = "rank"
           /\ UNCHANGED <<inputs, A, p, k, L, logp, grad, status>>

-----------------------------------------------------------------------------
(* The rank-one term: w, and the semiseparable factor of I - w w'/total.   *)

Variables == Kept \cup {n + a : a \in Slots}
Alternative(v) == IF v < n THEN Perm[v] ELSE Competitor(v - n)

\* The factor of A without the chosen row, entry by entry.
Diagonal(t) == IF t < n THEN wk.Dsqrt[t] ELSE wk.Lcc[t - n][t - n]
Below(u, t) ==
  CASE u < n -> (L[u][t] * wk.Dsqrt[t]) % Prime
    [] u >= n /\ t < n -> wk.X[u - n][t]
    [] t >= n -> wk.Lcc[u - n][t - n]

Weights ==
  LET wN == Forward([t \in Index |-> IF t \in Kept THEN rowsum(Perm[t]) ELSE 0])
      wC[a \in Slots] ==
        Div(rowsum(Competitor(a)) - Sum(Index, LAMBDA t : wk.X[a][t] * wN[t])
              - Sum(0..(a - 1), LAMBDA b : wk.Lcc[a][b] * wC[b]),
            wk.Lcc[a][a])
  IN [t \in Everything |->
        CASE t < n -> wN[t]
          [] t >= n /\ t - n \in Slots -> wC[t - n]
          [] OTHER -> wk.w[t]]

\* [mutant of Semisep] sigma is that of the first variable throughout
SemisepStale(w, t) == Div(-1, total)

\* sigma when variable t is reached.
Semisep(w, t) ==
  LET sigma[v \in 0..(2 * n)] ==
        IF v = 0 THEN Div(-1, total)
        ELSE IF v - 1 \notin Variables THEN sigma[v - 1]
        ELSE LET before == sigma[v - 1]
             IN Div(before, 1 + before * w[v - 1] * w[v - 1])
  IN sigma[t]

RankOne ==
  /\ pc = "rank"
  /\ LET w == Weights
         G(t) == 1 + Semisep(w, t) * w[t] * w[t]
         At(t, value(_), old) == IF t \in Variables THEN value(t) ELSE old[t]
     IN \/ /\ \E t \in Variables : ~Positive(G(t))
           /\ NumericFailure
        \/ /\ \A t \in Variables : Positive(G(t))
           /\ wk' = [wk EXCEPT
                !.w = w,
                !.gd = [t \in Everything |-> At(t, LAMBDA v : Sqrt(G(v)), @)],
                !.beta = [t \in Everything |->
                            At(t, LAMBDA v : Div(Semisep(w, v) * w[v], Sqrt(G(v))), @)],
                !.mu = [t \in Everything |->
                          At(t, LAMBDA v : Mean[p][Alternative(v)] - Mean[p][chosen], @)],
                !.s = 0, !.logw = 0]
           /\ pc' = "draw"
           /\ k' = Max(Variables)
           /\ UNCHANGED <<inputs, A, p, L, logp, grad, status>>

-----------------------------------------------------------------------------
(* The draws, competitors first, and the way back.                         *)

Later == {u \in Variables : u > k}   \* eliminated later, so drawn before k

Draw ==
  /\ pc = "draw" /\ k \in Variables
  /\ \E d \in Draws :
       LET below == Sum(Later, LAMBDA u : Below(u, k) * wk.e[u])
           bt == wk.beta[k]
           bnd == wk.gd[k] * (below - Diagonal(k) * wk.mu[k]) + bt * wk.s
           y == Div(d.z0 + d.dz * bnd - bt * wk.s, wk.gd[k])
       IN wk' = [wk EXCEPT !.e[k] = Div(y - below, Diagonal(k)),
                           !.s = (@ + wk.w[k] * y) % Prime,
                           !.logw = (@ + d.ml * bnd) % Prime,
                           !.draw[k] = d]
  /\ k' = Max({-1} \cup {v \in Variables : v < k})
  /\ UNCHANGED <<inputs, A, pc, p, L, logp, grad, status>>

EndDraws ==
  /\ pc = "draw" /\ k = -1
  /\ logp' = [logp EXCEPT ![p] = wk.logw]
  /\ \/ /\ ~want_grad
        /\ pc' = "path"
        /\ UNCHANGED <<grad, wk, k>>
     \/ /\ want_grad
        /\ pc' = "sweep"
        /\ grad' = [grad EXCEPT ![p] = Zeros(Index)]
        /\ wk' = [wk EXCEPT !.ebar = Zeros(Everything), !.sbar = 0, !.gsum = 0]
        /\ k' = Min(Variables)
  /\ UNCHANGED <<inputs, A, p, L, status>>

\* [mutant of Scattered] the competitors are not among what a kept step read
ScatteredToKept == {u \in Later : u < n \/ k >= n}

\* The variables whose draws the step being undone read.
Scattered == Later

Undo ==
  /\ pc = "sweep" /\ k \in Variables
  /\ LET yb == Div(wk.ebar[k], Diagonal(k)) + wk.sbar * wk.w[k]
         bb == Div(yb, wk.gd[k]) * wk.draw[k].dz + wk.draw[k].ml
         belb == wk.gd[k] * bb - Div(wk.ebar[k], Diagonal(k))
         mubar == (-wk.gd[k] * Diagonal(k) * bb) % Prime
     IN /\ wk' = [wk EXCEPT
              !.sbar = (@ - Div(yb * wk.beta[k], wk.gd[k]) + wk.beta[k] * bb) % Prime,
              !.ebar = [u \in Everything |->
                          IF u \in Scattered THEN (@[u] + Below(u, k) * belb) % Prime
                          ELSE @[u]],
              !.gsum = (@ + mubar) % Prime]
        /\ grad' = [grad EXCEPT ![p][Alternative(k)] = (@ + mubar) % Prime]
  /\ k' = Min({2 * n} \cup Later)
  /\ UNCHANGED <<inputs, A, pc, p, L, logp, status>>

EndSweep ==
  /\ pc = "sweep" /\ k = 2 * n
  /\ grad' = [grad EXCEPT ![p][chosen] = (@ - wk.gsum) % Prime]
  /\ pc' = "path"
  /\ UNCHANGED <<inputs, A, p, k, wk, L, logp, status>>

Next ==
  \/ BuildSymCSC \/ CheckTotal
  \/ ReadCompetitor \/ RefusePath \/ DropRows \/ Schur \/ RankOne
  \/ Draw \/ EndDraws \/ Undo \/ EndSweep \/ NextPath

Spec == Init /\ [][Next]_vars

-----------------------------------------------------------------------------
\* logw when the means of the differences are mu(_), and draws start at
\* start(_): each variable in turn, the last first.
Ghk(mu(_), start(_)) ==
  LET C == dense[p].C
      order == dense[p].order
      Taken(t) == wk.draw[IF t < n - 1 - Kp THEN iperm(order[t + 1]) ELSE t + 1 + Kp]
      Rest(e, t) == Sum((t + 1)..(n - 2), LAMBDA u : C[u][t] * e[u])
      Bound(e, t) == Rest(e, t) - C[t][t] * mu(order[t + 1])
      e[t \in 0..(n - 2)] ==
        Div(start(Taken(t)) + Taken(t).dz * Bound(e, t) - Rest(e, t), C[t][t])
  IN Sum(0..(n - 2), LAMBDA t : Taken(t).ml * Bound(e, t))

Answered == pc = "path" /\ logp[p] # NaN

\* The answer of a path is that of the simulator on the dense precision of the
\* differences, competitors drawn first as listed: whatever rows the factor
\* had, in whatever order, and whatever the path before left in the arrays.
LogpIsSimulated ==
  Answered => logp[p] = Ghk(LAMBDA q : Mean[p][q] - Mean[p][chosen], LAMBDA d : d.z0)

\* The gradient is the derivative of that answer in each mean, the chosen
\* one's included.
GradientIsDerivative ==
  Answered /\ want_grad =>
    \A i \in Index :
      LET Unit(q) == IF q = i THEN 1 ELSE 0
      IN grad[p][i] = Ghk(LAMBDA q : Unit(q) - Unit(chosen), LAMBDA d : 0)

\* A path is given up, as NaN or as an error, when the matrix without the
\* chosen row or the precision of the differences is not positive definite,
\* and only then; what it gets does not depend on the other paths.
GivenUpWhenIndefinite ==
  /\ pc = "path" => (logp[p] = NaN <=> ~dense[p].definite)
  /\ status = "error" /\ Positive(OnesAOnes) /\ ValidPath(p) =>
       ~dense[p].definite /\ ~nan_on_failure
=============================================================================
