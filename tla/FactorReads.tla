----------------------------- MODULE FactorReads -----------------------------
(***************************************************************************)
(* What is read off a finished factor: the entries of the inverse at the   *)
(* matrix's own positions (chol_selinv, on a simplicial or a supernodal    *)
(* factor), and log-determinants with their signs (factor_logdet,          *)
(* klu_logdet_one and klu_sign_one, umf_logdet_one and umf_sign_one).      *)
(*                                                                         *)
(* Factors are given: CHOLMOD's by its supernodes, their rows and the      *)
(* entries x of L in A = P' L L' P; KLU's by P, Q, the row scales and the  *)
(* triangles of P R^-1 A Q = L U, with the blocks above the diagonal of    *)
(* its block triangular form.  CHOLMOD's numbers are those of PrimeField;  *)
(* KLU's are integers.  A logarithm stands for the number it is taken of,  *)
(* so that a sum of logarithms is a product.                               *)
(***************************************************************************)
EXTENDS PrimeField

CONSTANTS
  n,                    \* CHOLMOD's matrix is n x n
  Factors,              \* [super, rows, x]
  Perms,                \* position -> original index
  kBlockInverseBase,    \* blocks up to this size are inverted entry by entry
  LuFactors,            \* [backend, factored, Pnum, Q, Rs, Udiag, entries]
  None, NaN,
  Failed                \* "matrix is singular"

Index == 0..(n - 1)

\* Rows are in ascending order, the supernode's own columns first.  An instance
\* assumes it.
ReadsAssumption ==
  /\ n \in Nat \ {0} /\ kBlockInverseBase \in Nat \ {0}
  /\ \A f \in Factors :
       /\ f.super[1] = 0 /\ f.super[Len(f.super)] = n
       /\ Len(f.rows) = Len(f.super) - 1
       /\ \A s \in DOMAIN f.rows :
            /\ \A a, b \in DOMAIN f.rows[s] : a < b => f.rows[s][a] < f.rows[s][b]
            /\ \A c \in 1..(f.super[s + 1] - f.super[s]) : f.rows[s][c] = f.super[s] + c - 1

VARIABLES
  pc,
  F, is_super, Perm,    \* CHOLMOD's factor
  k,                    \* the column, or supernode, that is next
  Z,                    \* selected inverse, laid out as the factor
  z,                    \* its entries at the matrix's positions
  logdet,               \* of the LL' factor and of the LDL' one
  lu, nan_on_failure,   \* an LU factor, and the setting
  slogdet               \* [sign, log|det|] read off it

inputs == <<F, is_super, Perm, lu, nan_on_failure>>
vars == <<pc, inputs, k, Z, z, logdet, slogdet>>

Init ==
  /\ Z = [j \in Index |-> None] /\ z = None /\ logdet = None /\ slogdet = None
  /\ \/ /\ pc = "logdet"
        /\ F \in Factors /\ is_super \in BOOLEAN /\ Perm \in Perms
        /\ lu = None /\ nan_on_failure = None
        /\ k = IF is_super THEN Len(F.rows) ELSE n - 1
     \/ /\ pc = "slogdet"
        /\ lu \in LuFactors /\ nan_on_failure \in BOOLEAN
        /\ F = None /\ is_super = None /\ Perm = None
        /\ k = 0

-----------------------------------------------------------------------------
(* CHOLMOD's log-determinant, and its selected inverse.                    *)

\* cholmod_change_factor: unit lower triangle and diagonal of A = P' L D L' P.
Unit(u, t) == Div(F.x[u][t], F.x[t][t])
D(t) == (F.x[t][t] * F.x[t][t]) % Prime

\* From twice the logarithms of L's diagonal, or from those of D's.
FactorLogdet(is_ll) ==
  ProductOver([j \in Index |-> IF is_ll THEN (F.x[j][j] * F.x[j][j]) % Prime ELSE D(j)],
              Index) % Prime

ReadLogdet ==
  /\ pc = "logdet"
  /\ logdet' = [ll |-> FactorLogdet(TRUE), ldl |-> FactorLogdet(FALSE)]
  /\ pc' = "selinv"
  /\ UNCHANGED <<inputs, k, Z, z, slogdet>>

col2super == [j \in Index |-> CHOOSE s \in DOMAIN F.rows :
                                F.super[s] <= j /\ j < F.super[s + 1]]

\* Below the diagonal of column j.
RowsBelow(j) == {u \in Range(F.rows[col2super[j]]) : u > j}

\* Z[r_a, r_b], read out of column r_b of Z or, for the symmetric partner, r_a.
Stored(u, v) == LET r == Max({u, v})
                    c == Min({u, v})
                IN IF r \in DOMAIN Z[c] THEN Z[c][r] ELSE 0

\* Takahashi's recurrence, for one column.
SimplicialColumn ==
  /\ pc = "selinv" /\ ~is_super /\ k >= 0
  /\ LET below == RowsBelow(k)
         zaj == [a \in below |->
                   (-Sum(below, LAMBDA b : Unit(b, k) * Stored(a, b))) % Prime]
         diag == (Div(1, D(k)) - Sum(below, LAMBDA a : Unit(a, k) * zaj[a])) % Prime
     IN Z' = [Z EXCEPT ![k] = [u \in below \cup {k} |-> IF u = k THEN diag ELSE zaj[u]]]
  /\ k' = k - 1
  /\ UNCHANGED <<pc, inputs, z, logdet, slogdet>>

\* Blocks are functions of a row and a column, counted from 0.
\* dtrsm: the row y with y L11 = row, L11 the m columns of A from o on.
RightSolve(row, A, o, m) ==
  LET y[c \in 0..(m - 1)] ==
        Div(row[c] - Sum((c + 1)..(m - 1), LAMBDA d : y[d] * A[o + d][o + c]),
            A[o + c][o + c])
  IN y

\* [mutant of Corrected] Z21 is copied over Y before Y was used
CorrectedLate(Z11, Y, Z21, r, c, nr) ==
  (Z11[r][c] - Sum(0..(nr - 1), LAMBDA q : Z21[q][r] * Z21[q][c])) % Prime

\* Z11 - Y' Z21.
Corrected(Z11, Y, Z21, r, c, nr) ==
  (Z11[r][c] - Sum(0..(nr - 1), LAMBDA q : Y[q][r] * Z21[q][c])) % Prime

\* Z of a block of nscol columns and nr rows below them: Z21 = -Z22 Y, and Z11.
\* dsymm reads the lower part of Z22.
Bordered(Z11, Y, Z22, nscol, nr) ==
  LET Sym(a, b) == Z22[Max({a, b})][Min({a, b})]
      Z21 == [a \in 0..(nr - 1) |-> [c \in 0..(nscol - 1) |->
                (-Sum(0..(nr - 1), LAMBDA b : Sym(a, b) * Y[b][c])) % Prime]]
  IN [r \in 0..(nscol + nr - 1) |-> [c \in 0..Min({r, nscol - 1}) |->
        IF r < nscol THEN Corrected(Z11, Y, Z21, r, c, nr) ELSE Z21[r - nscol][c]]]

\* chol_block_inverse: the lower triangle of (L L')^{-1} for m x m rows of A
\* from row and column o on.
RECURSIVE BlockInverse(_, _, _)
BlockInverse(A, o, m) ==
  IF m <= kBlockInverseBase
  THEN LET Linv[r \in 0..(m - 1), c \in 0..(m - 1)] ==
             IF r < c THEN 0
             ELSE IF r = c THEN Div(1, A[o + c][o + c])
             ELSE Div(-Sum(c..(r - 1), LAMBDA i : A[o + r][o + i] * Linv[i, c]),
                      A[o + r][o + r])
       IN [r \in 0..(m - 1) |-> [c \in 0..r |->
             Sum(r..(m - 1), LAMBDA i : Linv[i, r] * Linv[i, c])]]
  ELSE LET n1 == m \div 2
           n2 == m - n1
           Y == [r \in 0..(n2 - 1) |->
                   RightSolve([c \in 0..(n1 - 1) |-> A[o + n1 + r][o + c]], A, o, n1)]
           Z11 == BlockInverse(A, o, n1)
           Z22 == BlockInverse(A, o + n1, n2)
           left == Bordered(Z11, Y, Z22, n1, n2)
       IN [r \in 0..(m - 1) |-> [c \in 0..r |->
             IF c < n1 THEN left[r][c] ELSE Z22[r - n1][c - n1]]]

\* Where row u is among the rows of supernode t, counted from 0: the lists are
\* sorted, and the search goes on from where it was.
Position(t, u) == Min({p \in DOMAIN F.rows[t] : F.rows[t][p] >= u}) - 1

Supernode ==
  /\ pc = "selinv" /\ is_super /\ k >= 1
  /\ LET first == F.super[k]
         nscol == F.super[k + 1] - first
         below == SubSeq(F.rows[k], nscol + 1, Len(F.rows[k]))
         nr == Len(below)
         Z11 == BlockInverse(F.x, first, nscol)
         Y == [r \in 0..(nr - 1) |->
                 RightSolve([c \in 0..(nscol - 1) |-> F.x[below[r + 1]][first + c]],
                            F.x, first, nscol)]
         Z22 == [a \in 0..(nr - 1) |-> [q \in 0..a |->
                   Z[below[q + 1]][Position(col2super[below[q + 1]], below[a + 1])]]]
         block == Bordered(Z11, Y, Z22, nscol, nr)
     IN Z' = [j \in Index |->
                IF j \in first..(first + nscol - 1)
                THEN [r \in (j - first)..(nscol + nr - 1) |-> block[r][j - first]]
                ELSE Z[j]]
  /\ k' = k - 1
  /\ UNCHANGED <<pc, inputs, z, logdet, slogdet>>

\* Entries of A lie in the pattern of L: all of them may be asked for, either
\* triangle.
iperm(i) == CHOOSE t \in Index : Perm[t] = i
Asked == {e \in Index \X Index :
            LET u == iperm(e[1])
                v == iperm(e[2])
            IN u = v \/ Max({u, v}) \in RowsBelow(Min({u, v}))}

MapEntries ==
  /\ pc = "selinv"
  /\ k = IF is_super THEN 0 ELSE -1
  /\ z' = [e \in Asked |->
             LET u == Max({iperm(e[1]), iperm(e[2])})
                 v == Min({iperm(e[1]), iperm(e[2])})
             IN IF is_super THEN Z[v][Position(col2super[v], u)] ELSE Z[v][u]]
  /\ pc' = "done"
  /\ UNCHANGED <<inputs, k, Z, logdet, slogdet>>

-----------------------------------------------------------------------------
(* The LU backends' sign and log|det|.                                     *)

Abs(i) == IF i < 0 THEN -i ELSE i
SignOf(i) == IF i < 0 THEN -1 ELSE 1
LuIndex == DOMAIN lu.Udiag

Cycle(perm, i) ==
  LET reach[steps \in 0..Cardinality(DOMAIN perm)] ==
        IF steps = 0 THEN i ELSE perm[reach[steps - 1]]
  IN Range(reach)

\* [mutant of PermutationSign] cycles of odd length change the sign
PermutationSignOdd(perm) ==
  LET cycles == {Cycle(perm, i) : i \in DOMAIN perm}
  IN IF Cardinality({c \in cycles : Cardinality(c) % 2 = 1}) % 2 = 0 THEN 1 ELSE -1

\* From the parity of its cycles.
PermutationSign(perm) ==
  LET cycles == {Cycle(perm, i) : i \in DOMAIN perm}
  IN IF Cardinality({c \in cycles : Cardinality(c) % 2 = 0}) % 2 = 0 THEN 1 ELSE -1

KluLogdet ==
  IF \E i \in LuIndex : lu.Udiag[i] = 0 \/ lu.Rs[i] = 0 THEN NaN
  ELSE ProductOver([i \in LuIndex |-> Abs(lu.Udiag[i]) * Abs(lu.Rs[i])], LuIndex)

KluSign ==
  PermutationSign(lu.Pnum) * PermutationSign(lu.Q)
    * ProductOver([i \in LuIndex |-> SignOf(lu.Udiag[i]) * SignOf(lu.Rs[i])], LuIndex)

\* The matrix whose factor lu is: row Pnum[i] is scaled by Rs[i].
LuMatrix ==
  LET At(perm, i) == CHOOSE t \in DOMAIN perm : perm[t] = i
      Entry(i, j) == IntegerSum(LuIndex, LAMBDA t :
        (IF t = i THEN 1 ELSE IF t < i THEN lu.entries[i][t] ELSE 0)
          * (IF t = j THEN lu.Udiag[j] ELSE IF t < j THEN lu.entries[t][j] ELSE 0))
      LU == [i \in LuIndex |-> [j \in LuIndex |->
               Entry(i, j) + lu.offdiagonal[i][j]]]
  IN [i \in LuIndex |-> [j \in LuIndex |->
        lu.Rs[At(lu.Pnum, i)] * LU[At(lu.Pnum, i)][At(lu.Q, j)]]]

\* umfpack_di_get_determinant, as Mx.
Mx == Minor(LuMatrix, LuIndex)
UmfLogdet == IF Mx = 0 THEN NaN ELSE Abs(Mx)
UmfSign == SignOf(Mx)

\* A factorization that failed is there only when on_failure let it through.
Logdet == CASE ~lu.factored -> NaN
            [] lu.factored /\ lu.backend = "klu" -> KluLogdet
            [] lu.factored /\ lu.backend = "umfpack" -> UmfLogdet

Slogdet ==
  /\ pc = "slogdet"
  /\ \/ /\ lu.factored /\ Logdet = NaN /\ ~nan_on_failure
        /\ slogdet' = Failed
     \/ /\ ~(lu.factored /\ Logdet = NaN /\ ~nan_on_failure)
        /\ slogdet' = [sign |-> CASE Logdet = NaN -> NaN
                                 [] Logdet # NaN /\ lu.backend = "klu" -> KluSign
                                 [] Logdet # NaN /\ lu.backend = "umfpack" -> UmfSign,
                       logdet |-> Logdet]
  /\ pc' = "done"
  /\ UNCHANGED <<inputs, k, Z, z, logdet>>

Next == ReadLogdet \/ SimplicialColumn \/ Supernode \/ MapEntries \/ Slogdet

Spec == Init /\ [][Next]_vars

-----------------------------------------------------------------------------
\* The permuted matrix, and the matrix.
Permuted == [u \in Index |-> [t \in Index |->
               Sum(Index, LAMBDA i : F.x[u][i] * F.x[t][i])]]
Matrix == [i \in Index |-> [j \in Index |-> Permuted[iperm(i)][iperm(j)]]]

\* A cofactor, as the determinant with a row of the identity put in.
Cofactor(M, i, j) ==
  FieldMinor([M EXCEPT ![i] = [q \in Index |-> IF q = j THEN 1 ELSE 0]], Index)

\* The selected inverse at a position of the matrix is the entry of the inverse
\* there: whatever the ordering, the supernodes and their rows, and in which
\* triangle the position is.
EntriesOfInverse ==
  z # None =>
    LET A == Matrix
        det == FieldMinor(A, Index)
    IN \A e \in DOMAIN z : (z[e] * det) % Prime = Cofactor(A, e[2], e[1])

\* A determinant read off a factor is that of the matrix.  CHOLMOD's is the same
\* off the LL' factor and off its LDL' copy.  Of an LU factor, sign and log|det|
\* together are the determinant, row scales, both permutations and off-diagonal
\* blocks included; a singular matrix, or one that did not factor, has none.
DeterminantsAgree ==
  /\ logdet # None =>
       /\ logdet.ll = FieldMinor(Matrix, Index)
       /\ logdet.ldl = logdet.ll
  /\ slogdet # None =>
       LET det == Minor(LuMatrix, LuIndex)
       IN CASE slogdet = Failed -> lu.factored /\ det = 0 /\ ~nan_on_failure
            [] slogdet # Failed ->
                 IF lu.factored /\ det # 0
                 THEN slogdet.sign * slogdet.logdet = det
                 ELSE slogdet = [sign |-> NaN, logdet |-> NaN]
=============================================================================
