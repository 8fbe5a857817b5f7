----------------------------- MODULE MCNumerics -----------------------------
(***************************************************************************)
(* The pure algorithms for TLC, each on an instance of its own: the draws  *)
(* (SobolDraws), the paths of an argmax log-probability (ArgmaxPath), and  *)
(* what is read off a factor (FactorReads).  They have no state in common; *)
(* a behaviour is a run of one of them.                                    *)
(***************************************************************************)
EXTENDS SobolDraws, PrimeField

CONSTANTS None, NaN, Failed

-----------------------------------------------------------------------------
(* SobolDraws: every dimension of the table, points of five digits of      *)
(* which two have a hash each, a few digit trees, draws whose own digits   *)
(* are all 0, all 1 or mixed.                                              *)

MCSteps == 0..kDims
MCDraws == {0, 1, 2^Digits - 1, 2^Digits, 2^Digits + 1}
MCSobolDims == {-1, 0, 3, kDims, kDims + 1}

\* Some hashes of the seven nodes to three digits.
MCHashes ==
  {[k \in 1..7 |-> {j \in 1..3 : (a * k + j * k * k) % 5 < 2}] : a \in {0, 1, 2}}

MCOwns ==
  {[k \in 0..(2^Digits) |-> 0],
   [k \in 0..(2^Digits) |-> 2^(Digits + Low) - 1],
   [k \in 0..(2^Digits) |-> (k * k * k + 7 * k + 2^Digits * (k % 3)) % 2^(Digits + Low)]}

-----------------------------------------------------------------------------
(* ArgmaxPath: two paths over four alternatives, with up to three          *)
(* competitors, in the field of 23 elements.                               *)

VARIABLES
  coo, pathPerm, pathInput, pathNan, want_grad, dense, A, pathPc, pathP, pathK, wk,
  L, logp, grad, status

Coo(i, j, entry) == [i |-> i, j |-> j, x |-> entry]

\* Duplicates, entries below the diagonal, a missing entry; and a matrix whose
\* entries do not have a positive sum.
PathCoos ==
  {<<Coo(1, 3, 9), Coo(0, 0, 6), Coo(0, 1, 12), Coo(1, 0, 5), Coo(0, 2, 9),
     Coo(1, 1, 4), Coo(0, 0, 10), Coo(1, 2, 19), Coo(2, 2, 13), Coo(0, 2, 10),
     Coo(3, 2, 7), Coo(2, 3, 2), Coo(3, 3, 9)>>,
   <<Coo(0, 0, 5)>>}

PathPerms == {[t \in 0..3 |-> <<2, 0, 3, 1>>[t + 1]]}

OnePath(j, competitors) == [chosen |-> j, comp |-> competitors]

\* Paths that are answered, paths that are not definite, and bad arguments.
PathInputs ==
  {OnePath(2, <<-1, -1, -1>>), OnePath(2, <<0, -1, -1>>), OnePath(2, <<3, -1, 1>>),
   OnePath(0, <<2, 1, 3>>), OnePath(3, <<0, 2, -1>>), OnePath(1, <<2, -1, 0>>),
   OnePath(0, <<1, -1, -1>>), OnePath(1, <<-1, -1, -1>>), OnePath(1, <<0, 2, -1>>),
   OnePath(4, <<-1, -1, -1>>), OnePath(0, <<4, -1, -1>>), OnePath(1, <<0, 1, -1>>),
   OnePath(1, <<2, -1, 2>>)}

PathMean == <<[i \in 0..3 |-> <<3, 17, 5, 11>>[i + 1]],
            [i \in 0..3 |-> <<0, 9, 20, 2>>[i + 1]]>>

\* A draw whose bound is far away, and one that its bound matters to.
PathDraws == {[z0 |-> 4, dz |-> 0, ml |-> 0], [z0 |-> 7, dz |-> 5, ml |-> 14]}

Paths == INSTANCE ArgmaxPath WITH
  n <- 4, Coos <- PathCoos, Perms <- PathPerms, Inputs <- PathInputs,
  NumPaths <- 2, Mean <- PathMean, Draws <- PathDraws,
  Perm <- pathPerm, input <- pathInput, nan_on_failure <- pathNan,
  pc <- pathPc, p <- pathP,
  k <- pathK

ASSUME Paths!ArgmaxAssumption

-----------------------------------------------------------------------------
(* FactorReads: matrices of order 6 whose factors have supernodes of one   *)
(* to three columns with gaps between their rows, and LU factors of order  *)
(* 3 with two diagonal blocks.                                             *)

VARIABLES
  readPc, F, is_super, readPerm, readK, Z, z, logdet, lu, readNan, slogdet

\* Rows of a supernode with gaps in their ancestor's; one dense supernode; and
\* supernodes of one column each.
Structures ==
  {[super |-> <<0, 1, 3, 6>>, rows |-> <<<<0, 1, 3, 5>>, <<1, 2, 3, 5>>, <<3, 4, 5>>>>],
   [super |-> <<0, 2, 3, 4, 6>>,
    rows |-> <<<<0, 1, 2, 4>>, <<2, 4, 5>>, <<3, 5>>, <<4, 5>>>>],
   [super |-> <<0, 6>>, rows |-> <<<<0, 1, 2, 3, 4, 5>>>>],
   [super |-> <<0, 1, 2, 3, 4, 5, 6>>,
    rows |-> <<<<0, 2>>, <<1, 3, 4>>, <<2, 5>>, <<3, 4>>, <<4, 5>>, <<5>>>>]}

\* Some number for each entry of the structure.
Filled(f, seed) ==
  LET In(i, t) == \E s \in DOMAIN f.rows : f.super[s] <= t /\ t < f.super[s + 1]
                                              /\ i >= t /\ i \in Range(f.rows[s])
  IN [super |-> f.super, rows |-> f.rows,
      x |-> [i \in 0..5 |-> [t \in 0..5 |->
               IF In(i, t) THEN ((seed * (i * i + 1) + 3 * t + i * t) % (Prime - 1)) + 1
               ELSE 0]]]

ReadFactors == {Filled(f, seed) : f \in Structures, seed \in 1..5}

ReadPerms == {[t \in 0..5 |-> p[t + 1]] : p \in {<<0, 1, 2, 3, 4, 5>>, <<4, 0, 5, 2, 1, 3>>}}

Orders == {p \in [0..2 -> 0..2] : \A i, j \in 0..2 : i # j => p[i] # p[j]}
Matrix3(a, b, c) == [i \in 0..2 |-> [j \in 0..2 |-> <<a, b, c>>[i + 1][j + 1]]]

\* One block of order 3; and blocks of order 1 and 2 with entries above them.  A
\* singular matrix may factor or not.
Candidates ==
  {[backend |-> b, factored |-> f, Pnum |-> P, Q |-> Q,
    Rs |-> [i \in 0..2 |-> <<2, 1, 3>>[i + 1]], Udiag |-> d,
    entries |-> m[1], offdiagonal |-> m[2]] :
     b \in {"klu", "umfpack"}, f \in BOOLEAN, P \in Orders, Q \in Orders, d \in [0..2 -> {-2, 0, 3}],
     m \in {<<Matrix3(<<0, 1, -2>>, <<3, 0, 4>>, <<-1, 2, 0>>),
              Matrix3(<<0, 0, 0>>, <<0, 0, 0>>, <<0, 0, 0>>)>>,
            <<Matrix3(<<0, 0, 0>>, <<0, 0, 5>>, <<0, -3, 0>>),
              Matrix3(<<0, 7, -1>>, <<0, 0, 0>>, <<0, 0, 0>>)>>}}
ReadLuFactors == {f \in Candidates : f.factored \/ \E i \in 0..2 : f.Udiag[i] = 0}

Reads == INSTANCE FactorReads WITH
  n <- 6, Factors <- ReadFactors, Perms <- ReadPerms, kBlockInverseBase <- 2,
  LuFactors <- ReadLuFactors, pc <- readPc, Perm <- readPerm, k <- readK,
  nan_on_failure <- readNan

ASSUME Reads!ReadsAssumption

-----------------------------------------------------------------------------
(* One of the three, while the others are not under way.                   *)

pathVars ==
  <<coo, pathPerm, pathInput, pathNan, want_grad, dense, A, pathPc, pathP, pathK,
    wk, L, logp, grad, status>>
readVars ==
  <<readPc, F, is_super, readPerm, readK, Z, z, logdet, lu, readNan, slogdet>>

NoDraws ==
  /\ pc = "none"
  /\ step = None /\ n_draws = None /\ sobol_dims = None /\ hash = None /\ own = None
  /\ V = None /\ r = None /\ x = None
  /\ u = <<>>

NoPath ==
  /\ pathPc = "none" /\ status = "none"
  /\ coo = None /\ pathPerm = None /\ pathInput = None /\ pathNan = None
  /\ want_grad = None /\ dense = None /\ A = None /\ pathP = None /\ pathK = None
  /\ wk = None /\ L = None /\ logp = None /\ grad = None

NoRead ==
  /\ readPc = "none"
  /\ F = None /\ is_super = None /\ readPerm = None /\ readK = None /\ Z = None
  /\ z = None /\ logdet = None /\ lu = None /\ readNan = None /\ slogdet = None

MCInit ==
  \/ Init /\ NoPath /\ NoRead
  \/ NoDraws /\ Paths!Init /\ NoRead
  \/ NoDraws /\ NoPath /\ Reads!Init

Drawing == UNCHANGED <<pathVars, readVars>>
OnAPath == UNCHANGED <<vars, readVars>>
Reading == UNCHANGED <<vars, pathVars>>

MCNext ==
  \/ Build /\ Drawing
  \/ Begin /\ Drawing
  \/ SobolPoint /\ Drawing
  \/ IndependentPoint /\ Drawing
  \/ Return /\ Drawing
  \/ Paths!BuildSymCSC /\ OnAPath
  \/ Paths!CheckTotal /\ OnAPath
  \/ Paths!ReadCompetitor /\ OnAPath
  \/ Paths!RefusePath /\ OnAPath
  \/ Paths!DropRows /\ OnAPath
  \/ Paths!Schur /\ OnAPath
  \/ Paths!RankOne /\ OnAPath
  \/ Paths!Draw /\ OnAPath
  \/ Paths!EndDraws /\ OnAPath
  \/ Paths!Undo /\ OnAPath
  \/ Paths!EndSweep /\ OnAPath
  \/ Paths!NextPath /\ OnAPath
  \/ Reads!ReadLogdet /\ Reading
  \/ Reads!SimplicialColumn /\ Reading
  \/ Reads!Supernode /\ Reading
  \/ Reads!MapEntries /\ Reading
  \/ Reads!Slogdet /\ Reading

MCSpec == MCInit /\ [][MCNext]_<<vars, pathVars, readVars>>

-----------------------------------------------------------------------------
(* The properties of the instances, under names a cfg can give.            *)

\* A path's answer is that of a GHK simulator on the dense precision of the
\* differences.
LogpIsSimulated == Paths!LogpIsSimulated

\* Its gradient is the derivative of that answer in every mean.
GradientIsDerivative == Paths!GradientIsDerivative

\* A path is given up when the precision it simulates with is not positive
\* definite, and only then.
GivenUpWhenIndefinite == Paths!GivenUpWhenIndefinite

\* The selected inverse gives entries of the inverse, whatever the supernodes.
EntriesOfInverse == Reads!EntriesOfInverse

\* A determinant read off a factor is that of the matrix, with its sign.
DeterminantsAgree == Reads!DeterminantsAgree
=============================================================================
