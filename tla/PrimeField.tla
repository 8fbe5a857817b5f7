----------------------------- MODULE PrimeField -----------------------------
(***************************************************************************)
(* Numbers for the algebra of the factors: the field of Prime elements     *)
(* instead of doubles, so that what real arithmetic makes equal is equal.  *)
(* The positive numbers are the squares, and the positive root of a square *)
(* is the one that is a square: Prime % 4 = 3 makes it one of the two, and *)
(* products and quotients of positive numbers are positive.                *)
(***************************************************************************)
EXTENDS Integers, SequencesExt

CONSTANT Prime

ASSUME PrimeAssumption ==
  /\ Prime \in Nat /\ Prime % 4 = 3
  /\ \A x \in 2..(Prime - 1) : Prime % x # 0

Field == 0..(Prime - 1)
Squares == {(x * x) % Prime : x \in Field \ {0}}

Reciprocal == [x \in Field |->
                 IF x = 0 THEN 0 ELSE CHOOSE y \in Field : (x * y) % Prime = 1]
Root == [x \in Field |->
           IF x \in Squares THEN CHOOSE y \in Squares : (y * y) % Prime = x ELSE 0]

Positive(x) == x % Prime \in Squares
Sqrt(x) == Root[x % Prime]
Div(x, y) == (x * Reciprocal[y % Prime]) % Prime

RECURSIVE SumOver(_, _)
SumOver(f, S) ==
  IF S = {} THEN 0 ELSE LET x == CHOOSE x \in S : TRUE IN f[x] + SumOver(f, S \ {x})

\* The sum of the integers term(x), and that sum in the field.
IntegerSum(S, term(_)) == SumOver([x \in S |-> term(x)], S)
Sum(S, term(_)) == IntegerSum(S, term) % Prime

RECURSIVE ProductOver(_, _)
ProductOver(f, S) ==
  IF S = {} THEN 1 ELSE LET x == CHOOSE x \in S : TRUE IN f[x] * ProductOver(f, S \ {x})

\* Minors of an integer matrix M: of the rows in S, and as many columns from
\* the first.
RECURSIVE Minor(_, _)
Minor(M, S) ==
  IF S = {} THEN 1
  ELSE LET c == Cardinality(S) - 1
           Sign(r) == IF Cardinality({q \in S : q > r}) % 2 = 0 THEN 1 ELSE -1
       IN IntegerSum(S, LAMBDA r : Sign(r) * M[r][c] * Minor(M, S \ {r}))

\* The same, in the field.
RECURSIVE FieldMinor(_, _)
FieldMinor(M, S) ==
  IF S = {} THEN 1
  ELSE LET c == Cardinality(S) - 1
           Sign(r) == IF Cardinality({q \in S : q > r}) % 2 = 0 THEN 1 ELSE -1
       IN Sum(S, LAMBDA r : Sign(r) * M[r][c] * FieldMinor(M, S \ {r}))
=============================================================================
