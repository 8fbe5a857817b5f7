---------------------------- MODULE MCTokenTable ----------------------------
(***************************************************************************)
(* An instance of TokenTable for TLC: m1 and m2, of two rows, factor; m3,  *)
(* of three, does not.                                                     *)
(***************************************************************************)
EXTENDS TokenTable, TLC

CONSTANTS t1, t2, cholmod, m1, m2, m3

TwoThreads == {t1, t2}
OneBackend == {cholmod}
OneOrder == <<cholmod>>
ThreeMatrices == {m1, m2, m3}
Sizes == [m \in Matrices |-> IF m = m3 THEN 3 ELSE 2]
Singular == {m3}
BothCaps == {1, 2}

Interchangeable == Permutations(Threads) \cup Permutations({m1, m2})
=============================================================================
