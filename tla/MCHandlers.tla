----------------------------- MODULE MCHandlers -----------------------------
(***************************************************************************)
(* Instances of Handlers for TLC: m1 is an ordinary matrix, m2 does not    *)
(* factor, m3's log-determinant overflows an LU, C makes m4 indefinite.    *)
(***************************************************************************)
EXTENDS Handlers, TLC

CONSTANTS c1, m1, m2, m3, m4

OneCaller == {c1}
MCMatrices == {m1, m2, m3, m4}
MCUnfactorable == {m2}
MCFlat == {m3}
MCSpoiled == {m4}
=============================================================================
