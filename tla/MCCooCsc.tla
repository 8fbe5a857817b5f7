------------------------------ MODULE MCCooCsc ------------------------------
(* Instances of CooCsc for TLC: matrices of up to 3 x 3, both triangles.   *)
EXTENDS CooCsc

MCDims == 0..3
MCIndices == -1..3
MCEntries == {1, 2}
MCKinds == {"full", "upper"}
=============================================================================
