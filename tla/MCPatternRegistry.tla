-------------------------- MODULE MCPatternRegistry --------------------------
(***************************************************************************)
(* Small instances of PatternRegistry for TLC: two structures of one hash. *)
(***************************************************************************)
EXTENDS PatternRegistry, TLC

MCHash == [s \in Structures |-> 0]

Symmetric == Permutations(Threads) \cup Permutations(Programs)
               \cup Permutations(Options)
=============================================================================
