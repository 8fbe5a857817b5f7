--------------------------- MODULE MCSharedFactor ---------------------------
(***************************************************************************)
(* An instance of SharedFactor for TLC: two threads that each make a call  *)
(* on one factor, every kind of call beside every other; chains of up to   *)
(* three solves, so that both buffers are used, and used again.            *)
(***************************************************************************)
EXTENDS SharedFactor

CONSTANTS c1, c2

MCCallers == {c1, c2}
MCCalls ==
  {[op |-> "chain", mode_chain |-> <<0, 1, 1, 1, 0>>, chain_lens |-> <<3, 0, 2>>],
   [op |-> "chain", mode_chain |-> <<1, -1>>, chain_lens |-> <<2>>],
   [op |-> "updown", mode_chain |-> <<1>>, chain_lens |-> <<1>>],
   [op |-> "selinv", mode_chain |-> <<>>, chain_lens |-> <<>>],
   [op |-> "argmax", mode_chain |-> <<>>, chain_lens |-> <<>>]}
=============================================================================
