---------------------------- MODULE MCWorkSharing ----------------------------
(***************************************************************************)
(* A small instance of WorkSharing for TLC.                                *)
(***************************************************************************)
EXTENDS WorkSharing

MCManySizes == {0, 1, 3, 5}
MCWorths == {0, 2, 5}
=============================================================================
