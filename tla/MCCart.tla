------------------------------- MODULE MCCart -------------------------------
(***************************************************************************)
(* Small shops for Cart.                                                   *)
(***************************************************************************)
EXTENDS Cart, TLC

CartSymmetry == Permutations(Requests) \cup Permutations(Products)
=============================================================================
