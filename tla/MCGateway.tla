----------------------------- MODULE MCGateway -----------------------------
(***************************************************************************)
(* Model checking of Gateway.                                              *)
(***************************************************************************)
EXTENDS Gateway, TLC

Symmetry == Permutations(Users) \cup Permutations(Scripts)
=============================================================================
