----------------------------- MODULE MCSessions -----------------------------
(***************************************************************************)
(* Model checking of Sessions: model values for users, sessions, requests  *)
(* and cleanup jobs, and the permutations under which the states with only *)
(* safety properties are equivalent.                                       *)
(***************************************************************************)
EXTENDS Sessions, TLC

Symmetry ==
    Permutations(Users) \cup Permutations(SessionIds) \cup Permutations(Requests)
=============================================================================
