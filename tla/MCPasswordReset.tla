-------------------------- MODULE MCPasswordReset --------------------------
(***************************************************************************)
(* Model checking of PasswordReset.                                        *)
(***************************************************************************)
EXTENDS PasswordReset, TLC

Symmetry ==
    Permutations(Users) \cup Permutations(ResetIds) \cup Permutations(SessionIds)
        \cup Permutations(Requests)
=============================================================================
