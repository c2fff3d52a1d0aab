----------------------------- MODULE MCAccounts -----------------------------
(***************************************************************************)
(* Model checking of Accounts.                                             *)
(***************************************************************************)
EXTENDS Accounts, TLC

Symmetry ==
    Permutations(Emails) \cup Permutations(UserIds) \cup Permutations(TokenIds)
        \cup Permutations(SessionIds) \cup Permutations(Requests)
=============================================================================
