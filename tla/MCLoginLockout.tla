--------------------------- MODULE MCLoginLockout ---------------------------
(***************************************************************************)
(* Model checking of LoginLockout.  Its requests are interchangeable, but  *)
(* the run checks a liveness property, so no symmetry is declared.         *)
(***************************************************************************)
EXTENDS LoginLockout
=============================================================================
