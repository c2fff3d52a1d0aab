---------------------------- MODULE MCLifecycle ----------------------------
(***************************************************************************)
(* Model checking of Lifecycle.                                            *)
(***************************************************************************)
EXTENDS Lifecycle
=============================================================================
