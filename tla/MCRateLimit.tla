---------------------------- MODULE MCRateLimit ----------------------------
(***************************************************************************)
(* Model checking of RateLimit: in twenty seconds one request exactly,    *)
(* one by rounding up, and one where the rate would allow none.            *)
(***************************************************************************)
EXTENDS RateLimit

Rates == [global   |-> [num |-> 3, den |-> 1],
          auth     |-> [num |-> 2, den |-> 1],
          register |-> [num |-> 33, den |-> 100],
          reset    |-> [num |-> 0, den |-> 1]]
=============================================================================
