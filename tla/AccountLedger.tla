--------------------------- MODULE AccountLedger ---------------------------
(***************************************************************************)
(* What registration promises, without rows, tokens, mails or requests: an *)
(* address is registered once and stays registered; where verification is  *)
(* required it is pending until it has been verified once, and only an     *)
(* active address is ever let in.                                          *)
(*                                                                         *)
(* Accounts.tla implements this specification.                             *)
(***************************************************************************)
CONSTANT Emails

VARIABLES
    required,   \* whether addresses must be verified
    status,     \* "free", "pending" or "active", per address
    admitted    \* the addresses that have been given a session

vars == <<required, status, admitted>>

Init ==
    /\ required \in BOOLEAN
    /\ status = [e \in Emails |-> "free"]
    /\ admitted = {}

\* Without verification a registration is also the first login.
Register(e) ==
    /\ status[e] = "free"
    /\ IF required
       THEN /\ status' = [status EXCEPT ![e] = "pending"]
            /\ UNCHANGED admitted
       ELSE /\ status' = [status EXCEPT ![e] = "active"]
            /\ admitted' = admitted \cup {e}
    /\ UNCHANGED required

Verify(e) ==
    /\ status[e] = "pending"
    /\ status' = [status EXCEPT ![e] = "active"]
    /\ UNCHANGED <<required, admitted>>

Admit(e) ==
    /\ status[e] = "active"
    /\ admitted' = admitted \cup {e}
    /\ UNCHANGED <<required, status>>

Next == \E e \in Emails : Register(e) \/ Verify(e) \/ Admit(e)

Spec == Init /\ [][Next]_vars
=============================================================================
