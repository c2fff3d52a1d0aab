---------------------------- MODULE ProcessLife ----------------------------
(***************************************************************************)
(* What an orchestrator is promised of one replica, without connections,   *)
(* signals or Redis: it serves at most once, a replica that has its port   *)
(* ends only through a stop, which closes the port for good and settles    *)
(* the exit code, and from the settled code only a failure may depart.  A  *)
(* replica that never got its port may also end of itself.                 *)
(*                                                                         *)
(* Lifecycle.tla implements this specification.                            *)
(***************************************************************************)
VARIABLES
    stage,      \* "starting", "serving", "stopping" or "ended"
    accepting,  \* the port accepts connections
    code        \* "none", "success" or "failure": the exit code, once it is settled

vars == <<stage, accepting, code>>

Init ==
    /\ stage = "starting"
    /\ accepting = FALSE
    /\ code = "none"

\* The port may be taken, and the replica serves all the same.
Serve ==
    /\ stage = "starting"
    /\ stage' = "serving"
    /\ accepting' \in BOOLEAN
    /\ UNCHANGED code

Abort ==
    /\ stage = "starting"
    /\ stage' = "ended"
    /\ code' = "failure"
    /\ UNCHANGED accepting

Stop ==
    /\ stage = "serving"
    /\ stage' = "stopping"
    /\ accepting' = FALSE
    /\ code' \in {"success", "failure"}

End ==
    /\ stage = "stopping"
    /\ stage' = "ended"
    /\ code' \in {code, "failure"}
    /\ UNCHANGED accepting

\* Without the port there may be nothing left to wait for.
RunOut ==
    /\ stage = "serving"
    /\ ~accepting
    /\ stage' = "ended"
    /\ code' = "success"
    /\ UNCHANGED accepting

Next == Serve \/ Abort \/ Stop \/ End \/ RunOut

Spec == Init /\ [][Next]_vars
=============================================================================
