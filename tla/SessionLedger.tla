--------------------------- MODULE SessionLedger ---------------------------
(***************************************************************************)
(* What the session store promises to the clients of the service, without  *)
(* tokens, requests or rows: a session id is opened at most once; an open  *)
(* session has a deadline, at most Ttl away, which renewals move; a        *)
(* revoked session never becomes active again; and the store forgets an    *)
(* active session only when its deadline has passed.                       *)
(*                                                                         *)
(* Sessions.tla implements this specification.                             *)
(***************************************************************************)
EXTENDS Naturals

CONSTANTS SessionIds, Ttl

VARIABLES
    now,        \* the clock
    fresh,      \* the ids that may still be opened
    life,       \* "absent", "active" or "revoked", per session
    deadline    \* when an active session lapses if nothing renews it

vars == <<now, fresh, life, deadline>>

Init ==
    /\ now = 0
    /\ fresh = SessionIds
    /\ life = [s \in SessionIds |-> "absent"]
    /\ deadline = [s \in SessionIds |-> 0]

Tick ==
    /\ now' = now + 1
    /\ UNCHANGED <<fresh, life, deadline>>

Open(s) ==
    /\ s \in fresh
    /\ life[s] = "absent"
    /\ fresh' = fresh \ {s}
    /\ life' = [life EXCEPT ![s] = "active"]
    /\ \E d \in 0..(now + Ttl) : deadline' = [deadline EXCEPT ![s] = d]
    /\ UNCHANGED now

\* An id that was drawn for a session that was never stored.
Discard(s) ==
    /\ s \in fresh
    /\ fresh' = fresh \ {s}
    /\ UNCHANGED <<now, life, deadline>>

Renew(s) ==
    /\ life[s] = "active"
    /\ \E d \in 0..(now + Ttl) : deadline' = [deadline EXCEPT ![s] = d]
    /\ UNCHANGED <<now, fresh, life>>

Revoke(S) ==
    /\ \A s \in S : life[s] \in {"active", "revoked"}
    /\ life' = [s \in SessionIds |-> IF s \in S THEN "revoked" ELSE life[s]]
    /\ deadline' = [s \in SessionIds |-> IF s \in S THEN 0 ELSE deadline[s]]
    /\ UNCHANGED <<now, fresh>>

Forget(S) ==
    /\ \A s \in S : \/ life[s] = "revoked"
                    \/ life[s] = "active" /\ deadline[s] <= now
    /\ life' = [s \in SessionIds |-> IF s \in S THEN "absent" ELSE life[s]]
    /\ deadline' = [s \in SessionIds |-> IF s \in S THEN 0 ELSE deadline[s]]
    /\ UNCHANGED <<now, fresh>>

Next ==
    \/ Tick
    \/ \E s \in SessionIds : Open(s) \/ Discard(s) \/ Renew(s)
    \/ \E S \in SUBSET SessionIds : Revoke(S) \/ Forget(S)

Spec == Init /\ [][Next]_vars
=============================================================================
