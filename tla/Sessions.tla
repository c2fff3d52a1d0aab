------------------------------ MODULE Sessions ------------------------------
(***************************************************************************)
(* Sessions of the auth service: the handlers of src/services/             *)
(* authService.ts that open, rotate and revoke them, requireAuth, and the  *)
(* cleanup job.  Any number of replicas share one Session table.           *)
(*                                                                         *)
(* A request is served by a slot r \in Requests.  A handler is split where *)
(* it awaits between two statements: one action runs a statement and the   *)
(* code up to the next await, and leaves in req[r] the local variables the *)
(* rest of the handler will use, so that any other handler, the clock or   *)
(* the cleanup job may run in between.  An answer that changes nothing     *)
(* (400, 401, a read) is a stuttering step.                                *)
(*                                                                         *)
(* What login does before it opens a session (credentials, lockout) is in  *)
(* LoginLockout and PasswordReset; the actions here start where the        *)
(* credentials have been accepted.                                         *)
(***************************************************************************)
EXTENDS SessionTable

CONSTANTS
    Requests,       \* slots for requests in flight
    Sweepers,       \* one cleanup job per replica
    NoUser,
    RefreshTtl,     \* lifetime of a refresh token, as jsonwebtoken reads it
    AccessTtl,      \* lifetime of an access token
    SweepTtl,       \* lifetime of a refresh token, as parseExpiryToMs reads it;
                    \* beyond MaxTime where it cannot, and only revoked rows go
    MaxTime,        \* bound on the clock
    MaxMint         \* bound on the tokens signed per session

ASSUME ConstantsAssumption ==
    /\ RefreshTtl \in Nat \ {0}
    /\ AccessTtl \in Nat \ {0}
    /\ SweepTtl \in Nat \ {0}
    /\ MaxTime \in Nat
    /\ MaxMint \in Nat
    /\ NoUser \notin Users

VARIABLES
    sessions,       \* the Session table
    minted,         \* how many token pairs were signed for a session id
    issued,         \* the token pairs that were sent to clients
    now,            \* the clock
    req,            \* per slot, the request being served
    sweep           \* per cleanup job, its flag and the run under way

vars == <<sessions, minted, issued, now, req, sweep>>

Stages == {"idle", "loginCreate", "refreshRead", "refreshStore", "revokeExpired",
           "revokeReuse", "logout", "authRead", "logoutAll"}

Request == [pc   : Stages,
            tok  : Token \cup {NoToken},   \* the pair of the token presented
            new  : Token \cup {NoToken},   \* the token pair minted
            user : Users \cup {NoUser}]

Idle == [pc |-> "idle", tok |-> NoToken, new |-> NoToken, user |-> NoUser]

Job == [running   : BOOLEAN,               \* the variable of the closure
        stage     : {"idle", "deleting"},  \* where runCleanup is suspended
        reference : Nat]

IdleJob == [running |-> FALSE, stage |-> "idle", reference |-> 0]

TypeOK ==
    /\ sessions \in Table
    /\ minted \in [SessionIds -> Nat]
    /\ issued \in SUBSET Token
    /\ now \in Nat
    /\ req \in [Requests -> Request]
    /\ sweep \in [Sweepers -> Job]

Init ==
    /\ sessions = EmptyTable
    /\ minted = [s \in SessionIds |-> 0]
    /\ issued = {}
    /\ now = 0
    /\ req = [r \in Requests |-> Idle]
    /\ sweep = [w \in Sweepers |-> IdleJob]

-----------------------------------------------------------------------------
(* Tokens.                                                                 *)

RefreshExpired(t) == t.iat + RefreshTtl <= now

AccessExpired(t) == t.iat + AccessTtl <= now

\* Mutant: signRefresh without jwtid.
NewToken_NoJti(u, s) == [sid |-> s, sub |-> u, jti |-> 0, iat |-> now]

\* mintSessionTokens: a random jti makes every token string different.
NewToken(u, s) == [sid |-> s, sub |-> u, jti |-> minted[s], iat |-> now]

Mint(s) ==
    /\ minted[s] < MaxMint
    /\ minted' = [minted EXCEPT ![s] = @ + 1]

-----------------------------------------------------------------------------
(* Requests.                                                               *)

Idling(r) == req[r].pc = "idle"

\* The next await of request r, and what it keeps until then.
Await(r, stage, tok, new, user) ==
    req' = [req EXCEPT ![r] = [pc |-> stage, tok |-> tok, new |-> new, user |-> user]]

\* The handler returns.  A client that never gets the answer is one that goes
\* on presenting its old token, which every client may do.
Answer(r, tokens) ==
    /\ req' = [req EXCEPT ![r] = Idle]
    /\ issued' = issued \cup tokens

\* login, after the credentials are accepted: draws a UUID, signs the pair.
LoginMint(r, u, s) ==
    /\ Idling(r)
    /\ minted[s] = 0
    /\ Mint(s)
    /\ Await(r, "loginCreate", NoToken, NewToken(u, s), u)
    /\ UNCHANGED <<sessions, issued, now, sweep>>

LoginCreate(r) ==
    /\ req[r].pc = "loginCreate"
    /\ sessions' = Insert(sessions, req[r].new.sid, req[r].user, req[r].new, now)
    /\ Answer(r, {req[r].new})
    /\ UNCHANGED <<minted, now, sweep>>

\* refresh with a token that jsonwebtoken reports as expired.
RefreshLate(r, t) ==
    /\ Idling(r)
    /\ RefreshExpired(t)
    /\ Await(r, "revokeExpired", t, NoToken, NoUser)
    /\ UNCHANGED <<sessions, minted, issued, now, sweep>>

RevokeExpired(r) ==
    /\ req[r].pc = "revokeExpired"
    /\ sessions' = Invalidate(sessions, {req[r].tok.sid}, now)
    /\ Answer(r, {})
    /\ UNCHANGED <<minted, now, sweep>>

\* refresh with a token that is still good.
RefreshVerify(r, t) ==
    /\ Idling(r)
    /\ ~RefreshExpired(t)
    /\ Await(r, "refreshRead", t, NoToken, NoUser)
    /\ UNCHANGED <<sessions, minted, issued, now, sweep>>

\* refresh finds the session live and the presented token stored in it.
RefreshMatch(r) ==
    /\ req[r].pc = "refreshRead"
    /\ LET t == req[r].tok
       IN  /\ Live(sessions, t.sid)
           /\ sessions[t.sid].token = t
           /\ Mint(t.sid)
           /\ Await(r, "refreshStore", t, NewToken(t.sub, t.sid), NoUser)
    /\ UNCHANGED <<sessions, issued, now, sweep>>

\* The update is keyed by id alone.  A row deleted meanwhile makes it fail.
RefreshStore(r) ==
    /\ req[r].pc = "refreshStore"
    /\ LET t == req[r].new
       IN  IF Exists(sessions, t.sid)
           THEN /\ sessions' = SetToken(sessions, t.sid, t, now)
                /\ Answer(r, {t})
           ELSE /\ sessions' = sessions
                /\ Answer(r, {})
    /\ UNCHANGED <<minted, now, sweep>>

\* refresh finds the session live and another token stored in it.
RefreshReuse(r) ==
    /\ req[r].pc = "refreshRead"
    /\ LET t == req[r].tok
       IN  /\ Live(sessions, t.sid)
           /\ sessions[t.sid].token # t
           /\ Await(r, "revokeReuse", t, NoToken, sessions[t.sid].userId)
    /\ UNCHANGED <<sessions, minted, issued, now, sweep>>

RevokeReuse(r) ==
    /\ req[r].pc = "revokeReuse"
    /\ sessions' = Invalidate(sessions, OfUser(sessions, req[r].user), now)
    /\ Answer(r, {})
    /\ UNCHANGED <<minted, now, sweep>>

\* logout with a token that is still good; a missing row is ignored.
LogoutVerify(r, t) ==
    /\ Idling(r)
    /\ ~RefreshExpired(t)
    /\ Await(r, "logout", t, NoToken, NoUser)
    /\ UNCHANGED <<sessions, minted, issued, now, sweep>>

Logout(r) ==
    /\ req[r].pc = "logout"
    /\ sessions' = Invalidate(sessions, {req[r].tok.sid}, now)
    /\ Answer(r, {})
    /\ UNCHANGED <<minted, now, sweep>>

\* requireAuth in front of logout-all: the token, then the session.
AuthVerify(r, t) ==
    /\ Idling(r)
    /\ ~AccessExpired(t)
    /\ Await(r, "authRead", t, NoToken, NoUser)
    /\ UNCHANGED <<sessions, minted, issued, now, sweep>>

Authentic(t) == Live(sessions, t.sid) /\ sessions[t.sid].userId = t.sub

LogoutAllAuth(r) ==
    /\ req[r].pc = "authRead"
    /\ Authentic(req[r].tok)
    /\ Await(r, "logoutAll", req[r].tok, NoToken, req[r].tok.sub)
    /\ UNCHANGED <<sessions, minted, issued, now, sweep>>

\* refresh and requireAuth answer 401 to what they have read.
Refused(r) ==
    /\ \/ req[r].pc = "refreshRead" /\ ~Live(sessions, req[r].tok.sid)
       \/ req[r].pc = "authRead" /\ ~Authentic(req[r].tok)
    /\ Answer(r, {})
    /\ UNCHANGED <<sessions, minted, now, sweep>>

LogoutAll(r) ==
    /\ req[r].pc = "logoutAll"
    /\ sessions' = Invalidate(sessions, OfUser(sessions, req[r].user), now)
    /\ Answer(r, {})
    /\ UNCHANGED <<minted, now, sweep>>

\* The awaited statement is rejected, or the replica stops: nothing is written.
Fail(r) ==
    /\ ~Idling(r)
    /\ Answer(r, {})
    /\ UNCHANGED <<sessions, minted, now, sweep>>

-----------------------------------------------------------------------------
(* The cleanup job.                                                        *)

\* The timer fires; runCleanup returns at once if the last run is not over.
SweepStart(w) ==
    /\ ~sweep[w].running
    /\ sweep' = [sweep EXCEPT
                    ![w] = [running |-> TRUE, stage |-> "deleting", reference |-> now]]
    /\ UNCHANGED <<sessions, minted, issued, now, req>>

SweepDelete(w) ==
    /\ sweep[w].stage = "deleting"
    /\ sessions' = DeleteMany(sessions, Stale(sessions, sweep[w].reference, SweepTtl))
    /\ sweep' = [sweep EXCEPT ![w] = IdleJob]
    /\ UNCHANGED <<minted, issued, now, req>>

\* Mutant: the flag is cleared after the statement and not in a finally block.
SweepFail_NoFinally(w) ==
    /\ sweep[w].stage = "deleting"
    /\ sweep' = [sweep EXCEPT ![w].stage = "idle"]
    /\ UNCHANGED <<sessions, minted, issued, now, req>>

\* The statement is rejected: the error is logged and the flag cleared.
SweepFail(w) ==
    /\ sweep[w].stage = "deleting"
    /\ sweep' = [sweep EXCEPT ![w] = IdleJob]
    /\ UNCHANGED <<sessions, minted, issued, now, req>>

-----------------------------------------------------------------------------
Tick ==
    /\ now < MaxTime
    /\ now' = now + 1
    /\ UNCHANGED <<sessions, minted, issued, req, sweep>>

\* A client calls the service, and the handler gets to its first statement.
Call(r) ==
    \/ \E u \in Users, s \in SessionIds : LoginMint(r, u, s)
    \/ \E t \in issued :
          \/ RefreshLate(r, t)
          \/ RefreshVerify(r, t)
          \/ LogoutVerify(r, t)
          \/ AuthVerify(r, t)

\* The awaited statement was a read.
Read(r) == RefreshMatch(r) \/ RefreshReuse(r) \/ LogoutAllAuth(r) \/ Refused(r)

\* The awaited statement writes, and the handler returns.
Write(r) ==
    \/ LoginCreate(r)
    \/ RevokeExpired(r)
    \/ RefreshStore(r)
    \/ RevokeReuse(r)
    \/ Logout(r)
    \/ LogoutAll(r)

\* An awaited statement settles.
Settle(r) == Read(r) \/ Write(r) \/ Fail(r)

Sweep(w) == SweepStart(w) \/ SweepDelete(w) \/ SweepFail(w)

Next ==
    \/ Tick
    \/ \E r \in Requests : Call(r) \/ Settle(r)
    \/ \E w \in Sweepers : Sweep(w)

Spec == Init /\ [][Next]_vars

\* Every await settles, the interval timer keeps firing, and the database is
\* not down at every run of the cleanup job.
Fairness ==
    /\ \A r \in Requests : WF_vars(Settle(r))
    /\ \A w \in Sweepers : WF_vars(Sweep(w)) /\ SF_vars(SweepDelete(w))

FairSpec == Spec /\ Fairness

-----------------------------------------------------------------------------
(* Properties.                                                             *)

\* A live session stores the hash of a token signed for that session and its
\* owner, at or before the last write of the row.  refresh relies on the first
\* half (payload.sub and payload.sid are never compared with the row) and
\* cleanupExpiredSessions on the second (it judges a token by updatedAt).
LiveRowInv ==
    \A s \in SessionIds :
        Live(sessions, s) =>
            LET row == sessions[s]
            IN  /\ row.token \in Token
                /\ row.token.sid = s
                /\ row.token.sub = row.userId
                /\ row.token.iat <= row.updatedAt
                /\ row.updatedAt <= now

\* A token that a client has already held is never written to the table again:
\* whatever the interleaving of refreshes, a rotated-out token stays out.
NoTokenRestored ==
    [][\A s \in SessionIds :
          Live(sessions', s) /\ sessions'[s] # sessions[s]
              => sessions'[s].token \notin issued]_vars

\* The cleanup job removes a live session only when the refresh token stored
\* in it has expired, although it sees neither the token nor its iat.
SweepSparesLive ==
    [][\A s \in SessionIds :
          Live(sessions, s) /\ ~Exists(sessions', s)
              => RefreshExpired(sessions[s].token)]_vars

\* On whose behalf request r runs.
Principal(r) == IF req[r].tok = NoToken THEN req[r].user ELSE req[r].tok.sub

Owner(table, s) == IF Exists(table, s) THEN table[s].userId ELSE NoUser

\* A request writes only rows of the user whose credentials it presented, also
\* where the statement selects the rows by another record's userId.
ActsForItsUser ==
    [][\A r \in Requests, s \in SessionIds :
          req'[r] # req[r] /\ sessions'[s] # sessions[s]
              => Principal(r) \in {Owner(sessions, s), Owner(sessions', s)}]_vars

\* The sessions that the ledger still knows nothing of: no id was drawn, or the
\* login that drew it has not stored its row yet.
Unborn ==
    {s \in SessionIds :
        \/ minted[s] = 0
        \/ \E r \in Requests : req[r].pc = "loginCreate" /\ req[r].new.sid = s}

Life ==
    [s \in SessionIds |->
        IF ~Exists(sessions, s) THEN "absent"
        ELSE IF sessions[s].valid THEN "active" ELSE "revoked"]

Deadline ==
    [s \in SessionIds |->
        IF Live(sessions, s) THEN sessions[s].token.iat + RefreshTtl ELSE 0]

Ledger == INSTANCE SessionLedger WITH
    Ttl <- RefreshTtl, fresh <- Unborn, life <- Life, deadline <- Deadline

\* Under every interleaving of logins, refreshes, revocations and cleanups, a
\* session is opened once, a revoked session never works again, and the store
\* forgets a session only when it is revoked or has lapsed.
ImplementsLedger == Ledger!Spec

\* A revoked row is deleted in the end: nothing turns it live again, and the
\* failures of single cleanups do not stop the job.
RevokedIsPurged ==
    \A s \in SessionIds :
        (Exists(sessions, s) /\ ~Live(sessions, s)) ~> ~Exists(sessions, s)

\* README.md:5 "rotating refresh", tests/auth.happy.test.ts:4 "old refresh token
\* is rejected after rotation": the token that a refresh replaces in a live
\* session is the token it was called with.
RotationIsExclusive ==
    [][\A r \in Requests :
          (req[r].pc = "refreshStore" /\ Live(sessions, req[r].tok.sid) /\ sessions' # sessions)
              => (req'[r] = req[r] \/ sessions[req[r].tok.sid].token = req[r].tok)]_vars

-----------------------------------------------------------------------------
(* The inductive invariant behind the theorems of SessionsProofs.          *)

\* Request r holds a token pair that it minted and has not stored yet.
Minting(r) == req[r].pc \in {"loginCreate", "refreshStore"}

\* The locals of a suspended handler: who it acts for, and that the pair it
\* minted is its own, was never sent and is for the session it will write.
RequestInv ==
    \A r \in Requests :
        /\ req[r].pc \notin {"idle", "loginCreate"} => req[r].tok \in issued
        /\ Minting(r) => /\ req[r].new \in Token \ issued
                         /\ req[r].new.iat <= now
                         /\ req[r].new.jti < minted[req[r].new.sid]
        /\ req[r].pc = "loginCreate" => /\ req[r].user = req[r].new.sub
                                        /\ req[r].tok = NoToken
        /\ req[r].pc = "refreshStore" => /\ req[r].new.sid = req[r].tok.sid
                                         /\ req[r].new.sub = req[r].tok.sub
        /\ req[r].pc \in {"revokeReuse", "logoutAll"} => req[r].user = req[r].tok.sub

\* Two handlers never hold the same pair.
MintedOnce ==
    \A r1, r2 \in Requests :
        r1 # r2 /\ Minting(r1) /\ Minting(r2) => req[r1].new # req[r2].new

\* The id drawn by a login in flight is known to nobody else.
DrawnIdInv ==
    \A r \in Requests :
        req[r].pc = "loginCreate" =>
            /\ ~Exists(sessions, req[r].new.sid)
            /\ \A t \in issued : t.sid # req[r].new.sid
            /\ \A r2 \in Requests \ {r} :
                  Minting(r2) => req[r2].new.sid # req[r].new.sid

\* Sent tokens were minted, and name the owner of their session.
IssuedInv ==
    \A t \in issued :
        /\ t.iat <= now
        /\ t.jti < minted[t.sid]
        /\ Exists(sessions, t.sid) => sessions[t.sid].userId = t.sub

\* A row comes from a minted pair; what a live row stores has been sent.
RowInv ==
    \A s \in SessionIds :
        /\ Exists(sessions, s) => minted[s] # 0
        /\ Live(sessions, s) => sessions[s].token \in issued

SweepInv == \A w \in Sweepers : sweep[w].reference <= now

\* What every reachable state satisfies and every step preserves.  The locals
\* of the suspended handlers are what makes LiveRowInv inductive.
IndInv ==
    /\ TypeOK
    /\ LiveRowInv
    /\ RequestInv
    /\ MintedOnce
    /\ DrawnIdInv
    /\ IssuedInv
    /\ RowInv
    /\ SweepInv
=============================================================================
