---------------------------- MODULE PasswordReset ----------------------------
(***************************************************************************)
(* Passwords, password reset tokens and the sessions opened with them:     *)
(* requestPasswordReset, resetPassword and login of src/services/          *)
(* authService.ts, run by any number of requests at once on a database     *)
(* under Read Committed.                                                   *)
(*                                                                         *)
(* A password is represented by its version: the k-th password the user    *)
(* has had.  A reset token is the id of its row.  The lockout statements   *)
(* of login are in LoginLockout, and rotation of the sessions in Sessions. *)
(*                                                                         *)
(* The two transactions are modelled statement by statement.  A statement   *)
(* sees the rows committed when it starts (its snapshot), then waits for    *)
(* the locks of the rows it has chosen and looks at them again; what it     *)
(* has written is kept in the request and applied when the transaction      *)
(* commits.  A row inserted meanwhile is neither seen nor waited for: the   *)
(* key share lock that an insert takes on the user's row does not conflict  *)
(* with an update of the password.                                          *)
(***************************************************************************)
EXTENDS Naturals, FiniteSets

CONSTANTS
    Users,
    ResetIds,       \* ids of the rows of PasswordResetToken
    SessionIds,
    Requests,
    NoRow, NoUser, NoId,
    ResetTtl,       \* passwordResetTtlMs
    MaxTime,        \* bound on the clock
    MaxVersion      \* bound on the password changes per user

VARIABLES
    password,       \* the version of each user's password
    resets,         \* the PasswordResetToken table
    sessions,       \* the Session table
    now,
    req             \* the request served by each slot

vars == <<password, resets, sessions, now, req>>

\* seen, version and missed are history variables: the unused rows that the
\* transaction which created the token found; the user's password when the token
\* was created; how many resets of that user had then already looked for tokens.
Reset == [userId    : Users,
          used      : BOOLEAN,
          expiresAt : Nat,
          seen      : SUBSET ResetIds,
          version   : Nat,
          missed    : Nat]

\* version, under and missed are history variables: the password that login
\* accepted; the user's password when the row was created; whether a reset of
\* that user had then already looked for sessions.
Session == [userId : Users, valid : BOOLEAN, version : Nat, under : Nat, missed : BOOLEAN]

\* seen: the rows of the running updateMany's snapshot.  marks and revoked: the
\* tokens and sessions that the transaction has locked and written.  expires: the
\* expiry of the token to be created.  version: the password login has accepted.
Request == [pc      : {"idle", "closeOlder", "createReset", "markExpired", "useToken",
                       "findTokens", "closeTokens", "setPassword", "revokeSessions",
                       "commit", "loginCreate"},
            user    : Users \cup {NoUser},
            id      : ResetIds \cup {NoId},
            seen    : SUBSET ResetIds,
            marks   : SUBSET ResetIds,
            revoked : SUBSET SessionIds,
            expires : Nat,
            version : Nat]

Idle == [pc |-> "idle", user |-> NoUser, id |-> NoId, seen |-> {}, marks |-> {},
         revoked |-> {}, expires |-> 0, version |-> 0]

ASSUME ResetAssumption ==
    /\ ResetTtl \in Nat \ {0}
    /\ MaxTime \in Nat
    /\ MaxVersion \in Nat
    /\ IsFiniteSet(Requests)
    /\ NoRow \notin Reset \cup Session

TypeOK ==
    /\ password \in [Users -> Nat]
    /\ resets \in [ResetIds -> Reset \cup {NoRow}]
    /\ sessions \in [SessionIds -> Session \cup {NoRow}]
    /\ now \in Nat
    /\ req \in [Requests -> Request]

Init ==
    /\ password = [u \in Users |-> 0]
    /\ resets = [i \in ResetIds |-> NoRow]
    /\ sessions = [s \in SessionIds |-> NoRow]
    /\ now = 0
    /\ req = [r \in Requests |-> Idle]

-----------------------------------------------------------------------------
Idling(r) == req[r].pc = "idle"

Done(r) == req' = [req EXCEPT ![r] = Idle]

\* The tokens of user u that are in the table, and those not used yet.
TokensOf(u) == {i \in ResetIds : resets[i] # NoRow /\ resets[i].userId = u}

Unused(u) == {i \in TokensOf(u) : ~resets[i].used}

Live(s) == sessions[s] # NoRow /\ sessions[s].valid

\* Some row of S is locked by the transaction of another request.
Locked(r, S) == \E x \in Requests \ {r} : req[x].marks \cap S # {}

\* The rows of the table after a transaction that used up S has committed.
Use(table, S) ==
    [i \in ResetIds |-> IF i \in S /\ table[i] # NoRow THEN [table[i] EXCEPT !.used = TRUE]
                                                       ELSE table[i]]

\* The second half of passwordResetToken.updateMany({ where: { userId, usedAt: null } }):
\* the rows of its snapshot are locked, and those still unused are written.
StillUnused(r) == {i \in req[r].seen : ~resets[i].used}

\* The resets of user u that have looked for tokens, and for sessions.
PastTokens(u) ==
    {r \in Requests : req[r].user = u
                      /\ req[r].pc \in {"closeTokens", "setPassword", "revokeSessions", "commit"}}

PastSessions(u) == {r \in Requests : req[r].user = u /\ req[r].pc = "commit"}

-----------------------------------------------------------------------------
(* requestPasswordReset                                                    *)

\* Finds the user and starts the updateMany of createPasswordResetToken.
FindOlder(r, u) ==
    /\ Idling(r)
    /\ req' = [req EXCEPT ![r] = [Idle EXCEPT !.pc = "closeOlder", !.user = u,
                                              !.seen = Unused(u)]]
    /\ UNCHANGED <<password, resets, sessions, now>>

\* The older tokens are closed and the expiry of the new one is computed.
CloseOlder(r) ==
    /\ req[r].pc = "closeOlder"
    /\ ~Locked(r, req[r].seen)
    /\ req' = [req EXCEPT ![r].pc = "createReset", ![r].marks = StillUnused(r),
                          ![r].expires = now + ResetTtl]
    /\ UNCHANGED <<password, resets, sessions, now>>

\* Mutant: the row is created without its user.
NewReset_NoUser(r) ==
    [userId |-> NoUser, used |-> FALSE, expiresAt |-> req[r].expires, seen |-> req[r].seen,
     version |-> password[req[r].user], missed |-> Cardinality(PastTokens(req[r].user))]

NewReset(r) ==
    [userId |-> req[r].user, used |-> FALSE, expiresAt |-> req[r].expires, seen |-> req[r].seen,
     version |-> password[req[r].user], missed |-> Cardinality(PastTokens(req[r].user))]

\* Mutant: the older tokens are left alone.
CreateReset_KeepOld(r) ==
    /\ req[r].pc = "createReset"
    /\ \E i \in ResetIds :
          /\ resets[i] = NoRow
          /\ resets' = [resets EXCEPT ![i] = NewReset(r)]
    /\ Done(r)
    /\ UNCHANGED <<password, sessions, now>>

\* Creates the token, commits, and mails the token without waiting.
CreateReset(r) ==
    /\ req[r].pc = "createReset"
    /\ \E i \in ResetIds :
          /\ resets[i] = NoRow
          /\ resets' = [Use(resets, req[r].marks) EXCEPT ![i] = NewReset(r)]
    /\ Done(r)
    /\ UNCHANGED <<password, sessions, now>>

-----------------------------------------------------------------------------
(* resetPassword                                                           *)

\* The token is looked up and found usable; the new password is hashed next.
\* The clock is read after the row, but an expiry never changes: a request that
\* reads the row in time and the clock too late is RejectExpired at the later time
\* (should the token have been used between, marking it again changes nothing).
AcceptToken(r, i) ==
    /\ Idling(r)
    /\ resets[i] # NoRow
    /\ ~resets[i].used
    /\ resets[i].expiresAt > now
    /\ req' = [req EXCEPT ![r] = [Idle EXCEPT !.pc = "useToken", !.id = i,
                                              !.user = resets[i].userId]]
    /\ UNCHANGED <<password, resets, sessions, now>>

RejectExpired(r, i) ==
    /\ Idling(r)
    /\ resets[i] # NoRow
    /\ ~resets[i].used
    /\ resets[i].expiresAt <= now
    /\ req' = [req EXCEPT ![r] = [Idle EXCEPT !.pc = "markExpired", !.id = i,
                                              !.user = resets[i].userId]]
    /\ UNCHANGED <<password, resets, sessions, now>>

MarkExpired(r) ==
    /\ req[r].pc = "markExpired"
    /\ ~Locked(r, {req[r].id})
    /\ resets' = Use(resets, {req[r].id})
    /\ Done(r)
    /\ UNCHANGED <<password, sessions, now>>

\* The transaction's first statement: the presented token is used up, whatever
\* its state is now.
UseToken(r) ==
    /\ req[r].pc = "useToken"
    /\ ~Locked(r, {req[r].id})
    /\ req' = [req EXCEPT ![r].pc = "findTokens", ![r].marks = {req[r].id}]
    /\ UNCHANGED <<password, resets, sessions, now>>

\* Mutant: the other tokens of the user are not looked for.
FindTokens_KeepTokens(r) ==
    /\ req[r].pc = "findTokens"
    /\ req' = [req EXCEPT ![r].pc = "closeTokens"]
    /\ UNCHANGED <<password, resets, sessions, now>>

\* The second statement, the updateMany of the user's other unused tokens.
FindTokens(r) ==
    /\ req[r].pc = "findTokens"
    /\ req' = [req EXCEPT ![r].pc = "closeTokens", ![r].seen = Unused(req[r].user)]
    /\ UNCHANGED <<password, resets, sessions, now>>

CloseTokens(r) ==
    /\ req[r].pc = "closeTokens"
    /\ ~Locked(r, req[r].seen)
    /\ req' = [req EXCEPT ![r].pc = "setPassword", ![r].marks = {req[r].id} \cup StillUnused(r)]
    /\ UNCHANGED <<password, resets, sessions, now>>

\* Mutant: the sessions are searched before the user's row is locked.
SetPassword_NoLock(r) ==
    /\ req[r].pc = "setPassword"
    /\ password[req[r].user] < MaxVersion
    /\ req' = [req EXCEPT ![r].pc = "revokeSessions"]
    /\ UNCHANGED <<password, resets, sessions, now>>

\* The third statement locks the user's row and writes the password.
SetPassword(r) ==
    /\ req[r].pc = "setPassword"
    /\ \A x \in Requests \ {r} :
          req[x].pc \in {"revokeSessions", "commit"} => req[x].user # req[r].user
    /\ password[req[r].user] < MaxVersion
    /\ req' = [req EXCEPT ![r].pc = "revokeSessions"]
    /\ UNCHANGED <<password, resets, sessions, now>>

\* The fourth statement: the sessions of the user are revoked.
RevokeSessions(r) ==
    /\ req[r].pc = "revokeSessions"
    /\ req' = [req EXCEPT ![r].pc = "commit",
                          ![r].revoked = {s \in SessionIds :
                              sessions[s] # NoRow /\ sessions[s].userId = req[r].user}]
    /\ UNCHANGED <<password, resets, sessions, now>>

ChangePassword(r) ==
    /\ req[r].pc = "commit"
    /\ resets' = Use(resets, req[r].marks)
    /\ password' = [password EXCEPT ![req[r].user] = @ + 1]
    /\ sessions' = [s \in SessionIds |-> IF s \in req[r].revoked
                                         THEN [sessions[s] EXCEPT !.valid = FALSE]
                                         ELSE sessions[s]]
    /\ Done(r)
    /\ UNCHANGED now

-----------------------------------------------------------------------------
(* login                                                                   *)

\* Reads the user and verifies the password against the hash it has read.
LoginVerify(r, u) ==
    /\ Idling(r)
    /\ req' = [req EXCEPT ![r] = [Idle EXCEPT !.pc = "loginCreate", !.user = u,
                                              !.version = password[u]]]
    /\ UNCHANGED <<password, resets, sessions, now>>

LoginCreate(r) ==
    /\ req[r].pc = "loginCreate"
    /\ \E s \in SessionIds :
          /\ sessions[s] = NoRow
          /\ sessions' = [sessions EXCEPT
                ![s] = [userId |-> req[r].user, valid |-> TRUE, version |-> req[r].version,
                        under |-> password[req[r].user],
                        missed |-> PastSessions(req[r].user) # {}]]
    /\ Done(r)
    /\ UNCHANGED <<password, resets, now>>

-----------------------------------------------------------------------------
\* A statement is rejected (a deadlock victim, a lost connection) or the replica
\* stops: the transaction is rolled back.
Fail(r) ==
    /\ ~Idling(r)
    /\ Done(r)
    /\ UNCHANGED <<password, resets, sessions, now>>

Tick ==
    /\ now < MaxTime
    /\ now' = now + 1
    /\ UNCHANGED <<password, resets, sessions, req>>

Next ==
    \/ Tick
    \/ \E r \in Requests :
          \/ \E u \in Users : FindOlder(r, u) \/ LoginVerify(r, u)
          \/ \E i \in ResetIds : AcceptToken(r, i) \/ RejectExpired(r, i)
          \/ CloseOlder(r)
          \/ CreateReset(r)
          \/ MarkExpired(r)
          \/ UseToken(r)
          \/ FindTokens(r)
          \/ CloseTokens(r)
          \/ SetPassword(r)
          \/ RevokeSessions(r)
          \/ ChangePassword(r)
          \/ LoginCreate(r)
          \/ Fail(r)

Spec == Init /\ [][Next]_vars

-----------------------------------------------------------------------------
(* Properties.                                                             *)

\* A session that works survives at most one password change since it was
\* created, and that one only if the reset had then already looked for sessions:
\* resets of one user search them one after the other.
NoSessionSurvivesTwoChanges ==
    \A s \in SessionIds : Live(s) =>
        LET current == password[sessions[s].userId]
        IN  \/ sessions[s].under = current
            \/ sessions[s].under + 1 = current /\ sessions[s].missed

\* A token that works has survived no more password changes than there were
\* resets that had already looked for tokens when it was created.
TokensSurviveOnlyPastResets ==
    \A u \in Users : \A i \in Unused(u) :
        password[u] <= resets[i].version + resets[i].missed

\* Two tokens of a user both work only if the requests that created them
\* overlapped, so that neither saw the other's row.
OnlyOverlappingTokens ==
    \A u \in Users : \A i, j \in Unused(u) : i # j => i \notin resets[j].seen

\* What a suspended handler holds: the user it found, and rows that exist.
RequestInv ==
    \A r \in Requests :
        /\ req[r].pc \notin {"idle", "markExpired"} => req[r].user \in Users
        /\ req[r].pc \in {"useToken", "findTokens", "closeTokens"} => req[r].id \in ResetIds
        /\ \A i \in req[r].seen : resets[i] # NoRow
        /\ \A s \in req[r].revoked : sessions[s] # NoRow

\* Once an updateMany has its locks, the unused tokens it found are marked.
MarksInv ==
    \A r \in Requests :
        req[r].pc \in {"createReset", "setPassword", "revokeSessions", "commit"} =>
            \A i \in req[r].seen : i \in req[r].marks \/ resets[i].used

\* The user's row is locked by one transaction at a time.
UserLockInv ==
    \A r, x \in Requests :
        (/\ req[r].pc \in {"revokeSessions", "commit"}
         /\ req[x].pc \in {"revokeSessions", "commit"}
         /\ req[r].user = req[x].user) => r = x

\* A session that a reset about to commit has not found is newer than its search.
RevokedInv ==
    \A r \in Requests : \A s \in SessionIds :
        (/\ req[r].pc = "commit"
         /\ Live(s)
         /\ sessions[s].userId = req[r].user
         /\ s \notin req[r].revoked) =>
            sessions[s].under = password[req[r].user] /\ sessions[s].missed

\* The resets that will commit without closing token i.
Missing(i) == {r \in PastTokens(resets[i].userId) : i \notin req[r].seen}

\* They, and the changes that token i has survived, were counted at its creation.
MissingInv ==
    \A u \in Users : \A i \in Unused(u) :
        password[u] + Cardinality(Missing(i)) <= resets[i].version + resets[i].missed

\* A token was created after the rows its request saw.
SeenInv ==
    \A i \in ResetIds : resets[i] # NoRow => \A j \in resets[i].seen : resets[j] # NoRow

\* The inductive invariant of PasswordResetProofs.
IndInv ==
    /\ TypeOK
    /\ RequestInv
    /\ MarksInv
    /\ UserLockInv
    /\ SeenInv
    /\ RevokedInv
    /\ MissingInv
    /\ NoSessionSurvivesTwoChanges
    /\ OnlyOverlappingTokens

\* src/docs/openapi.ts:667 "All sessions are revoked once the password is
\* changed": a session that works was opened with the current password.
SessionsMatchPassword ==
    \A s \in SessionIds : Live(s) => sessions[s].version = password[sessions[s].userId]

=============================================================================
