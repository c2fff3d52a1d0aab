------------------------------ MODULE Accounts ------------------------------
(***************************************************************************)
(* Accounts: register, createVerificationToken, verifyEmail and the part   *)
(* of login that looks at emailVerifiedAt (src/services/authService.ts),   *)
(* served by any number of requests at once.                               *)
(*                                                                         *)
(* The unique index of User.email is the database's: a transaction that    *)
(* inserts an address that is there by the time it commits gets P2002.     *)
(* A transaction takes effect when it commits.  Mails are sent after the   *)
(* commit and may be lost.  Nothing here closes a session (see Sessions).  *)
(***************************************************************************)
EXTENDS Naturals

CONSTANTS
    Emails,         \* normalized addresses
    UserIds, TokenIds, SessionIds,
    Requests,
    NoRow, NoTime, NoEmail, NoId,
    Ttl,            \* emailVerificationTtlMs
    MaxTime         \* bound on the clock

VARIABLES
    required,       \* auth.emailVerificationRequired, fixed while the service runs
    users,          \* the User table
    tokens,         \* the VerificationToken table
    sessions,       \* the owner of each row of the Session table
    mailed,         \* the tokens that have reached their user
    now,
    req             \* the request served by each slot

vars == <<required, users, tokens, sessions, mailed, now, req>>

User == [email : Emails, verifiedAt : Nat \cup {NoTime}]

VerificationToken == [userId : UserIds, used : BOOLEAN, expiresAt : Nat]

\* verified and at are what verifyEmail keeps across its await: whether the user
\* it has read was verified, and the time it took for now.
Request == [pc       : {"idle", "registerTx", "mail", "verifyTx", "markExpired", "loginCreate"},
            email    : Emails \cup {NoEmail},
            id       : TokenIds \cup UserIds \cup {NoId},
            verified : BOOLEAN,
            at       : Nat]

Idle == [pc |-> "idle", email |-> NoEmail, id |-> NoId, verified |-> FALSE, at |-> 0]

ASSUME AccountsAssumption ==
    /\ Ttl \in Nat \ {0}
    /\ MaxTime \in Nat
    /\ NoRow \notin User \cup VerificationToken \cup UserIds
    /\ NoTime \notin Nat
    /\ NoId \notin TokenIds \cup UserIds
    /\ NoEmail \notin Emails

TypeOK ==
    /\ required \in BOOLEAN
    /\ users \in [UserIds -> User \cup {NoRow}]
    /\ tokens \in [TokenIds -> VerificationToken \cup {NoRow}]
    /\ sessions \in [SessionIds -> UserIds \cup {NoRow}]
    /\ mailed \subseteq TokenIds
    /\ now \in Nat
    /\ req \in [Requests -> Request]

Init ==
    /\ required \in BOOLEAN
    /\ users = [u \in UserIds |-> NoRow]
    /\ tokens = [t \in TokenIds |-> NoRow]
    /\ sessions = [s \in SessionIds |-> NoRow]
    /\ mailed = {}
    /\ now = 0
    /\ req = [r \in Requests |-> Idle]

-----------------------------------------------------------------------------
Idling(r) == req[r].pc = "idle"

Done(r) == req' = [req EXCEPT ![r] = Idle]

Registered(u) == users[u] # NoRow

Taken(e) == \E u \in UserIds : Registered(u) /\ users[u].email = e

Verified(u) == users[u].verifiedAt # NoTime

TokenOf(u, t) == tokens[t] # NoRow /\ tokens[t].userId = u

-----------------------------------------------------------------------------
(* register                                                                *)

\* The address is free: the password is hashed before the transaction begins.
RegisterCheck(r, e) ==
    /\ Idling(r)
    /\ ~Taken(e)
    /\ req' = [req EXCEPT ![r] = [Idle EXCEPT !.pc = "registerTx", !.email = e]]
    /\ UNCHANGED <<required, users, tokens, sessions, mailed, now>>

\* The address is taken, at the check or at the commit: EMAIL_TAKEN, and the
\* transaction leaves nothing behind.
RegisterTaken(r) ==
    /\ \/ Idling(r) /\ \E e \in Emails : Taken(e)
       \/ req[r].pc = "registerTx" /\ Taken(req[r].email)
    /\ Done(r)
    /\ UNCHANGED <<required, users, tokens, sessions, mailed, now>>

NewUser(e) == [email |-> e, verifiedAt |-> IF required THEN NoTime ELSE now]

\* Mutant: the token is created without its user.
NewToken_NoOwner(u) == [userId |-> NoId, used |-> FALSE, expiresAt |-> now + Ttl]

\* createVerificationToken.  The user is new, so there is no older token to close.
NewToken(u) == [userId |-> u, used |-> FALSE, expiresAt |-> now + Ttl]

\* Where verification is required: the user and the token, then the mail.
CommitPending(r, u, t) ==
    /\ required
    /\ tokens[t] = NoRow
    /\ users' = [users EXCEPT ![u] = NewUser(req[r].email)]
    /\ tokens' = [tokens EXCEPT ![t] = NewToken(u)]
    /\ req' = [req EXCEPT ![r] = [Idle EXCEPT !.pc = "mail", !.id = t]]
    /\ UNCHANGED <<required, sessions, mailed, now>>

\* Mutant: a failure of the session's insert does not undo the user's.
CommitActive_UserOnly(r, u, s) ==
    /\ ~required
    /\ sessions[s] = NoRow
    /\ users' = [users EXCEPT ![u] = NewUser(req[r].email)]
    /\ Done(r)
    /\ UNCHANGED <<required, tokens, sessions, mailed, now>>

\* Elsewhere: the user, verified as it is, and a first session.
CommitActive(r, u, s) ==
    /\ ~required
    /\ sessions[s] = NoRow
    /\ users' = [users EXCEPT ![u] = NewUser(req[r].email)]
    /\ sessions' = [sessions EXCEPT ![s] = u]
    /\ Done(r)
    /\ UNCHANGED <<required, tokens, mailed, now>>

\* Mutant: User.email has no unique index.
RegisterCommit_NoIndex(r) ==
    /\ req[r].pc = "registerTx"
    /\ \E u \in UserIds :
          /\ ~Registered(u)
          /\ \/ \E t \in TokenIds : CommitPending(r, u, t)
             \/ \E s \in SessionIds : CommitActive(r, u, s)

\* Mutant: an upsert, which replaces the row of an address registered meanwhile.
RegisterCommit_Upsert(r) ==
    /\ req[r].pc = "registerTx"
    /\ \E u \in UserIds :
          /\ IF Taken(req[r].email)
             THEN Registered(u) /\ users[u].email = req[r].email
             ELSE ~Registered(u)
          /\ \/ \E t \in TokenIds : CommitPending(r, u, t)
             \/ \E s \in SessionIds : CommitActive(r, u, s)

\* The transaction of register commits.
RegisterCommit(r) ==
    /\ req[r].pc = "registerTx"
    /\ ~Taken(req[r].email)
    /\ \E u \in UserIds :
          /\ ~Registered(u)
          /\ \/ \E t \in TokenIds : CommitPending(r, u, t)
             \/ \E s \in SessionIds : CommitActive(r, u, s)

\* The mail, which the answer does not wait for, reaches the user.
Mail(r) ==
    /\ req[r].pc = "mail"
    /\ mailed' = mailed \cup {req[r].id}
    /\ Done(r)
    /\ UNCHANGED <<required, users, tokens, sessions, now>>

-----------------------------------------------------------------------------
(* verifyEmail                                                             *)

\* A mailed token is looked up together with its user, and is not used yet.
Presented(r, t) ==
    /\ Idling(r)
    /\ t \in mailed
    /\ ~tokens[t].used

\* Mutant: expiresAt is not looked at.
VerifyRead_NoExpiry(r, t) ==
    /\ Presented(r, t)
    /\ req' = [req EXCEPT ![r] = [Idle EXCEPT !.pc = "verifyTx", !.id = t, !.at = now,
                                              !.verified = Verified(tokens[t].userId)]]
    /\ UNCHANGED <<required, users, tokens, sessions, mailed, now>>

VerifyRead(r, t) ==
    /\ Presented(r, t)
    /\ tokens[t].expiresAt > now
    /\ req' = [req EXCEPT ![r] = [Idle EXCEPT !.pc = "verifyTx", !.id = t, !.at = now,
                                              !.verified = Verified(tokens[t].userId)]]
    /\ UNCHANGED <<required, users, tokens, sessions, mailed, now>>

RejectExpired(r, t) ==
    /\ Presented(r, t)
    /\ tokens[t].expiresAt <= now
    /\ req' = [req EXCEPT ![r] = [Idle EXCEPT !.pc = "markExpired", !.id = t]]
    /\ UNCHANGED <<required, users, tokens, sessions, mailed, now>>

MarkExpired(r) ==
    /\ req[r].pc = "markExpired"
    /\ tokens' = [tokens EXCEPT ![req[r].id].used = TRUE]
    /\ Done(r)
    /\ UNCHANGED <<required, users, sessions, mailed, now>>

\* Every unused token of the user is used up with the one that was presented.
UseUp(t) ==
    [i \in TokenIds |-> IF i = t \/ TokenOf(tokens[t].userId, i)
                        THEN [tokens[i] EXCEPT !.used = TRUE]
                        ELSE tokens[i]]

\* The transaction commits: it trusts what was read before it began, and writes
\* the time of that reading.
VerifyCommit(r) ==
    /\ req[r].pc = "verifyTx"
    /\ users' = IF req[r].verified THEN users
                ELSE [users EXCEPT ![tokens[req[r].id].userId].verifiedAt = req[r].at]
    /\ tokens' = UseUp(req[r].id)
    /\ Done(r)
    /\ UNCHANGED <<required, sessions, mailed, now>>

-----------------------------------------------------------------------------
(* login, its lockout and its password apart                               *)

\* Mutant: emailVerifiedAt is not looked at.
LoginRead_Unverified(r, u) ==
    /\ Idling(r)
    /\ Registered(u)
    /\ req' = [req EXCEPT ![r] = [Idle EXCEPT !.pc = "loginCreate", !.id = u]]
    /\ UNCHANGED <<required, users, tokens, sessions, mailed, now>>

LoginRead(r, u) ==
    /\ Idling(r)
    /\ Registered(u)
    /\ required => Verified(u)
    /\ req' = [req EXCEPT ![r] = [Idle EXCEPT !.pc = "loginCreate", !.id = u]]
    /\ UNCHANGED <<required, users, tokens, sessions, mailed, now>>

LoginCreate(r) ==
    /\ req[r].pc = "loginCreate"
    /\ \E s \in SessionIds :
          /\ sessions[s] = NoRow
          /\ sessions' = [sessions EXCEPT ![s] = req[r].id]
    /\ Done(r)
    /\ UNCHANGED <<required, users, tokens, mailed, now>>

-----------------------------------------------------------------------------
\* A statement is rejected, a mail is given up or the replica stops: what the
\* transaction did is rolled back.
Fail(r) ==
    /\ ~Idling(r)
    /\ Done(r)
    /\ UNCHANGED <<required, users, tokens, sessions, mailed, now>>

Tick ==
    /\ now < MaxTime
    /\ now' = now + 1
    /\ UNCHANGED <<required, users, tokens, sessions, mailed, req>>

Next ==
    \/ Tick
    \/ \E r \in Requests :
          \/ \E e \in Emails : RegisterCheck(r, e)
          \/ RegisterTaken(r)
          \/ RegisterCommit(r)
          \/ Mail(r)
          \/ \E t \in TokenIds : VerifyRead(r, t) \/ RejectExpired(r, t)
          \/ MarkExpired(r)
          \/ VerifyCommit(r)
          \/ \E u \in UserIds : LoginRead(r, u)
          \/ LoginCreate(r)
          \/ Fail(r)

Spec == Init /\ [][Next]_vars

-----------------------------------------------------------------------------
(* Properties.                                                             *)

\* However registrations of one address interleave, one of them gets it.
OneAccountPerEmail ==
    \A u, v \in UserIds :
        Registered(u) /\ Registered(v) /\ users[u].email = users[v].email => u = v

\* A registration is whole or leaves nothing: a user came with its one token, or
\* verified and with a session; and no token or session is anybody's but a user's.
RegistrationIsWhole ==
    /\ \A u \in UserIds :
          Registered(u) =>
             IF required
             THEN \E t \in TokenIds : \A i \in TokenIds : TokenOf(u, i) <=> i = t
             ELSE Verified(u) /\ \E s \in SessionIds : sessions[s] = u
    /\ \A t \in TokenIds : tokens[t] # NoRow => Registered(tokens[t].userId)
    /\ \A s \in SessionIds : sessions[s] # NoRow => Registered(sessions[s])

\* Whatever verifications race, with each other or with the expiry of the token, a
\* verified address has used up a token that was mailed to it, and emailVerifiedAt
\* lies within the life of that token, even when it is written twice.
VerifiedByMail ==
    required => \A u \in UserIds :
        Registered(u) /\ Verified(u) =>
            \E t \in mailed : /\ TokenOf(u, t)
                              /\ tokens[t].used
                              /\ users[u].verifiedAt < tokens[t].expiresAt

\* Where verification is required, nobody has a session before it, although login
\* reads the user some time before it inserts the row.
OnlyVerifiedLogIn ==
    required => \A s \in SessionIds : sessions[s] # NoRow => Verified(sessions[s])

\* An unverified user whose token cannot be presented any more (expired, used up or
\* lost with its mail), and whom no verification under way can still help.
Stranded(u) ==
    /\ Registered(u)
    /\ ~Verified(u)
    /\ \A t \in TokenIds :
          TokenOf(u, t) => \/ tokens[t].used
                           \/ tokens[t].expiresAt <= now
                           \/ t \notin mailed /\ \A r \in Requests : req[r].pc = "mail" => req[r].id # t
    /\ \A r \in Requests : req[r].pc = "verifyTx" => ~TokenOf(u, req[r].id)

\* Nothing in the service mails a token again, and the address stays taken: such a
\* user is never verified.
StrandedForGood == [][\A u \in UserIds : Stranded(u) => Stranded(u)']_vars

\* The addresses as AccountLedger sees them.
StatusOf(e) ==
    IF ~Taken(e) THEN "free"
    ELSE IF \E u \in UserIds : Registered(u) /\ users[u].email = e /\ Verified(u)
         THEN "active"
         ELSE "pending"

Ledger ==
    INSTANCE AccountLedger
    WITH status   <- [e \in Emails |-> StatusOf(e)],
         admitted <- {e \in Emails : \E s \in SessionIds :
                         sessions[s] # NoRow /\ users[sessions[s]].email = e}

\* Requests, rows, tokens and mails implement the ledger of addresses: none is ever
\* taken twice, taken back, or let in before it is verified.
ImplementsLedger == Ledger!Spec
=============================================================================
