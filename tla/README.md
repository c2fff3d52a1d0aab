# Formal models of the auth service

TLA+ models, TLC runs and TLAPS proofs for this repository: an Express 5 API
with JWT access tokens and rotating refresh tokens, sessions, login lockout,
password reset and email verification on PostgreSQL (through Prisma), rate
limiting on Redis, mails over SMTP, and a periodic session cleanup. Any number of
replicas may serve the same database.

Paths below are relative to the repository. The models describe the code at one
commit; `PROJECT.json` maps every modelled definition to its lines and lists the
hazards of the code, each with the properties that cover it.

## 1. Inventory

### Components

| Component | Code | State | Operations | Model |
|---|---|---|---|---|
| Sessions | `src/services/authService.ts` (login, refresh, logout, logoutAll), `src/middleware/requireAuth.ts`, `src/lib/jwt.ts`, `src/lib/tokenHash.ts` | table `Session` (owner, hash of the current refresh token, valid, updatedAt); the tokens that clients hold | open, rotate, revoke one, revoke all of a user, authenticate, list | `Sessions` |
| Session cleanup | `src/jobs/sessionCleanup.ts`, `scripts/cleanup-sessions.mjs` | a `running` flag and a timer per replica | run at start and at every interval: delete revoked and stale rows | `Sessions`, `Lifecycle` (timer), `Config` (lifetime) |
| Password reset and login | `src/services/authService.ts` | `User.password`, table `PasswordResetToken`, `Session` | request a reset, reset, log in | `PasswordReset` |
| Login lockout | `src/services/authService.ts` | table `LoginAttempt`, one row per (email, ip) | check, count a failure, clear | `LoginLockout` |
| Registration, email verification | `src/services/authService.ts` | `User`, table `VerificationToken`, `Session` | register, verify, log in | `Accounts` |
| Process lifecycle | `src/index.ts`, `src/lifecycle/`, `/ready` in `src/app.ts` | `shuttingDown`, `shutdownInitiated`, `handled`, the forced-exit timer, the HTTP server | start, signal, fatal event, close, clean up, exit, readiness | `Lifecycle` |
| Rate limiting, Redis health | `src/middleware/security.ts`, `src/middleware/authRateLimits.ts`, `src/lib/rateLimitHealth.ts` | a counter per limiter and client, in Redis or per process; the health flag | count, refuse, connect, lose and regain Redis, disconnect | `RateLimit`, `Lifecycle` (client and flag) |
| Email delivery | `src/services/emailService.ts` | the service built once; the attempt of each send under way | send with retries | `EmailDelivery` |
| Access control | `requireAuth`, `requireRole`, `src/routes/protected.ts`, `scripts/users/*.mjs` | `User.role` | authenticate, check a role, promote, demote | `Gateway` |
| Configuration, metrics guard | `src/config/index.ts`, `createMetricsGuard` in `src/app.ts` | the configuration, once read | validate the environment, guard the metrics | `Config`, `Gateway` |
| HTTP plumbing | `src/app.ts`, `src/middleware/` | none that decides anything | parse, check the origin, log, format errors | its order and statuses in `Gateway` |
| Metrics, OpenAPI | `src/metrics/`, `src/docs/` | counters; a constant | count, describe | none |

### Interactions

* Routes call `authService` after validation and, for `/auth/sessions`,
  `/auth/logout-all` and `/protected/*`, after `requireAuth`.
* All requests and all replicas meet in the database only, and in Redis where the
  limiters count there. A handler awaits each statement, so any other handler runs
  between two statements of one. Only register, createVerificationToken,
  createPasswordResetToken, verifyEmail and resetPassword use a transaction, at
  Prisma's default, Read Committed: each statement sees what was committed when it
  began, and waits for the rows that others have written.
* The cleanup job deletes rows that a handler may have read and not yet updated.
* Password reset, reuse detection and logout-all revoke rows of sessions that
  logins are about to insert, and refreshes about to update.
* Mails are sent after the commit and nobody awaits them; `/ready` reads the
  shutdown flag, the database and the Redis flag; shutdown stops the cleanup
  timer, waits for the HTTP server, then disconnects Redis and the database,
  unless ten seconds pass.
* The configuration decides once whether mails are sent, addresses verified and
  limits shared, and what the metrics guard and CORS let through.

### What is hard, and what must hold

* *Rotation.* `refresh` reads, compares, signs and updates in separate steps.
  A rotated-out token must not come back, a revoked session must not be revived,
  and a user's requests must touch that user's rows only, although `refresh`
  never compares the claims with the row.
* *Revocation.* It must be final and complete, and a revoked row must go in the end.
* *Cleanup.* It must spare sessions that still work, although it sees neither
  tokens nor expiries, only `updatedAt`, with its own reading of the lifetime.
* *Reset.* After a change of password nothing older may work: tokens, sessions.
* *Lockout.* Counts are read, incremented and written without a transaction:
  they may be lost, but not exceed the limit without a lock, and locks must end.
* *Registration and verification.* The check for a free address and the insert
  are far apart, and so are the reading of a verification token and its use; a
  registration must be whole, and an address verified only through its mail. A
  mail that is lost is never replaced.
* *Shutdown.* Signals, errors, clients, Redis and the forced exit come in any
  order. The exit code must not lie, no client may be cut off by the cleanup, and
  the process must end.
* *Redis health.* The flag is kept by events, the first of which has passed
  before the listeners are there.
* *Limits.* Windows do not slide, refused requests count, the store may fail
  before or after counting, and without Redis every replica counts for itself.
* *Delivery.* A retry may repeat a send that has arrived; an exit drops a mail.
* *Access.* Role and session are read one after the other while others change
  them, and operator scripts read and write a role without a condition.
* *Configuration.* What the schema lets through must fail closed.

## 2. Modules

```
SessionTable          the Session table and its statements
  Sessions            handlers and cleanup jobs       -- implements --> SessionLedger
    MCSessions        for TLC
  SessionTableProofs  lemmas about the statements
    SessionsProofs    theorems about Sessions
PasswordReset         MCPasswordReset for TLC, PasswordResetProofs
LoginLockout          MCLoginLockout for TLC, LoginLockoutProofs
Accounts              MCAccounts, AccountsProofs      -- implements --> AccountLedger
EmailDelivery         the life of a mail
  Lifecycle           MCLifecycle, LifecycleProofs  -- implements --> ProcessLife
RateLimit             MCRateLimit, RateLimitProofs
Config                what an environment comes to
  Gateway             MCGateway, GatewayProofs
```

### SessionTable and Sessions

`SessionTable` has one operator per statement that the code sends to the table
(`Insert`, `SetToken`, `Invalidate`, `DeleteMany`) and one per WHERE clause
(`OfUser`, `Stale`). A single statement is atomic in PostgreSQL. A token is a
record (sid, sub, jti, iat) that stands for both JWTs signed by one call of
`mintSessionTokens`; its hash is the token itself, and the empty string of a
revoked row, which no hash equals, is `NoToken`. The random `jti` is a counter.

`Sessions` splits each handler at each await: the verification of the token, the
read and the write are three steps, so a token may expire while it is being served. The record
`req[r]` holds the locals that the rest of the handler uses: the presented token,
the minted pair, the user found. `issued` is the set of pairs sent to clients;
a client may present any of them at any time and any number of times, so
duplicated and delayed calls, and lost answers, are behaviours of the model
(a client that never got an answer goes on presenting what it had).

| Code | Actions |
|---|---|
| login, from the accepted credentials on; the insert in register | `LoginMint`, `LoginCreate` |
| refresh: expired token | `RefreshLate`, `RevokeExpired` |
| refresh: good token, then hash matches | `RefreshVerify`, `RefreshMatch`, `RefreshStore` (fails if the row is gone) |
| refresh: good token, then hash differs | `RefreshVerify`, `RefreshReuse`, `RevokeReuse` |
| logout | `LogoutVerify`, `Logout` |
| requireAuth and logout-all | `AuthVerify`, `LogoutAllAuth`, `LogoutAll` |
| 401 after a read | `Refused` |
| a rejected statement, a stopping replica | `Fail` |
| runCleanup | `SweepStart` (sets the flag, takes the reference time), `SweepDelete`, `SweepFail` |
| time | `Tick` |

A call that is answered before its first statement, and listing, change nothing and are
stuttering steps.

`SessionLedger` is what the store promises without tokens, requests or rows: an
id is opened once, a revoked session never becomes active again, a session is
forgotten only when revoked or past its deadline. The mapping takes a row to
its life, `iat` of the stored token plus the lifetime to the deadline, and to
`fresh` the ids not drawn or drawn by a login that has stored nothing yet.

### PasswordReset

A password is its version number. The two transactions are followed statement by
statement. An updateMany is two steps: its snapshot (`FindOlder`, `FindTokens`), and,
once no other transaction has locked a row it chose, the write of those that still
match (`CloseOlder`, `CloseTokens`). What a transaction has written is kept in its
request (`marks`, `revoked`) and reaches the tables at its commit (`CreateReset`,
`ChangePassword`). A row that another request inserts after the snapshot is neither
seen nor waited for, since the key share lock of an insert does not conflict with an
update of the password.

| Code | Actions |
|---|---|
| requestPasswordReset, createPasswordResetToken | `FindOlder`, `CloseOlder`, `CreateReset` |
| resetPassword: lookup, expiry | `AcceptToken`, or `RejectExpired` and `MarkExpired` |
| resetPassword: the transaction | `UseToken`, `FindTokens`, `CloseTokens`, `SetPassword` (locks the user), `RevokeSessions`, `ChangePassword` |
| login | `LoginVerify`, `LoginCreate` |
| a rejected statement, a deadlock victim, a stopping replica | `Fail` |

`Reset.seen`, `version`, `under` and `missed` are history variables: what the creating
transaction saw, the password that a login verified, the password at the time of the
insert, and which resets had by then searched for tokens, or for sessions.

So a change of password is *not* thorough: what is inserted between its search and its
commit stays. The properties say how far that can go. Two resets of one user search
for sessions one after the other, because the row of the user is locked before the
search: a session escapes at most one of them (`NoSessionSurvivesTwoChanges`). They
search for tokens before that lock, so a token may escape all resets that had
searched when it was created, and no other (`TokensSurviveOnlyPastResets`).

### LoginLockout

The row of one (email, ip) pair; rows of different pairs never interact.
`CheckLock` and `Forget` are `ensureLoginNotLocked`, `Verify` the lookup and the
password check, `Clear` is `clearLoginAttempts`, `ReadFailure` and
`WriteFailure` are the two statements of `recordLoginFailure`. Dates are kept as
distances from the present, cut off where the code can no longer tell them
apart, so that time is unbounded in a finite state space. `firstFailedAt` and
`userId` are written and never read, and left out.

`CheckLock` takes the clock to show the time at which the row was read: see section 5.

`LockHolds` is false: a login under way may lift a lock. `OverlapsRunOut` says how far
that can go: while the row is locked nobody else is admitted, every login under way
has at most the statements of `StepsLeft` before it, and each step that is not time
uses one up. Time only brings the end of the lock nearer.

### Accounts and AccountLedger

| Code | Actions |
|---|---|
| register: findUnique, and the hash of the password | `RegisterCheck`, `RegisterTaken` |
| register: the transaction | `RegisterCommit` (`CommitPending` with createVerificationToken, `CommitActive` with a session), `RegisterTaken` for P2002 |
| register: the mail, after the commit | `Mail`, or `Fail` where it is lost |
| verifyEmail: the token with its user | `VerifyRead`, `RejectExpired` |
| verifyEmail: the update of an expired token | `MarkExpired` |
| verifyEmail: the transaction | `VerifyCommit`, by what was read before it began |
| login: emailVerifiedAt, then the insert | `LoginRead`, `LoginCreate` |

`required` is `auth.emailVerificationRequired`, either value, fixed. `mailed` is
the set of tokens that have reached their users; only those are ever presented.
`AccountLedger` keeps one word per address, free, pending or active, and the
addresses that have been let in: no address goes back, none is registered twice,
none is let in before it is active. The mapping reads the word off the user rows
and the set off the sessions.

`StrandedForGood` says what the code does *not* offer: a user whose token has
expired, is used or was lost with its mail is never verified, because nothing
mails a second token and the address stays taken.

### EmailDelivery and Lifecycle

`EmailDelivery` gives each mail a status, the attempt it is at, the copies the
server has taken and whether an answer was lost. `Submit` is the call of a
handler, `Accepted`, `Refused` and `AnswerLost` end an attempt, `Retry` the sleep.
The lengths of the backoff are left out: that there is one, and how many, is not.
`Lifecycle` extends it: a process that exits stops its mails where they are.

| Code | Actions |
|---|---|
| main | `ReadConfig`, `ConnectRedis`, `Refuse` (main rejects), `Start` (listen, handlers, cleanup job) |
| signals; fatalHandlers | `Signal`, `Fatal`, both through `InitiateShutdown`, or the default of Node where no handler is registered |
| the callback of server.close, disposeSecurity, $disconnect | `Drained`, `Disposed`, `Disconnected` |
| the timer of ten seconds | `ForceExit` |
| an event loop that has nothing left | `RunDry` |
| connections and handlers | `Connect`, `Probe` and `AnswerProbe` (/ready), `Request` and `Answer`, `Leave` |
| the cleanup job's timer | `Sweep` |
| the Redis client | `Network` (outside), `LoseRedis`, `RegainRedis` |

`late` is history: whether the shutdown had begun when the request was taken.
A port that is taken does not stop the start: Express hands the error to the
callback that logs "listening", so `Start` may leave `listening` false. If there is no
Redis client either, nothing holds the event loop once the first run of the cleanup has
settled: its timer is unref'd (`src/jobs/sessionCleanup.ts:124`) and the pool of
`src/lib/prisma.ts` drops idle connections. The process then ends with code 0
(`RunDry`), which is the one exit 0 that nobody has asked for.
The callbacks of disposeSecurity and $disconnect may never come; the forced exit
is what ends the process then.

`ProcessLife` is what an orchestrator is promised of a replica: it serves at most
once, a replica that has its port ends only through a stop, which closes the port for
good and settles the exit code, and from the settled code only a failure may depart; one
that never got its port may also run out of work.
The mapping (`Stage`, `Code`) reads the stage off `main` and the code off the cause of
the shutdown until the process has exited.

### RateLimit

One client, four limiters (`global`, `auth`, `register`, `reset`), in the order in
which a request meets them (`Chain`). `shared` chooses the place of counting:
Redis, or the memory of the replica that serves the request. `Pass`, `Limit` and
`StoreFails` are what a limiter does with a request; a failing store may have
counted it. `Restart` replaces a replica, with its requests and its own counters.
`ToMax` is `Math.ceil` of a floating-point product, so a whole product may come
out one too high; both results are initial states. `passed` is history: how many
requests each limiter has let through at each place, not older than each age within a
window; what a replica has let through stays there when it is replaced. `restarts` is
history too, per replica.

### Config and Gateway

`Config` takes an environment, each variable reduced to the class of values that
the schema tells apart, to its issues and to the configuration, and gives the two
readings of a lifetime: `SweepTtl` (parseExpiryToMs) and `TokenTtl`
(`jsonwebtoken`, through the package `ms`). `Gateway` starts under any of them
(`Boot`) and follows one request at a time through the pipeline: body and origin
(`Arrive`), limiters and route (`Route`, with the metrics guard), the two reads of
requireAuth (`ReadUser`, `ReadSession`), the role or the resource (`AdminPing`,
`ReadResource`). Others revoke sessions (`Revoke`), and operator scripts read a
role and write it later (`ScriptRead`, `ScriptUpdate`, `ScriptFail`).
`rolesSeen` and `wasValid` are history. Requests share nothing
but the database, which is why one at a time is enough here.

## 3. Runs

| Run | Shows |
|---|---|
| `sessions_rotation` | `LiveRowInv`, `NoTokenRestored`, `SweepSparesLive` and `RevokedIsPurged` (every revoked row is deleted in the end) with one session, two requests, a cleanup job, three pairs, a lifetime of two ticks |
| `sessions_family` | `ActsForItsUser` and the refinement with two users and two sessions |
| `sessions_double_refresh` (violation) | one refresh token is exchanged twice |
| `password_reset` | what a change of password may leave behind: a session escapes at most one reset (`NoSessionSurvivesTwoChanges`), a token only those that had searched before it was there (`TokensSurviveOnlyPastResets`), and two tokens both work only if their requests overlapped (`OnlyOverlappingTokens`) |
| `reset_overtakes_login` (violation) | a session opened with the old password outlives the reset |
| `reset_token_reused` (violation) | one reset token changes the password twice |
| `login_lockout` | counts stay within the limit with three concurrent logins; only logins under way touch a lock, with what they have left (`OverlapsRunOut`), and it ends, again and again |
| `login_lockout_lifted` (violation) | a login under way lifts a lock before its time |
| `accounts` | an address has one account, whole (`OneAccountPerEmail`, `RegistrationIsWhole`), verified only through its mail (`VerifiedByMail`, `OnlyVerifiedLogIn`), or stranded for good, and AccountLedger is implemented |
| `lifecycle` | exit code 0 is honest, with the port or without, the shutdown cuts nobody off (`NobodyCutOff`), no sweep begins in it (`NoLateSweep`), /ready tells the truth, each mail uses up its attempts (`MailsRunOut`), ProcessLife is implemented, the flag follows Redis, mails settle, and the shutdown ends |
| `rate_limit` | `BurstBound`: less than twice the quota in any stretch of a window with Redis, once that per replica without; `RetryingHelps`: a refused client that goes on is let in again |
| `gateway` | production fails closed, answers are justified by what was true during the request, the cleanup is too early for a lifetime in years and for no other (`OnlyYearsFallShort`) |

A run named (violation) checks one statement of the README, the API description,
a comment or a test, and TLC finds the interleaving that contradicts it; the
findings in `PROJECT.json` quote the statement. Two more disagreements are deterministic and need no run of their own.
`tests/session.cleanup.test.ts:17` says that cleanup removes expired and invalid sessions,
and with a lifetime in years it removes sessions whose refresh token is still good, six
hours per year before it expires (`OnlyYearsFallShort`). `README.md:131` says that
replaying a rotated-out refresh token revokes all sessions of the user, and once that token has expired
the branch at `src/services/authService.ts:371` revokes its own session only.
Both branches are in `Sessions`. And `docs/ops/runbook.md:117` is headed "Redis
unavailable / rate limiter failing open", while a store that fails makes the limiter
answer 500 (`StoreFails`); like the headings around it, it names a symptom that
operators report, and is not taken as a statement about the code.

*Bounds.* A race in `Sessions` is between what one handler has read and what another
writes, so two requests produce every one of them; lockout, reset and accounts use three,
because a third writer can act on what two have left. `password_reset` has one user
(users share nothing), two tokens and two sessions, a token life of one tick and a
clock up to one, and two changes of password, the second of which is what a session
must not survive. That a token escapes two resets takes a third token; it is covered by
the proof, and an exploration with three tokens and a clock that stands still found
nothing. The lockout limit is two:
a failure that meets a lock restarts the count at one, so that only with a limit
of two could each further failure renew the lock. `MaxTime` and `MaxMint` let tokens
be rotated more than once, expire, be replayed late and be cleaned up, while
another pair is alive. Rotation needs one session; ownership and revocation of a
family need two users and two sessions, and get a shorter lifetime instead.
`accounts` has two addresses, users, tokens and sessions, a token life of two
ticks and a clock up to three, so that a token expires before, between and after
the two halves of a verification. `lifecycle` has two clients, so that one may be
busy while the other is idle or gone, and one mail with the three attempts of the
code: mails do not meet. `rate_limit` has two replicas, a request at a time (the
store counts one after the other anyway), two kinds of request that share a
limiter, a window of two ticks, one restart, and rates that give an exact quota of one
(so a limit of one or of two), one that rounding up gives, and the floor of one; with
a limit of two the end of one window and the whole of the next reach the bound. No run sends
requests through the register and reset limiters, which differ in their numbers and
place in the chain only, and the floor rate is one of the initial states. That no
limit is ever zero, for any of the four, is the business of `TypeOK`: `BurstBound`
would hold of it. `gateway` has one origin, two users (owner and
stranger), two scripts, and every environment. The theorems below do not depend on
these bounds except where `MaxTime`, `MaxMint` and `MaxVersion` occur in guards;
there they are arbitrary numbers. Users, sessions, requests and scripts are
declared symmetric where a run has no liveness property.

*Fairness.* For `RevokedIsPurged`, `sessions_rotation` assumes that an awaited
statement settles, one way or the other (weak fairness of `Settle`), that the
interval timer keeps firing (weak fairness of `Sweep`; Node rearms it after each
call), and that the database does not fail at every single run (strong fairness of
`SweepDelete`). The replica that runs the job is taken to stay up. For `LockEnds`,
`login_lockout` assumes only that time passes, and so does `rate_limit` for
`RetryingHelps`, which takes it from the client that it goes on and from Redis that
it does not fail for ever. `lifecycle` assumes that the timer of the forced exit
fires, that the Redis client notices a lost connection and goes on reconnecting
(the default of its library), and that a send settles and a sleep ends. It assumes
nothing of clients, of server.close, of disposeSecurity or of $disconnect, which is
what the forced exit is for. No request is ever assumed to be made.

*Deadlock* is checked except in `lifecycle`, where a process that has exited stops,
and in `gateway`, where one that has refused to start does.

## 4. Proofs

Every listed theorem holds for any sets of users, sessions, tokens, requests,
replicas' clients, mails and scripts, finite or not; only the replicas of `RateLimit`,
over which `BurstBound` sums, and the requests of `PasswordReset`, which it counts, are
finite sets. Each module proves one
`Invariance`: an inductive invariant `IndInv`, from `Init`, kept by every action,
one lemma per operation. The properties follow from it, by implication for
invariants and by cases on the step for action properties.

*Sessions.* `SessionTableProofs` states what each statement does to rows, once.
`LiveRowInv` alone is not inductive: what `RefreshStore` writes is a local of a
handler that read the row some steps before. `IndInv` adds what these
locals satisfy (`RequestInv`: a minted pair is unsent, for the session it will be
written to, and in the name of the owner that the presented token names), that
two handlers never hold the same pair (`MintedOnce`), that an id drawn by a login
in flight is unknown to everyone else (`DrawnIdInv`), that sent tokens name the
owner of their session (`IssuedInv`), and that a live row stores a sent token
(`RowInv`). The condition of `SweepsSpareLive` and `Refinement`,
`SweepTtl >= RefreshTtl`, is necessary: below it TLC finds a session deleted while
its token is accepted. `SweepShortInYears` (below) shows that the configuration meets
it for every unit but years, of which it fails for every amount: 365 days at
`src/jobs/sessionCleanup.ts:35`, 365.25 in the package `ms`.

*PasswordReset.* The invariant follows each transaction from its searches to its
commit. Once an updateMany has its locks, every unused token of its snapshot is marked by
it (`MarksInv`). The user's row is locked by one transaction at a time
(`UserLockInv`); hence the password cannot change between a search for sessions and
the commit that follows it, and a session it has not found carries the current
version and the mark of having been missed (`RevokedInv`): `NoSessionSurvivesTwoChanges`
is what is left of this after the commit. For tokens, the changes that a token has
survived and the resets under way that will not close it add up to no more than what was
counted at its creation (`MissingInv`): a commit moves one from the second term to the
first, and a reset that begins its search afterwards finds the token. `SeenInv`, that a
token was created after the rows its request saw, keeps a new row out of the set that
an older one saw.

*LoginLockout.* It adds that the row each request has seen satisfied the count
invariant too. `LocksRunOut` goes by cases: `ServeUsesUp` shows that a statement of a
login leaves it fewer while the row is locked (`CheckLock` admits nobody, and a `Forget`
under way is one of the statements left), `TickUsesUp` that time
shortens the lock. With `LockEnds` as TLC checks it, this is its safety half: only
finitely many steps can renew a lock.

*Accounts.* `LocalInv` says what a suspended handler may rely on: an address, a row
that exists, a mailed token with a time of reading before its expiry, a registered
and, where required, verified user. It is kept because nothing in the tables is
taken back (`Grows`): users stay, keep their address and stay verified, tokens keep
owner and expiry, sessions their owner. `LocalStable` derives the one from the
other for every request that is not the one that moves. The refinement shows that
each commit is one step of AccountLedger: a verification is its `Verify`, or nothing
where another has come first.

*Lifecycle.* `CauseKnown` ties the cause of the shutdown to the place main has
reached, and `TakenDown` says that with it the fatal handlers, the timer and the
port are gone, and that the process outlives an error only where the error is the
cause: hence code 0 implies that there was none. While the replica serves, its fatal
handlers are registered, and once the shutdown has begun they are not: so for
`Refinement` an error is a stop, an abort of the start, or the end of a shutdown with a
failure (`LifeStops`), and the process ends nowhere but in the start, in a shutdown, or by
running dry, which takes a port that it never had (`LifeEnds`). For mails, `AttemptsLeft` adds what a waiting mail still has, and that a
mail that is not sent has reached the server only with its answer lost; `MailStep`
shows that each step of a mail lowers `Remaining`, from which `RetriesEnd` follows.

*RateLimit.* `BurstBound` is about sums over replicas. `SumFunction` is a fold, which the
provers see as the choice of a function that satisfies an equation. `Induction` proves
induction over a set of numbers from the well-foundedness of `<` (a counterexample would
have a least one), `SumExists` extends a solution of the equation from the subsets of n
elements to those of n + 1, `SumSteps` concludes that `SumFunction` adds one element
after the other, and `SumBound` that a sum of terms bounded by a constant, and by
a multiple of something that is itself summed, is bounded accordingly. `Limits` relates
`ToMax`, written with `\div`, to the quota, defined by products.

The invariant is per place and limiter: the counter and the history are in a window
together (`WindowInv`). What was let through in the running window is at most what
was counted; what the last window's length has seen is at most twice the limit less
one; and a counter that a restart has lost costs one more limit (`LostBounded`). A
window that runs out takes its first request, counted one window ago, out of the
history with it (`OlderBounded`), which is where the "less one" comes from.

*Gateway.* `ConfigInv` is what the start has ensured, `PendingInv` what a request
relies on between its awaits: that the present role of its user is among those seen,
and that a session valid now was valid when it arrived, since none is made valid
again. `AcceptedEnv` derives from the issues of the schema what production can count
on.

| Module | Theorems, with the property each states |
|---|---|
| `SessionsProofs` | `TypeCorrect` (`TypeOK`), `LiveRows` (`LiveRowInv`), `TokensStayRotatedOut` (`NoTokenRestored`), `OwnSessionsOnly` (`ActsForItsUser`), and under `SweepTtl >= RefreshTtl` `SweepsSpareLive` (`SweepSparesLive`) and `Refinement` (`ImplementsLedger`) |
| `PasswordResetProofs` | `TypeCorrect`, `ResetsEndSessions` (`NoSessionSurvivesTwoChanges`), `ResetsEndTokens` (`TokensSurviveOnlyPastResets`), `OneTokenUnlessOverlapping` (`OnlyOverlappingTokens`) |
| `LoginLockoutProofs` | `TypeCorrect`, `CountsWithinLimit` (`CountInv`), `LocksRunOut` (`OverlapsRunOut`) |
| `AccountsProofs` | `TypeCorrect`, `AddressesAreUnique` (`OneAccountPerEmail`), `RegistrationsAreWhole` (`RegistrationIsWhole`), `MailVerifies` (`VerifiedByMail`), `VerifiedFirst` (`OnlyVerifiedLogIn`), `LostForGood` (`StrandedForGood`), `Refinement` (`ImplementsLedger`) |
| `LifecycleProofs` | `TypeCorrect`, `ExitCodeHonest` (`ZeroIsClean`), `ClientsFirst` (`NobodyCutOff`), `MailsAccountedFor` (`MailInv`), `SweepsEndFirst` (`NoLateSweep`), `ReadyIsTrue` (`ReadyTold`), `RetriesEnd` (`MailsRunOut`), `Refinement` (`ImplementsLife`) |
| `RateLimitProofs` | `TypeCorrect`, `BurstsBounded` (`BurstBound`) |
| `GatewayProofs` | `TypeCorrect`, `NoReplicaAlone` (SecondCheckIdle: an accepted configuration passes the second check of the Redis URL), `FailsClosed` (`ProductionFailsClosed`), `EveryAnswerJustified` (`AnswersJustified`), `SweepShortInYears` (`OnlyYearsFallShort`) |

Assumptions used: the absence values are not rows, tokens, users or times, and
lifetimes, limits, attempts and amounts are positive numbers. They are the named
assumptions of the modules, and TLC evaluates them in every run.

*Model-checked only.* The liveness properties (`RevokedIsPurged`, `LockEnds`,
`HealthFollows`, `ShutdownEnds`, `MailSettles`, `RetryingHelps`): fairness and ENABLED
are out of the reach of the proof system. Of `LockEnds` and `MailSettles` the decreasing
measure is proved (`OverlapsRunOut`, `MailsRunOut`). Every invariant, action property and
refinement that a passing run checks is stated by a theorem; what a violation run checks
is false.

## 5. Abstractions

* Verification of a signature always succeeds for an issued token and the expiry
  is compared as `jsonwebtoken` does; tokens nobody signed are rejected before any
  statement and have no action.
* All replicas share one clock. `updatedAt` is written by Prisma in the process
  that signs the token, so the order that `LiveRowInv` relies on is that of one
  handler. `iat` is in whole seconds and `updatedAt` in milliseconds; rounding
  only makes tokens older than their rows.
* Where the job cannot read `JWT_REFRESH_EXPIRY` it deletes revoked rows only:
  `SweepTtl` beyond the horizon.
* UUIDs, `jti` and the random tokens never collide. The retry loops of
  `createVerificationToken` and `createPasswordResetToken` on a collision of hashes
  are not taken.
* Users are never deleted (no code does it). Addresses are normalized ones.
* The transactions of `PasswordReset` are followed statement by statement. Those of
  `Accounts` are their commit, preceded by the reads that decide: they search for no rows
  by a condition that any other request could satisfy (a user has one verification
  token, from the registration, so the updateMany of the other unused ones finds none),
  and what they write is by key, or is a new row whose unique index makes the second of
  two wait for the first. A failed transaction is `Fail` and leaves
  nothing. A first session and a login's session are the same row
  here and in `Sessions`, which follows it from there on.
* `server.close` is Node's: it stops accepting, closes idle connections, calls back
  when the others are gone, and lets a busy connection be kept alive. A client that
  leaves does not stop its handler. The timers of the cleanup job and of the forced exit
  are unreferenced, and a loop that nothing holds ends the process. Before the
  shutdown the port holds it, or a client of Redis, which reconnects; a process that has neither
  runs dry once its first sweep has settled (`RunDry`; the ten seconds for which the
  pool keeps an idle connection are time like any other). In the shutdown the calls
  under way (server.close with clients left, disposeSecurity, $disconnect) are taken to hold
  the loop until they settle or the forced exit fires.
* Where a statement and what follows it without changing anything are one action, this
  loses no outcome, with one exception. The lookup of a user goes with the next read
  or check: users keep their id, and a password is read with its user. `AcceptToken` and
  the like read the clock with the row, whose expiry never changes. `CheckLock` and
  `ReadFailure` do so too, and there it is an assumption: the row is judged at the
  time it is read. Where a lock ends while the reply is under way the code lets that login in,
  the model refuses it. So `OverlapsRunOut` and `LockEnds` hold under the assumption that
  the reply of `ensureLoginNotLocked` does not straddle the end of the lock or the
  window that it reports: without it, logins that have read one lock could lift
  the next, and a chain of replies each as slow as a lockout would never end.
* `express-rate-limit` has fixed windows that begin with the first request after the
  last one, counts refused requests, and passes a store's error on. Redis keeps its
  counters. While it is away, the client's queue may hold a request instead of
  failing it; such a request is one whose `StoreFails` or `Pass` comes late.
* A window of the limiters is positive; the schema would take zero.
* The classes of values in `Config` are those its schema tells apart; every variable
  that only passes its value on is the Boolean `rest`.

## 6. Not modelled, and why

* `src/docs/openapi.ts`: a constant document. Its statements about behaviour are
  what findings quote.
* Password hashing, signatures and random tokens: libraries; a password is a version,
  a token an identity.
* Logging, `x-request-id`, compression, response headers and the HTML of mails: no
  decision depends on them.
* Metrics: counters and histograms handed to `prom-client`. That a path which no route
  matches becomes a label value is listed as a hazard without a property.
* `TRUST_PROXY` and the parsing of addresses and CIDR blocks: string formats. Whether
  a caller is inside the allowlist is a field of the caller.
* The Zod schemas of the bodies: stateless; a body they refuse has no effect.
* The interval of the cleanup job above 2^31-1 ms, which Node turns into one
  millisecond: the runs of the job are in `Sessions` however often they come.
* The composition of lockout, reset and sessions into one login: the three models
  agree on the insert of the session, and share no other row but the user's.
