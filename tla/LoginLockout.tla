---------------------------- MODULE LoginLockout ----------------------------
(***************************************************************************)
(* The login guard of src/services/authService.ts: the LoginAttempt row of *)
(* one (email, ip) pair and the login requests that read and write it.     *)
(* Rows of different pairs never meet, so one pair is the general case.    *)
(*                                                                         *)
(* Every statement is one action; requests interleave between statements.  *)
(* Dates are kept relative to the present, so that time is unbounded: age  *)
(* is how long ago lastFailedAt was, as far as the code can tell ages      *)
(* apart, and left how long the lock still runs: 0 once lockedUntil has    *)
(* passed, Never if lockedUntil is null.                                   *)
(*                                                                         *)
(* firstFailedAt and userId are written and never read; they are left out. *)
(***************************************************************************)
EXTENDS Integers

CONSTANTS
    Requests,
    NoRow,
    MaxAttempts,    \* loginMaxAttempts
    Window,         \* loginAttemptWindowMs
    Lockout         \* loginLockoutMs

Never == -1

ASSUME LockoutAssumption ==
    /\ MaxAttempts \in Nat \ {0}
    /\ Window \in Nat \ {0}
    /\ Lockout \in Nat \ {0}

Ages == 0..(Window + 1)

Attempt == [failCount : Nat, age : Ages, left : {Never} \cup 0..Lockout]

ASSUME NoRowAssumption == NoRow \notin Attempt

VARIABLES
    attempt,        \* the row
    req             \* the request served by each slot

vars == <<attempt, req>>

Stages == {"idle", "forget", "verify", "readFailure", "writeFailure", "clear"}

\* seen is the row found by recordLoginFailure; elapsed is the time since it
\* took `now`, as far as the dates it will write can tell.
Request == [pc : Stages, seen : Attempt \cup {NoRow}, elapsed : Nat]

Idle == [pc |-> "idle", seen |-> NoRow, elapsed |-> 0]

TypeOK ==
    /\ attempt \in Attempt \cup {NoRow}
    /\ req \in [Requests -> Request]

Init ==
    /\ attempt = NoRow
    /\ req = [r \in Requests |-> Idle]

-----------------------------------------------------------------------------
Exists == attempt # NoRow

Locked(row) == row # NoRow /\ row.left > 0

Aged(age) == IF age > Window THEN age ELSE age + 1

Goto(r, stage) == req' = [req EXCEPT ![r] = [Idle EXCEPT !.pc = stage]]

Done(r) == Goto(r, "idle")

\* Mutant: the lock is not looked at.
CheckLock_Unguarded(r) ==
    /\ req[r].pc = "idle"
    /\ Goto(r, "verify")
    /\ UNCHANGED attempt

\* ensureLoginNotLocked: a locked row is answered 429 (a stuttering step), a
\* row whose lock or window is over is deleted next.  The clock is read when the row
\* arrives; that it still shows the time at which the row was read is the assumption
\* that a reply takes no tick.
CheckLock(r) ==
    /\ req[r].pc = "idle"
    /\ ~Locked(attempt)
    /\ Goto(r, IF Exists /\ (attempt.left # Never \/ attempt.age > Window)
               THEN "forget" ELSE "verify")
    /\ UNCHANGED attempt

\* The delete may also fail; its error is swallowed.
Forget(r) ==
    /\ req[r].pc = "forget"
    /\ attempt' \in {NoRow, attempt}
    /\ Goto(r, "verify")

\* The user is looked up and the password verified: right or wrong.
Verify(r) ==
    /\ req[r].pc = "verify"
    /\ \E right \in BOOLEAN : Goto(r, IF right THEN "clear" ELSE "readFailure")
    /\ UNCHANGED attempt

\* clearLoginAttempts, whose error is swallowed; the session is opened next.
Clear(r) ==
    /\ req[r].pc = "clear"
    /\ attempt' \in {NoRow, attempt}
    /\ Done(r)

\* recordLoginFailure reads the row and then the clock.
ReadFailure(r) ==
    /\ req[r].pc = "readFailure"
    /\ req' = [req EXCEPT ![r] = [pc |-> "writeFailure", seen |-> attempt, elapsed |-> 0]]
    /\ UNCHANGED attempt

\* The count that decides about the lock.
NewCount(row) == IF row # NoRow /\ row.age <= Window THEN row.failCount + 1 ELSE 1

\* Mutant: the lock is set when the limit has been exceeded.
ShouldLock_Exceeded(row) == NewCount(row) > MaxAttempts

ShouldLock(row) == NewCount(row) >= MaxAttempts

\* The row that a failure leaves after finding row, at the time it was found.
Failed(row) ==
    LET restart == row # NoRow /\ (row.age > Window \/ row.left # Never)
    IN  [failCount |-> IF restart THEN 1 ELSE NewCount(row),
         age       |-> 0,
         left      |-> IF ShouldLock(row) THEN Lockout ELSE Never]

\* Mutant: what is left of the lock is not stopped at zero.
Later_Negative(row, d) ==
    [row EXCEPT !.age  = IF d > Window THEN Window + 1 ELSE d,
                !.left = IF row.left = Never THEN Never ELSE Lockout - d]

\* The same row when d ticks have passed since then.
Later(row, d) ==
    [row EXCEPT !.age  = IF d > Window THEN Window + 1 ELSE d,
                !.left = IF row.left = Never THEN Never ELSE IF d > Lockout THEN 0 ELSE Lockout - d]

\* create fails if the row exists by now (P2002), update if it is gone (P2025).
WriteFailure(r) ==
    LET row == req[r].seen
    IN  /\ req[r].pc = "writeFailure"
        /\ attempt' = IF Exists <=> row # NoRow THEN Later(Failed(row), req[r].elapsed)
                                                ELSE attempt
        /\ Done(r)

\* A statement is rejected: the request is answered 500.
Fail(r) ==
    /\ req[r].pc # "idle"
    /\ Done(r)
    /\ UNCHANGED attempt

\* The age of what a request saw was compared with its own `now`, so only the
\* distance to that moment grows; it matters up to the longer of the two spans.
Tick ==
    /\ attempt' = IF ~Exists THEN NoRow
                  ELSE [attempt EXCEPT !.age  = Aged(@),
                                       !.left = IF @ > 0 THEN @ - 1 ELSE @]
    /\ req' = [r \in Requests |->
                  IF req[r].pc = "writeFailure" /\ req[r].elapsed <= Window + Lockout
                  THEN [req[r] EXCEPT !.elapsed = @ + 1]
                  ELSE req[r]]

Serve(r) ==
    \/ CheckLock(r)
    \/ Forget(r)
    \/ Verify(r)
    \/ Clear(r)
    \/ ReadFailure(r)
    \/ WriteFailure(r)
    \/ Fail(r)

Next == Tick \/ \E r \in Requests : Serve(r)

Spec == Init /\ [][Next]_vars

\* Time passes.
FairSpec == Spec /\ WF_vars(Tick)

-----------------------------------------------------------------------------
(* Properties.                                                             *)

\* However concurrent failures overwrite each other's counts, a stored count
\* never passes the limit, and a row whose count is at the limit carries a
\* lock: recordLoginFailure can never count on beyond a lock it did not set.
CountOK(row) ==
    row # NoRow => /\ row.failCount \in 1..MaxAttempts
                   /\ row.failCount = MaxAttempts => row.left # Never

CountInv == CountOK(attempt)

\* CountInv is not inductive alone: a request writes a row computed from the
\* one it has seen, which must have satisfied it too.
IndInv ==
    /\ TypeOK
    /\ CountInv
    /\ \A r \in Requests : CountOK(req[r].seen)

\* The statements that a login at a stage has left before its answer.
StepsLeft == [idle |-> 0, clear |-> 1, writeFailure |-> 1, readFailure |-> 2, verify |-> 3, forget |-> 4]

\* While a lock holds, only logins that were under way when it was set can renew it
\* or lift it early, each with one of the statements it has left: nobody else is
\* admitted, and once these logins are through, only time touches the lock.
OverlapsRunOut ==
    [][Locked(attempt) =>
          /\ \A r \in Requests : StepsLeft[req'[r].pc] <= StepsLeft[req[r].pc]
          /\ \/ \E r \in Requests : StepsLeft[req'[r].pc] < StepsLeft[req[r].pc]
             \/ attempt' = [attempt EXCEPT !.age = Aged(@), !.left = @ - 1]]_vars

\* A lock is never extended for ever: failures that were already under way may
\* renew it, but the pair is free again in the end, and again and again.
LockEnds == []<>~Locked(attempt)

\* tests/auth.lockout.test.ts:32 "locks account after repeated failures and
\* allows login after lock expires": a lock lasts until lockedUntil.
LockHolds ==
    [][Locked(attempt) /\ attempt.left > 1 => Locked(attempt')]_vars
=============================================================================
