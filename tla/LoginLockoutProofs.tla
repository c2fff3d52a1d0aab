------------------------- MODULE LoginLockoutProofs -------------------------
(***************************************************************************)
(* The counts of LoginLockout stay within the limit for every number of    *)
(* concurrent logins and every setting of the limit, window and lockout.   *)
(***************************************************************************)
EXTENDS LoginLockout, TLAPS

\* What recordLoginFailure writes is a row within the limit.
LEMMA FailedRow ==
    ASSUME NEW row \in Attempt \cup {NoRow}, CountOK(row)
    PROVE  /\ Failed(row) \in Attempt
           /\ CountOK(Failed(row))
  <1> DEFINE n == NewCount(row)
             restart == row # NoRow /\ (row.age > Window \/ row.left # Never)
             left == IF ShouldLock(row) THEN Lockout ELSE Never
  <1>1. n \in Nat \ {0} /\ MaxAttempts \in Nat \ {0}
    BY LockoutAssumption DEF NewCount, CountOK, Attempt, n
  <1>2. ~restart => n \in 1..MaxAttempts
    BY <1>1 DEF NewCount, CountOK, Attempt, n, Never, Ages
  <1>3. ShouldLock(row) <=> n >= MaxAttempts
    BY DEF ShouldLock, n
  <1>4. left \in {Never} \cup 0..Lockout /\ (ShouldLock(row) => left # Never)
    BY LockoutAssumption DEF left, Never
  <1>5. MaxAttempts = 1 => ShouldLock(row)
    BY <1>1, <1>3
  <1>6. Failed(row) = [failCount |-> IF restart THEN 1 ELSE n, age |-> 0, left |-> left]
    BY DEF Failed, restart, n, left
  <1> HIDE DEF n, restart, left
  <1>7. /\ Failed(row) \in Attempt
        /\ Failed(row).failCount = (IF restart THEN 1 ELSE n)
        /\ Failed(row).left = left
    BY <1>1, <1>4, <1>6, LockoutAssumption DEF Attempt, Ages
  <1>8. Failed(row).failCount \in 1..MaxAttempts
    BY <1>1, <1>2, <1>7
  <1>9. Failed(row).failCount = MaxAttempts => ShouldLock(row)
    BY <1>1, <1>3, <1>5, <1>7
  <1> QED
    BY <1>4, <1>7, <1>8, <1>9 DEF CountOK

\* Time keeps the count of a row and neither sets nor clears its lock date.
LEMMA LaterRow ==
    ASSUME NEW row \in Attempt, CountOK(row), NEW d \in Nat
    PROVE  Later(row, d) \in Attempt /\ CountOK(Later(row, d))
  <1>1. /\ (IF d > Window THEN Window + 1 ELSE d) \in Ages
        /\ LET left == IF row.left = Never THEN Never
                       ELSE IF d > Lockout THEN 0 ELSE Lockout - d
           IN  left \in {Never} \cup 0..Lockout /\ (left = Never <=> row.left = Never)
    BY LockoutAssumption DEF Ages, Never, Attempt
  <1>2. row # NoRow
    BY NoRowAssumption
  <1> QED
    BY <1>1, <1>2 DEF Later, Attempt, CountOK

\* Time changes no count.
LEMMA TickInv == IndInv /\ Tick => IndInv'
  <1> SUFFICES ASSUME IndInv, Tick PROVE IndInv'
    OBVIOUS
  <1>1. attempt' \in Attempt \cup {NoRow} /\ CountOK(attempt')
    <2>1. CASE attempt = NoRow
      BY <2>1 DEF Tick, Exists, CountOK
    <2>2. CASE attempt # NoRow
      <3> DEFINE age == Aged(attempt.age)
                 left == IF attempt.left > 0 THEN attempt.left - 1 ELSE attempt.left
      <3>1. attempt \in Attempt /\ CountOK(attempt)
        BY <2>2 DEF IndInv, TypeOK, CountInv
      <3>2. /\ age \in Ages
            /\ left \in {Never} \cup 0..Lockout
            /\ left = Never <=> attempt.left = Never
        BY <3>1, LockoutAssumption DEF age, left, Aged, Ages, Never, Attempt
      <3>3. attempt' = [attempt EXCEPT !.age = age, !.left = left]
        BY <2>2 DEF Tick, Exists, age, left
      <3> HIDE DEF age, left
      <3> QED
        BY <2>2, <3>1, <3>2, <3>3 DEF Attempt, CountOK
    <2> QED
      BY <2>1, <2>2
  <1>2. ASSUME NEW r \in Requests
        PROVE  req'[r] \in Request /\ req'[r].seen = req[r].seen
    BY DEF Tick, IndInv, TypeOK, Request
  <1>3. req' \in [Requests -> Request]
    BY <1>2 DEF Tick
  <1> QED
    BY <1>1, <1>2, <1>3 DEF IndInv, TypeOK, CountInv

\* A request that goes on without a write sees what it saw, or nothing.
LEMMA GotoInv ==
    ASSUME IndInv, NEW r \in Requests, NEW stage \in Stages, Goto(r, stage),
           attempt' \in {NoRow, attempt}
    PROVE  IndInv'
  <1>1. Idle \in Request /\ CountOK(Idle.seen)
    BY DEF Idle, Request, Stages, CountOK
  <1>2. [Idle EXCEPT !.pc = stage] \in Request /\ [Idle EXCEPT !.pc = stage].seen = NoRow
    BY DEF Idle, Request
  <1>3. req' \in [Requests -> Request]
    BY <1>2 DEF Goto, IndInv, TypeOK
  <1>4. \A x \in Requests : CountOK(req'[x].seen)
    BY <1>2 DEF Goto, IndInv, TypeOK, CountOK
  <1> QED
    BY <1>3, <1>4 DEF IndInv, TypeOK, CountInv, CountOK

\* Every step of a login preserves the invariant.
LEMMA ServeInv ==
    ASSUME IndInv, NEW r \in Requests, Serve(r)
    PROVE  IndInv'
  <1>1. CASE CheckLock(r)
    BY <1>1, GotoInv DEF CheckLock, Stages
  <1>2. CASE Forget(r) \/ Clear(r) \/ Fail(r)
    BY <1>2, GotoInv DEF Forget, Clear, Fail, Done, Stages
  <1>3. CASE Verify(r)
    BY <1>3, GotoInv DEF Verify, Stages
  <1>4. CASE ReadFailure(r)
    <2>1. [pc |-> "writeFailure", seen |-> attempt, elapsed |-> 0] \in Request
      BY DEF IndInv, TypeOK, Request, Stages
    <2>2. req' \in [Requests -> Request] /\ attempt' = attempt
      BY <1>4, <2>1 DEF ReadFailure, IndInv, TypeOK
    <2>3. \A x \in Requests : req'[x].seen \in {attempt, req[x].seen}
      BY <1>4 DEF ReadFailure, IndInv, TypeOK
    <2> QED
      BY <2>2, <2>3 DEF IndInv, TypeOK, CountInv
  <1>5. CASE WriteFailure(r)
    <2> DEFINE row == Later(Failed(req[r].seen), req[r].elapsed)
    <2>1. row \in Attempt /\ CountOK(row)
      BY FailedRow, LaterRow DEF IndInv, TypeOK, Request
    <2>2. attempt' \in {row, attempt} /\ Goto(r, "idle")
      BY <1>5 DEF WriteFailure, Done
    <2> HIDE DEF row
    <2>3. Idle \in Request /\ Idle.seen = NoRow
      BY DEF Idle, Request, Stages
    <2>4. req' = [req EXCEPT ![r] = Idle]
      <3>1. [Idle EXCEPT !.pc = "idle"] = Idle
        BY DEF Idle
      <3> QED
        BY <2>2, <3>1 DEF Goto
    <2> QED
      BY <2>1, <2>2, <2>3, <2>4 DEF IndInv, TypeOK, CountInv, CountOK
  <1> QED
    BY <1>1, <1>2, <1>3, <1>4, <1>5 DEF Serve

\* The inductive invariant holds in every reachable state, for any number of
\* concurrent logins.
THEOREM Invariance == Spec => []IndInv
  <1>1. Init => IndInv
    BY DEF Init, Idle, IndInv, TypeOK, CountInv, CountOK, Request, Stages
  <1>2. IndInv /\ [Next]_vars => IndInv'
    <2> SUFFICES ASSUME IndInv, [Next]_vars PROVE IndInv'
      OBVIOUS
    <2>1. CASE UNCHANGED vars
      BY <2>1 DEF vars, IndInv, TypeOK, CountInv
    <2> QED
      BY <2>1, TickInv, ServeInv DEF Next
  <1> QED
    BY <1>1, <1>2, PTL DEF Spec

\* The row and what each login has read of it keep their types.
THEOREM TypeCorrect == Spec => []TypeOK
  <1>1. IndInv => TypeOK
    BY DEF IndInv
  <1> QED
    BY <1>1, Invariance, PTL

\* No count passes the limit, and none reaches it without a lock.
THEOREM CountsWithinLimit == Spec => []CountInv
  <1>1. IndInv => CountInv
    BY DEF IndInv
  <1> QED
    BY <1>1, Invariance, PTL

\* A login has some number of statements left at each stage.
LEMMA StepsLeftType == \A stage \in Stages : StepsLeft[stage] \in Nat
  BY DEF Stages, StepsLeft

\* A step of a login that was admitted uses up a statement, and only its own.
LEMMA ServeUsesUp ==
    ASSUME IndInv, Locked(attempt), NEW r \in Requests, Serve(r)
    PROVE  /\ StepsLeft[req'[r].pc] < StepsLeft[req[r].pc]
           /\ \A x \in Requests \ {r} : req'[x] = req[x]
  <1>1. req \in [Requests -> Request]
    BY DEF IndInv, TypeOK
  <1>2. ASSUME NEW stage \in Stages, Goto(r, stage)
        PROVE  req'[r].pc = stage /\ \A x \in Requests \ {r} : req'[x] = req[x]
    BY <1>1, <1>2 DEF Goto, Idle
  <1>3. ASSUME NEW stage \in Stages, Goto(r, stage), StepsLeft[stage] < StepsLeft[req[r].pc]
        PROVE  /\ StepsLeft[req'[r].pc] < StepsLeft[req[r].pc]
               /\ \A x \in Requests \ {r} : req'[x] = req[x]
    BY <1>2, <1>3
  <1>4. CASE CheckLock(r)
    BY <1>4 DEF CheckLock
  <1>5. CASE Forget(r)
    BY <1>3, <1>5 DEF Forget, StepsLeft, Stages
  <1>6. CASE Verify(r)
    BY <1>3, <1>6 DEF Verify, StepsLeft, Stages
  <1>7. CASE Clear(r) \/ WriteFailure(r)
    BY <1>3, <1>7 DEF Clear, WriteFailure, Done, StepsLeft, Stages
  <1>8. CASE ReadFailure(r)
    BY <1>1, <1>8 DEF ReadFailure, StepsLeft
  <1>9. CASE Fail(r)
    <2>1. req[r].pc \in Stages \ {"idle"}
      BY <1>1, <1>9 DEF Fail, Request
    <2> QED
      BY <1>3, <1>9, <2>1 DEF Fail, Done, StepsLeft, Stages
  <1> QED
    BY <1>4, <1>5, <1>6, <1>7, <1>8, <1>9 DEF Serve

\* Time uses up the lock, and no statement.
LEMMA TickUsesUp ==
    ASSUME IndInv, Locked(attempt), Tick
    PROVE  /\ attempt' = [attempt EXCEPT !.age = Aged(@), !.left = @ - 1]
           /\ \A x \in Requests : req'[x].pc = req[x].pc
  <1>1. attempt \in Attempt /\ attempt # NoRow /\ attempt.left > 0
    BY DEF IndInv, TypeOK, Locked
  <1>2. attempt' = [attempt EXCEPT !.age = Aged(@), !.left = @ - 1]
    BY <1>1 DEF Tick, Exists, Attempt
  <1>3. \A x \in Requests : req'[x].pc = req[x].pc
    BY DEF Tick, IndInv, TypeOK, Request
  <1> QED
    BY <1>2, <1>3

\* For any number of concurrent logins and any limits: a lock is renewed or lifted
\* early only by logins that were under way when it was set, as often as they have
\* statements left.
THEOREM LocksRunOut == Spec => OverlapsRunOut
  <1>1. ASSUME IndInv, Next, Locked(attempt)
        PROVE  /\ \A r \in Requests : StepsLeft[req'[r].pc] <= StepsLeft[req[r].pc]
               /\ \/ \E r \in Requests : StepsLeft[req'[r].pc] < StepsLeft[req[r].pc]
                  \/ attempt' = [attempt EXCEPT !.age = Aged(@), !.left = @ - 1]
    <2>1. \A r \in Requests : StepsLeft[req[r].pc] \in Nat
      BY <1>1, StepsLeftType DEF IndInv, TypeOK, Request
    <2>2. CASE Tick
      BY <1>1, <2>1, <2>2, TickUsesUp
    <2>3. ASSUME NEW r \in Requests, Serve(r)
          PROVE  /\ \A x \in Requests : StepsLeft[req'[x].pc] <= StepsLeft[req[x].pc]
                 /\ StepsLeft[req'[r].pc] < StepsLeft[req[r].pc]
      <3>1. /\ StepsLeft[req'[r].pc] < StepsLeft[req[r].pc]
            /\ \A x \in Requests \ {r} : req'[x] = req[x]
        BY <1>1, <2>3, ServeUsesUp
      <3>2. StepsLeft[req'[r].pc] \in Nat
        <4>1. IndInv'
          BY <1>1, <2>3, ServeInv
        <4> QED
          BY <4>1, StepsLeftType DEF IndInv, TypeOK, Request
      <3> QED
        BY <2>1, <3>1, <3>2
    <2> QED
      BY <1>1, <2>2, <2>3 DEF Next
  <1>2. IndInv /\ [Next]_vars =>
           [Locked(attempt) =>
              /\ \A r \in Requests : StepsLeft[req'[r].pc] <= StepsLeft[req[r].pc]
              /\ \/ \E r \in Requests : StepsLeft[req'[r].pc] < StepsLeft[req[r].pc]
                 \/ attempt' = [attempt EXCEPT !.age = Aged(@), !.left = @ - 1]]_vars
    BY <1>1
  <1> QED
    BY <1>2, Invariance, PTL DEF Spec, OverlapsRunOut
=============================================================================
