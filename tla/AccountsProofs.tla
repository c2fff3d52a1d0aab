--------------------------- MODULE AccountsProofs ---------------------------
(***************************************************************************)
(* Proofs about Accounts for every number of addresses, users, tokens,     *)
(* sessions and concurrent requests.                                       *)
(***************************************************************************)
EXTENDS Accounts, TLAPS

\* What the rest of a suspended handler relies on.
LocalOK(q) ==
    /\ q.pc = "registerTx" => q.email \in Emails
    /\ q.pc = "mail" => q.id \in TokenIds /\ tokens[q.id] # NoRow
    /\ q.pc \in {"verifyTx", "markExpired"} => q.id \in mailed
    /\ q.pc = "verifyTx" => /\ q.at < tokens[q.id].expiresAt
                            /\ q.verified => Verified(tokens[q.id].userId)
    /\ q.pc = "loginCreate" => /\ q.id \in UserIds /\ Registered(q.id)
                               /\ required => Verified(q.id)

LocalInv == \A r \in Requests : LocalOK(req[r])

MailedInv == \A t \in mailed : tokens[t] # NoRow

IndInv ==
    /\ TypeOK
    /\ LocalInv
    /\ MailedInv
    /\ OneAccountPerEmail
    /\ RegistrationIsWhole
    /\ VerifiedByMail
    /\ OnlyVerifiedLogIn

\* What no statement takes back.
Grows ==
    /\ required' = required
    /\ mailed \subseteq mailed'
    /\ \A u \in UserIds :
          Registered(u) => /\ Registered(u)'
                           /\ users'[u].email = users[u].email
                           /\ Verified(u) => Verified(u)'
    /\ \A t \in TokenIds :
          tokens[t] # NoRow => /\ tokens'[t] # NoRow
                               /\ tokens'[t].userId = tokens[t].userId
                               /\ tokens'[t].expiresAt = tokens[t].expiresAt
                               /\ tokens[t].used => tokens'[t].used
    /\ \A s \in SessionIds : sessions[s] # NoRow => sessions'[s] = sessions[s]

-----------------------------------------------------------------------------
\* The fields of a row, and of the locals of a handler.
LEMMA Types ==
    ASSUME TypeOK
    PROVE  /\ \A u \in UserIds : Registered(u) => users[u] \in User
           /\ \A t \in TokenIds : tokens[t] # NoRow => tokens[t] \in VerificationToken
           /\ \A s \in SessionIds : sessions[s] # NoRow => sessions[s] \in UserIds
           /\ \A r \in Requests : req[r] \in Request
  BY DEF TypeOK, Registered

\* An idle slot is a request, and relies on nothing.
LEMMA IdleSlot == Idle \in Request /\ LocalOK(Idle)
  BY DEF Idle, Request, LocalOK

\* Nothing that grows takes away what a suspended handler relies on.
LEMMA LocalStable ==
    ASSUME TypeOK, MailedInv, RegistrationIsWhole, Grows, NEW q \in Request, LocalOK(q)
    PROVE  LocalOK(q)'
  <1>1. CASE q.pc = "mail"
    BY <1>1 DEF LocalOK, Grows
  <1>2. CASE q.pc = "markExpired"
    BY <1>2 DEF LocalOK, Grows
  <1>3. CASE q.pc = "verifyTx"
    <2>1. q.id \in mailed /\ q.id \in mailed' /\ q.id \in TokenIds /\ tokens[q.id] # NoRow
      BY <1>3 DEF LocalOK, Grows, MailedInv, TypeOK
    <2>2. /\ tokens'[q.id].userId = tokens[q.id].userId
          /\ tokens'[q.id].expiresAt = tokens[q.id].expiresAt
      BY <2>1 DEF Grows
    <2>3. tokens[q.id].userId \in UserIds /\ Registered(tokens[q.id].userId)
      BY <2>1, Types DEF RegistrationIsWhole, VerificationToken
    <2>4. q.verified => Verified(tokens[q.id].userId)'
      BY <1>3, <2>2, <2>3 DEF LocalOK, Grows, Verified
    <2> QED
      BY <1>3, <2>1, <2>2, <2>4 DEF LocalOK, Verified
  <1>4. CASE q.pc = "loginCreate"
    BY <1>4 DEF LocalOK, Grows
  <1>5. CASE q.pc \in {"idle", "registerTx"}
    BY <1>5 DEF LocalOK
  <1> QED
    BY <1>1, <1>2, <1>3, <1>4, <1>5 DEF Request

\* A slot that is given a request it can hold.
LEMMA SlotInv ==
    ASSUME TypeOK, LocalInv, MailedInv, RegistrationIsWhole, Grows,
           NEW r \in Requests, NEW q \in Request, LocalOK(q)',
           req' = [req EXCEPT ![r] = q]
    PROVE  req' \in [Requests -> Request] /\ LocalInv'
  <1>1. req' \in [Requests -> Request] /\ \A x \in Requests : req'[x] = IF x = r THEN q ELSE req[x]
    BY DEF TypeOK
  <1>2. ASSUME NEW x \in Requests, x # r
        PROVE  LocalOK(req[x])'
    <2>1. req'[x] = req[x] /\ req[x] \in Request /\ LocalOK(req[x])
      BY <1>1, <1>2 DEF TypeOK, LocalInv
    <2>2. ASSUME NEW p \in Request, LocalOK(p) PROVE LocalOK(p)'
      BY <2>2, LocalStable
    <2>3. PICK p \in Request : p = req[x]
      BY <2>1
    <2> QED
      BY <2>1, <2>2, <2>3 DEF LocalOK
  <1> QED
    BY <1>1, <1>2 DEF LocalInv, LocalOK

\* A step that changes no table.
LEMMA QuietInv ==
    ASSUME IndInv, NEW r \in Requests, NEW q \in Request, LocalOK(q),
           req' = [req EXCEPT ![r] = q],
           UNCHANGED <<required, users, tokens, sessions, mailed, now>>
    PROVE  IndInv'
  <1>1. Grows
    BY DEF Grows, Registered, Verified
  <1>2. LocalOK(q)'
    BY <1>1, LocalStable DEF IndInv
  <1>3. req' \in [Requests -> Request] /\ LocalInv'
    BY <1>1, <1>2, SlotInv DEF IndInv
  <1> QED
    BY <1>3 DEF IndInv, TypeOK, MailedInv, OneAccountPerEmail, RegistrationIsWhole, VerifiedByMail,
                OnlyVerifiedLogIn, Registered, Verified, TokenOf

LEMMA InitInv == Init => IndInv
  BY AccountsAssumption, IdleSlot
  DEF Init, IndInv, TypeOK, LocalInv, MailedInv, OneAccountPerEmail, RegistrationIsWhole,
      VerifiedByMail, OnlyVerifiedLogIn, Registered

-----------------------------------------------------------------------------
(* register                                                                *)

\* The rows that a registration writes.
LEMMA NewRows ==
    ASSUME TypeOK, NEW u \in UserIds, NEW e \in Emails
    PROVE  /\ NewUser(e) \in User /\ NewUser(e) # NoRow
           /\ NewUser(e).email = e /\ NewUser(e).verifiedAt = IF required THEN NoTime ELSE now
           /\ NewToken(u) \in VerificationToken /\ NewToken(u) # NoRow
           /\ NewToken(u).userId = u
  <1>1. NewUser(e) \in User
    BY DEF NewUser, User, TypeOK
  <1>2. NewToken(u) \in VerificationToken
    BY AccountsAssumption DEF NewToken, VerificationToken, TypeOK
  <1> QED
    BY <1>1, <1>2, AccountsAssumption DEF NewUser, NewToken

\* A user who is there has the address that was free, and nobody else does.
LEMMA NewUserInv ==
    ASSUME IndInv, NEW u \in UserIds, NEW e \in Emails, ~Registered(u), ~Taken(e),
           users' = [users EXCEPT ![u] = NewUser(e)], required' = required
    PROVE  /\ users' \in [UserIds -> User \cup {NoRow}]
           /\ OneAccountPerEmail'
           /\ \A v \in UserIds : users'[v] = IF v = u THEN NewUser(e) ELSE users[v]
           /\ Registered(u)'
           /\ Verified(u)' <=> ~required
           /\ \A v \in UserIds : Registered(v) => /\ Registered(v)' /\ users'[v] = users[v]
                                                  /\ Verified(v)' <=> Verified(v)
  <1>1. /\ NewUser(e) \in User /\ NewUser(e) # NoRow /\ NewUser(e).email = e
        /\ NewUser(e).verifiedAt = IF required THEN NoTime ELSE now
    BY NewRows DEF IndInv
  <1>2. users' \in [UserIds -> User \cup {NoRow}]
        /\ \A v \in UserIds : users'[v] = IF v = u THEN NewUser(e) ELSE users[v]
    BY <1>1 DEF IndInv, TypeOK
  <1>3. Registered(u)' /\ (Verified(u)' <=> ~required)
    BY <1>1, <1>2, AccountsAssumption DEF Registered, Verified, IndInv, TypeOK
  <1>4. \A v \in UserIds : Registered(v) => /\ Registered(v)' /\ users'[v] = users[v]
                                            /\ Verified(v)' <=> Verified(v)
    BY <1>2 DEF Registered, Verified
  <1>5. OneAccountPerEmail'
    BY <1>1, <1>2 DEF OneAccountPerEmail, Registered, Taken, IndInv
  <1> QED
    BY <1>2, <1>3, <1>4, <1>5

LEMMA CommitPendingInv ==
    ASSUME IndInv, NEW r \in Requests, NEW u \in UserIds, NEW t \in TokenIds,
           req[r].pc = "registerTx", ~Taken(req[r].email), ~Registered(u),
           CommitPending(r, u, t)
    PROVE  IndInv'
  <1> DEFINE e == req[r].email
             q == [Idle EXCEPT !.pc = "mail", !.id = t]
  <1>1. e \in Emails
    BY DEF IndInv, LocalInv, LocalOK
  <1>2. /\ required /\ UNCHANGED <<required, sessions, mailed, now>>
        /\ tokens[t] = NoRow
        /\ users' = [users EXCEPT ![u] = NewUser(e)]
        /\ tokens' = [tokens EXCEPT ![t] = NewToken(u)]
        /\ req' = [req EXCEPT ![r] = q]
    BY DEF CommitPending
  <1>3. /\ NewToken(u) \in VerificationToken /\ NewToken(u) # NoRow /\ NewToken(u).userId = u
    BY <1>1, NewRows DEF IndInv
  <1>4. /\ users' \in [UserIds -> User \cup {NoRow}]
        /\ OneAccountPerEmail'
        /\ \A v \in UserIds : users'[v] = IF v = u THEN NewUser(e) ELSE users[v]
        /\ Registered(u)'
        /\ ~Verified(u)'
        /\ \A v \in UserIds : Registered(v) => /\ Registered(v)' /\ users'[v] = users[v]
                                               /\ Verified(v)' <=> Verified(v)
    BY <1>1, <1>2, NewUserInv
  <1>5. /\ tokens' \in [TokenIds -> VerificationToken \cup {NoRow}]
        /\ \A i \in TokenIds : tokens'[i] = IF i = t THEN NewToken(u) ELSE tokens[i]
    BY <1>2, <1>3 DEF IndInv, TypeOK
  <1>6. Grows
    BY <1>2, <1>4, <1>5 DEF Grows
  <1>7. q \in Request /\ q.pc = "mail" /\ q.id = t
    BY DEF Idle, Request
  <1>8. LocalOK(q)'
    BY <1>3, <1>5, <1>7 DEF LocalOK
  <1> HIDE DEF q
  <1>9. req' \in [Requests -> Request] /\ LocalInv'
    BY <1>2, <1>6, <1>7, <1>8, SlotInv DEF IndInv
  <1>10. TypeOK'
    BY <1>2, <1>4, <1>5, <1>9 DEF IndInv, TypeOK
  <1>11. MailedInv'
    BY <1>2, <1>5 DEF MailedInv, IndInv, TypeOK
  <1>12. \A i \in TokenIds : TokenOf(u, i)' <=> i = t
    BY <1>3, <1>5 DEF TokenOf, IndInv, RegistrationIsWhole
  <1>13. \A v \in UserIds, i \in TokenIds : v # u => (TokenOf(v, i)' <=> TokenOf(v, i))
    BY <1>2, <1>3, <1>5 DEF TokenOf
  <1>14. \A v \in UserIds : Registered(v)' => v = u \/ Registered(v)
    BY <1>4 DEF Registered
  <1>15. RegistrationIsWhole'
    <2>1. ASSUME NEW v \in UserIds, Registered(v)'
          PROVE  \E i \in TokenIds : \A j \in TokenIds : TokenOf(v, j)' <=> j = i
      <3>1. CASE v = u
        BY <1>12, <3>1
      <3>2. CASE v # u
        BY <1>2, <1>13, <1>14, <2>1, <3>2 DEF IndInv, RegistrationIsWhole
      <3> QED
        BY <3>1, <3>2
    <2>2. ASSUME NEW i \in TokenIds, tokens'[i] # NoRow
          PROVE  Registered(tokens[i].userId)'
      BY <1>3, <1>4, <1>5, <2>2, Types DEF IndInv, RegistrationIsWhole, VerificationToken, Registered
    <2>3. ASSUME NEW s \in SessionIds, sessions'[s] # NoRow
          PROVE  Registered(sessions[s])'
      BY <1>2, <1>4, <2>3, Types DEF IndInv, RegistrationIsWhole, Registered
    <2> QED
      BY <1>2, <2>1, <2>2, <2>3 DEF RegistrationIsWhole
  <1>16. VerifiedByMail'
    <2>1. ASSUME NEW v \in UserIds, Registered(v)', Verified(v)'
          PROVE  \E i \in mailed' : /\ TokenOf(v, i)' /\ tokens'[i].used
                                    /\ users'[v].verifiedAt < tokens'[i].expiresAt
      <3>1. v # u /\ Registered(v) /\ Verified(v) /\ users'[v] = users[v]
        BY <1>4, <1>14, <2>1
      <3>2. PICK i \in mailed : /\ TokenOf(v, i) /\ tokens[i].used
                                /\ users[v].verifiedAt < tokens[i].expiresAt
        BY <1>2, <3>1 DEF IndInv, VerifiedByMail
      <3>3. i \in TokenIds /\ i # t /\ tokens'[i] = tokens[i]
        BY <1>2, <1>5, <3>2 DEF TokenOf, IndInv, TypeOK
      <3> QED
        BY <1>2, <1>13, <3>1, <3>2, <3>3
    <2> QED
      BY <2>1 DEF VerifiedByMail
  <1>17. OnlyVerifiedLogIn'
    BY <1>2, <1>4, Types DEF IndInv, OnlyVerifiedLogIn, RegistrationIsWhole
  <1> QED
    BY <1>4, <1>9, <1>10, <1>11, <1>15, <1>16, <1>17 DEF IndInv

LEMMA CommitActiveInv ==
    ASSUME IndInv, NEW r \in Requests, NEW u \in UserIds, NEW s \in SessionIds,
           req[r].pc = "registerTx", ~Taken(req[r].email), ~Registered(u),
           CommitActive(r, u, s)
    PROVE  IndInv'
  <1> DEFINE e == req[r].email
  <1>1. e \in Emails
    BY DEF IndInv, LocalInv, LocalOK
  <1>2. /\ ~required /\ UNCHANGED <<required, tokens, mailed, now>>
        /\ sessions[s] = NoRow
        /\ users' = [users EXCEPT ![u] = NewUser(e)]
        /\ sessions' = [sessions EXCEPT ![s] = u]
        /\ req' = [req EXCEPT ![r] = Idle]
    BY DEF CommitActive, Done
  <1>3. /\ users' \in [UserIds -> User \cup {NoRow}]
        /\ OneAccountPerEmail'
        /\ \A v \in UserIds : users'[v] = IF v = u THEN NewUser(e) ELSE users[v]
        /\ Registered(u)'
        /\ Verified(u)'
        /\ \A v \in UserIds : Registered(v) => /\ Registered(v)' /\ users'[v] = users[v]
                                               /\ Verified(v)' <=> Verified(v)
    BY <1>1, <1>2, NewUserInv
  <1>4. /\ sessions' \in [SessionIds -> UserIds \cup {NoRow}]
        /\ \A i \in SessionIds : sessions'[i] = IF i = s THEN u ELSE sessions[i]
    BY <1>2 DEF IndInv, TypeOK
  <1>5. Grows
    BY <1>2, <1>3, <1>4 DEF Grows
  <1>6. Idle \in Request /\ LocalOK(Idle)'
    BY IdleSlot DEF LocalOK, Idle
  <1>7. req' \in [Requests -> Request] /\ LocalInv'
    BY <1>2, <1>5, <1>6, SlotInv DEF IndInv
  <1>8. TypeOK'
    BY <1>2, <1>3, <1>4, <1>7 DEF IndInv, TypeOK
  <1>9. MailedInv'
    BY <1>2 DEF MailedInv, IndInv
  <1>10. RegistrationIsWhole'
    <2>1. ASSUME NEW v \in UserIds, Registered(v)'
          PROVE  Verified(v)' /\ \E i \in SessionIds : sessions'[i] = v
      <3>1. CASE v = u
        BY <1>3, <1>4, <3>1
      <3>2. CASE v # u
        <4>1. Registered(v)
          BY <1>3, <2>1, <3>2 DEF Registered
        <4>2. PICK i \in SessionIds : Verified(v) /\ sessions[i] = v
          BY <1>2, <4>1 DEF IndInv, RegistrationIsWhole
        <4>3. sessions'[i] = v
          BY <1>2, <1>4, <4>2, AccountsAssumption
        <4> QED
          BY <1>3, <4>1, <4>2, <4>3
      <3> QED
        BY <3>1, <3>2
    <2>2. ASSUME NEW i \in TokenIds, tokens'[i] # NoRow
          PROVE  Registered(tokens[i].userId)'
      BY <1>2, <1>3, <2>2, Types DEF IndInv, RegistrationIsWhole, VerificationToken, Registered
    <2>3. ASSUME NEW i \in SessionIds, sessions'[i] # NoRow
          PROVE  Registered(sessions[i])'
      BY <1>3, <1>4, <2>3, Types DEF IndInv, RegistrationIsWhole, Registered
    <2> QED
      BY <1>2, <2>1, <2>2, <2>3 DEF RegistrationIsWhole
  <1>11. VerifiedByMail' /\ OnlyVerifiedLogIn'
    BY <1>2 DEF VerifiedByMail, OnlyVerifiedLogIn
  <1> QED
    BY <1>3, <1>7, <1>8, <1>9, <1>10, <1>11 DEF IndInv

LEMMA MailInv ==
    ASSUME IndInv, NEW r \in Requests, Mail(r)
    PROVE  IndInv'
  <1>1. /\ req[r].pc = "mail" /\ req[r].id \in TokenIds /\ tokens[req[r].id] # NoRow
        /\ mailed' = mailed \cup {req[r].id}
        /\ req' = [req EXCEPT ![r] = Idle]
        /\ UNCHANGED <<required, users, tokens, sessions, now>>
    BY DEF Mail, Done, IndInv, LocalInv, LocalOK
  <1>2. Grows
    BY <1>1 DEF Grows, Registered, Verified
  <1>3. Idle \in Request /\ LocalOK(Idle)'
    BY IdleSlot DEF LocalOK, Idle
  <1>4. req' \in [Requests -> Request] /\ LocalInv'
    BY <1>1, <1>2, <1>3, SlotInv DEF IndInv
  <1>5. TypeOK' /\ MailedInv' /\ OneAccountPerEmail' /\ RegistrationIsWhole' /\ OnlyVerifiedLogIn'
    BY <1>1, <1>4 DEF IndInv, TypeOK, MailedInv, OneAccountPerEmail, RegistrationIsWhole,
                      OnlyVerifiedLogIn, Registered, Verified, TokenOf
  <1>6. VerifiedByMail'
    BY <1>1 DEF IndInv, VerifiedByMail, Registered, Verified, TokenOf
  <1> QED
    BY <1>4, <1>5, <1>6 DEF IndInv

LEMMA RegisterInv ==
    ASSUME IndInv, NEW r \in Requests,
           \/ \E e \in Emails : RegisterCheck(r, e)
           \/ RegisterTaken(r) \/ RegisterCommit(r) \/ Mail(r) \/ Fail(r)
    PROVE  IndInv'
  <1>1. ASSUME NEW e \in Emails, RegisterCheck(r, e) PROVE IndInv'
    <2> DEFINE q == [Idle EXCEPT !.pc = "registerTx", !.email = e]
    <2>1. q \in Request /\ q.pc = "registerTx" /\ q.email = e
      BY DEF Idle, Request
    <2>2. req' = [req EXCEPT ![r] = q] /\ UNCHANGED <<required, users, tokens, sessions, mailed, now>>
      BY <1>1 DEF RegisterCheck
    <2>3. LocalOK(q)
      BY <2>1 DEF LocalOK
    <2> HIDE DEF q
    <2> QED
      BY <2>1, <2>2, <2>3, QuietInv
  <1>2. CASE RegisterTaken(r) \/ Fail(r)
    BY <1>2, IdleSlot, QuietInv DEF RegisterTaken, Fail, Done
  <1>3. CASE RegisterCommit(r)
    BY <1>3, CommitPendingInv, CommitActiveInv DEF RegisterCommit
  <1> QED
    BY <1>1, <1>2, <1>3, MailInv

-----------------------------------------------------------------------------
(* verifyEmail                                                             *)

\* The rows of S, used up.
Used(table, S) ==
    [i \in TokenIds |-> IF i \in S THEN [table[i] EXCEPT !.used = TRUE] ELSE table[i]]

\* Rows that are used up keep everything else, and other rows all they have.
LEMMA UsedUp ==
    ASSUME NEW table \in [TokenIds -> VerificationToken \cup {NoRow}],
           NEW S \in SUBSET TokenIds, \A i \in S : table[i] # NoRow
    PROVE  LET after == Used(table, S)
           IN  /\ after \in [TokenIds -> VerificationToken \cup {NoRow}]
               /\ \A i \in TokenIds :
                     /\ after[i] = NoRow <=> table[i] = NoRow
                     /\ table[i] # NoRow => /\ after[i].userId = table[i].userId
                                            /\ after[i].expiresAt = table[i].expiresAt
                                            /\ table[i].used => after[i].used
                                            /\ i \in S => after[i].used
  <1> DEFINE after == Used(table, S)
  <1>1. ASSUME NEW i \in S
        PROVE  /\ after[i] \in VerificationToken /\ after[i] # NoRow
               /\ after[i].userId = table[i].userId
               /\ after[i].expiresAt = table[i].expiresAt
               /\ after[i].used
    <2>1. table[i] \in VerificationToken
      OBVIOUS
    <2>2. after[i] = [table[i] EXCEPT !.used = TRUE]
      BY DEF Used
    <2>3. after[i] \in VerificationToken /\ after[i].used = TRUE
          /\ after[i].userId = table[i].userId /\ after[i].expiresAt = table[i].expiresAt
      BY <2>1, <2>2 DEF VerificationToken
    <2> QED
      BY <2>3, AccountsAssumption
  <1>2. ASSUME NEW i \in TokenIds, i \notin S PROVE after[i] = table[i]
    BY <1>2 DEF Used
  <1>3. after = [i \in TokenIds |-> after[i]]
    BY DEF Used
  <1> HIDE DEF after
  <1>4. after \in [TokenIds -> VerificationToken \cup {NoRow}]
    BY <1>1, <1>2, <1>3
  <1>5. ASSUME NEW i \in TokenIds
        PROVE  /\ after[i] = NoRow <=> table[i] = NoRow
               /\ table[i] # NoRow => /\ after[i].userId = table[i].userId
                                      /\ after[i].expiresAt = table[i].expiresAt
                                      /\ table[i].used => after[i].used
                                      /\ i \in S => after[i].used
    BY <1>1, <1>2
  <1> QED
    BY <1>4, <1>5 DEF after

\* A step that only uses tokens up, and may verify a user with one of them.
LEMMA UseInv ==
    ASSUME IndInv, NEW r \in Requests, req' = [req EXCEPT ![r] = Idle],
           UNCHANGED <<required, sessions, mailed, now>>,
           tokens' \in [TokenIds -> VerificationToken \cup {NoRow}],
           \A i \in TokenIds :
              /\ tokens'[i] = NoRow <=> tokens[i] = NoRow
              /\ tokens[i] # NoRow => /\ tokens'[i].userId = tokens[i].userId
                                      /\ tokens'[i].expiresAt = tokens[i].expiresAt
                                      /\ tokens[i].used => tokens'[i].used,
           users' \in [UserIds -> User \cup {NoRow}],
           \A u \in UserIds :
              /\ users'[u] = NoRow <=> users[u] = NoRow
              /\ users[u] # NoRow => /\ users'[u].email = users[u].email
                                     /\ Verified(u) => Verified(u)',
           \A u \in UserIds :
              Registered(u) /\ users'[u] # users[u] =>
                 \E t \in mailed : /\ TokenOf(u, t) /\ tokens'[t].used
                                   /\ users'[u].verifiedAt < tokens'[t].expiresAt
    PROVE  IndInv'
  <1>1. Grows
    BY DEF Grows, Registered
  <1>2. Idle \in Request /\ LocalOK(Idle)'
    BY IdleSlot DEF LocalOK, Idle
  <1>3. req' \in [Requests -> Request] /\ LocalInv'
    BY <1>1, <1>2, SlotInv DEF IndInv
  <1>4. TypeOK'
    BY <1>3 DEF IndInv, TypeOK
  <1>5. MailedInv'
    BY DEF MailedInv, IndInv, TypeOK
  <1>6. OneAccountPerEmail'
    BY DEF IndInv, OneAccountPerEmail, Registered
  <1>7. \A u \in UserIds, t \in TokenIds : TokenOf(u, t)' <=> TokenOf(u, t)
    BY DEF TokenOf
  <1>8. \A u \in UserIds : Registered(u)' <=> Registered(u)
    BY DEF Registered
  <1>9. RegistrationIsWhole'
    <2>1. ASSUME NEW u \in UserIds, Registered(u), required
          PROVE  \E t \in TokenIds : \A i \in TokenIds : TokenOf(u, i)' <=> i = t
      BY <1>7, <2>1 DEF IndInv, RegistrationIsWhole
    <2>2. ASSUME NEW u \in UserIds, Registered(u), ~required
          PROVE  Verified(u)' /\ \E s \in SessionIds : sessions'[s] = u
      BY <2>2 DEF IndInv, RegistrationIsWhole, Registered
    <2>3. ASSUME NEW t \in TokenIds, tokens'[t] # NoRow
          PROVE  Registered(tokens[t].userId)'
      BY <1>8, <2>3, Types DEF IndInv, RegistrationIsWhole, VerificationToken, Registered
    <2>4. ASSUME NEW s \in SessionIds, sessions'[s] # NoRow
          PROVE  Registered(sessions[s])'
      BY <1>8, <2>4, Types DEF IndInv, RegistrationIsWhole, Registered
    <2> QED
      BY <1>8, <2>1, <2>2, <2>3, <2>4 DEF RegistrationIsWhole
  <1>10. VerifiedByMail'
    <2>1. ASSUME required, NEW u \in UserIds, Registered(u), Verified(u)'
          PROVE  \E t \in mailed : /\ TokenOf(u, t) /\ tokens'[t].used
                                   /\ users'[u].verifiedAt < tokens'[t].expiresAt
      <3>1. CASE users'[u] # users[u]
        BY <2>1, <3>1
      <3>2. CASE users'[u] = users[u]
        <4>1. PICK t \in mailed : /\ TokenOf(u, t) /\ tokens[t].used
                                  /\ users[u].verifiedAt < tokens[t].expiresAt
          BY <2>1, <3>2 DEF IndInv, VerifiedByMail, Verified
        <4>2. t \in TokenIds
          BY DEF IndInv, TypeOK
        <4> QED
          BY <3>2, <4>1, <4>2 DEF TokenOf
      <3> QED
        BY <3>1, <3>2
    <2> QED
      BY <1>7, <1>8, <2>1 DEF VerifiedByMail, IndInv, TypeOK
  <1>11. OnlyVerifiedLogIn'
    <2>1. ASSUME required, NEW s \in SessionIds, sessions[s] # NoRow
          PROVE  Verified(sessions[s])'
      <3>1. sessions[s] \in UserIds /\ Registered(sessions[s]) /\ Verified(sessions[s])
        BY <2>1, Types DEF IndInv, RegistrationIsWhole, OnlyVerifiedLogIn
      <3> QED
        BY <3>1 DEF Registered, Verified
    <2> QED
      BY <2>1 DEF OnlyVerifiedLogIn
  <1> QED
    BY <1>3, <1>4, <1>5, <1>6, <1>9, <1>10, <1>11 DEF IndInv

LEMMA VerifyReadInv ==
    ASSUME IndInv, NEW r \in Requests, NEW t \in TokenIds,
           VerifyRead(r, t) \/ RejectExpired(r, t)
    PROVE  IndInv'
  <1>1. t \in mailed /\ tokens[t] \in VerificationToken
    BY Types DEF VerifyRead, RejectExpired, Presented, IndInv, MailedInv
  <1>2. CASE VerifyRead(r, t)
    <2> DEFINE q == [Idle EXCEPT !.pc = "verifyTx", !.id = t, !.at = now,
                                 !.verified = Verified(tokens[t].userId)]
    <2>1. /\ q \in Request /\ q.pc = "verifyTx" /\ q.id = t /\ q.at = now
          /\ q.verified = Verified(tokens[t].userId)
      BY DEF Idle, Request, IndInv, TypeOK, Verified
    <2>2. now < tokens[t].expiresAt
      BY <1>1, <1>2 DEF VerifyRead, IndInv, TypeOK, VerificationToken
    <2>3. LocalOK(q)
      BY <1>1, <2>1, <2>2 DEF LocalOK
    <2>4. req' = [req EXCEPT ![r] = q] /\ UNCHANGED <<required, users, tokens, sessions, mailed, now>>
      BY <1>2 DEF VerifyRead
    <2> HIDE DEF q
    <2> QED
      BY <2>1, <2>3, <2>4, QuietInv
  <1>3. CASE RejectExpired(r, t)
    <2> DEFINE q == [Idle EXCEPT !.pc = "markExpired", !.id = t]
    <2>1. q \in Request /\ q.pc = "markExpired" /\ q.id = t
      BY DEF Idle, Request
    <2>2. req' = [req EXCEPT ![r] = q] /\ UNCHANGED <<required, users, tokens, sessions, mailed, now>>
      BY <1>3 DEF RejectExpired
    <2>3. LocalOK(q)
      BY <1>1, <2>1 DEF LocalOK
    <2> HIDE DEF q
    <2> QED
      BY <2>1, <2>2, <2>3, QuietInv
  <1> QED
    BY <1>2, <1>3

LEMMA MarkExpiredInv ==
    ASSUME IndInv, NEW r \in Requests, MarkExpired(r)
    PROVE  IndInv'
  <1> DEFINE t == req[r].id
  <1>1. /\ t \in TokenIds /\ tokens[t] # NoRow
        /\ tokens' = [tokens EXCEPT ![t].used = TRUE]
        /\ req' = [req EXCEPT ![r] = Idle]
        /\ UNCHANGED <<required, users, sessions, mailed, now>>
    BY DEF MarkExpired, Done, IndInv, LocalInv, LocalOK, MailedInv, TypeOK
  <1>2. tokens' = Used(tokens, {t})
    BY <1>1 DEF Used, IndInv, TypeOK
  <1>3. /\ tokens' \in [TokenIds -> VerificationToken \cup {NoRow}]
        /\ \A i \in TokenIds :
              /\ tokens'[i] = NoRow <=> tokens[i] = NoRow
              /\ tokens[i] # NoRow => /\ tokens'[i].userId = tokens[i].userId
                                      /\ tokens'[i].expiresAt = tokens[i].expiresAt
                                      /\ tokens[i].used => tokens'[i].used
    <2> DEFINE S == {t}
    <2>1. S \in SUBSET TokenIds /\ \A i \in S : tokens[i] # NoRow
      BY <1>1
    <2> HIDE DEF S
    <2>2. tokens' = Used(tokens, S)
      BY <1>2 DEF S
    <2> QED
      BY <2>1, <2>2, UsedUp DEF IndInv, TypeOK
  <1>4. users' = users /\ users' \in [UserIds -> User \cup {NoRow}]
    BY <1>1 DEF IndInv, TypeOK
  <1>5. \A u \in UserIds : Verified(u) => Verified(u)'
    BY <1>4 DEF Verified
  <1> QED
    BY <1>1, <1>3, <1>4, <1>5, UseInv

LEMMA VerifyCommitInv ==
    ASSUME IndInv, NEW r \in Requests, VerifyCommit(r)
    PROVE  IndInv'
  <1> DEFINE t == req[r].id
             v == tokens[t].userId
  <1>1. /\ t \in TokenIds /\ t \in mailed /\ tokens[t] # NoRow
        /\ req[r].at < tokens[t].expiresAt /\ req[r].at \in Nat
        /\ v \in UserIds /\ Registered(v)
    <2>1. t \in mailed /\ t \in TokenIds /\ tokens[t] # NoRow /\ req[r].at < tokens[t].expiresAt
      BY DEF VerifyCommit, IndInv, LocalInv, LocalOK, MailedInv, TypeOK
    <2>2. req[r].at \in Nat
      BY DEF IndInv, TypeOK, Request
    <2>3. v \in UserIds /\ Registered(v)
      BY <2>1, Types DEF IndInv, RegistrationIsWhole, VerificationToken
    <2> QED
      BY <2>1, <2>2, <2>3
  <1>2. /\ users' = IF req[r].verified THEN users ELSE [users EXCEPT ![v].verifiedAt = req[r].at]
        /\ tokens' = UseUp(t)
        /\ req' = [req EXCEPT ![r] = Idle]
        /\ UNCHANGED <<required, sessions, mailed, now>>
    BY DEF VerifyCommit, Done
  <1>3. /\ tokens' \in [TokenIds -> VerificationToken \cup {NoRow}]
        /\ \A i \in TokenIds :
              /\ tokens'[i] = NoRow <=> tokens[i] = NoRow
              /\ tokens[i] # NoRow => /\ tokens'[i].userId = tokens[i].userId
                                      /\ tokens'[i].expiresAt = tokens[i].expiresAt
                                      /\ tokens[i].used => tokens'[i].used
        /\ tokens'[t].used
    <2> DEFINE S == {i \in TokenIds : i = t \/ TokenOf(v, i)}
    <2>1. S \in SUBSET TokenIds /\ t \in S /\ \A i \in S : tokens[i] # NoRow
      BY <1>1 DEF TokenOf
    <2>2. tokens' = Used(tokens, S)
      BY <1>2 DEF UseUp, Used
    <2> HIDE DEF S
    <2> QED
      BY <1>1, <2>1, <2>2, UsedUp DEF IndInv, TypeOK
  <1>4. /\ users' \in [UserIds -> User \cup {NoRow}]
        /\ \A u \in UserIds :
              /\ users'[u] = NoRow <=> users[u] = NoRow
              /\ users[u] # NoRow => /\ users'[u].email = users[u].email
                                     /\ Verified(u) => Verified(u)'
        /\ \A u \in UserIds :
              Registered(u) /\ users'[u] # users[u] =>
                 \E i \in mailed : /\ TokenOf(u, i) /\ tokens'[i].used
                                   /\ users'[u].verifiedAt < tokens'[i].expiresAt
    <2>1. CASE req[r].verified
      BY <1>2, <2>1 DEF IndInv, TypeOK, Verified
    <2>2. CASE ~req[r].verified
      <3>1. users[v] \in User
        BY <1>1, Types DEF IndInv
      <3>2. /\ [users[v] EXCEPT !.verifiedAt = req[r].at] \in User
            /\ [users[v] EXCEPT !.verifiedAt = req[r].at].email = users[v].email
            /\ [users[v] EXCEPT !.verifiedAt = req[r].at].verifiedAt = req[r].at
        BY <1>1, <3>1 DEF User
      <3>3. users' = [users EXCEPT ![v] = [users[v] EXCEPT !.verifiedAt = req[r].at]]
        BY <1>2, <2>2
      <3>4. /\ users'[v] \in User /\ users'[v] # NoRow
            /\ users'[v].email = users[v].email /\ users'[v].verifiedAt = req[r].at
            /\ \A u \in UserIds : u # v => users'[u] = users[u]
        BY <1>1, <3>2, <3>3, AccountsAssumption DEF IndInv, TypeOK
      <3>5. users' \in [UserIds -> User \cup {NoRow}]
        BY <1>1, <3>2, <3>3 DEF IndInv, TypeOK
      <3>6. req[r].at # NoTime
        BY <1>1, AccountsAssumption
      <3>7. TokenOf(v, t) /\ tokens'[t].used /\ users'[v].verifiedAt < tokens'[t].expiresAt
        BY <1>1, <1>3, <3>4 DEF TokenOf
      <3>8. ASSUME NEW u \in UserIds
            PROVE  /\ users'[u] = NoRow <=> users[u] = NoRow
                   /\ users[u] # NoRow => /\ users'[u].email = users[u].email
                                          /\ Verified(u) => Verified(u)'
        <4>1. CASE u = v
          BY <1>1, <3>4, <3>6, <4>1 DEF Registered, Verified
        <4>2. CASE u # v
          BY <3>4, <4>2 DEF Verified
        <4> QED
          BY <4>1, <4>2
      <3>9. ASSUME NEW u \in UserIds, users'[u] # users[u]
            PROVE  u = v
        BY <3>4, <3>9
      <3> QED
        BY <1>1, <3>5, <3>7, <3>8, <3>9
    <2> QED
      BY <2>1, <2>2
  <1> QED
    BY <1>2, <1>3, <1>4, UseInv

-----------------------------------------------------------------------------
(* login                                                                   *)

LEMMA LoginReadInv ==
    ASSUME IndInv, NEW r \in Requests, NEW u \in UserIds, LoginRead(r, u)
    PROVE  IndInv'
  <1> DEFINE q == [Idle EXCEPT !.pc = "loginCreate", !.id = u]
  <1>1. q \in Request /\ q.pc = "loginCreate" /\ q.id = u
    BY DEF Idle, Request
  <1>2. req' = [req EXCEPT ![r] = q] /\ UNCHANGED <<required, users, tokens, sessions, mailed, now>>
    BY DEF LoginRead
  <1>3. LocalOK(q)
    BY <1>1 DEF LocalOK, LoginRead
  <1> HIDE DEF q
  <1> QED
    BY <1>1, <1>2, <1>3, QuietInv

LEMMA LoginCreateInv ==
    ASSUME IndInv, NEW r \in Requests, LoginCreate(r)
    PROVE  IndInv'
  <1> DEFINE u == req[r].id
  <1>1. u \in UserIds /\ Registered(u) /\ (required => Verified(u))
    BY DEF LoginCreate, IndInv, LocalInv, LocalOK
  <1>2. PICK s \in SessionIds : sessions[s] = NoRow /\ sessions' = [sessions EXCEPT ![s] = u]
    BY DEF LoginCreate
  <1>3. req' = [req EXCEPT ![r] = Idle] /\ UNCHANGED <<required, users, tokens, mailed, now>>
    BY DEF LoginCreate, Done
  <1>4. /\ sessions' \in [SessionIds -> UserIds \cup {NoRow}]
        /\ \A i \in SessionIds : sessions'[i] = IF i = s THEN u ELSE sessions[i]
    BY <1>1, <1>2 DEF IndInv, TypeOK
  <1>5. Grows
    BY <1>2, <1>3, <1>4 DEF Grows, Registered, Verified
  <1>6. Idle \in Request /\ LocalOK(Idle)'
    BY IdleSlot DEF LocalOK, Idle
  <1>7. req' \in [Requests -> Request] /\ LocalInv'
    BY <1>3, <1>5, <1>6, SlotInv DEF IndInv
  <1>8. TypeOK' /\ MailedInv' /\ OneAccountPerEmail' /\ VerifiedByMail'
    BY <1>3, <1>4, <1>7 DEF IndInv, TypeOK, MailedInv, OneAccountPerEmail, VerifiedByMail,
                            Registered, Verified, TokenOf
  <1>9. RegistrationIsWhole'
    <2>1. \A v \in UserIds : (\E i \in SessionIds : sessions[i] = v) => \E i \in SessionIds : sessions'[i] = v
      BY <1>2, <1>4, AccountsAssumption
    <2>2. \A i \in SessionIds : sessions'[i] # NoRow => Registered(sessions[i])'
      BY <1>1, <1>3, <1>4 DEF IndInv, RegistrationIsWhole, Registered
    <2>3. \A i \in TokenIds : tokens'[i] # NoRow => Registered(tokens[i].userId)'
      BY <1>3 DEF IndInv, RegistrationIsWhole, Registered
    <2>4. \A v \in UserIds : /\ Registered(v)' <=> Registered(v)
                             /\ Verified(v)' <=> Verified(v)
                             /\ \A i \in TokenIds : TokenOf(v, i)' <=> TokenOf(v, i)
      BY <1>3 DEF Registered, Verified, TokenOf
    <2> QED
      BY <1>3, <2>1, <2>2, <2>3, <2>4 DEF IndInv, RegistrationIsWhole
  <1>10. OnlyVerifiedLogIn'
    BY <1>1, <1>3, <1>4 DEF IndInv, OnlyVerifiedLogIn, Verified
  <1> QED
    BY <1>7, <1>8, <1>9, <1>10 DEF IndInv

-----------------------------------------------------------------------------
\* Time passes, or nothing happens.
LEMMA TimeInv ==
    ASSUME IndInv, Tick \/ UNCHANGED vars
    PROVE  IndInv'
  <1>1. now' \in Nat /\ UNCHANGED <<required, users, tokens, sessions, mailed, req>>
    BY DEF Tick, vars, IndInv, TypeOK
  <1>2. LocalInv'
    BY <1>1 DEF IndInv, LocalInv, LocalOK, Registered, Verified
  <1> QED
    BY <1>1, <1>2 DEF IndInv, TypeOK, MailedInv, OneAccountPerEmail, RegistrationIsWhole,
                      VerifiedByMail, OnlyVerifiedLogIn, Registered, Verified, TokenOf

\* Every step preserves it.
LEMMA NextInv == IndInv /\ [Next]_vars => IndInv'
  <1> SUFFICES ASSUME IndInv, [Next]_vars PROVE IndInv'
    OBVIOUS
  <1> QED
    BY TimeInv, RegisterInv, VerifyReadInv, MarkExpiredInv, VerifyCommitInv, LoginReadInv,
       LoginCreateInv
    DEF Next

\* The inductive invariant holds in every reachable state, for any addresses, users,
\* tokens, sessions and requests.
THEOREM Invariance == Spec => []IndInv
  BY InitInv, NextInv, PTL DEF Spec

\* Tables and the locals of suspended handlers keep their types.
THEOREM TypeCorrect == Spec => []TypeOK
  <1>1. IndInv => TypeOK
    BY DEF IndInv
  <1> QED
    BY <1>1, Invariance, PTL

\* However registrations of one address interleave, one of them gets it.
THEOREM AddressesAreUnique == Spec => []OneAccountPerEmail
  <1>1. IndInv => OneAccountPerEmail
    BY DEF IndInv
  <1> QED
    BY <1>1, Invariance, PTL

\* A registration leaves its user, with a token or with a session, or nothing.
THEOREM RegistrationsAreWhole == Spec => []RegistrationIsWhole
  <1>1. IndInv => RegistrationIsWhole
    BY DEF IndInv
  <1> QED
    BY <1>1, Invariance, PTL

\* Whatever verifications race, an address is verified by a token that was mailed to
\* it, within the life of the token.
THEOREM MailVerifies == Spec => []VerifiedByMail
  <1>1. IndInv => VerifiedByMail
    BY DEF IndInv
  <1> QED
    BY <1>1, Invariance, PTL

\* Where verification is required, nobody has a session before it.
THEOREM VerifiedFirst == Spec => []OnlyVerifiedLogIn
  <1>1. IndInv => OnlyVerifiedLogIn
    BY DEF IndInv
  <1> QED
    BY <1>1, Invariance, PTL

-----------------------------------------------------------------------------
(* A stranded user stays so.                                               *)

\* A step of one request that does nothing for a stranded user.
LEMMA StrandedSlot ==
    ASSUME IndInv, NEW u \in UserIds, Stranded(u), NEW r \in Requests, NEW q \in Request,
           req' = [req EXCEPT ![r] = q],
           q.pc \in {"mail", "verifyTx"} => ~TokenOf(u, q.id)',
           Registered(u)', ~Verified(u)', now' = now,
           \A t \in TokenIds :
              TokenOf(u, t)' => /\ TokenOf(u, t)
                                /\ tokens'[t].expiresAt = tokens[t].expiresAt
                                /\ tokens[t].used => tokens'[t].used,
           \A t \in mailed' : \/ t \in mailed
                              \/ ~TokenOf(u, t) \/ tokens[t].used \/ tokens[t].expiresAt <= now
    PROVE  Stranded(u)'
  <1>1. \A x \in Requests : req'[x] = IF x = r THEN q ELSE req[x]
    BY DEF IndInv, TypeOK
  <1>2. ASSUME NEW t \in TokenIds, TokenOf(u, t)'
        PROVE  \/ tokens'[t].used
               \/ tokens'[t].expiresAt <= now'
               \/ t \notin mailed' /\ \A x \in Requests : req'[x].pc = "mail" => req'[x].id # t
    <2>1. /\ TokenOf(u, t)
          /\ tokens'[t].expiresAt = tokens[t].expiresAt
          /\ tokens[t].used => tokens'[t].used
      BY <1>2
    <2>2. CASE tokens[t].used \/ tokens[t].expiresAt <= now
      BY <2>1, <2>2
    <2>3. CASE ~(tokens[t].used \/ tokens[t].expiresAt <= now)
      <3>1. t \notin mailed /\ \A x \in Requests : req[x].pc = "mail" => req[x].id # t
        BY <2>1, <2>3 DEF Stranded
      <3>2. t \notin mailed'
        BY <2>1, <2>3, <3>1
      <3>3. q.pc = "mail" => q.id # t
        BY <1>2
      <3> QED
        BY <1>1, <3>1, <3>2, <3>3
    <2> QED
      BY <2>2, <2>3
  <1>3. ASSUME NEW x \in Requests, req'[x].pc = "verifyTx"
        PROVE  ~TokenOf(u, req[x].id)'
    <2>1. CASE x = r
      BY <1>1, <1>3, <2>1
    <2>2. CASE x # r
      <3>1. req'[x] = req[x] /\ req[x].pc = "verifyTx" /\ ~TokenOf(u, req[x].id)
        BY <1>1, <1>3, <2>2 DEF Stranded
      <3>2. req[x].id \in TokenIds
        BY <3>1 DEF IndInv, LocalInv, LocalOK, TypeOK
      <3> QED
        BY <3>1, <3>2 DEF TokenOf
    <2> QED
      BY <2>1, <2>2
  <1> QED
    BY <1>2, <1>3 DEF Stranded

\* A new token belongs to a new user.
LEMMA StrandedRegister ==
    ASSUME IndInv, NEW u \in UserIds, Stranded(u), NEW r \in Requests, RegisterCommit(r)
    PROVE  Stranded(u)'
  <1>1. PICK v \in UserIds : /\ ~Registered(v)
                             /\ \/ \E t \in TokenIds : CommitPending(r, v, t)
                                \/ \E s \in SessionIds : CommitActive(r, v, s)
    BY DEF RegisterCommit
  <1>2. Registered(u) /\ ~Verified(u) /\ u # v
    BY <1>1 DEF Stranded
  <1>3. users' = [users EXCEPT ![v] = NewUser(req[r].email)] /\ mailed' = mailed /\ now' = now
    BY <1>1 DEF CommitPending, CommitActive
  <1>4. Registered(u)' /\ ~Verified(u)'
    BY <1>2, <1>3 DEF Registered, Verified, IndInv, TypeOK
  <1>5. ASSUME NEW t \in TokenIds, CommitPending(r, v, t) PROVE Stranded(u)'
    <2> DEFINE q == [Idle EXCEPT !.pc = "mail", !.id = t]
    <2>1. q \in Request /\ q.pc = "mail" /\ q.id = t
      BY DEF Idle, Request
    <2>2. req' = [req EXCEPT ![r] = q] /\ tokens' = [tokens EXCEPT ![t] = NewToken(v)]
      BY <1>5 DEF CommitPending
    <2> HIDE DEF q
    <2>3. NewToken(v).userId = v
      BY DEF NewToken
    <2>4. \A i \in TokenIds : tokens'[i] = IF i = t THEN NewToken(v) ELSE tokens[i]
      BY <2>2 DEF IndInv, TypeOK
    <2>5. \A i \in TokenIds : TokenOf(u, i)' => TokenOf(u, i) /\ i # t /\ tokens'[i] = tokens[i]
      BY <1>2, <2>3, <2>4 DEF TokenOf
    <2> QED
      BY <1>3, <1>4, <2>1, <2>2, <2>5, StrandedSlot
  <1>6. ASSUME NEW s \in SessionIds, CommitActive(r, v, s) PROVE Stranded(u)'
    <2>1. req' = [req EXCEPT ![r] = Idle] /\ tokens' = tokens /\ Idle \in Request /\ Idle.pc = "idle"
      BY <1>6, IdleSlot DEF CommitActive, Done, Idle
    <2> QED
      BY <1>3, <1>4, <2>1, StrandedSlot DEF TokenOf
  <1> QED
    BY <1>1, <1>5, <1>6

\* A verification under way is another user's.
LEMMA StrandedUse ==
    ASSUME IndInv, NEW u \in UserIds, Stranded(u), NEW r \in Requests,
           MarkExpired(r) \/ VerifyCommit(r)
    PROVE  Stranded(u)'
  <1> DEFINE t == req[r].id
             v == tokens[t].userId
  <1>1. t \in TokenIds /\ tokens[t] # NoRow /\ v \in UserIds
    <2>1. t \in TokenIds /\ tokens[t] # NoRow
      BY DEF MarkExpired, VerifyCommit, IndInv, LocalInv, LocalOK, MailedInv, TypeOK
    <2> QED
      BY <2>1, Types DEF IndInv, VerificationToken
  <1>2. /\ req' = [req EXCEPT ![r] = Idle] /\ mailed' = mailed /\ now' = now
        /\ Idle \in Request /\ Idle.pc = "idle"
    BY IdleSlot DEF MarkExpired, VerifyCommit, Done, Idle
  <1>3. Registered(u) /\ ~Verified(u)
    BY DEF Stranded
  <1>4. users'[u] = users[u]
    <2>1. CASE MarkExpired(r)
      BY <2>1 DEF MarkExpired
    <2>2. CASE VerifyCommit(r)
      <3>1. u # v
        BY <1>1, <2>2 DEF VerifyCommit, Stranded, TokenOf
      <3> QED
        BY <1>1, <2>2, <3>1 DEF VerifyCommit, IndInv, TypeOK
    <2> QED
      BY <2>1, <2>2
  <1>5. ASSUME NEW i \in TokenIds, TokenOf(u, i)'
        PROVE  /\ TokenOf(u, i)
               /\ tokens'[i].expiresAt = tokens[i].expiresAt
               /\ tokens[i].used => tokens'[i].used
    <2> DEFINE S == IF MarkExpired(r) THEN {t} ELSE {j \in TokenIds : j = t \/ TokenOf(v, j)}
    <2>1. S \in SUBSET TokenIds /\ \A j \in S : tokens[j] # NoRow
      BY <1>1 DEF TokenOf
    <2>2. tokens' = Used(tokens, S)
      BY <1>1 DEF MarkExpired, VerifyCommit, UseUp, Used, IndInv, TypeOK
    <2> HIDE DEF S
    <2>3. /\ tokens'[i] = NoRow <=> tokens[i] = NoRow
          /\ tokens[i] # NoRow => /\ tokens'[i].userId = tokens[i].userId
                                  /\ tokens'[i].expiresAt = tokens[i].expiresAt
                                  /\ tokens[i].used => tokens'[i].used
      BY <2>1, <2>2, UsedUp DEF IndInv, TypeOK
    <2> QED
      BY <1>5, <2>3 DEF TokenOf
  <1>6. Registered(u)' /\ ~Verified(u)'
    BY <1>3, <1>4 DEF Registered, Verified
  <1> QED
    BY <1>2, <1>5, <1>6, StrandedSlot

LEMMA StrandedNext ==
    ASSUME IndInv, [Next]_vars, NEW u \in UserIds, Stranded(u)
    PROVE  Stranded(u)'
  <1>1. ASSUME NEW r \in Requests, NEW q \in Request, req' = [req EXCEPT ![r] = q],
               q.pc \in {"mail", "verifyTx"} => ~TokenOf(u, q.id),
               UNCHANGED <<users, tokens, mailed, now>>
        PROVE  Stranded(u)'
    <2>1. Registered(u)' /\ ~Verified(u)'
      BY <1>1 DEF Stranded, Registered, Verified
    <2>2. q.pc \in {"mail", "verifyTx"} => ~TokenOf(u, q.id)'
      BY <1>1 DEF TokenOf
    <2>3. \A t \in TokenIds : TokenOf(u, t)' => TokenOf(u, t)
      BY <1>1 DEF TokenOf
    <2> QED
      BY <1>1, <2>1, <2>2, <2>3, StrandedSlot
  <1>2. CASE Tick \/ UNCHANGED vars
    <2>1. UNCHANGED <<users, tokens, mailed, req>> /\ now' \in Nat /\ now \in Nat /\ now <= now'
      BY <1>2 DEF Tick, vars, IndInv, TypeOK
    <2>2. ASSUME NEW t \in TokenIds, TokenOf(u, t), tokens[t].expiresAt <= now
          PROVE  tokens[t].expiresAt <= now'
      <3>1. tokens[t].expiresAt \in Nat
        BY <2>2, Types DEF TokenOf, IndInv, VerificationToken
      <3> QED
        BY <2>1, <2>2, <3>1
    <2> QED
      BY <2>1, <2>2 DEF Stranded, Registered, Verified, TokenOf
  <1>3. ASSUME NEW r \in Requests,
               \/ \E e \in Emails : RegisterCheck(r, e)
               \/ RegisterTaken(r) \/ Fail(r) \/ LoginCreate(r)
               \/ \E v \in UserIds : LoginRead(r, v)
        PROVE  Stranded(u)'
    <2>1. Idle \in Request /\ Idle.pc = "idle"
      BY IdleSlot DEF Idle
    <2>2. UNCHANGED <<users, tokens, mailed, now>>
      BY <1>3 DEF RegisterCheck, RegisterTaken, Fail, LoginCreate, LoginRead
    <2>3. CASE RegisterTaken(r) \/ Fail(r) \/ LoginCreate(r)
      BY <1>1, <2>1, <2>2, <2>3 DEF RegisterTaken, Fail, LoginCreate, Done
    <2>4. ASSUME NEW e \in Emails, RegisterCheck(r, e) PROVE Stranded(u)'
      <3> DEFINE q == [Idle EXCEPT !.pc = "registerTx", !.email = e]
      <3>1. req' = [req EXCEPT ![r] = q]
        BY <2>4 DEF RegisterCheck
      <3>2. q \in Request /\ q.pc = "registerTx"
        BY DEF Idle, Request
      <3> HIDE DEF q
      <3> QED
        BY <1>1, <2>2, <3>1, <3>2
    <2>5. ASSUME NEW v \in UserIds, LoginRead(r, v) PROVE Stranded(u)'
      <3> DEFINE q == [Idle EXCEPT !.pc = "loginCreate", !.id = v]
      <3>1. req' = [req EXCEPT ![r] = q]
        BY <2>5 DEF LoginRead
      <3>2. q \in Request /\ q.pc = "loginCreate"
        BY DEF Idle, Request
      <3> HIDE DEF q
      <3> QED
        BY <1>1, <2>2, <3>1, <3>2
    <2> QED
      BY <1>3, <2>3, <2>4, <2>5
  <1>4. ASSUME NEW r \in Requests, NEW t \in TokenIds, VerifyRead(r, t) PROVE Stranded(u)'
    <2> DEFINE q == [Idle EXCEPT !.pc = "verifyTx", !.id = t, !.at = now,
                                 !.verified = Verified(tokens[t].userId)]
    <2>1. q \in Request /\ q.id = t
      BY DEF Idle, Request, IndInv, TypeOK, Verified
    <2>2. req' = [req EXCEPT ![r] = q] /\ UNCHANGED <<users, tokens, mailed, now>>
      BY <1>4 DEF VerifyRead
    <2>3. ~TokenOf(u, t)
      <3>1. t \in mailed /\ ~tokens[t].used /\ tokens[t].expiresAt > now
        BY <1>4 DEF VerifyRead, Presented
      <3>2. tokens[t].expiresAt \in Nat /\ now \in Nat
        BY <3>1, Types DEF IndInv, MailedInv, TypeOK, VerificationToken
      <3> QED
        BY <3>1, <3>2 DEF Stranded
    <2> HIDE DEF q
    <2> QED
      BY <1>1, <2>1, <2>2, <2>3
  <1>5. ASSUME NEW r \in Requests, NEW t \in TokenIds, RejectExpired(r, t) PROVE Stranded(u)'
    <2> DEFINE q == [Idle EXCEPT !.pc = "markExpired", !.id = t]
    <2>1. q \in Request /\ q.pc = "markExpired"
      BY DEF Idle, Request
    <2>2. req' = [req EXCEPT ![r] = q] /\ UNCHANGED <<users, tokens, mailed, now>>
      BY <1>5 DEF RejectExpired
    <2> HIDE DEF q
    <2> QED
      BY <1>1, <2>1, <2>2
  <1>6. ASSUME NEW r \in Requests, Mail(r) PROVE Stranded(u)'
    <2>1. /\ req[r].pc = "mail" /\ mailed' = mailed \cup {req[r].id}
          /\ req' = [req EXCEPT ![r] = Idle] /\ UNCHANGED <<users, tokens, now>>
      BY <1>6 DEF Mail, Done
    <2>2. Idle \in Request /\ Idle.pc = "idle"
      BY IdleSlot DEF Idle
    <2>3. Registered(u)' /\ ~Verified(u)'
      BY <2>1 DEF Stranded, Registered, Verified
    <2>4. \A t \in TokenIds : TokenOf(u, t)' => TokenOf(u, t)
      BY <2>1 DEF TokenOf
    <2>5. req[r].id \in TokenIds
      BY <2>1 DEF IndInv, LocalInv, LocalOK
    <2>6. LET t == req[r].id
          IN  ~TokenOf(u, t) \/ tokens[t].used \/ tokens[t].expiresAt <= now
      BY <2>1, <2>5 DEF Stranded
    <2> QED
      BY <2>1, <2>2, <2>3, <2>4, <2>6, StrandedSlot
  <1> QED
    BY <1>2, <1>3, <1>4, <1>5, <1>6, StrandedRegister, StrandedUse DEF Next

\* Nothing in the service ever verifies a user whose token is lost.
THEOREM LostForGood == Spec => StrandedForGood
  <1>1. IndInv /\ [Next]_vars => [\A u \in UserIds : Stranded(u) => Stranded(u)']_vars
    BY StrandedNext
  <1> QED
    BY <1>1, Invariance, PTL DEF Spec, StrandedForGood

-----------------------------------------------------------------------------
(* Accounts implements AccountLedger.                                      *)

LEMMA LedgerInit == Init => Ledger!Init
  BY DEF Init, Ledger!Init, StatusOf, Taken, Registered

\* The status of a user's address is the user's.
LEMMA StatusOfUser ==
    ASSUME OneAccountPerEmail, NEW u \in UserIds, Registered(u)
    PROVE  StatusOf(users[u].email) = IF Verified(u) THEN "active" ELSE "pending"
  BY DEF StatusOf, Taken, OneAccountPerEmail

\* A registration.
LEMMA LedgerRegister ==
    ASSUME IndInv, NEW r \in Requests, RegisterCommit(r)
    PROVE  Ledger!Next
  <1>1. PICK e \in Emails : e = req[r].email /\ ~Taken(e)
    BY DEF RegisterCommit, IndInv, LocalInv, LocalOK
  <1>2. PICK v \in UserIds : /\ ~Registered(v)
                             /\ \/ \E t \in TokenIds : CommitPending(r, v, t)
                                \/ \E s \in SessionIds : CommitActive(r, v, s)
    BY DEF RegisterCommit
  <1>3. users' = [users EXCEPT ![v] = NewUser(e)] /\ required' = required
    BY <1>1, <1>2 DEF CommitPending, CommitActive
  <1>4. /\ NewUser(e) # NoRow /\ NewUser(e).email = e
        /\ NewUser(e).verifiedAt = IF required THEN NoTime ELSE now
    BY <1>1, <1>2, NewRows DEF IndInv
  <1>5. \A u \in UserIds : users'[u] = IF u = v THEN NewUser(e) ELSE users[u]
    BY <1>3 DEF IndInv, TypeOK
  <1>6. now # NoTime
    BY AccountsAssumption DEF IndInv, TypeOK
  <1>7. StatusOf(e)' = IF required THEN "pending" ELSE "active"
    <2>1. Taken(e)'
      BY <1>4, <1>5 DEF Taken, Registered
    <2>2. (\E u \in UserIds : Registered(u) /\ users[u].email = e /\ Verified(u))' <=> ~required
      BY <1>1, <1>4, <1>5, <1>6 DEF Taken, Registered, Verified
    <2> QED
      BY <2>1, <2>2 DEF StatusOf
  <1>8. ASSUME NEW d \in Emails, d # e PROVE StatusOf(d)' = StatusOf(d)
    BY <1>2, <1>4, <1>5, <1>8 DEF StatusOf, Taken, Registered, Verified
  <1>9. StatusOf(e) = "free"
    BY <1>1 DEF StatusOf
  <1>10. [d \in Emails |-> StatusOf(d)'] =
           [[d \in Emails |-> StatusOf(d)] EXCEPT ![e] = IF required THEN "pending" ELSE "active"]
    BY <1>1, <1>7, <1>8
  <1>11. \A s \in SessionIds : sessions[s] # NoRow =>
            sessions[s] \in UserIds /\ users'[sessions[s]] = users[sessions[s]]
    BY <1>2, <1>5, Types DEF IndInv, RegistrationIsWhole
  <1> DEFINE A == {d \in Emails : \E s \in SessionIds :
                                     sessions[s] # NoRow /\ users[sessions[s]].email = d}
  <1>12. A' = IF required THEN A ELSE A \cup {e}
    <2>1. CASE required
      <3>1. sessions' = sessions
        BY <1>2, <2>1 DEF CommitPending, CommitActive
      <3> QED
        BY <1>11, <2>1, <3>1
    <2>2. CASE ~required
      <3>1. PICK s \in SessionIds : sessions[s] = NoRow /\ sessions' = [sessions EXCEPT ![s] = v]
        BY <1>2, <2>2 DEF CommitPending, CommitActive
      <3>2. v # NoRow
        BY AccountsAssumption
      <3>3. \A x \in SessionIds : sessions'[x] = IF x = s THEN v ELSE sessions[x]
        BY <3>1 DEF IndInv, TypeOK
      <3>4. users'[v].email = e
        BY <1>4, <1>5
      <3>5. ASSUME NEW d \in Emails PROVE d \in A' <=> d \in A \/ d = e
        BY <1>11, <3>1, <3>2, <3>3, <3>4
      <3> QED
        BY <1>1, <2>2, <3>5
    <2> QED
      BY <2>1, <2>2
  <1>13. Ledger!Register(e)
    BY <1>1, <1>3, <1>9, <1>10, <1>12 DEF Ledger!Register
  <1> QED
    BY <1>1, <1>13 DEF Ledger!Next

\* A verification, which may find that another has made the address active.
LEMMA LedgerVerify ==
    ASSUME IndInv, NEW r \in Requests, VerifyCommit(r)
    PROVE  Ledger!Next \/ UNCHANGED Ledger!vars
  <1>1. req[r].id \in TokenIds /\ tokens[req[r].id] # NoRow /\ req[r] \in Request
    BY DEF VerifyCommit, IndInv, LocalInv, LocalOK, MailedInv, TypeOK
  <1>2. PICK u \in UserIds : u = tokens[req[r].id].userId /\ Registered(u)
    BY <1>1, Types DEF IndInv, RegistrationIsWhole, VerificationToken
  <1>3. PICK e \in Emails : e = users[u].email /\ users[u] \in User
    BY <1>2, Types DEF IndInv, User
  <1>4. sessions' = sessions /\ required' = required
    BY DEF VerifyCommit
  <1>5. CASE req[r].verified
    BY <1>4, <1>5 DEF VerifyCommit, Ledger!vars, StatusOf, Taken, Registered, Verified
  <1>6. CASE ~req[r].verified
    <2>1. users' = [users EXCEPT ![u] = [users[u] EXCEPT !.verifiedAt = req[r].at]]
      BY <1>2, <1>6 DEF VerifyCommit
    <2>2. PICK row \in User : /\ row = [users[u] EXCEPT !.verifiedAt = req[r].at]
                              /\ row # NoRow /\ row.email = e /\ row.verifiedAt # NoTime
      <3>1. req[r].at \in Nat
        BY <1>1 DEF Request
      <3> DEFINE row == [users[u] EXCEPT !.verifiedAt = req[r].at]
      <3>2. row \in User /\ row.email = e /\ row.verifiedAt = req[r].at
        BY <1>3, <3>1 DEF User
      <3> HIDE DEF row
      <3>3. row # NoRow /\ row.verifiedAt # NoTime
        BY <3>1, <3>2, AccountsAssumption
      <3> USE DEF row
      <3> QED
        BY <3>2, <3>3
    <2>3. \A x \in UserIds : users'[x] = IF x = u THEN row ELSE users[x]
      BY <2>1, <2>2 DEF IndInv, TypeOK
    <2>4. \A x \in UserIds : /\ Registered(x)' <=> Registered(x)
                             /\ Registered(x) => users'[x].email = users[x].email
      BY <1>2, <1>3, <2>2, <2>3 DEF Registered
    <2>5. Verified(u)' /\ \A x \in UserIds : x # u => (Verified(x)' <=> Verified(x))
      BY <1>2, <2>2, <2>3 DEF Verified
    <2>6. StatusOf(e)' = "active"
      BY <1>2, <1>3, <2>4, <2>5 DEF StatusOf, Taken
    <2>7. ASSUME NEW d \in Emails, d # e PROVE StatusOf(d)' = StatusOf(d)
      BY <1>2, <1>3, <2>4, <2>5, <2>7 DEF StatusOf, Taken
    <2>8. StatusOf(e) \in {"pending", "active"}
      BY <1>2, <1>3, StatusOfUser DEF IndInv
    <2>9. ASSUME NEW s \in SessionIds, sessions[s] # NoRow
          PROVE  users'[sessions[s]].email = users[sessions[s]].email
      BY <2>4, <2>9, Types DEF IndInv, RegistrationIsWhole
    <2>10. [d \in Emails |-> StatusOf(d)'] = [[d \in Emails |-> StatusOf(d)] EXCEPT ![e] = "active"]
      BY <1>3, <2>6, <2>7
    <2>11. {d \in Emails : \E s \in SessionIds : sessions[s] # NoRow /\ users[sessions[s]].email = d}'
           = {d \in Emails : \E s \in SessionIds : sessions[s] # NoRow /\ users[sessions[s]].email = d}
      BY <1>4, <2>9
    <2>12. CASE StatusOf(e) = "pending"
      <3>1. Ledger!Verify(e)
        BY <1>3, <1>4, <2>10, <2>11, <2>12 DEF Ledger!Verify
      <3> QED
        BY <1>3, <3>1 DEF Ledger!Next
    <2>13. CASE StatusOf(e) = "active"
      <3>1. [d \in Emails |-> StatusOf(d)'] = [d \in Emails |-> StatusOf(d)]
        BY <2>6, <2>7, <2>13
      <3> QED
        BY <1>4, <2>11, <3>1 DEF Ledger!vars
    <2> QED
      BY <2>8, <2>12, <2>13
  <1> QED
    BY <1>5, <1>6

\* A login lets in the address of the user it has read.
LEMMA LedgerLogin ==
    ASSUME IndInv, NEW r \in Requests, LoginCreate(r)
    PROVE  Ledger!Next
  <1>1. PICK u \in UserIds : u = req[r].id /\ Registered(u) /\ (required => Verified(u))
    BY DEF LoginCreate, IndInv, LocalInv, LocalOK
  <1>2. Verified(u)
    BY <1>1 DEF IndInv, RegistrationIsWhole
  <1>3. PICK e \in Emails : e = users[u].email /\ u # NoRow
    BY <1>1, Types, AccountsAssumption DEF IndInv, User
  <1>4. StatusOf(e) = "active"
    BY <1>1, <1>2, <1>3, StatusOfUser DEF IndInv
  <1>5. PICK s \in SessionIds : sessions[s] = NoRow /\ sessions' = [sessions EXCEPT ![s] = u]
    BY <1>1 DEF LoginCreate
  <1>6. users' = users /\ required' = required
    BY DEF LoginCreate
  <1>7. \A x \in SessionIds : sessions'[x] = IF x = s THEN u ELSE sessions[x]
    BY <1>5 DEF IndInv, TypeOK
  <1>8. {d \in Emails : \E x \in SessionIds : sessions[x] # NoRow /\ users[sessions[x]].email = d}'
        = {d \in Emails : \E x \in SessionIds : sessions[x] # NoRow /\ users[sessions[x]].email = d}
          \cup {e}
    <2>1. ASSUME NEW d \in Emails
          PROVE  (\E x \in SessionIds : sessions'[x] # NoRow /\ users'[sessions'[x]].email = d)
                 <=> \/ \E x \in SessionIds : sessions[x] # NoRow /\ users[sessions[x]].email = d
                     \/ d = e
      BY <1>3, <1>5, <1>6, <1>7
    <2> QED
      BY <1>3, <2>1
  <1>9. [d \in Emails |-> StatusOf(d)'] = [d \in Emails |-> StatusOf(d)]
    BY <1>6 DEF StatusOf, Taken, Registered, Verified
  <1>10. Ledger!Admit(e)
    BY <1>3, <1>4, <1>6, <1>8, <1>9 DEF Ledger!Admit
  <1> QED
    BY <1>3, <1>10 DEF Ledger!Next

LEMMA LedgerNext ==
    ASSUME IndInv, [Next]_vars
    PROVE  Ledger!Next \/ UNCHANGED Ledger!vars
  <1>1. ASSUME UNCHANGED <<required, users, sessions>> PROVE UNCHANGED Ledger!vars
    BY <1>1 DEF Ledger!vars, StatusOf, Taken, Registered, Verified
  <1>2. CASE Tick \/ UNCHANGED vars
    BY <1>1, <1>2 DEF Tick, vars
  <1>3. ASSUME NEW r \in Requests,
               \/ \E e \in Emails : RegisterCheck(r, e)
               \/ RegisterTaken(r) \/ Mail(r) \/ MarkExpired(r) \/ Fail(r)
               \/ \E t \in TokenIds : VerifyRead(r, t) \/ RejectExpired(r, t)
               \/ \E u \in UserIds : LoginRead(r, u)
        PROVE  UNCHANGED Ledger!vars
    <2>1. UNCHANGED <<required, users, sessions>>
      BY <1>3
      DEF RegisterCheck, RegisterTaken, Mail, MarkExpired, Fail, VerifyRead, RejectExpired, LoginRead
    <2> QED
      BY <1>1, <2>1
  <1> QED
    BY <1>2, <1>3, LedgerRegister, LedgerVerify, LedgerLogin DEF Next

\* However requests interleave, mails are lost and statements fail, the tables show
\* what AccountLedger promises of every address.
THEOREM Refinement == Spec => ImplementsLedger
  <1>1. IndInv /\ [Next]_vars => [Ledger!Next]_Ledger!vars
    BY LedgerNext
  <1> QED
    BY <1>1, LedgerInit, Invariance, PTL DEF Spec, ImplementsLedger, Ledger!Spec
=============================================================================
