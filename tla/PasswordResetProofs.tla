------------------------ MODULE PasswordResetProofs ------------------------
(***************************************************************************)
(* Proofs about PasswordReset for every number of users, tokens, sessions  *)
(* and concurrent requests.                                                *)
(***************************************************************************)
EXTENDS PasswordReset, FiniteSetTheorems, TLAPS

\* Using up tokens adds and removes no row and changes no other column.
LEMMA UsedRows ==
    ASSUME NEW table \in [ResetIds -> Reset \cup {NoRow}], NEW S
    PROVE  LET after == Use(table, S)
           IN  /\ after \in [ResetIds -> Reset \cup {NoRow}]
               /\ \A i \in ResetIds :
                     /\ after[i] = NoRow <=> table[i] = NoRow
                     /\ table[i] # NoRow => /\ after[i].userId = table[i].userId
                                            /\ after[i].seen = table[i].seen
                                            /\ after[i].version = table[i].version
                                            /\ after[i].missed = table[i].missed
                                            /\ after[i].used <=> table[i].used \/ i \in S
  <1> DEFINE after == Use(table, S)
  <1>1. ASSUME NEW i \in ResetIds, i \in S, table[i] # NoRow
        PROVE  /\ after[i] \in Reset
               /\ after[i] = [table[i] EXCEPT !.used = TRUE]
    <2>1. table[i] \in Reset
      BY <1>1
    <2>2. after[i] = [table[i] EXCEPT !.used = TRUE]
      BY <1>1 DEF Use
    <2> QED
      BY <2>1, <2>2 DEF Reset
  <1>2. ASSUME NEW i \in ResetIds, ~(i \in S /\ table[i] # NoRow)
        PROVE  after[i] = table[i]
    BY <1>2 DEF Use
  <1>3. after = [i \in ResetIds |-> after[i]]
    BY DEF Use
  <1> HIDE DEF after
  <1>4. after \in [ResetIds -> Reset \cup {NoRow}]
    BY <1>1, <1>2, <1>3
  <1>5. ASSUME NEW i \in ResetIds
        PROVE  /\ after[i] = NoRow <=> table[i] = NoRow
               /\ table[i] # NoRow => /\ after[i].userId = table[i].userId
                                      /\ after[i].seen = table[i].seen
                                      /\ after[i].version = table[i].version
                                      /\ after[i].missed = table[i].missed
                                      /\ after[i].used <=> table[i].used \/ i \in S
    <2>1. CASE i \in S /\ table[i] # NoRow
      <3>1. table[i] \in Reset
        BY <2>1
      <3>2. after[i] \in Reset /\ after[i] = [table[i] EXCEPT !.used = TRUE]
        BY <1>1, <2>1
      <3>3. after[i] # NoRow
        BY <3>2, ResetAssumption
      <3>4. /\ after[i].userId = table[i].userId
            /\ after[i].seen = table[i].seen
            /\ after[i].version = table[i].version
            /\ after[i].missed = table[i].missed
            /\ after[i].used = TRUE
        BY <3>1, <3>2 DEF Reset
      <3> QED
        BY <2>1, <3>3, <3>4
    <2>2. CASE ~(i \in S /\ table[i] # NoRow)
      BY <1>2, <2>2
    <2> QED
      BY <2>1, <2>2
  <1> QED
    BY <1>4, <1>5 DEF after

\* What a slot may come to hold while the tables stay as they are: q is what
\* request r keeps.  It may not miss a token that r did not miss before.
Holds(r, q) ==
    /\ q \in Request
    /\ q.pc \notin {"idle", "markExpired"} => q.user \in Users
    /\ q.pc \in {"useToken", "findTokens", "closeTokens"} => q.id \in ResetIds
    /\ \A i \in q.seen : resets[i] # NoRow
    /\ \A s \in q.revoked : sessions[s] # NoRow
    /\ q.pc \in {"createReset", "setPassword", "revokeSessions", "commit"} =>
          \A i \in q.seen : i \in q.marks \/ resets[i].used
    /\ q.pc \in {"revokeSessions", "commit"} =>
          \A x \in Requests \ {r} :
             req[x].pc \in {"revokeSessions", "commit"} => req[x].user # q.user
    /\ q.pc = "commit" =>
          \A s \in SessionIds :
             (Live(s) /\ sessions[s].userId = q.user /\ s \notin q.revoked) =>
                sessions[s].under = password[q.user] /\ sessions[s].missed
    /\ q.pc \in {"closeTokens", "setPassword", "revokeSessions", "commit"} =>
          \A i \in Unused(q.user) : i \notin q.seen => r \in Missing(i)

\* A finished request holds nothing.
LEMMA IdleRequest ==
    /\ Idle \in Request
    /\ Idle.pc = "idle"
    /\ Idle.user = NoUser
    /\ Idle.seen = {}
    /\ Idle.marks = {}
    /\ Idle.revoked = {}
  BY DEF Idle, Request

\* Sets of requests are finite, and a smaller one counts less.
LEMMA CountRequests ==
    ASSUME NEW S \in SUBSET Requests, NEW T \in SUBSET S
    PROVE  /\ Cardinality(S) \in Nat
           /\ Cardinality(T) \in Nat
           /\ Cardinality(T) <= Cardinality(S)
           /\ \A x \in S \ T : Cardinality(T) + 1 <= Cardinality(S)
  <1>1. IsFiniteSet(S)
    BY ResetAssumption, FS_Subset
  <1>2. IsFiniteSet(T) /\ Cardinality(T) <= Cardinality(S)
    BY <1>1, FS_Subset
  <1>3. Cardinality(S) \in Nat /\ Cardinality(T) \in Nat
    BY <1>1, <1>2, FS_CardinalityType
  <1>4. ASSUME NEW x \in S \ T PROVE Cardinality(T) + 1 <= Cardinality(S)
    <2>1. IsFiniteSet(S \ {x}) /\ Cardinality(S \ {x}) = Cardinality(S) - 1
      BY <1>1, FS_RemoveElement
    <2>2. T \subseteq S \ {x}
      OBVIOUS
    <2>3. Cardinality(T) <= Cardinality(S \ {x})
      BY <2>1, <2>2, FS_Subset
    <2> QED
      BY <1>3, <2>1, <2>3
  <1> QED
    BY <1>2, <1>3, <1>4

\* A statement that writes no committed row changes one slot only.
LEMMA ReadOnlyInv ==
    ASSUME IndInv, NEW r \in Requests, NEW q,
           Holds(r, q),
           req' = [req EXCEPT ![r] = q],
           UNCHANGED <<password, resets, sessions, now>>
    PROVE  IndInv'
  <1>1. q \in Request /\ req' \in [Requests -> Request]
    BY DEF IndInv, TypeOK, Holds
  <1>2. \A x \in Requests : req'[x] = IF x = r THEN q ELSE req[x]
    BY DEF IndInv, TypeOK
  <1>3. RequestInv'
    <2>1. ASSUME NEW x \in Requests
          PROVE  /\ req'[x].pc \notin {"idle", "markExpired"} => req'[x].user \in Users
                 /\ req'[x].pc \in {"useToken", "findTokens", "closeTokens"}
                       => req'[x].id \in ResetIds
                 /\ \A i \in req'[x].seen : resets[i] # NoRow
                 /\ \A s \in req'[x].revoked : sessions[s] # NoRow
      BY <1>2 DEF IndInv, RequestInv, Holds
    <2> QED
      BY <2>1 DEF RequestInv
  <1>4. MarksInv'
    <2>1. ASSUME NEW x \in Requests,
                 req'[x].pc \in {"createReset", "setPassword", "revokeSessions", "commit"},
                 NEW i \in req'[x].seen
          PROVE  i \in req'[x].marks \/ resets[i].used
      BY <1>2, <2>1 DEF IndInv, MarksInv, Holds
    <2> QED
      BY <2>1 DEF MarksInv
  <1>5. UserLockInv'
    BY <1>2 DEF IndInv, UserLockInv, Holds
  <1>6. RevokedInv'
    <2>1. ASSUME NEW x \in Requests, NEW s \in SessionIds,
                 req'[x].pc = "commit", Live(s), sessions[s].userId = req'[x].user,
                 s \notin req'[x].revoked
          PROVE  sessions[s].under = password[req'[x].user] /\ sessions[s].missed
      BY <1>2, <2>1 DEF IndInv, RevokedInv, Holds
    <2> QED
      BY <2>1 DEF RevokedInv, Live
  <1>7. MissingInv'
    <2>1. ASSUME NEW u \in Users, NEW i \in Unused(u)
          PROVE  password[u] + Cardinality(Missing(i)') <= resets[i].version + resets[i].missed
      <3>1. i \in ResetIds /\ resets[i] # NoRow /\ resets[i].userId = u /\ ~resets[i].used
        BY DEF Unused, TokensOf
      <3>2. Missing(i)' \subseteq Missing(i)
        <4>1. ASSUME NEW x \in Requests, x \in Missing(i)' PROVE x \in Missing(i)
          <5>1. CASE x # r
            BY <1>2, <4>1, <5>1 DEF Missing, PastTokens
          <5>2. CASE x = r
            BY <1>2, <2>1, <3>1, <4>1, <5>2 DEF Missing, PastTokens, Holds
          <5> QED
            BY <5>1, <5>2
        <4> QED
          BY <4>1 DEF Missing, PastTokens
      <3>3. Missing(i) \subseteq Requests
        BY DEF Missing, PastTokens
      <3>4. /\ Cardinality(Missing(i)) \in Nat
            /\ Cardinality(Missing(i)') \in Nat
            /\ Cardinality(Missing(i)') <= Cardinality(Missing(i))
        BY <3>2, <3>3, CountRequests
      <3>5. password[u] \in Nat /\ resets[i].version \in Nat /\ resets[i].missed \in Nat
        BY <3>1 DEF IndInv, TypeOK, Reset
      <3>6. password[u] + Cardinality(Missing(i)) <= resets[i].version + resets[i].missed
        BY <2>1 DEF IndInv, MissingInv
      <3> QED
        BY <3>4, <3>5, <3>6
    <2>2. \A u \in Users : Unused(u)' = Unused(u)
      BY DEF Unused, TokensOf
    <2> QED
      BY <2>1, <2>2 DEF MissingInv
  <1>8. NoSessionSurvivesTwoChanges' /\ OnlyOverlappingTokens' /\ SeenInv'
    BY DEF IndInv, NoSessionSurvivesTwoChanges, OnlyOverlappingTokens, SeenInv, Unused,
           TokensOf, Live
  <1> QED
    BY <1>1, <1>3, <1>4, <1>5, <1>6, <1>7, <1>8 DEF IndInv, TypeOK

\* A transaction that has ended leaves the other slots as they were, and the rows
\* they hold in their tables.
LEMMA EndInv ==
    ASSUME IndInv, NEW r \in Requests,
           req' = [req EXCEPT ![r] = Idle],
           \A i \in ResetIds : resets[i] # NoRow =>
               /\ resets'[i] # NoRow
               /\ resets'[i].userId = resets[i].userId
               /\ resets[i].used => resets'[i].used,
           \A s \in SessionIds : sessions[s] # NoRow => sessions'[s] # NoRow
    PROVE  /\ req' \in [Requests -> Request]
           /\ req'[r] = Idle
           /\ \A x \in Requests \ {r} : req'[x] = req[x]
           /\ RequestInv' /\ MarksInv' /\ UserLockInv'
           /\ \A i \in ResetIds : resets[i] # NoRow => Missing(i)' \subseteq Missing(i) \ {r}
  <1>1. req' \in [Requests -> Request] /\ req'[r] = Idle
    BY IdleRequest DEF IndInv, TypeOK
  <1>2. \A x \in Requests : x # r => req'[x] = req[x]
    BY DEF IndInv, TypeOK
  <1>3. ASSUME NEW x \in Requests
        PROVE  req[x].seen \subseteq ResetIds /\ req[x].revoked \subseteq SessionIds
    BY DEF IndInv, TypeOK, Request
  <1>4. RequestInv'
    <2>1. ASSUME NEW x \in Requests
          PROVE  /\ req'[x].pc \notin {"idle", "markExpired"} => req'[x].user \in Users
                 /\ req'[x].pc \in {"useToken", "findTokens", "closeTokens"}
                       => req'[x].id \in ResetIds
                 /\ \A i \in req'[x].seen : resets'[i] # NoRow
                 /\ \A s \in req'[x].revoked : sessions'[s] # NoRow
      <3>1. CASE x = r
        BY <1>1, <3>1, IdleRequest
      <3>2. CASE x # r
        BY <1>2, <1>3, <3>2 DEF IndInv, RequestInv
      <3> QED
        BY <3>1, <3>2
    <2> QED
      BY <2>1 DEF RequestInv
  <1>5. MarksInv'
    <2>1. ASSUME NEW x \in Requests,
                 req'[x].pc \in {"createReset", "setPassword", "revokeSessions", "commit"},
                 NEW i \in req'[x].seen
          PROVE  i \in req'[x].marks \/ resets'[i].used
      <3>1. x # r /\ req'[x] = req[x]
        BY <1>1, <1>2, <2>1, IdleRequest
      <3>2. i \in ResetIds /\ resets[i] # NoRow
        BY <1>3, <2>1, <3>1 DEF IndInv, RequestInv
      <3> QED
        BY <2>1, <3>1, <3>2 DEF IndInv, MarksInv
    <2> QED
      BY <2>1 DEF MarksInv
  <1>6. UserLockInv'
    BY <1>1, <1>2, IdleRequest DEF IndInv, UserLockInv
  <1>7. ASSUME NEW i \in ResetIds, resets[i] # NoRow, NEW x \in Missing(i)'
        PROVE  x \in Missing(i) \ {r}
    <2>1. resets'[i].userId = resets[i].userId
      BY <1>7
    <2>2. x \in Requests /\ x # r
      BY <1>1, IdleRequest DEF Missing, PastTokens
    <2> QED
      BY <1>2, <2>1, <2>2 DEF Missing, PastTokens
  <1> QED
    BY <1>1, <1>2, <1>4, <1>5, <1>6, <1>7

\* Tokens that were used up or left alone count no more resets than before.
LEMMA StillCounted ==
    ASSUME IndInv, NEW u \in Users, NEW i \in Unused(u),
           Missing(i)' \subseteq Missing(i)
    PROVE  password[u] + Cardinality(Missing(i)') <= resets[i].version + resets[i].missed
  <1>1. i \in ResetIds /\ resets[i] # NoRow
    BY DEF Unused, TokensOf
  <1>2. /\ password[u] + Cardinality(Missing(i)) <= resets[i].version + resets[i].missed
        /\ password[u] \in Nat /\ resets[i].version \in Nat /\ resets[i].missed \in Nat
    BY <1>1 DEF IndInv, MissingInv, TypeOK, Reset
  <1>3. Missing(i) \subseteq Requests
    BY DEF Missing, PastTokens
  <1>4. /\ Cardinality(Missing(i)) \in Nat
        /\ Cardinality(Missing(i)') \in Nat
        /\ Cardinality(Missing(i)') <= Cardinality(Missing(i))
    BY <1>3, CountRequests
  <1> QED
    BY <1>2, <1>4

\* Requests that begin hold the user, or the token and its user.
LEMMA BeginInv ==
    ASSUME IndInv, NEW r \in Requests,
           \/ \E u \in Users : FindOlder(r, u) \/ LoginVerify(r, u)
           \/ \E i \in ResetIds : AcceptToken(r, i) \/ RejectExpired(r, i)
    PROVE  IndInv'
  <1>1. ASSUME NEW u \in Users, FindOlder(r, u) PROVE IndInv'
    <2> DEFINE q == [Idle EXCEPT !.pc = "closeOlder", !.user = u, !.seen = Unused(u)]
    <2>1. /\ q \in Request /\ q.pc = "closeOlder" /\ q.user = u
          /\ q.seen = Unused(u) /\ q.revoked = {}
      BY DEF Idle, Request, Unused, TokensOf
    <2>2. req' = [req EXCEPT ![r] = q] /\ UNCHANGED <<password, resets, sessions, now>>
      BY <1>1 DEF FindOlder
    <2>3. \A i \in Unused(u) : resets[i] # NoRow
      BY DEF Unused, TokensOf
    <2> HIDE DEF q
    <2>4. Holds(r, q)
      BY <2>1, <2>3 DEF Holds
    <2> QED
      BY <2>2, <2>4, ReadOnlyInv
  <1>2. ASSUME NEW u \in Users, LoginVerify(r, u) PROVE IndInv'
    <2> DEFINE q == [Idle EXCEPT !.pc = "loginCreate", !.user = u, !.version = password[u]]
    <2>1. /\ q \in Request /\ q.pc = "loginCreate" /\ q.user = u
          /\ q.seen = {} /\ q.revoked = {}
      BY DEF Idle, Request, IndInv, TypeOK
    <2>2. req' = [req EXCEPT ![r] = q] /\ UNCHANGED <<password, resets, sessions, now>>
      BY <1>2 DEF LoginVerify
    <2> HIDE DEF q
    <2>3. Holds(r, q)
      BY <2>1 DEF Holds
    <2> QED
      BY <2>2, <2>3, ReadOnlyInv
  <1>3. ASSUME NEW i \in ResetIds, AcceptToken(r, i) \/ RejectExpired(r, i) PROVE IndInv'
    <2>1. PICK stage \in {"useToken", "markExpired"} :
             req' = [req EXCEPT ![r] = [Idle EXCEPT !.pc = stage, !.id = i,
                                                    !.user = resets[i].userId]]
      BY <1>3 DEF AcceptToken, RejectExpired
    <2> DEFINE q == [Idle EXCEPT !.pc = stage, !.id = i, !.user = resets[i].userId]
    <2>2. resets[i].userId \in Users /\ UNCHANGED <<password, resets, sessions, now>>
      BY <1>3 DEF AcceptToken, RejectExpired, IndInv, TypeOK, Reset
    <2>3. /\ q \in Request /\ q.pc = stage /\ q.user = resets[i].userId
          /\ q.id = i /\ q.seen = {} /\ q.revoked = {}
      BY <2>2 DEF Idle, Request
    <2>4. req' = [req EXCEPT ![r] = q]
      BY <2>1
    <2> HIDE DEF q
    <2>5. Holds(r, q)
      BY <2>2, <2>3 DEF Holds
    <2> QED
      BY <2>2, <2>4, <2>5, ReadOnlyInv
  <1> QED
    BY <1>1, <1>2, <1>3

\* A running transaction goes on with its next statement: the rows it holds so far
\* stay, and it finds or locks more of them.
LEMMA StatementInv ==
    ASSUME IndInv, NEW r \in Requests,
           \/ CloseOlder(r) \/ UseToken(r) \/ FindTokens(r)
           \/ CloseTokens(r) \/ SetPassword(r) \/ RevokeSessions(r)
    PROVE  IndInv'
  <1>1. /\ req[r] \in Request /\ now \in Nat
        /\ req[r].user \in Users
        /\ req[r].pc \in {"useToken", "findTokens", "closeTokens"} => req[r].id \in ResetIds
        /\ \A i \in req[r].seen : i \in ResetIds /\ resets[i] # NoRow
        /\ \A s \in req[r].revoked : sessions[s] # NoRow
    BY DEF CloseOlder, UseToken, FindTokens, CloseTokens, SetPassword, RevokeSessions,
           IndInv, TypeOK, RequestInv, Request
  <1>2. StillUnused(r) \subseteq ResetIds
        /\ \A i \in req[r].seen : i \in StillUnused(r) \/ resets[i].used
    BY <1>1 DEF StillUnused
  <1>3. CASE CloseOlder(r)
    <2> DEFINE q == [req[r] EXCEPT !.pc = "createReset", !.marks = StillUnused(r),
                                   !.expires = now + ResetTtl]
    <2>1. /\ q \in Request /\ q.pc = "createReset" /\ q.user = req[r].user
          /\ q.seen = req[r].seen /\ q.revoked = req[r].revoked /\ q.marks = StillUnused(r)
      <3>1. now + ResetTtl \in Nat
        BY <1>1, ResetAssumption
      <3> QED
        BY <1>1, <1>2, <3>1 DEF Request
    <2>2. req' = [req EXCEPT ![r] = q] /\ UNCHANGED <<password, resets, sessions, now>>
      BY <1>3 DEF CloseOlder
    <2> HIDE DEF q
    <2>3. Holds(r, q)
      BY <1>1, <1>2, <2>1 DEF Holds
    <2> QED
      BY <2>2, <2>3, ReadOnlyInv
  <1>4. CASE UseToken(r)
    <2> DEFINE q == [req[r] EXCEPT !.pc = "findTokens", !.marks = {req[r].id}]
    <2>1. /\ q \in Request /\ q.pc = "findTokens" /\ q.user = req[r].user /\ q.id = req[r].id
          /\ q.seen = req[r].seen /\ q.revoked = req[r].revoked
      BY <1>1, <1>4 DEF Request, UseToken
    <2>2. req' = [req EXCEPT ![r] = q] /\ UNCHANGED <<password, resets, sessions, now>>
      BY <1>4 DEF UseToken
    <2>3. req[r].id \in ResetIds
      BY <1>1, <1>4 DEF UseToken
    <2> HIDE DEF q
    <2>4. Holds(r, q)
      BY <1>1, <2>1, <2>3 DEF Holds
    <2> QED
      BY <2>2, <2>4, ReadOnlyInv
  <1>5. CASE FindTokens(r)
    <2> DEFINE q == [req[r] EXCEPT !.pc = "closeTokens", !.seen = Unused(req[r].user)]
    <2>1. /\ q \in Request /\ q.pc = "closeTokens" /\ q.user = req[r].user /\ q.id = req[r].id
          /\ q.seen = Unused(q.user) /\ q.revoked = req[r].revoked
      BY <1>1, <1>5 DEF Request, Unused, TokensOf
    <2>2. req' = [req EXCEPT ![r] = q] /\ UNCHANGED <<password, resets, sessions, now>>
      BY <1>5 DEF FindTokens
    <2>3. req[r].id \in ResetIds
      BY <1>1, <1>5 DEF FindTokens
    <2>4. \A i \in Unused(q.user) : resets[i] # NoRow
      BY DEF Unused, TokensOf
    <2> HIDE DEF q
    <2>5. Holds(r, q)
      BY <1>1, <2>1, <2>3, <2>4 DEF Holds
    <2> QED
      BY <2>2, <2>5, ReadOnlyInv
  <1>6. CASE CloseTokens(r)
    <2> DEFINE q == [req[r] EXCEPT !.pc = "setPassword",
                                   !.marks = {req[r].id} \cup StillUnused(r)]
    <2>1. req[r].id \in ResetIds
      BY <1>1, <1>6 DEF CloseTokens
    <2>2. /\ q \in Request /\ q.pc = "setPassword" /\ q.user = req[r].user
          /\ q.seen = req[r].seen /\ q.revoked = req[r].revoked
          /\ StillUnused(r) \subseteq q.marks
      BY <1>1, <1>2, <2>1 DEF Request
    <2>3. req' = [req EXCEPT ![r] = q] /\ UNCHANGED <<password, resets, sessions, now>>
      BY <1>6 DEF CloseTokens
    <2>4. \A i \in Unused(req[r].user) : i \notin req[r].seen => r \in Missing(i)
      BY <1>6 DEF CloseTokens, Missing, PastTokens, Unused, TokensOf
    <2> HIDE DEF q
    <2>5. Holds(r, q)
      BY <1>1, <1>2, <2>2, <2>4 DEF Holds
    <2> QED
      BY <2>3, <2>5, ReadOnlyInv
  <1>7. CASE SetPassword(r)
    <2> DEFINE q == [req[r] EXCEPT !.pc = "revokeSessions"]
    <2>1. /\ q \in Request /\ q.pc = "revokeSessions" /\ q.user = req[r].user
          /\ q.seen = req[r].seen /\ q.revoked = req[r].revoked /\ q.marks = req[r].marks
      BY <1>1 DEF Request
    <2>2. req' = [req EXCEPT ![r] = q] /\ UNCHANGED <<password, resets, sessions, now>>
      BY <1>7 DEF SetPassword
    <2>3. /\ \A i \in Unused(req[r].user) : i \notin req[r].seen => r \in Missing(i)
          /\ \A i \in req[r].seen : i \in req[r].marks \/ resets[i].used
      BY <1>7 DEF SetPassword, Missing, PastTokens, Unused, TokensOf, IndInv, MarksInv
    <2>4. \A x \in Requests \ {r} :
             req[x].pc \in {"revokeSessions", "commit"} => req[x].user # req[r].user
      BY <1>7 DEF SetPassword
    <2> HIDE DEF q
    <2>5. Holds(r, q)
      BY <1>1, <2>1, <2>3, <2>4 DEF Holds
    <2> QED
      BY <2>2, <2>5, ReadOnlyInv
  <1>8. CASE RevokeSessions(r)
    <2> DEFINE found == {s \in SessionIds : sessions[s] # NoRow
                                            /\ sessions[s].userId = req[r].user}
               q == [req[r] EXCEPT !.pc = "commit", !.revoked = found]
    <2>1. /\ q \in Request /\ q.pc = "commit" /\ q.user = req[r].user
          /\ q.seen = req[r].seen /\ q.revoked = found /\ q.marks = req[r].marks
      BY <1>1 DEF Request
    <2>2. req' = [req EXCEPT ![r] = q] /\ UNCHANGED <<password, resets, sessions, now>>
      BY <1>8 DEF RevokeSessions
    <2>3. /\ \A i \in Unused(req[r].user) : i \notin req[r].seen => r \in Missing(i)
          /\ \A i \in req[r].seen : i \in req[r].marks \/ resets[i].used
          /\ \A x \in Requests \ {r} :
                req[x].pc \in {"revokeSessions", "commit"} => req[x].user # req[r].user
      BY <1>8 DEF RevokeSessions, Missing, PastTokens, Unused, TokensOf, IndInv, MarksInv,
                  UserLockInv
    <2>4. \A s \in found : sessions[s] # NoRow
      OBVIOUS
    <2>5. \A s \in SessionIds :
             ~(Live(s) /\ sessions[s].userId = req[r].user /\ s \notin found)
      BY DEF Live
    <2> HIDE DEF q, found
    <2>6. Holds(r, q)
      BY <1>1, <2>1, <2>3, <2>4, <2>5 DEF Holds
    <2> QED
      BY <2>2, <2>6, ReadOnlyInv
  <1> QED
    BY <1>3, <1>4, <1>5, <1>6, <1>7, <1>8

\* A rolled back request leaves nothing behind.
LEMMA FailInv ==
    ASSUME IndInv, NEW r \in Requests, Fail(r)
    PROVE  IndInv'
  <1>1. Holds(r, Idle)
    BY IdleRequest DEF Holds
  <1> QED
    BY <1>1, ReadOnlyInv DEF Fail, Done

\* A new token counts the resets that will not see it; the tokens that its own
\* request saw no longer work.
LEMMA CreateResetInv ==
    ASSUME IndInv, NEW r \in Requests, CreateReset(r)
    PROVE  IndInv'
  <1>1. PICK i \in ResetIds : /\ resets[i] = NoRow
                              /\ resets' = [Use(resets, req[r].marks) EXCEPT ![i] = NewReset(r)]
    BY DEF CreateReset
  <1>2. UNCHANGED <<password, sessions, now>> /\ req' = [req EXCEPT ![r] = Idle]
    BY DEF CreateReset, Done
  <1>3. PICK u \in Users : u = req[r].user
    BY DEF CreateReset, IndInv, RequestInv
  <1>4. /\ \A j \in req[r].seen : /\ j \in ResetIds /\ resets[j] # NoRow
                                  /\ j \in req[r].marks \/ resets[j].used
        /\ password[u] \in Nat /\ req[r].expires \in Nat /\ req[r].seen \subseteq ResetIds
    BY DEF CreateReset, IndInv, RequestInv, MarksInv, TypeOK, Request
  <1>5. PastTokens(u) \subseteq Requests /\ Cardinality(PastTokens(u)) \in Nat
    BY CountRequests DEF PastTokens
  <1>6. /\ NewReset(r) \in Reset
        /\ NewReset(r).userId = u
        /\ NewReset(r).seen = req[r].seen
        /\ NewReset(r).version = password[u]
        /\ NewReset(r).missed = Cardinality(PastTokens(u))
    BY <1>3, <1>4, <1>5 DEF NewReset, Reset
  <1>7. NewReset(r) # NoRow
    BY <1>6, ResetAssumption
  <1> DEFINE mid == Use(resets, req[r].marks)
  <1>8. /\ mid \in [ResetIds -> Reset \cup {NoRow}]
        /\ \A j \in ResetIds :
              /\ mid[j] = NoRow <=> resets[j] = NoRow
              /\ resets[j] # NoRow => /\ mid[j].userId = resets[j].userId
                                      /\ mid[j].seen = resets[j].seen
                                      /\ mid[j].version = resets[j].version
                                      /\ mid[j].missed = resets[j].missed
                                      /\ mid[j].used <=> resets[j].used \/ j \in req[r].marks
    BY UsedRows DEF IndInv, TypeOK
  <1> HIDE DEF mid
  <1>9. /\ resets' \in [ResetIds -> Reset \cup {NoRow}]
        /\ resets'[i] = NewReset(r)
        /\ \A j \in ResetIds \ {i} : resets'[j] = mid[j]
    BY <1>1, <1>6, <1>8 DEF mid
  <1>10. \A j \in ResetIds : resets[j] # NoRow =>
            /\ j # i /\ resets'[j] # NoRow
            /\ resets'[j].userId = resets[j].userId
            /\ resets'[j].seen = resets[j].seen
            /\ resets'[j].version = resets[j].version
            /\ resets'[j].missed = resets[j].missed
            /\ resets[j].used => resets'[j].used
    BY <1>1, <1>8, <1>9
  <1>11. /\ req' \in [Requests -> Request]
         /\ req'[r] = Idle
         /\ \A x \in Requests \ {r} : req'[x] = req[x]
         /\ RequestInv' /\ MarksInv' /\ UserLockInv'
         /\ \A j \in ResetIds : resets[j] # NoRow => Missing(j)' \subseteq Missing(j) \ {r}
    BY <1>2, <1>10, EndInv
  <1>12. TypeOK'
    BY <1>2, <1>9, <1>11 DEF IndInv, TypeOK
  <1>13. SeenInv'
    <2>1. ASSUME NEW j \in ResetIds \ {i}, resets'[j] # NoRow, NEW k \in resets'[j].seen
          PROVE  resets'[k] # NoRow
      <3>1. resets[j] # NoRow /\ k \in resets[j].seen
        BY <1>8, <1>9, <2>1
      <3>2. k \in ResetIds /\ resets[k] # NoRow
        BY <3>1 DEF IndInv, SeenInv, TypeOK, Reset
      <3> QED
        BY <1>10, <3>2
    <2>2. ASSUME NEW k \in resets'[i].seen PROVE resets'[k] # NoRow
      BY <1>4, <1>6, <1>9, <1>10, <2>2
    <2> QED
      BY <2>1, <2>2 DEF SeenInv
  <1>14. RevokedInv' /\ NoSessionSurvivesTwoChanges'
    <2>1. ASSUME NEW x \in Requests, req'[x].pc = "commit" PROVE req'[x] = req[x]
      BY <1>11, <2>1, IdleRequest
    <2> QED
      BY <1>2, <2>1 DEF IndInv, RevokedInv, NoSessionSurvivesTwoChanges, Live
  <1>15. \A x \in Users : \A j \in Unused(x)' :
            \/ j = i /\ x = u
            \/ j # i /\ j \in Unused(x) /\ j \notin req[r].seen
    BY <1>4, <1>6, <1>8, <1>9 DEF Unused, TokensOf
  <1>16. MissingInv'
    <2>1. ASSUME NEW x \in Users, NEW j \in Unused(x)'
          PROVE  password[x] + Cardinality(Missing(j)') <= resets'[j].version + resets'[j].missed
      <3>1. CASE j = i /\ x = u
        <4>1. resets'[i].userId = u
          BY <1>6, <1>9
        <4>2. ASSUME NEW y \in Missing(i)' PROVE y \in PastTokens(u)
          <5>1. y \in Requests /\ y # r
            BY <1>11, <4>2, IdleRequest DEF Missing, PastTokens
          <5> QED
            BY <1>11, <4>1, <4>2, <5>1 DEF Missing, PastTokens
        <4>3. Missing(i)' \subseteq PastTokens(u)
          BY <4>2
        <4>4. /\ Cardinality(Missing(i)') \in Nat
              /\ Cardinality(Missing(i)') <= Cardinality(PastTokens(u))
          BY <1>5, <4>3, CountRequests
        <4>5. resets'[i].version = password[u] /\ resets'[i].missed = Cardinality(PastTokens(u))
          BY <1>6, <1>9
        <4> QED
          BY <1>4, <1>5, <3>1, <4>4, <4>5
      <3>2. CASE j # i /\ j \in Unused(x)
        <4>1. j \in ResetIds /\ resets[j] # NoRow
          BY <3>2 DEF Unused, TokensOf
        <4>2. Missing(j)' \subseteq Missing(j)
          BY <1>11, <4>1
        <4> QED
          BY <1>10, <3>2, <4>1, <4>2, StillCounted
      <3> QED
        BY <1>15, <2>1, <3>1, <3>2
    <2> QED
      BY <1>2, <2>1 DEF MissingInv
  <1>17. OnlyOverlappingTokens'
    <2>1. ASSUME NEW x \in Users, NEW j \in Unused(x)', NEW k \in Unused(x)', j # k
          PROVE  j \notin resets'[k].seen
      <3>1. CASE k = i
        BY <1>6, <1>9, <1>15, <2>1, <3>1
      <3>2. CASE k # i
        <4>1. k \in ResetIds /\ resets[k] # NoRow /\ k \in Unused(x)
          BY <1>15, <2>1, <3>2 DEF Unused, TokensOf
        <4>2. resets'[k].seen = resets[k].seen
          BY <1>10, <4>1
        <4>3. CASE j = i
          BY <1>1, <4>1, <4>2, <4>3 DEF IndInv, SeenInv
        <4>4. CASE j # i
          BY <1>15, <2>1, <4>1, <4>2, <4>4 DEF IndInv, OnlyOverlappingTokens
        <4> QED
          BY <4>3, <4>4
      <3> QED
        BY <3>1, <3>2
    <2> QED
      BY <2>1 DEF OnlyOverlappingTokens
  <1> QED
    BY <1>11, <1>12, <1>13, <1>14, <1>16, <1>17 DEF IndInv

\* Marking an expired token only takes a token away.
LEMMA MarkExpiredInv ==
    ASSUME IndInv, NEW r \in Requests, MarkExpired(r)
    PROVE  IndInv'
  <1>1. /\ resets' = Use(resets, {req[r].id})
        /\ UNCHANGED <<password, sessions, now>>
        /\ req' = [req EXCEPT ![r] = Idle]
    BY DEF MarkExpired, Done
  <1>2. /\ resets' \in [ResetIds -> Reset \cup {NoRow}]
        /\ \A j \in ResetIds :
              /\ resets'[j] = NoRow <=> resets[j] = NoRow
              /\ resets[j] # NoRow => /\ resets'[j].userId = resets[j].userId
                                      /\ resets'[j].seen = resets[j].seen
                                      /\ resets'[j].version = resets[j].version
                                      /\ resets'[j].missed = resets[j].missed
                                      /\ resets[j].used => resets'[j].used
    BY <1>1, UsedRows DEF IndInv, TypeOK
  <1>3. /\ req' \in [Requests -> Request]
        /\ req'[r] = Idle
        /\ \A x \in Requests \ {r} : req'[x] = req[x]
        /\ RequestInv' /\ MarksInv' /\ UserLockInv'
        /\ \A j \in ResetIds : resets[j] # NoRow => Missing(j)' \subseteq Missing(j) \ {r}
    BY <1>1, <1>2, EndInv
  <1>4. SeenInv'
    <2>1. ASSUME NEW j \in ResetIds, resets[j] # NoRow, NEW k \in resets[j].seen
          PROVE  k \in ResetIds /\ resets[k] # NoRow
      BY <2>1 DEF IndInv, SeenInv, TypeOK, Reset
    <2> QED
      BY <1>2, <2>1 DEF SeenInv
  <1>5. \A u \in Users : \A j \in Unused(u)' :
            /\ j \in Unused(u) /\ j \in ResetIds /\ resets[j] # NoRow
            /\ resets'[j].seen = resets[j].seen
            /\ resets'[j].version = resets[j].version
            /\ resets'[j].missed = resets[j].missed
    BY <1>2 DEF Unused, TokensOf
  <1>6. MissingInv'
    <2>1. ASSUME NEW u \in Users, NEW j \in Unused(u)'
          PROVE  password[u] + Cardinality(Missing(j)') <= resets'[j].version + resets'[j].missed
      BY <1>3, <1>5, <2>1, StillCounted
    <2> QED
      BY <1>1, <2>1 DEF MissingInv
  <1>7. OnlyOverlappingTokens'
    BY <1>5 DEF IndInv, OnlyOverlappingTokens
  <1>8. RevokedInv' /\ NoSessionSurvivesTwoChanges'
    <2>1. ASSUME NEW x \in Requests, req'[x].pc = "commit" PROVE req'[x] = req[x]
      BY <1>3, <2>1, IdleRequest
    <2> QED
      BY <1>1, <2>1 DEF IndInv, RevokedInv, NoSessionSurvivesTwoChanges, Live
  <1> QED
    BY <1>1, <1>2, <1>3, <1>4, <1>6, <1>7, <1>8 DEF IndInv, TypeOK

\* A commit leaves no session but those inserted since the search for sessions, and
\* each token that it does not close had counted it.
LEMMA ChangePasswordInv ==
    ASSUME IndInv, NEW r \in Requests, ChangePassword(r)
    PROVE  IndInv'
  <1>0. PICK u \in Users : u = req[r].user
    BY DEF ChangePassword, IndInv, RequestInv
  <1>1. /\ req[r].pc = "commit"
        /\ resets' = Use(resets, req[r].marks)
        /\ password' = [password EXCEPT ![u] = @ + 1]
        /\ sessions' = [s \in SessionIds |-> IF s \in req[r].revoked
                                             THEN [sessions[s] EXCEPT !.valid = FALSE]
                                             ELSE sessions[s]]
        /\ now' = now
        /\ req' = [req EXCEPT ![r] = Idle]
    BY <1>0 DEF ChangePassword, Done
  <1>2. /\ password' \in [Users -> Nat]
        /\ password[u] \in Nat
        /\ password'[u] = password[u] + 1
        /\ \A x \in Users \ {u} : password'[x] = password[x]
    BY <1>1 DEF IndInv, TypeOK
  <1>3. /\ resets' \in [ResetIds -> Reset \cup {NoRow}]
        /\ \A j \in ResetIds :
              /\ resets'[j] = NoRow <=> resets[j] = NoRow
              /\ resets[j] # NoRow => /\ resets'[j].userId = resets[j].userId
                                      /\ resets'[j].seen = resets[j].seen
                                      /\ resets'[j].version = resets[j].version
                                      /\ resets'[j].missed = resets[j].missed
                                      /\ resets'[j].used <=> resets[j].used \/ j \in req[r].marks
    BY <1>1, UsedRows DEF IndInv, TypeOK
  <1>4. ASSUME NEW s \in SessionIds
        PROVE  /\ sessions'[s] \in Session \cup {NoRow}
               /\ sessions[s] # NoRow => sessions'[s] # NoRow
               /\ Live(s)' => /\ Live(s) /\ sessions'[s] = sessions[s]
                              /\ s \notin req[r].revoked
    <2>1. CASE s \in req[r].revoked
      <3>1. sessions[s] \in Session
        BY <2>1 DEF IndInv, RequestInv, TypeOK
      <3>2. sessions'[s] = [sessions[s] EXCEPT !.valid = FALSE]
        BY <1>1, <2>1
      <3>3. sessions'[s] \in Session /\ ~sessions'[s].valid
        BY <3>1, <3>2 DEF Session
      <3>4. sessions'[s] # NoRow
        BY <3>3, ResetAssumption
      <3> QED
        BY <3>3, <3>4 DEF Live
    <2>2. CASE s \notin req[r].revoked
      BY <1>1, <2>2 DEF IndInv, TypeOK, Live
    <2> QED
      BY <2>1, <2>2
  <1>5. sessions' \in [SessionIds -> Session \cup {NoRow}]
    BY <1>1, <1>4
  <1>6. /\ req' \in [Requests -> Request]
        /\ req'[r] = Idle
        /\ \A x \in Requests \ {r} : req'[x] = req[x]
        /\ RequestInv' /\ MarksInv' /\ UserLockInv'
        /\ \A j \in ResetIds : resets[j] # NoRow => Missing(j)' \subseteq Missing(j) \ {r}
    BY <1>1, <1>3, <1>4, EndInv
  <1>7. SeenInv'
    <2>1. ASSUME NEW j \in ResetIds, resets[j] # NoRow, NEW k \in resets[j].seen
          PROVE  k \in ResetIds /\ resets[k] # NoRow
      BY <2>1 DEF IndInv, SeenInv, TypeOK, Reset
    <2> QED
      BY <1>3, <2>1 DEF SeenInv
  <1>8. ASSUME NEW x \in Requests, req'[x].pc = "commit"
        PROVE  req'[x] = req[x] /\ req[x].user # u /\ req[x].user \in Users
    <2>1. x # r /\ req'[x] = req[x]
      BY <1>6, <1>8, IdleRequest
    <2> QED
      BY <1>0, <1>1, <1>8, <2>1 DEF IndInv, UserLockInv, RequestInv
  <1>9. RevokedInv'
    <2>1. ASSUME NEW x \in Requests, NEW s \in SessionIds,
                 req'[x].pc = "commit", Live(s)', sessions'[s].userId = req'[x].user,
                 s \notin req'[x].revoked
          PROVE  sessions'[s].under = password'[req'[x].user] /\ sessions'[s].missed
      <3>1. Live(s) /\ sessions'[s] = sessions[s]
        BY <1>4, <2>1
      <3>2. req'[x] = req[x] /\ req[x].user # u /\ req[x].user \in Users
        BY <1>8, <2>1
      <3> QED
        BY <1>2, <2>1, <3>1, <3>2 DEF IndInv, RevokedInv
    <2> QED
      BY <2>1 DEF RevokedInv
  <1>10. NoSessionSurvivesTwoChanges'
    <2>1. ASSUME NEW s \in SessionIds, Live(s)'
          PROVE  \/ sessions'[s].under = password'[sessions'[s].userId]
                 \/ /\ sessions'[s].under + 1 = password'[sessions'[s].userId]
                    /\ sessions'[s].missed
      <3>1. Live(s) /\ sessions'[s] = sessions[s] /\ s \notin req[r].revoked
        BY <1>4, <2>1
      <3>2. sessions[s].userId \in Users
        BY <3>1 DEF IndInv, TypeOK, Session, Live
      <3>3. CASE sessions[s].userId = u
        <4>1. sessions[s].under = password[u] /\ sessions[s].missed
          BY <1>0, <1>1, <3>1, <3>3 DEF IndInv, RevokedInv
        <4> QED
          BY <1>2, <3>1, <3>3, <4>1
      <3>4. CASE sessions[s].userId # u
        BY <1>2, <3>1, <3>2, <3>4 DEF IndInv, NoSessionSurvivesTwoChanges
      <3> QED
        BY <3>3, <3>4
    <2> QED
      BY <2>1 DEF NoSessionSurvivesTwoChanges
  <1>11. ASSUME NEW x \in Users, NEW j \in Unused(x)'
         PROVE  /\ j \in Unused(x) /\ j \in ResetIds /\ resets[j] # NoRow
                /\ resets[j].userId = x /\ ~resets[j].used /\ j \notin req[r].marks
                /\ resets'[j].seen = resets[j].seen
                /\ resets'[j].version = resets[j].version
                /\ resets'[j].missed = resets[j].missed
    BY <1>3, <1>11 DEF Unused, TokensOf
  <1>12. MissingInv'
    <2>1. ASSUME NEW x \in Users, NEW j \in Unused(x)'
          PROVE  password'[x] + Cardinality(Missing(j)') <= resets'[j].version + resets'[j].missed
      <3>1. Missing(j)' \subseteq Missing(j) \ {r}
        BY <1>6, <1>11, <2>1
      <3>2. CASE x # u
        BY <1>2, <1>11, <2>1, <3>1, <3>2, StillCounted
      <3>3. CASE x = u
        <4>1. j \notin req[r].seen
          BY <1>1, <1>11, <2>1 DEF IndInv, MarksInv
        <4>2. r \in Missing(j)
          BY <1>0, <1>1, <1>11, <2>1, <3>3, <4>1 DEF Missing, PastTokens
        <4>3. Missing(j) \subseteq Requests
          BY DEF Missing, PastTokens
        <4>4. /\ Cardinality(Missing(j)) \in Nat
              /\ Cardinality(Missing(j)') \in Nat
              /\ Cardinality(Missing(j)') + 1 <= Cardinality(Missing(j))
          BY <3>1, <4>2, <4>3, CountRequests
        <4>5. /\ password[u] + Cardinality(Missing(j)) <= resets[j].version + resets[j].missed
              /\ resets[j].version \in Nat /\ resets[j].missed \in Nat
          BY <1>11, <2>1, <3>3 DEF IndInv, MissingInv, TypeOK, Reset
        <4> QED
          BY <1>2, <1>11, <2>1, <3>3, <4>4, <4>5
      <3> QED
        BY <3>2, <3>3
    <2> QED
      BY <2>1 DEF MissingInv
  <1>13. OnlyOverlappingTokens'
    BY <1>11 DEF IndInv, OnlyOverlappingTokens
  <1> QED
    BY <1>1, <1>2, <1>3, <1>5, <1>6, <1>7, <1>9, <1>10, <1>12, <1>13 DEF IndInv, TypeOK

\* A new session is under the current password, and says whether a reset about to
\* commit has missed it.
LEMMA LoginCreateInv ==
    ASSUME IndInv, NEW r \in Requests, LoginCreate(r)
    PROVE  IndInv'
  <1> DEFINE u == req[r].user
             row == [userId |-> u, valid |-> TRUE, version |-> req[r].version,
                     under |-> password[u], missed |-> PastSessions(u) # {}]
  <1>1. PICK s \in SessionIds : sessions[s] = NoRow /\ sessions' = [sessions EXCEPT ![s] = row]
    BY DEF LoginCreate
  <1>2. UNCHANGED <<password, resets, now>> /\ req' = [req EXCEPT ![r] = Idle]
    BY DEF LoginCreate, Done
  <1>3. /\ row \in Session /\ row # NoRow
        /\ row.userId = u /\ row.under = password[u]
        /\ row.missed <=> PastSessions(u) # {}
    <2>1. u \in Users /\ password[u] \in Nat /\ req[r].version \in Nat
      BY DEF LoginCreate, IndInv, RequestInv, TypeOK, Request
    <2>2. row \in Session
      BY <2>1 DEF Session
    <2> QED
      BY <2>2, ResetAssumption
  <1> HIDE DEF row
  <1>4. /\ sessions' \in [SessionIds -> Session \cup {NoRow}]
        /\ sessions'[s] = row
        /\ \A x \in SessionIds \ {s} : sessions'[x] = sessions[x]
    BY <1>1, <1>3 DEF IndInv, TypeOK
  <1>5. /\ req' \in [Requests -> Request]
        /\ req'[r] = Idle
        /\ \A x \in Requests \ {r} : req'[x] = req[x]
        /\ RequestInv' /\ MarksInv' /\ UserLockInv'
        /\ \A j \in ResetIds : resets[j] # NoRow => Missing(j)' \subseteq Missing(j) \ {r}
    BY <1>1, <1>2, <1>3, <1>4, EndInv
  <1>6. RevokedInv'
    <2>1. ASSUME NEW x \in Requests, NEW y \in SessionIds,
                 req'[x].pc = "commit", Live(y)', sessions'[y].userId = req'[x].user,
                 y \notin req'[x].revoked
          PROVE  sessions'[y].under = password[req'[x].user] /\ sessions'[y].missed
      <3>1. req'[x] = req[x]
        BY <1>5, <2>1, IdleRequest
      <3>2. CASE y = s
        <4>1. x \in PastSessions(u)
          BY <1>3, <1>4, <2>1, <3>1, <3>2 DEF PastSessions
        <4> QED
          BY <1>3, <1>4, <2>1, <3>2, <4>1
      <3>3. CASE y # s
        BY <1>4, <2>1, <3>1, <3>3 DEF IndInv, RevokedInv, Live
      <3> QED
        BY <3>2, <3>3
    <2> QED
      BY <1>2, <2>1 DEF RevokedInv
  <1>7. NoSessionSurvivesTwoChanges'
    <2>1. ASSUME NEW y \in SessionIds, Live(y)'
          PROVE  \/ sessions'[y].under = password[sessions'[y].userId]
                 \/ /\ sessions'[y].under + 1 = password[sessions'[y].userId]
                    /\ sessions'[y].missed
      <3>1. CASE y = s
        BY <1>3, <1>4, <3>1
      <3>2. CASE y # s
        BY <1>4, <2>1, <3>2 DEF IndInv, NoSessionSurvivesTwoChanges, Live
      <3> QED
        BY <3>1, <3>2
    <2> QED
      BY <1>2, <2>1 DEF NoSessionSurvivesTwoChanges
  <1>8. \A x \in Users : Unused(x)' = Unused(x)
    BY <1>2 DEF Unused, TokensOf
  <1>9. MissingInv'
    <2>1. ASSUME NEW x \in Users, NEW j \in Unused(x)
          PROVE  password[x] + Cardinality(Missing(j)') <= resets[j].version + resets[j].missed
      <3>1. j \in ResetIds /\ resets[j] # NoRow
        BY DEF Unused, TokensOf
      <3> QED
        BY <1>5, <3>1, StillCounted
    <2> QED
      BY <1>2, <1>8, <2>1 DEF MissingInv
  <1>10. OnlyOverlappingTokens' /\ SeenInv'
    BY <1>2, <1>8 DEF IndInv, OnlyOverlappingTokens, SeenInv
  <1> QED
    BY <1>2, <1>4, <1>5, <1>6, <1>7, <1>9, <1>10 DEF IndInv, TypeOK

\* The empty tables satisfy the invariant.
LEMMA InitInv == Init => IndInv
  BY ResetAssumption, IdleRequest
  DEF Init, IndInv, TypeOK, RequestInv, MarksInv, UserLockInv, RevokedInv, SeenInv,
      MissingInv, NoSessionSurvivesTwoChanges, Live, OnlyOverlappingTokens, Unused, TokensOf

\* Every statement preserves it.
LEMMA NextInv == IndInv /\ [Next]_vars => IndInv'
  <1> SUFFICES ASSUME IndInv, [Next]_vars PROVE IndInv'
    OBVIOUS
  <1>1. CASE Tick \/ UNCHANGED vars
    <2>1. UNCHANGED <<password, resets, sessions, req>> /\ now' \in Nat
      BY <1>1 DEF Tick, vars, IndInv, TypeOK
    <2>2. \A i \in ResetIds : Missing(i)' = Missing(i)
      BY <2>1 DEF Missing, PastTokens
    <2>3. \A u \in Users : Unused(u)' = Unused(u) /\ Unused(u) \subseteq ResetIds
      BY <2>1 DEF Unused, TokensOf
    <2>4. MissingInv' /\ OnlyOverlappingTokens'
      BY <2>1, <2>2, <2>3 DEF IndInv, MissingInv, OnlyOverlappingTokens
    <2> QED
      BY <2>1, <2>4
      DEF IndInv, TypeOK, RequestInv, MarksInv, UserLockInv, RevokedInv, SeenInv,
          NoSessionSurvivesTwoChanges, Live
  <1> QED
    BY <1>1, BeginInv, StatementInv, CreateResetInv, MarkExpiredInv, ChangePasswordInv,
       LoginCreateInv, FailInv
    DEF Next

\* The inductive invariant holds in every reachable state, for any users, tokens,
\* sessions and requests.
THEOREM Invariance == Spec => []IndInv
  BY InitInv, NextInv, PTL DEF Spec

\* Rows and the locals of suspended requests keep their types.
THEOREM TypeCorrect == Spec => []TypeOK
  <1>1. IndInv => TypeOK
    BY DEF IndInv
  <1> QED
    BY <1>1, Invariance, PTL

\* Whatever requests run at the same time, the second password change after a
\* session's creation revokes it at the latest, and the first one too unless it had
\* already looked for sessions.
THEOREM ResetsEndSessions == Spec => []NoSessionSurvivesTwoChanges
  <1>1. IndInv => NoSessionSurvivesTwoChanges
    BY DEF IndInv
  <1> QED
    BY <1>1, Invariance, PTL

\* However requests for a reset and resets interleave, only resets that had already
\* looked for tokens leave a token working.
THEOREM ResetsEndTokens == Spec => []TokensSurviveOnlyPastResets
  <1>1. IndInv => TokensSurviveOnlyPastResets
    <2> SUFFICES ASSUME IndInv, NEW u \in Users, NEW i \in Unused(u)
                 PROVE  password[u] <= resets[i].version + resets[i].missed
      BY DEF TokensSurviveOnlyPastResets
    <2>1. resets[i].version \in Nat /\ resets[i].missed \in Nat /\ password[u] \in Nat
      BY DEF IndInv, TypeOK, Reset, Unused, TokensOf
    <2>2. Missing(i) \subseteq Requests
      BY DEF Missing, PastTokens
    <2>3. Cardinality(Missing(i)) \in Nat
      BY <2>2, CountRequests
    <2>4. password[u] + Cardinality(Missing(i)) <= resets[i].version + resets[i].missed
      BY DEF IndInv, MissingInv
    <2> QED
      BY <2>1, <2>3, <2>4
  <1> QED
    BY <1>1, Invariance, PTL

\* Two tokens of a user work at once only if their requests overlapped.
THEOREM OneTokenUnlessOverlapping == Spec => []OnlyOverlappingTokens
  <1>1. IndInv => OnlyOverlappingTokens
    BY DEF IndInv
  <1> QED
    BY <1>1, Invariance, PTL
=============================================================================
