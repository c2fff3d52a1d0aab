--------------------------- MODULE SessionsProofs ---------------------------
(***************************************************************************)
(* Proofs about Sessions for every number of users, sessions, requests and *)
(* cleanup jobs.  IndInv holds initially (InitInv) and every action keeps  *)
(* it (one lemma per action, put together in NextInv); the properties      *)
(* follow from it.                                                         *)
(***************************************************************************)
EXTENDS Sessions, SessionTableProofs

\* The empty table satisfies the invariant.
LEMMA InitInv == Init => IndInv
  <1> SUFFICES ASSUME Init PROVE IndInv
    OBVIOUS
  <1>1. \A s \in SessionIds : ~Exists(sessions, s)
    BY DEF Init, EmptyTable, Exists
  <1>2. TypeOK
    BY ConstantsAssumption
    DEF Init, TypeOK, EmptyTable, Table, Request, Stages, Idle, Job, IdleJob
  <1>3. \A r \in Requests : req[r].pc = "idle"
    BY DEF Init, Idle
  <1> QED
    BY <1>1, <1>2, <1>3
    DEF Init, IndInv, LiveRowInv, RequestInv, MintedOnce, DrawnIdInv, IssuedInv, RowInv,
        SweepInv, IdleJob, Minting, Live

\* login draws an id and signs a pair: nothing known so far carries that id.
LEMMA LoginMintInv ==
    ASSUME IndInv, NEW r \in Requests, NEW u \in Users, NEW s \in SessionIds,
           LoginMint(r, u, s)
    PROVE  IndInv'
  <1> DEFINE new == NewToken(u, s)
  <1>1. new \in Token /\ new.sid = s /\ new.sub = u /\ new.iat = now /\ new.jti = 0
    BY DEF new, NewToken, Token, LoginMint, IndInv, TypeOK
  <1>2. /\ req' = [req EXCEPT ![r] = [pc |-> "loginCreate", tok |-> NoToken,
                                      new |-> new, user |-> u]]
        /\ minted' = [minted EXCEPT ![s] = 1]
        /\ minted[s] = 0
        /\ UNCHANGED <<sessions, issued, now, sweep>>
    BY DEF LoginMint, Await, Mint, IndInv, TypeOK
  <1> HIDE DEF new
  <1>3. TypeOK'
    BY <1>1, <1>2 DEF IndInv, TypeOK, Request, Stages
  <1>4. /\ req'[r] = [pc |-> "loginCreate", tok |-> NoToken, new |-> new, user |-> u]
        /\ \A x \in Requests \ {r} : req'[x] = req[x]
        /\ \A x \in SessionIds : minted'[x] = IF x = s THEN 1 ELSE minted[x]
    BY <1>2 DEF IndInv, TypeOK
  <1>5. \A t \in issued : t.sid # s
    BY <1>2 DEF IndInv, TypeOK, IssuedInv, Token
  <1>6. \A x \in Requests : Minting(x) => req[x].new.sid # s
    BY <1>2 DEF IndInv, TypeOK, RequestInv, Token
  <1>7. ~Exists(sessions, s)
    BY <1>2 DEF IndInv, RowInv
  <1>8. LiveRowInv'
    BY <1>2 DEF IndInv, LiveRowInv, Live, Exists
  <1>9. RequestInv'
    BY <1>1, <1>2, <1>4, <1>5, <1>6 DEF IndInv, TypeOK, RequestInv, Minting, Token
  <1>10. MintedOnce'
    BY <1>1, <1>4, <1>6 DEF IndInv, MintedOnce, Minting
  <1>11. DrawnIdInv'
    BY <1>1, <1>2, <1>4, <1>5, <1>6, <1>7 DEF IndInv, DrawnIdInv, Minting, Exists
  <1>12. IssuedInv'
    BY <1>2, <1>4, <1>5 DEF IndInv, TypeOK, IssuedInv, Exists, Token
  <1>13. RowInv'
    BY <1>2, <1>4, <1>7 DEF IndInv, RowInv, Exists, Live
  <1>14. SweepInv'
    BY <1>2 DEF IndInv, SweepInv
  <1> QED
    BY <1>3, <1>8, <1>9, <1>10, <1>11, <1>12, <1>13, <1>14 DEF IndInv

\* login stores its row under an id that no row and no sent token has.
LEMMA LoginCreateInv ==
    ASSUME IndInv, NEW r \in Requests, LoginCreate(r)
    PROVE  IndInv'
  <1> DEFINE new == req[r].new
             s == new.sid
  <1>1. /\ new \in Token \ issued
        /\ s \in SessionIds
        /\ new.sub = req[r].user
        /\ new.sub \in Users
        /\ new.iat <= now
        /\ new.jti < minted[s]
        /\ new.iat \in Nat /\ new.jti \in Nat
    BY DEF LoginCreate, IndInv, RequestInv, Minting, Token
  <1>2. /\ req' = [req EXCEPT ![r] = Idle]
        /\ issued' = issued \cup {new}
        /\ sessions' = Insert(sessions, s, new.sub, new, now)
        /\ UNCHANGED <<minted, now, sweep>>
    BY <1>1 DEF LoginCreate, Answer
  <1>3. /\ ~Exists(sessions, s)
        /\ \A t \in issued : t.sid # s
        /\ \A x \in Requests \ {r} : Minting(x) => req[x].new.sid # s
    BY DEF LoginCreate, IndInv, DrawnIdInv
  <1> HIDE DEF new, s
  <1>s. s = new.sid
    BY DEF s
  <1>4. /\ sessions' \in Table
        /\ Live(sessions', s)
        /\ sessions'[s].userId = new.sub
        /\ sessions'[s].token = new
        /\ sessions'[s].updatedAt = now
        /\ \A x \in SessionIds \ {s} : sessions'[x] = sessions[x]
    BY <1>1, <1>2, InsertRows DEF IndInv, TypeOK
  <1>5. /\ req'[r] = Idle
        /\ \A x \in Requests \ {r} : req'[x] = req[x]
    BY <1>2 DEF IndInv, TypeOK
  <1>6. TypeOK'
    BY <1>1, <1>2, <1>4 DEF IndInv, TypeOK, Request, Stages, Idle
  <1>7. LiveRowInv'
    BY <1>1, <1>2, <1>4, <1>s DEF IndInv, TypeOK, LiveRowInv, Live, Exists
  <1>8. RequestInv'
    BY <1>1, <1>2, <1>3, <1>5, <1>s DEF IndInv, RequestInv, Minting, Idle
  <1>9. MintedOnce'
    BY <1>5 DEF IndInv, MintedOnce, Minting, Idle
  <1>10. DrawnIdInv'
    BY <1>1, <1>2, <1>3, <1>4, <1>5, <1>s
    DEF IndInv, DrawnIdInv, RequestInv, Minting, Idle, Exists, Token
  <1>11. IssuedInv'
    BY <1>1, <1>2, <1>3, <1>4, <1>s DEF IndInv, TypeOK, IssuedInv, Exists, Token
  <1>12. RowInv'
    BY <1>1, <1>2, <1>4 DEF IndInv, TypeOK, RowInv, Exists, Live
  <1>13. SweepInv'
    BY <1>2 DEF IndInv, SweepInv
  <1> QED
    BY <1>6, <1>7, <1>8, <1>9, <1>10, <1>11, <1>12, <1>13 DEF IndInv

\* A request that only remembers something: nothing else changes.
LEMMA AwaitInv ==
    ASSUME IndInv, NEW r \in Requests,
           NEW stage \in {"refreshRead", "revokeExpired", "revokeReuse", "logout", "authRead",
                          "logoutAll"},
           NEW t \in issued, NEW u \in Users \cup {NoUser},
           stage \in {"revokeReuse", "logoutAll"} => u = t.sub,
           Await(r, stage, t, NoToken, u),
           UNCHANGED <<sessions, minted, issued, now, sweep>>
    PROVE  IndInv'
  <1>1. /\ req'[r] = [pc |-> stage, tok |-> t, new |-> NoToken, user |-> u]
        /\ \A x \in Requests \ {r} : req'[x] = req[x]
    BY DEF Await, IndInv, TypeOK
  <1>2. TypeOK'
    BY DEF Await, IndInv, TypeOK, Request, Stages
  <1>3. /\ LiveRowInv' /\ IssuedInv' /\ RowInv' /\ SweepInv'
    BY DEF IndInv, LiveRowInv, IssuedInv, RowInv, SweepInv, Live, Exists
  <1>4. RequestInv'
    BY <1>1 DEF IndInv, RequestInv, Minting
  <1>5. MintedOnce' /\ DrawnIdInv'
    BY <1>1 DEF IndInv, MintedOnce, DrawnIdInv, Minting, Exists
  <1> QED
    BY <1>2, <1>3, <1>4, <1>5 DEF IndInv

\* What a handler remembers before its next statement is true of the row it read.
LEMMA CallInv ==
    ASSUME IndInv, NEW r \in Requests, NEW t \in issued,
           RefreshLate(r, t) \/ RefreshVerify(r, t) \/ LogoutVerify(r, t) \/ AuthVerify(r, t)
    PROVE  IndInv'
  BY AwaitInv DEF RefreshLate, RefreshVerify, LogoutVerify, AuthVerify

LEMMA RefreshReuseInv ==
    ASSUME IndInv, NEW r \in Requests, RefreshReuse(r)
    PROVE  IndInv'
  <1> DEFINE t == req[r].tok
  <1>1. t \in issued /\ t.sub \in Users /\ t.sid \in SessionIds
    BY DEF RefreshReuse, IndInv, TypeOK, RequestInv, Token
  <1>2. sessions[t.sid].userId = t.sub
    BY <1>1 DEF RefreshReuse, Live, IndInv, IssuedInv
  <1> QED
    BY <1>1, <1>2, AwaitInv DEF RefreshReuse

LEMMA LogoutAllAuthInv ==
    ASSUME IndInv, NEW r \in Requests, LogoutAllAuth(r)
    PROVE  IndInv'
  <1>1. req[r].tok \in issued /\ req[r].tok.sub \in Users
    BY DEF LogoutAllAuth, IndInv, TypeOK, RequestInv, Token
  <1> QED
    BY <1>1, AwaitInv DEF LogoutAllAuth

\* refresh signs a pair for the owner that the presented token names.
LEMMA RefreshMatchInv ==
    ASSUME IndInv, NEW r \in Requests, RefreshMatch(r)
    PROVE  IndInv'
  <1> DEFINE t == req[r].tok
  <1>t. t \in issued
    BY DEF RefreshMatch, IndInv, RequestInv
  <1> DEFINE new == NewToken(t.sub, t.sid)
             s == t.sid
  <1>1. /\ t \in Token /\ s \in SessionIds /\ t.sub \in Users
        /\ new \in Token /\ new.sid = s /\ new.sub = t.sub
        /\ new.iat = now /\ new.jti = minted[s] /\ minted[s] \in Nat
    BY <1>t DEF new, NewToken, Token, IndInv, TypeOK
  <1>2. /\ req' = [req EXCEPT ![r] = [pc |-> "refreshStore", tok |-> t,
                                      new |-> new, user |-> NoUser]]
        /\ minted' = [minted EXCEPT ![s] = @ + 1]
        /\ Exists(sessions, s)
        /\ UNCHANGED <<sessions, issued, now, sweep>>
    BY DEF RefreshMatch, Await, Mint, Live
  <1>s. s = t.sid
    OBVIOUS
  <1> HIDE DEF new, s, t
  <1>3. TypeOK'
    BY <1>1, <1>2 DEF IndInv, TypeOK, Request, Stages
  <1>4. /\ req'[r] = [pc |-> "refreshStore", tok |-> t, new |-> new, user |-> NoUser]
        /\ \A x \in Requests \ {r} : req'[x] = req[x]
        /\ \A x \in SessionIds : minted'[x] = IF x = s THEN minted[x] + 1 ELSE minted[x]
    BY <1>2 DEF IndInv, TypeOK
  <1>5. new \notin issued
    BY <1>1 DEF IndInv, IssuedInv
  <1>6. \A x \in Requests : Minting(x) => req[x].new # new
    BY <1>1 DEF IndInv, RequestInv
  <1>7. \A x \in Requests : req[x].pc = "loginCreate" => req[x].new.sid # s
    BY <1>2 DEF IndInv, DrawnIdInv
  <1>8. LiveRowInv'
    BY <1>2 DEF IndInv, LiveRowInv, Live, Exists
  <1>9. RequestInv'
    <2>1. ASSUME NEW x \in Requests \ {r}, Minting(x)
          PROVE  req[x].new.jti < minted'[req[x].new.sid]
      BY <1>1, <1>4, <2>1 DEF IndInv, TypeOK, RequestInv, Token
    <2> QED
      BY <1>1, <1>2, <1>4, <1>5, <1>s, <1>t, <2>1 DEF IndInv, TypeOK, RequestInv, Minting
  <1>10. MintedOnce'
    BY <1>4, <1>6 DEF IndInv, MintedOnce, Minting
  <1>11. DrawnIdInv'
    BY <1>1, <1>2, <1>4, <1>7 DEF IndInv, DrawnIdInv, Minting, Exists
  <1>12. IssuedInv'
    BY <1>1, <1>2, <1>4 DEF IndInv, TypeOK, IssuedInv, Exists, Token
  <1>13. RowInv'
    BY <1>1, <1>2, <1>4 DEF IndInv, TypeOK, RowInv, Exists, Live
  <1>14. SweepInv'
    BY <1>2 DEF IndInv, SweepInv
  <1> QED
    BY <1>3, <1>8, <1>9, <1>10, <1>11, <1>12, <1>13, <1>14 DEF IndInv

\* refresh stores its pair, or finds the row gone.  The pair is for the row's
\* owner even when the row changed since refresh read it.
LEMMA RefreshStoreInv ==
    ASSUME IndInv, NEW r \in Requests, RefreshStore(r)
    PROVE  IndInv'
  <1> DEFINE new == req[r].new
             s == new.sid
  <1>1. /\ new \in Token \ issued
        /\ s \in SessionIds
        /\ new.iat <= now /\ new.iat \in Nat
        /\ new.jti < minted[s] /\ new.jti \in Nat
        /\ req[r].tok \in issued
        /\ req[r].tok.sid = s /\ req[r].tok.sub = new.sub
    BY DEF RefreshStore, IndInv, RequestInv, Minting, Token
  <1>2. \A x \in Requests \ {r} : Minting(x) => req[x].new # new
    BY DEF RefreshStore, IndInv, MintedOnce, Minting
  <1>3. \A x \in Requests : req[x].pc = "loginCreate" => req[x].new.sid # s
    BY <1>1 DEF IndInv, DrawnIdInv
  <1>4. /\ req' = [req EXCEPT ![r] = Idle]
        /\ UNCHANGED <<minted, now, sweep>>
    BY DEF RefreshStore, Answer
  <1>5. CASE ~Exists(sessions, s)
    <2>1. sessions' = sessions /\ issued' = issued
      BY <1>5 DEF RefreshStore, Answer
    <2>2. /\ req'[r] = Idle
          /\ \A x \in Requests \ {r} : req'[x] = req[x]
      BY <1>4 DEF IndInv, TypeOK
    <2>3. TypeOK'
      BY <1>4, <2>1 DEF IndInv, TypeOK, Request, Stages, Idle
    <2> QED
      BY <1>4, <2>1, <2>2, <2>3
      DEF IndInv, LiveRowInv, RequestInv, MintedOnce, DrawnIdInv, IssuedInv, RowInv,
          SweepInv, Minting, Idle, Live, Exists
  <1>6. CASE Exists(sessions, s)
    <2>1. /\ sessions' = SetToken(sessions, s, new, now)
          /\ issued' = issued \cup {new}
      BY <1>6 DEF RefreshStore, Answer
    <2> HIDE DEF new, s
    <2>s. s = new.sid
      BY DEF s
    <2>t. sessions \in Table /\ now \in Nat /\ new \in Token
      BY <1>1 DEF IndInv, TypeOK
    <2>2. /\ sessions' \in Table
          /\ Exists(sessions', s)
          /\ sessions'[s].userId = sessions[s].userId
          /\ sessions'[s].valid = sessions[s].valid
          /\ sessions'[s].token = new
          /\ sessions'[s].updatedAt = now
          /\ \A x \in SessionIds \ {s} : sessions'[x] = sessions[x]
      BY <1>1, <1>6, <2>1, <2>t, SetTokenRows
    <2>3. /\ req'[r] = Idle
          /\ \A x \in Requests \ {r} : req'[x] = req[x]
      BY <1>4 DEF IndInv, TypeOK
    <2>4. sessions[s].userId = new.sub
      BY <1>1, <1>6 DEF IndInv, IssuedInv
    <2>5. TypeOK'
      BY <1>1, <1>4, <2>1, <2>2 DEF IndInv, TypeOK, Request, Stages, Idle
    <2>6. LiveRowInv'
      BY <1>1, <1>4, <2>2, <2>4, <2>s DEF IndInv, TypeOK, LiveRowInv, Live, Exists
    <2>7. RequestInv'
      BY <1>1, <1>2, <1>4, <2>1, <2>3, <2>s DEF IndInv, RequestInv, Minting, Idle
    <2>8. MintedOnce'
      BY <2>3 DEF IndInv, MintedOnce, Minting, Idle
    <2>9. DrawnIdInv'
      BY <1>1, <1>3, <1>4, <2>1, <2>2, <2>3, <2>s
      DEF IndInv, DrawnIdInv, RequestInv, Minting, Idle, Exists, Token
    <2>10. IssuedInv'
      <3>1. ASSUME NEW t \in issued, Exists(sessions', t.sid)
            PROVE  sessions'[t.sid].userId = t.sub
        <4>1. t.sid \in SessionIds
          BY DEF IndInv, TypeOK, Token
        <4>2. Exists(sessions, t.sid) => sessions[t.sid].userId = t.sub
          BY DEF IndInv, IssuedInv
        <4> QED
          BY <1>6, <2>2, <3>1, <4>1, <4>2 DEF Exists
      <3> QED
        BY <1>1, <1>4, <2>1, <2>2, <2>4, <2>s, <3>1 DEF IndInv, IssuedInv
    <2>11. RowInv'
      BY <1>1, <1>4, <1>6, <2>1, <2>2 DEF IndInv, TypeOK, RowInv, Exists, Live
    <2>12. SweepInv'
      BY <1>4 DEF IndInv, SweepInv
    <2> QED
      BY <2>5, <2>6, <2>7, <2>8, <2>9, <2>10, <2>11, <2>12 DEF IndInv
  <1> QED
    BY <1>5, <1>6

\* Revocations and cleanups only take live rows away; the request that asked
\* for them, if any, becomes idle.
LEMMA FewerRowsInv ==
    ASSUME IndInv,
           sessions' \in Table,
           \A s \in SessionIds : /\ Exists(sessions', s) =>
                                       /\ Exists(sessions, s)
                                       /\ sessions'[s].userId = sessions[s].userId
                                 /\ Live(sessions', s) => sessions'[s] = sessions[s],
           \/ req' = req
           \/ \E r \in Requests : req' = [req EXCEPT ![r] = Idle],
           sweep' \in [Sweepers -> Job],
           \A w \in Sweepers : sweep'[w].reference <= now,
           UNCHANGED <<minted, issued, now>>
    PROVE  IndInv'
  <1>1. \A x \in Requests : req'[x] = req[x] \/ req'[x] = Idle
    BY DEF IndInv, TypeOK
  <1>2. TypeOK'
    BY DEF IndInv, TypeOK, Request, Stages, Idle
  <1>3. \A s \in SessionIds : Live(sessions', s) => Live(sessions, s)
    BY DEF Live
  <1>4. LiveRowInv'
    BY <1>3 DEF IndInv, LiveRowInv
  <1>5. RequestInv'
    BY <1>1 DEF IndInv, RequestInv, Minting, Idle
  <1>6. MintedOnce'
    BY <1>1 DEF IndInv, MintedOnce, Minting, Idle
  <1>7. DrawnIdInv'
    BY <1>1 DEF IndInv, DrawnIdInv, RequestInv, Minting, Idle, Token
  <1>8. IssuedInv'
    BY DEF IndInv, TypeOK, IssuedInv, Token
  <1>9. RowInv'
    BY <1>3 DEF IndInv, RowInv
  <1>10. SweepInv'
    BY DEF SweepInv
  <1> QED
    BY <1>2, <1>4, <1>5, <1>6, <1>7, <1>8, <1>9, <1>10 DEF IndInv

\* The rows after a revocation satisfy the hypotheses of FewerRowsInv.
LEMMA RevokedRows ==
    ASSUME IndInv, NEW S, sessions' = Invalidate(sessions, S, now)
    PROVE  /\ sessions' \in Table
           /\ \A s \in SessionIds : /\ Exists(sessions', s) =>
                                          /\ Exists(sessions, s)
                                          /\ sessions'[s].userId = sessions[s].userId
                                    /\ Live(sessions', s) => sessions'[s] = sessions[s]
  BY InvalidateRows DEF IndInv, TypeOK

\* What a request has read may be nothing it can use: it leaves as one that fails.
LEMMA RefusedFails == \A r \in Requests : Refused(r) => Fail(r)
  BY DEF Refused, Fail, Idling

\* Every statement that settles preserves the invariant.
LEMMA SettleInv ==
    ASSUME IndInv, NEW r \in Requests, Settle(r)
    PROVE  IndInv'
  <1>1. /\ sweep \in [Sweepers -> Job]
        /\ \A w \in Sweepers : sweep[w].reference <= now
    BY DEF IndInv, TypeOK, SweepInv
  <1>2. ASSUME NEW S,
               sessions' = Invalidate(sessions, S, now), Answer(r, {}),
               UNCHANGED <<minted, now, sweep>>
        PROVE  IndInv'
    <2>1. req' = [req EXCEPT ![r] = Idle] /\ issued' = issued
      BY <1>2 DEF Answer
    <2> QED
      BY <1>1, <1>2, <2>1, RevokedRows, FewerRowsInv
  <1>3. CASE LoginCreate(r)
    BY <1>3, LoginCreateInv
  <1>4. CASE RevokeExpired(r)
    BY <1>2, <1>4 DEF RevokeExpired
  <1>5. CASE RefreshStore(r)
    BY <1>5, RefreshStoreInv
  <1>6. CASE RevokeReuse(r)
    BY <1>2, <1>6 DEF RevokeReuse
  <1>7. CASE Logout(r) \/ LogoutAll(r)
    BY <1>2, <1>7 DEF Logout, LogoutAll
  <1>8. CASE Fail(r)
    <2>1. /\ req' = [req EXCEPT ![r] = Idle] /\ issued' = issued
          /\ UNCHANGED <<sessions, minted, now, sweep>>
      BY <1>8 DEF Fail, Answer
    <2>2. sessions \in Table
      BY DEF IndInv, TypeOK
    <2> QED
      BY <1>1, <2>1, <2>2, FewerRowsInv
  <1> QED
    BY <1>3, <1>4, <1>5, <1>6, <1>7, <1>8, RefreshMatchInv, RefreshReuseInv, LogoutAllAuthInv,
       RefusedFails
    DEF Settle, Read, Write

\* The cleanup job only removes rows, and its reference time is past.
LEMMA SweepsInv ==
    ASSUME IndInv, NEW w \in Sweepers, Sweep(w)
    PROVE  IndInv'
  <1>1. /\ sweep' \in [Sweepers -> Job]
        /\ \A x \in Sweepers : sweep'[x].reference <= now
    <2>1. /\ sweep \in [Sweepers -> Job]
          /\ \A x \in Sweepers : sweep[x].reference <= now
          /\ now \in Nat
      BY DEF IndInv, TypeOK, SweepInv
    <2>2. PICK job \in {IdleJob, [running |-> TRUE, stage |-> "deleting", reference |-> now]} :
              sweep' = [sweep EXCEPT ![w] = job]
      BY DEF Sweep, SweepStart, SweepDelete, SweepFail
    <2>3. job \in Job /\ job.reference <= now
      <3>1. CASE job = IdleJob
        BY <2>1, <3>1 DEF Job, IdleJob
      <3>2. CASE job = [running |-> TRUE, stage |-> "deleting", reference |-> now]
        BY <2>1, <3>2 DEF Job
      <3> QED
        BY <3>1, <3>2
    <2>4. sweep' \in [Sweepers -> Job]
      BY <2>1, <2>2, <2>3
    <2>5. ASSUME NEW x \in Sweepers PROVE sweep'[x].reference <= now
      BY <2>1, <2>2, <2>3
    <2> QED
      BY <2>4, <2>5
  <1>2. UNCHANGED <<minted, issued, now, req>>
    BY DEF Sweep, SweepStart, SweepDelete, SweepFail
  <1>3. /\ sessions' \in Table
        /\ \A s \in SessionIds : /\ Exists(sessions', s) =>
                                       /\ Exists(sessions, s)
                                       /\ sessions'[s].userId = sessions[s].userId
                                 /\ Live(sessions', s) => sessions'[s] = sessions[s]
    <2>1. CASE sessions' = sessions
      BY <2>1 DEF IndInv, TypeOK
    <2>2. CASE SweepDelete(w)
      BY <2>2, DeleteManyRows DEF SweepDelete, IndInv, TypeOK, Live, Exists
    <2> QED
      BY <2>1, <2>2 DEF Sweep, SweepStart, SweepFail
  <1> QED
    BY <1>1, <1>2, <1>3, FewerRowsInv

\* The clock only moves forward.
LEMMA TickInv == IndInv /\ Tick => IndInv'
  <1> SUFFICES ASSUME IndInv, Tick PROVE IndInv'
    OBVIOUS
  <1>1. /\ now \in Nat /\ now' = now + 1
        /\ UNCHANGED <<sessions, minted, issued, req, sweep>>
    BY DEF Tick, IndInv, TypeOK
  <1>2. TypeOK'
    BY <1>1 DEF IndInv, TypeOK
  <1>3. LiveRowInv'
    <2>1. \A s \in SessionIds : Live(sessions, s) => sessions[s].updatedAt \in Nat
      BY DEF IndInv, TypeOK, Table, Row, Live, Exists
    <2> QED
      BY <1>1, <2>1 DEF IndInv, LiveRowInv, Live, Exists
  <1>4. RequestInv'
    BY <1>1 DEF IndInv, RequestInv, Minting, Token
  <1>5. MintedOnce' /\ DrawnIdInv' /\ RowInv'
    BY <1>1 DEF IndInv, MintedOnce, DrawnIdInv, RowInv, Minting, Exists, Live
  <1>6. IssuedInv'
    BY <1>1 DEF IndInv, TypeOK, IssuedInv, Exists, Token
  <1>7. SweepInv'
    BY <1>1 DEF IndInv, TypeOK, SweepInv, Job
  <1> QED
    BY <1>2, <1>3, <1>4, <1>5, <1>6, <1>7 DEF IndInv

\* Every step of the system preserves the invariant.
LEMMA NextInv == IndInv /\ [Next]_vars => IndInv'
  <1> SUFFICES ASSUME IndInv, [Next]_vars PROVE IndInv'
    OBVIOUS
  <1>1. CASE Tick
    BY <1>1, TickInv
  <1>3. ASSUME NEW r \in Requests, Call(r) PROVE IndInv'
    BY <1>3, LoginMintInv, CallInv DEF Call
  <1>4. ASSUME NEW r \in Requests, Settle(r) PROVE IndInv'
    BY <1>4, SettleInv
  <1>5. ASSUME NEW w \in Sweepers, Sweep(w) PROVE IndInv'
    BY <1>5, SweepsInv
  <1>6. CASE UNCHANGED vars
    BY <1>6 DEF vars, IndInv, TypeOK, LiveRowInv, RequestInv, MintedOnce, DrawnIdInv,
                IssuedInv, RowInv, SweepInv, Minting, Live, Exists
  <1> QED
    BY <1>1, <1>3, <1>4, <1>5, <1>6 DEF Next

-----------------------------------------------------------------------------
\* Every reachable state satisfies the inductive invariant.
THEOREM Invariance == Spec => []IndInv
  BY InitInv, NextInv, PTL DEF Spec

\* The variables, and the locals of every suspended handler, keep their types.
THEOREM TypeCorrect == Spec => []TypeOK
  <1>1. IndInv => TypeOK
    BY DEF IndInv
  <1> QED
    BY <1>1, Invariance, PTL

\* A live row stores a token of its own session and owner, signed no later
\* than the row was last written: what refresh and the cleanup job rely on.
THEOREM LiveRows == Spec => []LiveRowInv
  <1>1. IndInv => LiveRowInv
    BY DEF IndInv
  <1> QED
    BY <1>1, Invariance, PTL

-----------------------------------------------------------------------------
(* Action properties.                                                      *)

LEMMA NoRowWritten ==
    \A r \in Requests : Call(r) \/ Read(r) \/ Fail(r) => UNCHANGED <<sessions, now>>
  BY DEF Call, LoginMint, RefreshLate, RefreshVerify, LogoutVerify, AuthVerify, Read,
         RefreshMatch, RefreshReuse, LogoutAllAuth, Refused, Fail

\* What one step does to the rows: it stores a pair that was never sent, on
\* behalf of the request that minted it, or it revokes or deletes rows.
LEMMA StepRows ==
    ASSUME IndInv, [Next]_vars, NEW s \in SessionIds, sessions'[s] # sessions[s]
    PROVE  \/ \E r \in Requests : /\ LoginCreate(r) \/ RefreshStore(r)
                                  /\ s = req[r].new.sid
                                  /\ sessions'[s].token = req[r].new
           \/ ~Live(sessions', s)
  <1>1. sessions \in Table
    BY DEF IndInv, TypeOK
  <1>2. now \in Nat
    BY DEF IndInv, TypeOK
  <1>3. ASSUME NEW S, sessions' = Invalidate(sessions, S, now) PROVE ~Live(sessions', s)
    BY <1>1, <1>2, <1>3, InvalidateRows
  <1>4. ASSUME NEW r \in Requests, Call(r) \/ Read(r) \/ Fail(r) PROVE FALSE
    BY <1>4, NoRowWritten
  <1>5. ASSUME NEW r \in Requests,
               RevokeExpired(r) \/ RevokeReuse(r) \/ Logout(r) \/ LogoutAll(r)
        PROVE  ~Live(sessions', s)
    BY <1>3, <1>5 DEF RevokeExpired, RevokeReuse, Logout, LogoutAll
  <1>6. ASSUME NEW w \in Sweepers, SweepDelete(w) PROVE ~Live(sessions', s)
    BY <1>1, <1>6, DeleteManyRows DEF SweepDelete, Live
  <1>7. ASSUME NEW r \in Requests, LoginCreate(r)
        PROVE  s = req[r].new.sid /\ sessions'[s].token = req[r].new
    <2>1. /\ req[r].new \in Token /\ req[r].new.sid \in SessionIds
          /\ req[r].user \in Users
      BY <1>7 DEF LoginCreate, IndInv, RequestInv, Minting, Token
    <2> QED
      BY <1>1, <1>2, <1>7, <2>1, InsertRows DEF LoginCreate
  <1>8. ASSUME NEW r \in Requests, RefreshStore(r)
        PROVE  s = req[r].new.sid /\ sessions'[s].token = req[r].new
    <2>1. req[r].new \in Token /\ req[r].new.sid \in SessionIds
      BY <1>8 DEF RefreshStore, IndInv, RequestInv, Minting, Token
    <2> QED
      BY <1>1, <1>2, <1>8, <2>1, SetTokenRows DEF RefreshStore
  <1>9. CASE UNCHANGED sessions
    BY <1>9
  <1> QED
    BY <1>4, <1>5, <1>6, <1>7, <1>8, <1>9
    DEF Next, vars, Tick, Settle, Write, Sweep, SweepStart, SweepFail

\* A token that a client has already held is never written to the table again.
THEOREM TokensStayRotatedOut == Spec => NoTokenRestored
  <1>1. ASSUME IndInv, [Next]_vars, NEW s \in SessionIds,
               Live(sessions', s), sessions'[s] # sessions[s]
        PROVE  sessions'[s].token \notin issued
    <2>1. PICK r \in Requests : /\ LoginCreate(r) \/ RefreshStore(r)
                                /\ sessions'[s].token = req[r].new
      BY <1>1, StepRows
    <2> QED
      BY <1>1, <2>1 DEF LoginCreate, RefreshStore, IndInv, RequestInv, Minting
  <1>2. IndInv /\ [Next]_vars =>
           [\A s \in SessionIds :
              Live(sessions', s) /\ sessions'[s] # sessions[s]
                => sessions'[s].token \notin issued]_vars
    BY <1>1
  <1> QED
    BY <1>2, Invariance, PTL DEF Spec, NoTokenRestored

\* What the cleanup deletes of the live rows has lapsed, if the cleanup reads
\* the lifetime of a refresh token as no shorter than jsonwebtoken does.
LEMMA SweptRows ==
    ASSUME SweepTtl >= RefreshTtl, IndInv, NEW w \in Sweepers, SweepDelete(w),
           NEW s \in SessionIds, Live(sessions, s), ~Exists(sessions', s)
    PROVE  RefreshExpired(sessions[s].token)
  <1>1. s \in Stale(sessions, sweep[w].reference, SweepTtl)
    BY DeleteManyRows DEF SweepDelete, IndInv, TypeOK, Live, Exists
  <1>2. sessions[s].updatedAt + SweepTtl <= sweep[w].reference
    BY <1>1 DEF Stale, Live
  <1>3. /\ sessions[s].updatedAt \in Nat
        /\ sessions[s].token.iat \in Nat
        /\ sessions[s].token.iat <= sessions[s].updatedAt
    BY DEF IndInv, TypeOK, LiveRowInv, Live, Exists, Table, Row, Token
  <1>4. sweep[w].reference \in Nat /\ now \in Nat /\ sweep[w].reference <= now
    BY DEF IndInv, TypeOK, SweepInv, Job
  <1> QED
    BY <1>2, <1>3, <1>4, ConstantsAssumption DEF RefreshExpired

\* Only the cleanup job deletes rows.
LEMMA OnlySweepsDelete ==
    ASSUME IndInv, [Next]_vars, NEW s \in SessionIds,
           Exists(sessions, s), ~Exists(sessions', s)
    PROVE  \E w \in Sweepers : SweepDelete(w)
  <1>1. sessions \in Table /\ now \in Nat
    BY DEF IndInv, TypeOK
  <1>2. \A S : sessions' # Invalidate(sessions, S, now)
    BY <1>1, InvalidateRows
  <1>3. ASSUME NEW r \in Requests PROVE ~LoginCreate(r)
    <2>1. SUFFICES ASSUME LoginCreate(r) PROVE FALSE
      OBVIOUS
    <2>2. /\ req[r].new \in Token /\ req[r].new.sid \in SessionIds
          /\ req[r].user \in Users
      BY <2>1 DEF LoginCreate, IndInv, RequestInv, Minting, Token
    <2> QED
      BY <1>1, <2>1, <2>2, InsertRows DEF LoginCreate, Live, Exists
  <1>4. ASSUME NEW r \in Requests PROVE ~RefreshStore(r)
    <2>1. SUFFICES ASSUME RefreshStore(r) PROVE FALSE
      OBVIOUS
    <2>2. req[r].new \in Token /\ req[r].new.sid \in SessionIds
      BY <2>1 DEF RefreshStore, IndInv, RequestInv, Minting, Token
    <2> QED
      BY <1>1, <2>1, <2>2, SetTokenRows DEF RefreshStore, Exists
  <1>5. sessions' # sessions
    OBVIOUS
  <1> QED
    BY <1>2, <1>3, <1>4, <1>5, NoRowWritten
    DEF Next, vars, Tick, Settle, Write, Sweep, SweepStart, SweepFail, RevokeExpired,
        RevokeReuse, Logout, LogoutAll

\* The cleanup job spares the sessions whose refresh token still works.
THEOREM SweepsSpareLive ==
    ASSUME SweepTtl >= RefreshTtl
    PROVE  Spec => SweepSparesLive
  <1>1. IndInv /\ [Next]_vars =>
           [\A s \in SessionIds :
              Live(sessions, s) /\ ~Exists(sessions', s)
                => RefreshExpired(sessions[s].token)]_vars
    BY OnlySweepsDelete, SweptRows DEF Live
  <1> QED
    BY <1>1, Invariance, PTL DEF Spec, SweepSparesLive

-----------------------------------------------------------------------------
(* Sessions implements SessionLedger.                                      *)

LEMMA LedgerInit == Init => Ledger!Init
  BY DEF Init, Ledger!Init, Unborn, Life, Deadline, EmptyTable, Exists, Live

\* What the ledger sees of a session depends on its row only.
LEMMA SameRow ==
    ASSUME NEW s \in SessionIds, sessions'[s] = sessions[s]
    PROVE  Life'[s] = Life[s] /\ Deadline'[s] = Deadline[s]
  BY DEF Life, Deadline, Exists, Live

\* A step that opens no session and draws no new id leaves the ids alone.
LEMMA SameUnborn ==
    ASSUME IndInv,
           \A r \in Requests : \/ req'[r] = req[r]
                               \/ req[r].pc # "loginCreate" /\ req'[r].pc # "loginCreate",
           \A s \in SessionIds : minted'[s] = 0 <=> minted[s] = 0
    PROVE  Unborn' = Unborn
  BY DEF Unborn

LEMMA RevokeStep ==
    ASSUME IndInv, NEW S \in SUBSET SessionIds,
           sessions' = Invalidate(sessions, S, now),
           Unborn' = Unborn, now' = now
    PROVE  Ledger!Next
  <1> DEFINE R == {s \in S : Exists(sessions, s)}
  <1>1. \A s \in SessionIds :
           /\ Exists(sessions', s) <=> Exists(sessions, s)
           /\ Live(sessions', s) <=> Live(sessions, s) /\ s \notin S
           /\ s \notin S => sessions'[s] = sessions[s]
    BY InvalidateRows DEF IndInv, TypeOK
  <1>2. \A s \in R : Life[s] \in {"active", "revoked"}
    BY DEF Life
  <1>3. \A s \in R : Life'[s] = "revoked" /\ Deadline'[s] = 0
    BY <1>1 DEF Life, Deadline, Live
  <1>4. \A s \in SessionIds \ R : Life'[s] = Life[s] /\ Deadline'[s] = Deadline[s]
    <2>1. ASSUME NEW s \in S, ~Exists(sessions, s)
          PROVE  Life'[s] = Life[s] /\ Deadline'[s] = Deadline[s]
      BY <1>1, <2>1 DEF Life, Deadline, Live
    <2>2. ASSUME NEW s \in SessionIds, s \notin S
          PROVE  Life'[s] = Life[s] /\ Deadline'[s] = Deadline[s]
      BY <1>1, <2>2, SameRow
    <2> QED
      BY <2>1, <2>2
  <1>5. /\ Life' = [s \in SessionIds |-> IF s \in R THEN "revoked" ELSE Life[s]]
        /\ Deadline' = [s \in SessionIds |-> IF s \in R THEN 0 ELSE Deadline[s]]
    BY <1>3, <1>4 DEF Life, Deadline
  <1>6. Ledger!Revoke(R)
    BY <1>2, <1>5 DEF Ledger!Revoke
  <1> QED
    BY <1>6 DEF Ledger!Next

LEMMA ForgetStep ==
    ASSUME SweepTtl >= RefreshTtl, IndInv, NEW w \in Sweepers, SweepDelete(w)
    PROVE  Ledger!Next
  <1> DEFINE S == Stale(sessions, sweep[w].reference, SweepTtl)
  <1>1. \A s \in SessionIds : /\ s \in S => Exists(sessions, s) /\ ~Exists(sessions', s)
                              /\ s \notin S => sessions'[s] = sessions[s]
    BY DeleteManyRows DEF SweepDelete, IndInv, TypeOK, Stale
  <1>2. S \in SUBSET SessionIds
    BY DEF Stale
  <1>3. Unborn' = Unborn /\ now' = now
    BY DEF SweepDelete, Unborn
  <1>4. ASSUME NEW s \in S
        PROVE  \/ Life[s] = "revoked"
               \/ Life[s] = "active" /\ Deadline[s] <= now
    <2>1. CASE Live(sessions, s)
      <3>1. RefreshExpired(sessions[s].token)
        BY <1>1, <1>2, <2>1, SweptRows
      <3> QED
        BY <1>2, <2>1, <3>1 DEF Life, Deadline, Live, RefreshExpired
    <2>2. CASE ~Live(sessions, s)
      <3>1. sessions[s] \in Row /\ Exists(sessions, s)
        BY <1>1, <1>2 DEF IndInv, TypeOK, Table, Exists
      <3> QED
        BY <1>2, <2>2, <3>1 DEF Life, Live, Row
    <2> QED
      BY <2>1, <2>2
  <1>5. \A s \in S : Life'[s] = "absent" /\ Deadline'[s] = 0
    BY <1>1, <1>2 DEF Life, Deadline, Live
  <1> HIDE DEF S
  <1>6. \A s \in SessionIds \ S : Life'[s] = Life[s] /\ Deadline'[s] = Deadline[s]
    BY <1>1, SameRow
  <1>7. /\ Life' = [s \in SessionIds |-> IF s \in S THEN "absent" ELSE Life[s]]
        /\ Deadline' = [s \in SessionIds |-> IF s \in S THEN 0 ELSE Deadline[s]]
    BY <1>5, <1>6 DEF Life, Deadline
  <1>8. Ledger!Forget(S)
    BY <1>3, <1>4, <1>7 DEF Ledger!Forget
  <1> QED
    BY <1>2, <1>8 DEF Ledger!Next

LEMMA OpenStep ==
    ASSUME IndInv, NEW r \in Requests, LoginCreate(r)
    PROVE  Ledger!Next
  <1> DEFINE new == req[r].new
             s == new.sid
  <1>1. /\ new \in Token /\ s \in SessionIds /\ req[r].user \in Users
        /\ new.iat \in Nat /\ new.iat <= now /\ now \in Nat
        /\ minted[s] # 0
        /\ ~Exists(sessions, s)
        /\ \A x \in Requests \ {r} : req[x].pc = "loginCreate" => req[x].new.sid # s
    BY DEF LoginCreate, IndInv, TypeOK, RequestInv, DrawnIdInv, Minting, Token
  <1>2. /\ sessions' = Insert(sessions, s, req[r].user, new, now)
        /\ req' = [req EXCEPT ![r] = Idle]
        /\ UNCHANGED <<minted, now>>
    BY DEF LoginCreate, Answer
  <1> HIDE DEF new, s
  <1>3. /\ Live(sessions', s)
        /\ sessions'[s].token = new
        /\ \A x \in SessionIds \ {s} : sessions'[x] = sessions[x]
    BY <1>1, <1>2, InsertRows DEF IndInv, TypeOK
  <1>4. /\ req'[r].pc = "idle"
        /\ \A x \in Requests \ {r} : req'[x] = req[x]
    BY <1>2 DEF IndInv, TypeOK, Idle
  <1>5. s \in Unborn
    BY <1>1 DEF LoginCreate, Unborn, s, new
  <1>6. Unborn' = Unborn \ {s}
    BY <1>1, <1>2, <1>4 DEF Unborn, LoginCreate, s, new
  <1>7. Life[s] = "absent"
    BY <1>1 DEF Life
  <1>8. Life' = [Life EXCEPT ![s] = "active"]
    <2>1. Life'[s] = "active"
      BY <1>1, <1>3 DEF Life, Live
    <2>2. \A x \in SessionIds \ {s} : Life'[x] = Life[x]
      BY <1>3, SameRow
    <2> QED
      BY <2>1, <2>2 DEF Life
  <1>9. Deadline' = [Deadline EXCEPT ![s] = new.iat + RefreshTtl]
    <2>1. Deadline'[s] = new.iat + RefreshTtl
      BY <1>1, <1>3 DEF Deadline
    <2>2. \A x \in SessionIds \ {s} : Deadline'[x] = Deadline[x]
      BY <1>3, SameRow
    <2> QED
      BY <2>1, <2>2 DEF Deadline
  <1>10. new.iat + RefreshTtl \in 0..(now + RefreshTtl)
    BY <1>1, ConstantsAssumption
  <1>11. Ledger!Open(s)
    BY <1>2, <1>5, <1>6, <1>7, <1>8, <1>9, <1>10 DEF Ledger!Open
  <1> QED
    BY <1>1, <1>11 DEF Ledger!Next

LEMMA RenewStep ==
    ASSUME IndInv, NEW r \in Requests, RefreshStore(r)
    PROVE  Ledger!Next \/ UNCHANGED Ledger!vars
  <1> DEFINE new == req[r].new
             s == new.sid
  <1>1. /\ new \in Token /\ s \in SessionIds
        /\ new.iat \in Nat /\ new.iat <= now /\ now \in Nat
    BY DEF RefreshStore, IndInv, TypeOK, RequestInv, Minting, Token
  <1>2. /\ req' = [req EXCEPT ![r] = Idle]
        /\ UNCHANGED <<minted, now>>
    BY DEF RefreshStore, Answer
  <1>3. Unborn' = Unborn
    <2>1. \A x \in Requests : \/ req'[x] = req[x]
                              \/ req[x].pc # "loginCreate" /\ req'[x].pc # "loginCreate"
      BY <1>2 DEF RefreshStore, IndInv, TypeOK, Idle
    <2> QED
      BY <1>2, <2>1, SameUnborn
  <1>4. CASE sessions' = sessions
    BY <1>2, <1>3, <1>4 DEF Ledger!vars, Life, Deadline
  <1>5. CASE Exists(sessions, s)
    <2>1. sessions' = SetToken(sessions, s, new, now)
      BY <1>5 DEF RefreshStore
    <2> HIDE DEF new, s
    <2>2. /\ Exists(sessions', s)
          /\ sessions'[s].valid = sessions[s].valid
          /\ sessions'[s].token = new
          /\ \A x \in SessionIds \ {s} : sessions'[x] = sessions[x]
      BY <1>1, <1>5, <2>1, SetTokenRows DEF IndInv, TypeOK
    <2>3. Life' = Life
      <3>1. Life'[s] = Life[s]
        BY <1>1, <1>5, <2>2 DEF Life
      <3>2. \A x \in SessionIds \ {s} : Life'[x] = Life[x]
        BY <2>2, SameRow
      <3> QED
        BY <3>1, <3>2 DEF Life
    <2>4. \A x \in SessionIds \ {s} : Deadline'[x] = Deadline[x]
      BY <2>2, SameRow
    <2>5. CASE sessions[s].valid
      <3>1. Life[s] = "active"
        BY <1>1, <1>5, <2>5 DEF Life
      <3>2. Deadline' = [Deadline EXCEPT ![s] = new.iat + RefreshTtl]
        <4>1. Deadline'[s] = new.iat + RefreshTtl
          BY <1>1, <2>2, <2>5 DEF Deadline, Live
        <4> QED
          BY <2>4, <4>1 DEF Deadline
      <3>3. new.iat + RefreshTtl \in 0..(now + RefreshTtl)
        BY <1>1, ConstantsAssumption
      <3>4. Ledger!Renew(s)
        BY <1>2, <1>3, <2>3, <3>1, <3>2, <3>3 DEF Ledger!Renew
      <3> QED
        BY <1>1, <3>4 DEF Ledger!Next
    <2>6. CASE ~sessions[s].valid
      <3>1. Deadline'[s] = Deadline[s]
        BY <1>1, <2>2, <2>6 DEF Deadline, Live
      <3>2. Deadline' = Deadline
        BY <2>4, <3>1 DEF Deadline
      <3> QED
        BY <1>2, <1>3, <2>3, <3>2 DEF Ledger!vars
    <2> QED
      BY <2>5, <2>6
  <1> QED
    BY <1>4, <1>5 DEF RefreshStore

LEMMA FailStep ==
    ASSUME IndInv, NEW r \in Requests, Fail(r)
    PROVE  Ledger!Next \/ UNCHANGED Ledger!vars
  <1>1. /\ req' = [req EXCEPT ![r] = Idle]
        /\ UNCHANGED <<sessions, minted, now>>
    BY DEF Fail, Answer
  <1>2. Life' = Life /\ Deadline' = Deadline
    BY <1>1 DEF Life, Deadline
  <1>3. /\ req'[r].pc = "idle"
        /\ \A x \in Requests \ {r} : req'[x] = req[x]
    BY <1>1 DEF IndInv, TypeOK, Idle
  <1>4. CASE req[r].pc = "loginCreate"
    <2> DEFINE s == req[r].new.sid
    <2>1. /\ s \in SessionIds
          /\ minted[s] # 0
          /\ \A x \in Requests \ {r} : req[x].pc = "loginCreate" => req[x].new.sid # s
      BY <1>4 DEF IndInv, TypeOK, RequestInv, DrawnIdInv, Minting, Token
    <2>2. s \in Unborn
      BY <1>4, <2>1 DEF Unborn
    <2>3. Unborn' = Unborn \ {s}
      BY <1>1, <1>3, <1>4, <2>1 DEF Unborn
    <2> HIDE DEF s
    <2>4. Ledger!Discard(s)
      BY <1>1, <1>2, <2>2, <2>3 DEF Ledger!Discard
    <2> QED
      BY <2>1, <2>4 DEF Ledger!Next
  <1>5. CASE req[r].pc # "loginCreate"
    <2>1. Unborn' = Unborn
      BY <1>1, <1>3, <1>5, SameUnborn
    <2> QED
      BY <1>1, <1>2, <2>1 DEF Ledger!vars
  <1> QED
    BY <1>4, <1>5

\* Handlers that only remember something are stuttering steps of the ledger.
LEMMA CallStep ==
    ASSUME IndInv, NEW r \in Requests, Call(r) \/ RefreshMatch(r) \/ RefreshReuse(r)
                                           \/ LogoutAllAuth(r)
    PROVE  UNCHANGED Ledger!vars
  <1>1. UNCHANGED <<sessions, now>>
    BY NoRowWritten DEF Read
  <1>2. Life' = Life /\ Deadline' = Deadline
    BY <1>1 DEF Life, Deadline
  <1>3. req[r].pc # "loginCreate"
    BY DEF Call, LoginMint, RefreshLate, RefreshVerify, LogoutVerify, AuthVerify,
           RefreshMatch, RefreshReuse, LogoutAllAuth, Idling
  <1>4. ASSUME NEW u \in Users, NEW s \in SessionIds, LoginMint(r, u, s)
        PROVE  Unborn' = Unborn
    <2>1. /\ req'[r].pc = "loginCreate" /\ req'[r].new.sid = s
          /\ \A x \in Requests \ {r} : req'[x] = req[x]
          /\ minted[s] = 0
          /\ \A x \in SessionIds \ {s} : minted'[x] = minted[x]
      BY <1>4 DEF LoginMint, Await, Mint, NewToken, IndInv, TypeOK
    <2>2. s \in Unborn
      BY <2>1 DEF Unborn
    <2>3. s \in Unborn'
      BY <2>1 DEF Unborn
    <2>4. \A x \in SessionIds \ {s} : x \in Unborn' <=> x \in Unborn
      BY <1>3, <2>1 DEF Unborn
    <2> QED
      BY <2>2, <2>3, <2>4 DEF Unborn
  <1>5. ASSUME NEW t \in issued,
               RefreshLate(r, t) \/ RefreshVerify(r, t) \/ LogoutVerify(r, t) \/ AuthVerify(r, t)
        PROVE  Unborn' = Unborn
    <2>1. /\ req'[r].pc # "loginCreate" /\ minted' = minted
          /\ \A x \in Requests \ {r} : req'[x] = req[x]
      BY <1>5 DEF RefreshLate, RefreshVerify, LogoutVerify, AuthVerify, Await, IndInv, TypeOK
    <2> QED
      BY <1>3, <2>1, SameUnborn
  <1>6. ASSUME RefreshMatch(r) \/ RefreshReuse(r) \/ LogoutAllAuth(r)
        PROVE  Unborn' = Unborn
    <2>1. /\ req'[r].pc # "loginCreate"
          /\ \A x \in Requests \ {r} : req'[x] = req[x]
      BY <1>6 DEF RefreshMatch, RefreshReuse, LogoutAllAuth, Await, IndInv, TypeOK
    <2>2. req[r].tok.sid \in SessionIds
      BY <1>6 DEF RefreshMatch, RefreshReuse, LogoutAllAuth, IndInv, TypeOK, RequestInv, Token
    <2>3. \A s \in SessionIds : minted'[s] = 0 <=> minted[s] = 0
      BY <1>6, <2>2
      DEF RefreshMatch, RefreshReuse, LogoutAllAuth, Mint, Live, IndInv, TypeOK, RowInv
    <2> QED
      BY <1>3, <2>1, <2>3, SameUnborn
  <1> QED
    BY <1>1, <1>2, <1>4, <1>5, <1>6 DEF Call, Ledger!vars

LEMMA LedgerNext ==
    ASSUME SweepTtl >= RefreshTtl, IndInv, [Next]_vars
    PROVE  Ledger!Next \/ UNCHANGED Ledger!vars
  <1>1. CASE Tick
    BY <1>1 DEF Tick, Ledger!Next, Ledger!Tick, Unborn, Life, Deadline
  <1>3. ASSUME NEW r \in Requests, Call(r) \/ RefreshMatch(r) \/ RefreshReuse(r)
                                       \/ LogoutAllAuth(r)
        PROVE  UNCHANGED Ledger!vars
    BY <1>3, CallStep
  <1>4. ASSUME NEW r \in Requests,
               RevokeExpired(r) \/ RevokeReuse(r) \/ Logout(r) \/ LogoutAll(r)
        PROVE  Ledger!Next
    <2>1. \A x \in Requests : \/ req'[x] = req[x]
                              \/ req[x].pc # "loginCreate" /\ req'[x].pc # "loginCreate"
      BY <1>4 DEF RevokeExpired, RevokeReuse, Logout, LogoutAll, Answer, IndInv, TypeOK, Idle
    <2>2. Unborn' = Unborn /\ now' = now
      BY <1>4, <2>1, SameUnborn DEF RevokeExpired, RevokeReuse, Logout, LogoutAll
    <2>3. OfUser(sessions, req[r].user) \in SUBSET SessionIds
      BY DEF OfUser
    <2>4. req[r].pc \in {"revokeExpired", "logout"} => {req[r].tok.sid} \in SUBSET SessionIds
      BY DEF IndInv, TypeOK, RequestInv, Token
    <2> QED
      BY <1>4, <2>2, <2>3, <2>4, RevokeStep DEF RevokeExpired, RevokeReuse, Logout, LogoutAll
  <1>5. ASSUME NEW w \in Sweepers, SweepStart(w) \/ SweepFail(w)
        PROVE  UNCHANGED Ledger!vars
    BY <1>5 DEF SweepStart, SweepFail, Ledger!vars, Unborn, Life, Deadline
  <1>6. CASE UNCHANGED vars
    BY <1>6 DEF vars, Ledger!vars, Unborn, Life, Deadline
  <1> QED
    BY <1>1, <1>3, <1>4, <1>5, <1>6, OpenStep, RenewStep, FailStep, ForgetStep, RefusedFails
    DEF Next, Settle, Read, Write, Sweep

\* Sessions implements the ledger: under every interleaving a session is opened
\* at most once, a revoked session never works again, and the store forgets a
\* session only when it is revoked or its refresh token has expired.
THEOREM Refinement ==
    ASSUME SweepTtl >= RefreshTtl
    PROVE  Spec => ImplementsLedger
  <1>1. IndInv /\ [Next]_vars => [Ledger!Next]_Ledger!vars
    BY LedgerNext
  <1> QED
    BY <1>1, LedgerInit, Invariance, PTL DEF Spec, ImplementsLedger, Ledger!Spec

-----------------------------------------------------------------------------
(* A request writes only rows of the user it authenticated.                *)

LEMMA OwnRows ==
    ASSUME IndInv, [Next]_vars, NEW r \in Requests, NEW s \in SessionIds,
           req'[r] # req[r], sessions'[s] # sessions[s]
    PROVE  Principal(r) \in {Owner(sessions, s), Owner(sessions', s)}
  <1>1. sessions \in Table /\ now \in Nat
    BY DEF IndInv, TypeOK
  <1>2. ASSUME NEW x \in Requests, Write(x) PROVE x = r
    BY <1>2
    DEF Write, LoginCreate, RevokeExpired, RefreshStore, RevokeReuse, Logout, LogoutAll,
        Answer, IndInv, TypeOK
  <1>3. Write(r)
    BY <1>2, NoRowWritten
    DEF Next, vars, Tick, Settle, Sweep, SweepStart, SweepDelete, SweepFail
  <1>4. ASSUME NEW S, sessions' = Invalidate(sessions, S, now)
        PROVE  s \in S /\ Exists(sessions, s)
    <2>1. s \in S
      BY <1>1, <1>4, InvalidateRows
    <2>2. Exists(sessions, s)
      BY <1>1, <1>4 DEF Invalidate, Table
    <2> QED
      BY <2>1, <2>2
  <1>5. req[r].tok \in issued => req[r].tok # NoToken
    BY NoTokenAssumption DEF IndInv, TypeOK
  <1>6. CASE LoginCreate(r)
    <2>1. /\ req[r].new \in Token /\ req[r].new.sid \in SessionIds
          /\ req[r].user \in Users /\ req[r].tok = NoToken
      BY <1>6 DEF LoginCreate, IndInv, RequestInv, Minting, Token
    <2>2. Owner(sessions', s) = req[r].user
      BY <1>1, <1>6, <2>1, InsertRows DEF LoginCreate, Owner, Live
    <2> QED
      BY <2>1, <2>2 DEF Principal
  <1>7. CASE RefreshStore(r)
    <2>1. /\ req[r].new \in Token /\ req[r].new.sid \in SessionIds
          /\ req[r].tok \in issued
          /\ req[r].tok.sid = req[r].new.sid
      BY <1>7 DEF RefreshStore, IndInv, RequestInv, Minting, Token
    <2>2. s = req[r].new.sid /\ Exists(sessions, s)
      BY <1>1, <1>7, <2>1, SetTokenRows DEF RefreshStore
    <2> QED
      BY <1>5, <2>1, <2>2 DEF Principal, Owner, IndInv, IssuedInv
  <1>8. CASE RevokeExpired(r) \/ Logout(r)
    <2>1. s = req[r].tok.sid /\ Exists(sessions, s) /\ req[r].tok \in issued
      BY <1>4, <1>8 DEF RevokeExpired, Logout, IndInv, RequestInv
    <2> QED
      BY <1>5, <2>1 DEF Principal, Owner, IndInv, IssuedInv
  <1>9. CASE RevokeReuse(r) \/ LogoutAll(r)
    <2>1. /\ s \in OfUser(sessions, req[r].user)
          /\ req[r].tok \in issued /\ req[r].user = req[r].tok.sub
      BY <1>4, <1>9 DEF RevokeReuse, LogoutAll, IndInv, RequestInv
    <2> QED
      BY <1>5, <2>1 DEF OfUser, Principal, Owner
  <1> QED
    BY <1>3, <1>6, <1>7, <1>8, <1>9 DEF Write

\* No request ever writes a session of another user.
THEOREM OwnSessionsOnly == Spec => ActsForItsUser
  <1>1. IndInv /\ [Next]_vars =>
           [\A r \in Requests, s \in SessionIds :
              req'[r] # req[r] /\ sessions'[s] # sessions[s]
                => Principal(r) \in {Owner(sessions, s), Owner(sessions', s)}]_vars
    BY OwnRows
  <1> QED
    BY <1>1, Invariance, PTL DEF Spec, ActsForItsUser
=============================================================================
