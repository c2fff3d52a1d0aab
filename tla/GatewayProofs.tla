--------------------------- MODULE GatewayProofs ---------------------------
(***************************************************************************)
(* Proofs about Gateway for every number of origins, amounts, users and    *)
(* scripts.                                                                *)
(***************************************************************************)
EXTENDS Gateway, TLAPS

\* What the start has made sure of.
ConfigInv ==
    phase = "up" /\ cfg.prod =>
        /\ cfg.mounted => cfg.guard # "none"
        /\ cfg.guard = "secret" => cfg.expected = "text"
        /\ cfg.origins # {}

\* What the rest of a suspended handler relies on.
PendingInv ==
    LET c == request.caller
    IN  request.stage # "idle" =>
           /\ phase = "up"
           /\ c \in Calls
           /\ OriginAllowed(c.origin)
           /\ c.user \in Users =>
                 /\ roles[c.user] \in request.rolesSeen
                 /\ valid[c.user] => request.wasValid
           /\ request.stage # "limiter" => c.path \in {"adminPing", "userById"} /\ c.user \in Users
           /\ request.stage \in {"session", "resource"} => request.role \in request.rolesSeen
           /\ request.stage = "resource" => request.wasValid /\ c.path = "userById"

\* What a script at its update relies on.
ScriptInv == \A k \in Scripts : scripts[k].stage = "update" => scripts[k].user \in Users

IndInv ==
    /\ TypeOK
    /\ SecondCheckIdle
    /\ ConfigInv
    /\ PendingInv
    /\ ScriptInv

-----------------------------------------------------------------------------
(* The start.                                                              *)

\* What the schema and its refinement let through.
LEMMA AcceptedEnv ==
    ASSUME NEW e \in Env, Accepted(e)
    PROVE  /\ e.guard = "secret" => e.secret = "text"
           /\ e.nodeEnv = "production" =>
                 /\ e.metrics => e.guard # "none"
                 /\ e.origins # {}
                 /\ e.redisUrl = "url"
  <1>1. ~(~e.rest \/ e.redisUrl = "notUrl") /\ SecretIssues(e) = {} /\ AllowlistIssues(e) = {}
    BY DEF Accepted, Issues
  <1>2. \A b, x : If(b, x) = {} => ~b
    BY DEF If
  <1>3. e.guard = "secret" => e.secret = "text"
    BY <1>1, <1>2 DEF SecretIssues
  <1>4. e.guard = "cidr" => e.allowlist = "valid"
    BY <1>1, <1>2 DEF AllowlistIssues
  <1>5. e.nodeEnv = "production" => ProductionIssues(e) = {}
    BY <1>1, <1>4 DEF Accepted, Issues
  <1>6. ProductionIssues(e) = {} =>
           ~(e.metrics /\ e.guard = "none") /\ e.origins # {} /\ e.redisUrl = "url"
    BY <1>2 DEF ProductionIssues
  <1> QED
    BY <1>3, <1>5, <1>6

LEMMA ConfigTyped ==
    ASSUME NEW e \in Env
    PROVE  ConfigOf(e) \in AppConfig
  BY DEF ConfigOf, AppConfig, Env

LEMMA BootInv == IndInv /\ Boot => IndInv'
  <1> SUFFICES ASSUME IndInv, Boot PROVE IndInv'
    OBVIOUS
  <1>1. phase = "boot" /\ env \in Env /\ request.stage = "idle"
    BY DEF Boot, IndInv, TypeOK, PendingInv
  <1>2. UNCHANGED <<roles, valid, request, scripts>> /\ env' = NoEnv
    BY DEF Boot
  <1>3. CASE ~Accepted(env)
    <2>1. phase' = "refused" /\ cfg' = cfg
      BY <1>3 DEF Boot
    <2> QED
      BY <1>1, <1>2, <2>1 DEF IndInv, TypeOK, SecondCheckIdle, ConfigInv, PendingInv, ScriptInv
  <1>4. CASE Accepted(env)
    <2>1. cfg' = ConfigOf(env)
          /\ phase' = IF cfg'.prod /\ StoreOf(env) = "memory" THEN "misconfigured" ELSE "up"
      BY <1>4 DEF Boot
    <2>2. /\ cfg'.prod = (env.nodeEnv = "production") /\ cfg'.guard = env.guard
          /\ cfg'.expected = IF env.secret = "text" THEN "text" ELSE "empty"
          /\ cfg'.mounted = (env.nodeEnv # "production" \/ env.metrics)
          /\ cfg'.origins = env.origins
      BY <2>1 DEF ConfigOf
    <2>3. cfg' \in AppConfig
      BY <1>1, <2>1, ConfigTyped
    <2>4. phase' = "up"
      BY <1>1, <1>4, <2>1, <2>2, AcceptedEnv DEF StoreOf
    <2>5. ConfigInv'
      BY <1>1, <1>4, <2>2, AcceptedEnv DEF ConfigInv
    <2> QED
      BY <1>1, <1>2, <2>3, <2>4, <2>5 DEF IndInv, TypeOK, SecondCheckIdle, PendingInv, ScriptInv
  <1> QED
    BY <1>3, <1>4

\* The cleanup takes a lifetime for shorter than it is exactly when it is in years.
LEMMA SweepShorter ==
    ASSUME NEW e \in Expiry
    PROVE  SweepTtl(e) < TokenTtl(e) <=> e.unit = "y"
  <1>1. e.amount \in Nat \ {0} /\ e.unit \in Units
    BY AmountsAssumption DEF Expiry
  <1>2. CASE e.unit \in {"bare", "ms"}
    BY <1>1, <1>2 DEF SweepTtl, TokenTtl, SweepSeconds
  <1>3. CASE e.unit \in {"s", "m", "h", "d", "w"}
    <2>1. SweepSeconds[e.unit] = TokenSeconds[e.unit] /\ TokenSeconds[e.unit] \in Nat
      BY <1>3 DEF SweepSeconds, TokenSeconds
    <2>2. SweepTtl(e) = e.amount * TokenSeconds[e.unit] /\ TokenTtl(e) = SweepTtl(e)
      BY <1>3, <2>1 DEF SweepTtl, TokenTtl
    <2> QED
      BY <1>1, <1>3, <2>1, <2>2
  <1>4. CASE e.unit = "y"
    <2>1. SweepTtl(e) = e.amount * 31536000 /\ TokenTtl(e) = e.amount * 31557600
      BY <1>4 DEF SweepTtl, TokenTtl, SweepSeconds, TokenSeconds
    <2> QED
      BY <1>1, <1>4, <2>1
  <1> QED
    BY <1>1, <1>2, <1>3, <1>4 DEF Units

-----------------------------------------------------------------------------
(* Requests.                                                               *)

LEMMA Codes ==
    /\ StatusOf("VALIDATION") = 400 /\ StatusOf("json") = 400 /\ StatusOf("tooLarge") = 413
    /\ StatusOf("CORS_ORIGIN_FORBIDDEN") = 403 /\ StatusOf("UNAUTHORIZED") = 401
    /\ StatusOf("SESSION_INVALID") = 401 /\ StatusOf("FORBIDDEN") = 403
    /\ StatusOf("USER_NOT_FOUND") = 404 /\ StatusOf("unexpected") = 500
  BY DEF StatusOf

Status == {0, 200, 400, 401, 403, 404, 413, 429, 500}

\* A request that is through.
LEMMA AnswerInv ==
    ASSUME IndInv, NEW status \in Status, Answer(status),
           UNCHANGED <<env, cfg, phase, roles, valid, scripts>>
    PROVE  IndInv'
  <1>1. IdleRequest(status) \in Request
    BY UsersAssumption DEF IdleRequest, SomeCaller, Request, Caller, Role, Status
  <1>2. request' \in Request /\ request'.stage = "idle"
    BY <1>1 DEF Answer, IdleRequest
  <1> QED
    BY <1>2 DEF IndInv, TypeOK, SecondCheckIdle, ConfigInv, PendingInv, ScriptInv

\* A request that goes on.
LEMMA GoOnInv ==
    ASSUME IndInv, UNCHANGED <<env, cfg, phase, roles, valid, scripts>>,
           request' \in Request, PendingInv'
    PROVE  IndInv'
  BY DEF IndInv, TypeOK, SecondCheckIdle, ConfigInv, ScriptInv

LEMMA ArriveInv ==
    ASSUME IndInv, NEW c \in Calls, Arrive(c)
    PROVE  IndInv'
  <1>1. UNCHANGED <<env, cfg, phase, roles, valid, scripts>> /\ phase = "up"
    BY DEF Arrive
  <1>2. \/ \E status \in Status : Answer(status)
        \/ /\ OriginAllowed(c.origin)
           /\ request' = [stage |-> "limiter", status |-> 0, caller |-> c, role |-> "USER",
                          rolesSeen |-> IF c.user = NoUser THEN {} ELSE {roles[c.user]},
                          wasValid |-> c.user # NoUser /\ valid[c.user]]
    BY Codes DEF Arrive, Status
  <1>3. ASSUME OriginAllowed(c.origin),
               request' = [stage |-> "limiter", status |-> 0, caller |-> c, role |-> "USER",
                           rolesSeen |-> IF c.user = NoUser THEN {} ELSE {roles[c.user]},
                           wasValid |-> c.user # NoUser /\ valid[c.user]]
        PROVE  IndInv'
    <2>1. c \in Caller /\ c.user \in Users \cup {NoUser}
      BY DEF Calls, Caller
    <2>2. (IF c.user = NoUser THEN {} ELSE {roles[c.user]}) \in SUBSET Role
      BY <2>1 DEF IndInv, TypeOK
    <2>3. (c.user # NoUser /\ valid[c.user]) \in BOOLEAN
      OBVIOUS
    <2>4. request' \in Request
      BY <1>3, <2>1, <2>2, <2>3 DEF Request, Role
    <2>5. PendingInv'
      <3>1. /\ request'.stage = "limiter" /\ request'.caller = c
            /\ request'.rolesSeen = IF c.user = NoUser THEN {} ELSE {roles[c.user]}
            /\ request'.wasValid = (c.user # NoUser /\ valid[c.user])
        BY <1>3
      <3>2. OriginAllowed(c.origin)'
        BY <1>1, <1>3 DEF OriginAllowed
      <3> QED
        BY <1>1, <2>1, <3>1, <3>2, UsersAssumption DEF PendingInv, OriginAllowed
    <2> QED
      BY <1>1, <2>4, <2>5, GoOnInv
  <1> QED
    BY <1>1, <1>2, <1>3, AnswerInv

LEMMA RouteInv ==
    ASSUME IndInv, Route
    PROVE  IndInv'
  <1>1. UNCHANGED <<env, cfg, phase, roles, valid, scripts>> /\ request.stage = "limiter"
    BY DEF Route
  <1>2. \/ \E status \in Status : Answer(status)
        \/ /\ request.caller.path \in {"adminPing", "userById"} /\ request.caller.user # NoUser
           /\ request' = [request EXCEPT !.stage = "user"]
    <2>1. GuardStatus \in Status
      BY DEF GuardStatus, Status
    <2> QED
      BY <2>1, Codes DEF Route, Status
  <1>3. ASSUME request.caller.path \in {"adminPing", "userById"}, request.caller.user # NoUser,
               request' = [request EXCEPT !.stage = "user"]
        PROVE  IndInv'
    <2>1. /\ request' \in Request /\ request'.stage = "user" /\ request'.caller = request.caller
          /\ request'.rolesSeen = request.rolesSeen /\ request'.wasValid = request.wasValid
          /\ request.caller.user \in Users
      BY <1>3 DEF IndInv, TypeOK, Request, Caller
    <2>2. PendingInv'
      BY <1>1, <1>3, <2>1 DEF IndInv, PendingInv, OriginAllowed
    <2> QED
      BY <1>1, <2>1, <2>2, GoOnInv
  <1> QED
    BY <1>1, <1>2, <1>3, AnswerInv

LEMMA UserRead ==
    ASSUME IndInv, ReadUser
    PROVE  /\ request' \in Request /\ request'.stage = "session"
           /\ request'.caller = request.caller
           /\ request'.rolesSeen = request.rolesSeen /\ request'.wasValid = request.wasValid
           /\ request'.role = roles[request.caller.user]
           /\ request.caller.user \in Users
  <1>1. PICK u \in Users : u = request.caller.user
    BY DEF ReadUser, IndInv, PendingInv
  <1>2. PICK role \in Role : role = roles[u]
    BY DEF IndInv, TypeOK
  <1>3. PICK q : q = [request EXCEPT !.stage = "session"]
    OBVIOUS
  <1>4. /\ q \in Request /\ q.stage = "session" /\ q.caller = request.caller
        /\ q.rolesSeen = request.rolesSeen /\ q.wasValid = request.wasValid
    BY <1>3 DEF IndInv, TypeOK, Request
  <1>5. request' = [q EXCEPT !.role = role]
    BY <1>1, <1>2, <1>3 DEF ReadUser
  <1> QED
    BY <1>1, <1>2, <1>4, <1>5 DEF Request

LEMMA ReadUserInv ==
    ASSUME IndInv, ReadUser
    PROVE  IndInv'
  <1>1. UNCHANGED <<env, cfg, phase, roles, valid, scripts>> /\ request.stage = "user"
    BY DEF ReadUser
  <1>2. PendingInv'
    BY <1>1, UserRead DEF IndInv, PendingInv, OriginAllowed
  <1> QED
    BY <1>1, <1>2, UserRead, GoOnInv

LEMMA ReadSessionInv ==
    ASSUME IndInv, ReadSession
    PROVE  IndInv'
  <1>1. UNCHANGED <<env, cfg, phase, roles, valid, scripts>> /\ request.stage = "session"
    BY DEF ReadSession
  <1>2. \/ \E status \in Status : Answer(status)
        \/ /\ request.caller.path = "userById" /\ valid[request.caller.user]
           /\ request' = [request EXCEPT !.stage = "resource"]
    BY Codes DEF ReadSession, AdminPing, Status
  <1>3. ASSUME request.caller.path = "userById", valid[request.caller.user],
               request' = [request EXCEPT !.stage = "resource"]
        PROVE  IndInv'
    <2>1. /\ request' \in Request /\ request'.stage = "resource" /\ request'.caller = request.caller
          /\ request'.rolesSeen = request.rolesSeen /\ request'.wasValid = request.wasValid
          /\ request'.role = request.role
      BY <1>3 DEF IndInv, TypeOK, Request
    <2>2. PendingInv'
      BY <1>1, <1>3, <2>1 DEF IndInv, PendingInv, OriginAllowed
    <2> QED
      BY <1>1, <2>1, <2>2, GoOnInv
  <1> QED
    BY <1>1, <1>2, <1>3, AnswerInv

LEMMA LastInv ==
    ASSUME IndInv, ReadResource \/ Fail
    PROVE  IndInv'
  <1>1. /\ UNCHANGED <<env, cfg, phase, roles, valid, scripts>>
        /\ \E status \in Status : Answer(status)
    BY Codes DEF ReadResource, Fail, Status
  <1> QED
    BY <1>1, AnswerInv

-----------------------------------------------------------------------------
(* Others.                                                                 *)

LEMMA RevokeInv ==
    ASSUME IndInv, NEW u \in Users, Revoke(u)
    PROVE  IndInv'
  <1>1. UNCHANGED <<env, cfg, phase, roles, request, scripts>>
        /\ valid' = [valid EXCEPT ![u] = FALSE]
    BY DEF Revoke
  <1>2. valid' \in [Users -> BOOLEAN] /\ \A i \in Users : valid'[i] => valid[i]
    BY <1>1 DEF IndInv, TypeOK
  <1>3. PendingInv'
    BY <1>1, <1>2 DEF IndInv, PendingInv, OriginAllowed
  <1> QED
    BY <1>1, <1>2, <1>3 DEF IndInv, TypeOK, SecondCheckIdle, ConfigInv, ScriptInv

LEMMA ScriptReadInv ==
    ASSUME IndInv, NEW k \in Scripts, NEW u \in Users, NEW role \in Role, ScriptRead(k, u, role)
    PROVE  IndInv'
  <1>1. UNCHANGED <<env, cfg, phase, roles, valid, request>>
    BY DEF ScriptRead
  <1>2. Exited("done") \in Script /\ Exited("done").stage = "done"
    BY DEF Exited, Script, Role
  <1>3. [stage |-> "update", user |-> u, wanted |-> role] \in Script
    BY DEF IndInv, TypeOK, Script
  <1>4. scripts' \in [Scripts -> Script] /\ ScriptInv'
    BY <1>2, <1>3 DEF ScriptRead, IndInv, TypeOK, ScriptInv
  <1> QED
    BY <1>1, <1>4 DEF IndInv, TypeOK, SecondCheckIdle, ConfigInv, PendingInv, OriginAllowed

LEMMA ScriptUpdateInv ==
    ASSUME IndInv, NEW k \in Scripts, ScriptUpdate(k)
    PROVE  IndInv'
  <1>1. PICK u \in Users : u = scripts[k].user
    BY DEF ScriptUpdate, IndInv, ScriptInv
  <1>2. PICK role \in Role : role = scripts[k].wanted
    BY DEF IndInv, TypeOK, Script
  <1>3. /\ roles' = [roles EXCEPT ![u] = role]
        /\ scripts' = [scripts EXCEPT ![k] = Exited("done")]
        /\ request' = [request EXCEPT !.rolesSeen =
                          IF request.caller.user = u THEN @ \cup {role} ELSE @]
        /\ UNCHANGED <<env, cfg, phase, valid>>
    BY <1>1, <1>2 DEF ScriptUpdate
  <1>4. roles' \in [Users -> Role] /\ \A i \in Users : roles'[i] = IF i = u THEN role ELSE roles[i]
    BY <1>3 DEF IndInv, TypeOK
  <1>5. scripts' \in [Scripts -> Script] /\ ScriptInv'
    <2>1. Exited("done") \in Script /\ Exited("done").stage = "done"
      BY DEF Exited, Script, Role
    <2> QED
      BY <1>3, <2>1 DEF IndInv, TypeOK, ScriptInv
  <1>6. /\ request' \in Request /\ request'.stage = request.stage
        /\ request'.caller = request.caller /\ request'.wasValid = request.wasValid
        /\ request'.role = request.role
        /\ request'.rolesSeen = IF request.caller.user = u THEN request.rolesSeen \cup {role}
                                ELSE request.rolesSeen
    BY <1>3 DEF IndInv, TypeOK, Request
  <1>7. PendingInv'
    BY <1>3, <1>4, <1>6 DEF IndInv, PendingInv, OriginAllowed
  <1> QED
    BY <1>3, <1>4, <1>5, <1>6, <1>7 DEF IndInv, TypeOK, SecondCheckIdle, ConfigInv

LEMMA ScriptFailInv ==
    ASSUME IndInv, NEW k \in Scripts, ScriptFail(k)
    PROVE  IndInv'
  <1>1. UNCHANGED <<env, cfg, phase, roles, valid, request>>
    BY DEF ScriptFail
  <1>2. Exited("failed") \in Script /\ Exited("failed").stage = "failed"
    BY DEF Exited, Script, Role
  <1>3. scripts' \in [Scripts -> Script] /\ ScriptInv'
    BY <1>2 DEF ScriptFail, IndInv, TypeOK, ScriptInv
  <1> QED
    BY <1>1, <1>3 DEF IndInv, TypeOK, SecondCheckIdle, ConfigInv, PendingInv, OriginAllowed

LEMMA InitInv == Init => IndInv
  <1> SUFFICES ASSUME Init PROVE IndInv
    OBVIOUS
  <1>1. IdleRequest(0) \in Request /\ IdleRequest(0).stage = "idle"
    BY DEF IdleRequest, SomeCaller, Request, Caller, Role
  <1>2. Exited("done") \in Script /\ Exited("done").stage = "done"
    BY DEF Exited, Script, Role
  <1> QED
    BY <1>1, <1>2 DEF Init, IndInv, TypeOK, SecondCheckIdle, ConfigInv, PendingInv, ScriptInv

LEMMA NextInv == IndInv /\ [Next]_vars => IndInv'
  <1>1. IndInv /\ UNCHANGED vars => IndInv'
    BY DEF vars, IndInv, TypeOK, SecondCheckIdle, ConfigInv, PendingInv, OriginAllowed, ScriptInv
  <1> QED
    BY <1>1, BootInv, ArriveInv, RouteInv, ReadUserInv, ReadSessionInv, LastInv, RevokeInv,
       ScriptReadInv, ScriptUpdateInv, ScriptFailInv DEF Next

THEOREM Invariance == Spec => []IndInv
  <1> QED
    BY InitInv, NextInv, PTL DEF Spec

\* Everything has its type, in every behaviour.
THEOREM TypeCorrect == Spec => []TypeOK
  <1>1. IndInv => TypeOK
    BY DEF IndInv
  <1> QED
    BY <1>1, Invariance, PTL

\* The check of the Redis URL in registerSecurity finds nothing that the schema let by.
THEOREM NoReplicaAlone == Spec => []SecondCheckIdle
  <1>1. IndInv => SecondCheckIdle
    BY DEF IndInv
  <1> QED
    BY <1>1, Invariance, PTL

-----------------------------------------------------------------------------
(* The action properties.                                                  *)

\* How a request gets its answer.
LEMMA AnswerSteps ==
    ASSUME IndInv, [Next]_vars, Answered
    PROVE  Route \/ ReadSession \/ ReadResource \/ Fail
  <1>1. request.stage # "idle" /\ request'.stage = "idle" /\ phase = "up"
    BY DEF Answered, IndInv, PendingInv
  <1>2. ~Boot /\ ~(\E c \in Calls : Arrive(c)) /\ ~UNCHANGED request
    BY <1>1 DEF Boot, Arrive
  <1>3. ~ReadUser
    BY <1>1, UserRead
  <1>4. ASSUME NEW k \in Scripts, ScriptUpdate(k) PROVE FALSE
    BY <1>1, <1>4 DEF ScriptUpdate, IndInv, TypeOK, Request
  <1> QED
    BY <1>2, <1>3, <1>4 DEF Next, vars, Revoke, ScriptRead, ScriptFail

LEMMA RoleRead ==
    ASSUME IndInv, request.stage \in {"session", "resource"}
    PROVE  request.role \in request.rolesSeen /\ request.role \in {"ADMIN", "USER"}
  <1>1. request.role \in request.rolesSeen
    BY DEF IndInv, PendingInv
  <1>2. request.role \in Role
    BY DEF IndInv, TypeOK, Request
  <1> QED
    BY <1>1, <1>2 DEF Role

LEMMA AnswerIs ==
    ASSUME NEW status, Answer(status)
    PROVE  request'.status = status
  BY DEF Answer, IdleRequest

\* In production the metrics and the routes are closed to strangers, whatever the
\* service was configured with.
THEOREM FailsClosed == Spec => ProductionFailsClosed
  <1>1. ASSUME IndInv, [Next]_vars, Answered, cfg.prod
        PROVE  LET c == request.caller
               IN  /\ c.path = "metrics" /\ request'.status = 200 =>
                         \/ c.header = "right"
                         \/ cfg.guard = "cidr" /\ c.inside
                   /\ c.origin \in cfg.origins \cup {"none"}
    <2> DEFINE c == request.caller
    <2>1. OriginAllowed(c.origin) /\ phase = "up"
      BY <1>1 DEF IndInv, PendingInv, Answered
    <2>2. c.origin \in cfg.origins \cup {"none"}
      BY <1>1, <2>1 DEF OriginAllowed
    <2>3. ASSUME c.path = "metrics", request'.status = 200
          PROVE  c.header = "right" \/ (cfg.guard = "cidr" /\ c.inside)
      <3>1. Route
        BY <1>1, <2>3, AnswerSteps DEF ReadSession, ReadResource, Fail, IndInv, PendingInv
      <3>2. cfg.mounted /\ MayScrape(c)
        BY <2>3, <3>1, AnswerIs, Codes DEF Route, GuardStatus
      <3>3. cfg.guard \in {"secret", "cidr"} /\ (cfg.guard = "secret" => cfg.expected = "text")
        BY <1>1, <2>1, <3>2 DEF IndInv, ConfigInv, TypeOK, AppConfig
      <3>4. c.inside \in BOOLEAN
        BY <1>1 DEF IndInv, TypeOK, Request, Caller
      <3>5. CASE cfg.guard = "secret"
        BY <3>2, <3>3, <3>5 DEF MayScrape
      <3>6. CASE cfg.guard = "cidr"
        BY <3>2, <3>4, <3>6 DEF MayScrape
      <3> QED
        BY <3>3, <3>5, <3>6
    <2> QED
      BY <2>2, <2>3
  <1>2. IndInv /\ [Next]_vars =>
           [Answered /\ cfg.prod =>
              LET c == request.caller
              IN  /\ c.path = "metrics" /\ request'.status = 200 =>
                        \/ c.header = "right"
                        \/ cfg.guard = "cidr" /\ c.inside
                  /\ c.origin \in cfg.origins \cup {"none"}]_vars
    BY <1>1
  <1> QED
    BY <1>2, Invariance, PTL DEF Spec, ProductionFailsClosed

\* Whatever is revoked and whoever is promoted while requireAuth waits, its answer is
\* right for some moment of the request.
THEOREM EveryAnswerJustified == Spec => AnswersJustified
  <1>1. ASSUME IndInv, [Next]_vars, Answered, request.caller.user # NoUser
        PROVE  LET c == request.caller
               IN  /\ request'.status = 200 =>
                         request.wasValid /\ (c.target = c.user \/ "ADMIN" \in request.rolesSeen)
                   /\ request'.status = 401 => ~valid[c.user]
                   /\ request'.status = 403 =>
                         c.target # c.user /\ "USER" \in request.rolesSeen
    <2> DEFINE c == request.caller
    <2>1. /\ c \in Calls /\ c.user \in Users /\ c.path \in {"adminPing", "userById"}
          /\ valid[c.user] => request.wasValid
      BY <1>1 DEF Answered, IndInv, PendingInv, Calls, Caller
    <2>2. c.path = "adminPing" => c.target # c.user
      BY <2>1, UsersAssumption DEF Calls
    <2>3. CASE Route
      <3>1. request' # [request EXCEPT !.stage = "user"]
        BY <1>1 DEF Answered, IndInv, TypeOK, Request
      <3>2. Answer(429) \/ Answer(500)
        BY <1>1, <2>1, <2>3, <3>1, Codes DEF Route
      <3> QED
        BY <3>2, AnswerIs
    <2>4. CASE Fail
      BY <2>4, AnswerIs, Codes DEF Fail
    <2>5. CASE ReadSession
      <3>1. /\ request.stage = "session" /\ request.role \in request.rolesSeen
            /\ request.role \in {"ADMIN", "USER"}
        BY <1>1, <2>5, RoleRead DEF ReadSession
      <3>2. CASE ~valid[c.user]
        BY <2>5, <3>2, AnswerIs, Codes DEF ReadSession
      <3>3. CASE valid[c.user] /\ c.path = "adminPing"
        BY <2>1, <2>2, <2>5, <3>1, <3>3, AnswerIs, Codes DEF ReadSession, AdminPing
      <3>4. CASE valid[c.user] /\ c.path = "userById"
        <4>1. request' # [request EXCEPT !.stage = "resource"]
          BY <1>1 DEF Answered, IndInv, TypeOK, Request
        <4> QED
          BY <2>5, <3>4, <4>1, AnswerIs, Codes DEF ReadSession
      <3> QED
        BY <2>1, <3>2, <3>3, <3>4
    <2>6. CASE ReadResource
      <3>1. /\ request.stage = "resource" /\ request.role \in request.rolesSeen
            /\ request.role \in {"ADMIN", "USER"} /\ request.wasValid
        BY <1>1, <2>6, RoleRead DEF ReadResource, IndInv, PendingInv
      <3> QED
        BY <2>6, <3>1, AnswerIs, Codes DEF ReadResource
    <2> QED
      BY <1>1, <2>3, <2>4, <2>5, <2>6, AnswerSteps
  <1>2. IndInv /\ [Next]_vars =>
           [LET c == request.caller
            IN  Answered /\ c.user # NoUser =>
                   /\ request'.status = 200 =>
                         request.wasValid /\ (c.target = c.user \/ "ADMIN" \in request.rolesSeen)
                   /\ request'.status = 401 => ~valid[c.user]
                   /\ request'.status = 403 =>
                         c.target # c.user /\ "USER" \in request.rolesSeen]_vars
    BY <1>1
  <1> QED
    BY <1>2, Invariance, PTL DEF Spec, AnswersJustified

\* For every amount, the lifetime by which the cleanup goes is shorter than that of the
\* refresh token if it is given in years, and in no other unit.
THEOREM SweepShortInYears == Spec => OnlyYearsFallShort
  <1>1. ASSUME IndInv, phase = "boot"
        PROVE  SweepTtl(env.expiry) < TokenTtl(env.expiry) <=> env.expiry.unit = "y"
    <2>1. env.expiry \in Expiry
      BY <1>1 DEF IndInv, TypeOK, Env
    <2> QED
      BY <1>1, <2>1, SweepShorter
  <1>2. IndInv /\ [Next]_vars =>
           [phase = "boot" /\ phase' = "up" =>
              (SweepTtl(env.expiry) < TokenTtl(env.expiry) <=> env.expiry.unit = "y")]_vars
    BY <1>1
  <1> QED
    BY <1>2, Invariance, PTL DEF Spec, OnlyYearsFallShort
=============================================================================
