------------------------------ MODULE Gateway ------------------------------
(***************************************************************************)
(* Gateway: what stands between a request and its route, and who gets      *)
(* through.  The start under an environment (Config), the pipeline and the *)
(* metrics guard of src/app.ts, CORS and the limiters of                   *)
(* src/middleware/security.ts, requireAuth, requireRole and the routes of  *)
(* src/routes/protected.ts, the error handler, and the scripts that change *)
(* roles (scripts/users).                                                  *)
(*                                                                         *)
(* One request at a time is followed: requests share nothing but the       *)
(* database, where others revoke sessions and scripts change roles.  Every *)
(* user has a session, which its access token names.                       *)
(***************************************************************************)
EXTENDS Config

CONSTANTS Users, Scripts, NoEnv, NoConfig, NoUser

ASSUME UsersAssumption == Users \cap {NoUser, "malformed", "missing"} = {}

VARIABLES
    env, cfg,       \* the environment until the start, the configuration after it
    phase,
    roles,          \* User.role
    valid,          \* Session.valid
    request,
    scripts

vars == <<env, cfg, phase, roles, valid, request, scripts>>

Role == {"ADMIN", "USER"}

\* A caller has no header, an empty one, or a value that is the secret or another.
Caller == [path   : {"metrics", "adminPing", "userById", "unknown"},
           origin : Origins \cup {"none"},
           header : {"none", "empty", "right", "wrong"},
           inside : BOOLEAN,
           user   : Users \cup {NoUser},
           target : Users \cup {"malformed", "missing"}]

\* A call says nothing but what its route looks at.
Calls == {c \in Caller :
             /\ c.path # "metrics" => c.header = "none" /\ ~c.inside
             /\ c.path \notin {"adminPing", "userById"} => c.user = NoUser
             /\ c.path # "userById" => c.target = "missing"}

\* stage is the await a request has reached and status its answer; role is what
\* requireAuth has read; rolesSeen and wasValid are history: the roles its user has
\* had since it arrived, and whether its session was valid then.
Request == [stage : {"idle", "limiter", "user", "session", "resource"},
            status : {0, 200, 400, 401, 403, 404, 413, 429, 500},
            caller : Caller, role : Role, rolesSeen : SUBSET Role, wasValid : BOOLEAN]

\* wanted is the role to be given to user.
Script == [stage : {"update", "done", "failed"}, user : Users \cup {NoUser}, wanted : Role]

Exited(stage) == [stage |-> stage, user |-> NoUser, wanted |-> "USER"]

SomeCaller == [path |-> "unknown", origin |-> "none", header |-> "none", inside |-> FALSE,
               user |-> NoUser, target |-> "missing"]

IdleRequest(status) == [stage |-> "idle", status |-> status, caller |-> SomeCaller,
                        role |-> "USER", rolesSeen |-> {}, wasValid |-> FALSE]

TypeOK ==
    /\ phase \in {"boot", "refused", "misconfigured", "up"}
    /\ IF phase = "boot" THEN env \in Env ELSE env = NoEnv
    /\ IF phase \in {"boot", "refused"} THEN cfg = NoConfig ELSE cfg \in AppConfig
    /\ roles \in [Users -> Role]
    /\ valid \in [Users -> BOOLEAN]
    /\ request \in Request
    /\ scripts \in [Scripts -> Script]

Init ==
    /\ env \in Env
    /\ cfg = NoConfig
    /\ phase = "boot"
    /\ roles \in [Users -> Role]
    /\ valid = [u \in Users |-> TRUE]
    /\ request = IdleRequest(0)
    /\ scripts = [k \in Scripts |-> Exited("done")]

-----------------------------------------------------------------------------
\* Mutant: a ConfigError is logged, and the service goes on.
Boot_Anyway ==
    /\ phase = "boot"
    /\ IF ~Accepted(env) THEN phase' = "up" /\ UNCHANGED cfg
       ELSE /\ cfg' = ConfigOf(env)
            /\ phase' = "up"
    /\ env' = NoEnv
    /\ UNCHANGED <<roles, valid, request, scripts>>

\* getConfig throws a ConfigError, or registerSecurity throws, or the service is up.
Boot ==
    /\ phase = "boot"
    /\ IF ~Accepted(env) THEN phase' = "refused" /\ UNCHANGED cfg
       ELSE /\ cfg' = ConfigOf(env)
            /\ phase' = IF cfg'.prod /\ StoreOf(env) = "memory" THEN "misconfigured" ELSE "up"
    /\ env' = NoEnv
    /\ UNCHANGED <<roles, valid, request, scripts>>

-----------------------------------------------------------------------------
(* The pipeline.                                                           *)

\* The statuses that errorHandler gives: issues of Zod and malformed JSON, AppErrors
\* by their own, what has a status of its own, and anything else.
StatusOf(error) ==
    [VALIDATION |-> 400, json |-> 400, tooLarge |-> 413, CORS_ORIGIN_FORBIDDEN |-> 403,
     UNAUTHORIZED |-> 401, SESSION_INVALID |-> 401, FORBIDDEN |-> 403, USER_NOT_FOUND |-> 404,
     unexpected |-> 500][error]

Answer(status) == request' = IdleRequest(status)

\* The CORS middleware: no origin, a listed one, or any where none is listed outside
\* production.
OriginAllowed(origin) ==
    \/ origin = "none"
    \/ origin \in cfg.origins
    \/ ~cfg.prod /\ cfg.origins = {}

\* A request arrives.  Its body is parsed, its origin checked, and then it waits for
\* the count of the limiters.
Arrive(c) ==
    /\ phase = "up"
    /\ request.stage = "idle"
    /\ \/ \E error \in {"json", "tooLarge"} : Answer(StatusOf(error))
       \/ ~OriginAllowed(c.origin) /\ Answer(StatusOf("CORS_ORIGIN_FORBIDDEN"))
       \/ /\ OriginAllowed(c.origin)
          /\ request' = [stage |-> "limiter", status |-> 0, caller |-> c, role |-> "USER",
                         rolesSeen |-> IF c.user = NoUser THEN {} ELSE {roles[c.user]},
                         wasValid |-> c.user # NoUser /\ valid[c.user]]
    /\ UNCHANGED <<env, cfg, phase, roles, valid, scripts>>

\* createMetricsGuard.
MayScrape(c) ==
    CASE cfg.guard = "none"   -> ~cfg.prod
      [] cfg.guard = "secret" -> c.header = IF cfg.expected = "text" THEN "right" ELSE "empty"
      [] cfg.guard = "cidr"   -> c.inside

GuardStatus == IF cfg.guard = "secret" THEN 401 ELSE 403

\* The limiters refuse, their store fails, or the request goes to its route: the
\* metrics, a protected route, or none.
Route ==
    /\ request.stage = "limiter"
    /\ LET c == request.caller
       IN  \/ Answer(429)
           \/ Answer(StatusOf("unexpected"))
           \/ /\ c.path = "metrics" /\ cfg.mounted
              /\ Answer(IF MayScrape(c) THEN 200 ELSE GuardStatus)
           \/ c.path = "metrics" /\ ~cfg.mounted /\ Answer(404)
           \/ c.path = "unknown" /\ Answer(404)
           \/ /\ c.path \in {"adminPing", "userById"}
              /\ IF c.user = NoUser THEN Answer(StatusOf("UNAUTHORIZED"))
                 ELSE request' = [request EXCEPT !.stage = "user"]
    /\ UNCHANGED <<env, cfg, phase, roles, valid, scripts>>

-----------------------------------------------------------------------------
(* requireAuth, requireRole and the protected routes.                      *)

\* requireAuth reads the user.
ReadUser ==
    /\ request.stage = "user"
    /\ request' = [request EXCEPT !.stage = "session", !.role = roles[request.caller.user]]
    /\ UNCHANGED <<env, cfg, phase, roles, valid, scripts>>

\* requireRole("ADMIN") and the ping.
AdminPing == Answer(IF request.role = "ADMIN" THEN 200 ELSE StatusOf("FORBIDDEN"))

\* Mutant: a revoked session will do.
ReadSession_Unchecked ==
    /\ request.stage = "session"
    /\ \/ request.caller.path = "adminPing" /\ AdminPing
       \/ /\ request.caller.path = "userById"
          /\ IF request.caller.target = "malformed" THEN Answer(StatusOf("VALIDATION"))
             ELSE request' = [request EXCEPT !.stage = "resource"]
    /\ UNCHANGED <<env, cfg, phase, roles, valid, scripts>>

\* requireAuth reads the session, and the route begins.
ReadSession ==
    /\ request.stage = "session"
    /\ \/ ~valid[request.caller.user] /\ Answer(StatusOf("SESSION_INVALID"))
       \/ /\ valid[request.caller.user]
          /\ \/ request.caller.path = "adminPing" /\ AdminPing
             \/ /\ request.caller.path = "userById"
                /\ IF request.caller.target = "malformed" THEN Answer(StatusOf("VALIDATION"))
                   ELSE request' = [request EXCEPT !.stage = "resource"]
    /\ UNCHANGED <<env, cfg, phase, roles, valid, scripts>>

\* GET /protected/users/:userId reads its resource: the owner and admins see it.
ReadResource ==
    /\ request.stage = "resource"
    /\ LET target == request.caller.target
       IN  Answer(IF target = "missing" THEN StatusOf("USER_NOT_FOUND")
                  ELSE IF target = request.caller.user \/ request.role = "ADMIN" THEN 200
                  ELSE StatusOf("FORBIDDEN"))
    /\ UNCHANGED <<env, cfg, phase, roles, valid, scripts>>

\* A statement of the request is rejected.
Fail ==
    /\ request.stage \in {"user", "session", "resource"}
    /\ Answer(StatusOf("unexpected"))
    /\ UNCHANGED <<env, cfg, phase, roles, valid, scripts>>

-----------------------------------------------------------------------------
(* What others do to the database.                                         *)

\* A logout, or anything else that closes sessions.
Revoke(u) ==
    /\ phase = "up"
    /\ valid[u]
    /\ valid' = [valid EXCEPT ![u] = FALSE]
    /\ UNCHANGED <<env, cfg, phase, roles, request, scripts>>

\* set-role, and bootstrap-first-admin for ADMIN, read the user's row: there may be
\* nothing to do.
ScriptRead(k, u, role) ==
    /\ phase = "up"
    /\ scripts[k].stage # "update"
    /\ scripts' = [scripts EXCEPT ![k] =
                      IF roles[u] = role THEN Exited("done")
                      ELSE [stage |-> "update", user |-> u, wanted |-> role]]
    /\ UNCHANGED <<env, cfg, phase, roles, valid, request>>

\* The update, whatever the role has become since.
ScriptUpdate(k) ==
    /\ scripts[k].stage = "update"
    /\ LET u == scripts[k].user
           role == scripts[k].wanted
       IN  /\ roles' = [roles EXCEPT ![u] = role]
           /\ scripts' = [scripts EXCEPT ![k] = Exited("done")]
           /\ request' = [request EXCEPT !.rolesSeen =
                             IF request.caller.user = u THEN @ \cup {role} ELSE @]
    /\ UNCHANGED <<env, cfg, phase, valid>>

ScriptFail(k) ==
    /\ scripts[k].stage = "update"
    /\ scripts' = [scripts EXCEPT ![k] = Exited("failed")]
    /\ UNCHANGED <<env, cfg, phase, roles, valid, request>>

Next ==
    \/ Boot
    \/ \E c \in Calls : Arrive(c)
    \/ Route \/ ReadUser \/ ReadSession \/ ReadResource \/ Fail
    \/ \E u \in Users : Revoke(u) \/ \E k \in Scripts, role \in Role : ScriptRead(k, u, role)
    \/ \E k \in Scripts : ScriptUpdate(k) \/ ScriptFail(k)

Spec == Init /\ [][Next]_vars

-----------------------------------------------------------------------------
(* Properties.                                                             *)

Answered == request.stage # "idle" /\ request'.stage = "idle"

\* Whatever environment the service has started under, in production the metrics go
\* only to a caller that has the secret, which is not empty, or is in the allowlist,
\* and nothing is answered by a route to a page of an origin that is not listed.
ProductionFailsClosed ==
    [][Answered /\ cfg.prod =>
          LET c == request.caller
          IN  /\ c.path = "metrics" /\ request'.status = 200 =>
                    \/ c.header = "right"
                    \/ cfg.guard = "cidr" /\ c.inside
              /\ c.origin \in cfg.origins \cup {"none"}]_vars

\* requireAuth reads the role and the session at different times, and both may have
\* changed before the answer: still, who gets through had the session when the
\* request arrived and the right to it at some time since; and who is turned away
\* lacked the session or the role at some time since.
AnswersJustified ==
    [][LET c == request.caller
       IN  Answered /\ c.user # NoUser =>
              /\ request'.status = 200 =>
                    request.wasValid /\ (c.target = c.user \/ "ADMIN" \in request.rolesSeen)
              /\ request'.status = 401 => ~valid[c.user]
              /\ request'.status = 403 =>
                    c.target # c.user /\ "USER" \in request.rolesSeen]_vars

\* The cleanup removes sessions whose refresh token is still good when the lifetime is
\* in years, and only then: of every other lifetime that the service starts with, the
\* job's reading is no shorter than that of the library that signs the tokens.
OnlyYearsFallShort ==
    [][phase = "boot" /\ phase' = "up" =>
          (SweepTtl(env.expiry) < TokenTtl(env.expiry) <=> env.expiry.unit = "y")]_vars

\* What the schema has accepted passes the second check, in registerSecurity: in
\* production no replica counts for itself.
SecondCheckIdle == phase # "misconfigured"
=============================================================================
