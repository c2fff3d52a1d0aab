----------------------------- MODULE Lifecycle -----------------------------
(***************************************************************************)
(* Lifecycle: one replica from its start to its exit.  main and            *)
(* initiateShutdown (src/index.ts), the fatal handlers and the shutdown    *)
(* flag (src/lifecycle), /ready and disposeSecurity (src/app.ts), the      *)
(* Redis client of the rate limiters and its health flag                   *)
(* (src/middleware/security.ts, src/lib/rateLimitHealth.ts), the timer of  *)
(* the session cleanup (src/jobs/sessionCleanup.ts), and the mails that    *)
(* handlers leave behind (EmailDelivery).                                  *)
(*                                                                         *)
(* server.close is Node's: it stops accepting, closes idle connections and *)
(* calls back when the others are gone.  A busy connection may be kept     *)
(* alive afterwards; a client that leaves does not stop its handler.       *)
(***************************************************************************)
EXTENDS EmailDelivery

CONSTANT Clients

VARIABLES
    main,       \* where main, or the cleanup that ends it, has got to
    cause,      \* what called initiateShutdown first: both flags of the shutdown
    attached,   \* the fatal handlers are registered
    listening,  \* the HTTP server accepts connections
    clients,
    sweep,      \* the cleanup job: its timer and its running flag
    store,      \* the store of the limiters: shared, or per process
    reachable,  \* Redis can be reached
    redis,      \* the state of the client of Redis
    health,     \* rateLimitHealth
    database,   \* Prisma has not been disconnected
    faulted,    \* an uncaught exception or unhandled rejection has occurred
    exit        \* how the process has ended, and its exit code

flags   == <<cause, attached, listening, faulted, database, store>>
process == <<main, exit, flags>>
link    == <<reachable, redis, health>>
post    == <<channel, mails>>
others  == <<clients, sweep, link, post>>
vars    == <<process, others>>

Running == {"config", "redis", "starting", "up", "draining", "disposing", "disconnecting"}

Booting == main \in {"config", "redis", "starting"}

Alive == main # "exited"

ShuttingDown == cause # "none"

\* work is the handler of the last request, which outlives its connection; late tells
\* whether the shutdown had begun when it took the request; ready, its answer.
Client == [conn  : {"none", "idle", "busy"},
           work  : {"none", "probe", "other"},
           late  : BOOLEAN,
           ready : BOOLEAN]

NoClient == [conn |-> "none", work |-> "none", late |-> FALSE, ready |-> FALSE]

TypeOK ==
    /\ MailTypeOK
    /\ main \in Running \cup {"exited"}
    /\ cause \in {"none", "signal", "fatal"}
    /\ attached \in BOOLEAN /\ listening \in BOOLEAN /\ faulted \in BOOLEAN
    /\ database \in BOOLEAN
    /\ clients \in [Clients -> Client]
    /\ sweep \in [timer : BOOLEAN, running : BOOLEAN]
    /\ store \in {"redis", "memory"}
    /\ reachable \in BOOLEAN
    /\ redis \in {"none", "ready", "reconnecting", "closed"}
    /\ health \in {"unknown", "ready", "unhealthy"}
    /\ exit \in [how  : {"none", "refused", "killed", "crashed", "forced", "clean", "idle"},
                 code : {0, 1}]

Init ==
    /\ MailInit
    /\ main = "config"
    /\ cause = "none"
    /\ attached = FALSE /\ listening = FALSE /\ faulted = FALSE /\ database = TRUE
    /\ clients = [c \in Clients |-> NoClient]
    /\ sweep = [timer |-> FALSE, running |-> FALSE]
    /\ store \in {"redis", "memory"}
    /\ reachable \in BOOLEAN
    /\ redis = "none"
    /\ health = "unknown"
    /\ exit = [how |-> "none", code |-> 1]

\* process.exit: handlers, mails and connections stop where they are.
Exit(how, code) ==
    /\ main' = "exited"
    /\ exit' = [how |-> how, code |-> code]

-----------------------------------------------------------------------------
(* The start.                                                              *)

\* getConfig, while app.ts is imported.
ReadConfig ==
    /\ main = "config"
    /\ main' = IF store = "redis" THEN "redis" ELSE "starting"
    /\ UNCHANGED <<exit, flags, others>>

\* Mutant: the flag waits for the event, which connect has already emitted.
ConnectRedis_Silent ==
    /\ main = "redis"
    /\ reachable
    /\ main' = "starting"
    /\ redis' = "ready"
    /\ UNCHANGED <<exit, flags, clients, sweep, reachable, health, post>>

\* connectRedisClient and, in the same turn, the listeners and the flag.
ConnectRedis ==
    /\ main = "redis"
    /\ reachable
    /\ main' = "starting"
    /\ redis' = "ready"
    /\ health' = "ready"
    /\ UNCHANGED <<exit, flags, clients, sweep, reachable, post>>

\* A ConfigError, or a Redis that does not accept the connection: main rejects.
Refuse ==
    /\ main \in {"config", "redis"}
    /\ Exit("refused", 1)
    /\ UNCHANGED <<flags, others>>

\* The rest of main has no await.  Where the port is taken, listen fails, Express
\* gives the error to the callback that logs "listening", and main goes on.
Start ==
    /\ main = "starting"
    /\ main' = "up"
    /\ listening' \in BOOLEAN
    /\ attached' = TRUE
    /\ sweep' = [timer |-> TRUE, running |-> TRUE]
    /\ UNCHANGED <<cause, faulted, exit, database, store, clients, link, post>>

-----------------------------------------------------------------------------
(* The shutdown.                                                           *)

CloseIdle == [c \in Clients |-> IF clients[c].conn = "idle"
                                THEN [clients[c] EXCEPT !.conn = "none"]
                                ELSE clients[c]]

\* Mutant: the timer of the cleanup job goes on.
InitiateShutdown_Sweeps(source) ==
    IF ShuttingDown THEN UNCHANGED <<main, cause, attached, listening, clients, sweep, redis>>
    ELSE /\ cause' = source
         /\ attached' = FALSE
         /\ listening' = FALSE
         /\ clients' = CloseIdle
         /\ main' = "draining"
         /\ UNCHANGED <<sweep, redis>>

\* Mutant: shutdownInitiated is not looked at.  The second server.close calls back
\* at once, with an error.
InitiateShutdown_Again(source) ==
    /\ cause' = source
    /\ attached' = FALSE
    /\ sweep' = [sweep EXCEPT !.timer = FALSE]
    /\ listening' = FALSE
    /\ clients' = CloseIdle
    /\ main' = IF main = "up" THEN "draining" ELSE "disposing"
    /\ redis' = IF main # "up" /\ redis # "none" THEN "closed" ELSE redis

\* Mutant: the fatal handlers stay.
InitiateShutdown_Attached(source) ==
    IF ShuttingDown THEN UNCHANGED <<main, cause, attached, listening, clients, sweep, redis>>
    ELSE /\ cause' = source
         /\ sweep' = [sweep EXCEPT !.timer = FALSE]
         /\ listening' = FALSE
         /\ clients' = CloseIdle
         /\ main' = "draining"
         /\ UNCHANGED <<attached, redis>>

\* Up to server.close and the timer of the forced exit.
InitiateShutdown(source) ==
    IF ShuttingDown THEN UNCHANGED <<main, cause, attached, listening, clients, sweep, redis>>
    ELSE /\ cause' = source
         /\ attached' = FALSE
         /\ sweep' = [sweep EXCEPT !.timer = FALSE]
         /\ listening' = FALSE
         /\ clients' = CloseIdle
         /\ main' = "draining"
         /\ UNCHANGED redis

\* SIGTERM or SIGINT.  Before main is through, Node's default ends the process.
Signal ==
    /\ Alive
    /\ IF Booting
       THEN /\ Exit("killed", 1)
            /\ UNCHANGED <<cause, attached, listening, clients, sweep, redis>>
       ELSE /\ InitiateShutdown("signal")
            /\ UNCHANGED exit
    /\ UNCHANGED <<faulted, database, store, reachable, health, post>>

\* An uncaught exception or an unhandled rejection: the handlers shut down, and
\* where they are not registered, or not any more, the process ends at once.
Fatal ==
    /\ Alive
    /\ faulted' = TRUE
    /\ IF attached
       THEN /\ InitiateShutdown("fatal")
            /\ UNCHANGED exit
       ELSE /\ Exit("crashed", 1)
            /\ UNCHANGED <<cause, attached, listening, clients, sweep, redis>>
    /\ UNCHANGED <<database, store, reachable, health, post>>

\* server.close calls back, and disposeSecurity takes the listeners off the client
\* and disconnects it, once.
Drained ==
    /\ main = "draining"
    /\ \A c \in Clients : clients[c].conn = "none"
    /\ main' = "disposing"
    /\ redis' = IF redis = "none" THEN "none" ELSE "closed"
    /\ UNCHANGED <<exit, flags, clients, sweep, reachable, health, post>>

\* disposeSecurity settles, and its errors are swallowed.
Disposed ==
    /\ main = "disposing"
    /\ main' = "disconnecting"
    /\ UNCHANGED <<exit, flags, others>>

\* $disconnect settles, and the process exits with the code of its cause.
Disconnected ==
    /\ main = "disconnecting"
    /\ database' = FALSE
    /\ Exit("clean", IF cause = "signal" THEN 0 ELSE 1)
    /\ UNCHANGED <<cause, attached, listening, faulted, store, others>>

\* Mutant: the callback of server.close clears the timer.
ForceExit_UntilClosed ==
    /\ main = "draining"
    /\ Exit("forced", 1)
    /\ UNCHANGED <<flags, others>>

\* Ten seconds after initiateShutdown.
ForceExit ==
    /\ main \in {"draining", "disposing", "disconnecting"}
    /\ Exit("forced", 1)
    /\ UNCHANGED <<flags, others>>

\* Without the port and without Redis nothing keeps Node's event loop going: the
\* timer of the cleanup job is unref'd, and the pool drops its idle connections.
\* Once the first run of the cleanup has settled the process ends by itself.
RunDry ==
    /\ main = "up"
    /\ ~listening /\ redis = "none" /\ ~sweep.running
    /\ Exit("idle", 0)
    /\ UNCHANGED <<flags, others>>

-----------------------------------------------------------------------------
(* Connections and handlers.                                               *)

Connect(c) ==
    /\ Alive /\ listening
    /\ clients[c].conn = "none" /\ clients[c].work = "none"
    /\ clients' = [clients EXCEPT ![c] = [NoClient EXCEPT !.conn = "idle"]]
    /\ UNCHANGED <<process, sweep, link, post>>

Receive(c, work) ==
    /\ Alive
    /\ clients[c].conn = "idle"
    /\ clients' = [clients EXCEPT ![c] = [conn |-> "busy", work |-> work, late |-> ShuttingDown,
                                          ready |-> FALSE]]
    /\ UNCHANGED <<process, sweep, link, post>>

\* Mutant: the flag of the shutdown is not looked at.
Probe_Draining(c) == Receive(c, "probe")

\* /ready begins its query; during the shutdown it answers 503 at once instead.
Probe(c) == ~ShuttingDown /\ Receive(c, "probe")

\* Any other request, which may take any number of statements.
Request(c) == Receive(c, "other")

\* The handler is through; its answer reaches the client if that is still there.
Respond(c, ready) ==
    clients' = [clients EXCEPT ![c] =
                   IF clients[c].conn = "none" THEN NoClient
                   ELSE [@ EXCEPT !.conn = "idle", !.work = "none", !.ready = ready]]

RedisReady == store = "redis" => health = "ready"

\* The query of /ready is answered or fails, and the flag of Redis is read.
AnswerProbe(c) ==
    /\ Alive
    /\ clients[c].work = "probe"
    /\ \E ok \in BOOLEAN : Respond(c, ok /\ RedisReady)
    /\ UNCHANGED <<process, sweep, link, post>>

\* The handler of register and of the request for a password reset has a mail sent.
Answer(c) ==
    /\ Alive
    /\ clients[c].work = "other"
    /\ Respond(c, FALSE)
    /\ (\E m \in Mails : Submit(m)) \/ UNCHANGED mails
    /\ UNCHANGED <<process, sweep, link, channel>>

\* The client goes away, or an idle connection has been kept for long enough.
Leave(c) ==
    /\ Alive
    /\ clients[c].conn # "none"
    /\ clients' = [clients EXCEPT ![c] = IF @.work = "none" THEN NoClient
                                         ELSE [@ EXCEPT !.conn = "none"]]
    /\ UNCHANGED <<process, sweep, link, post>>

-----------------------------------------------------------------------------
(* What goes on by itself.                                                 *)

Sweep ==
    /\ Alive
    /\ \/ sweep.timer /\ ~sweep.running /\ sweep' = [sweep EXCEPT !.running = TRUE]
       \/ sweep.running /\ sweep' = [sweep EXCEPT !.running = FALSE]
    /\ UNCHANGED <<process, clients, link, post>>

\* Redis goes away or comes back.
Network ==
    /\ Alive
    /\ reachable' = ~reachable
    /\ UNCHANGED <<process, clients, sweep, redis, health, post>>

\* The client of Redis notices: "error" and "reconnecting".
LoseRedis ==
    /\ Alive
    /\ redis = "ready" /\ ~reachable
    /\ redis' = "reconnecting"
    /\ health' = "unhealthy"
    /\ UNCHANGED <<process, clients, sweep, reachable, post>>

RegainRedis ==
    /\ Alive
    /\ redis = "reconnecting" /\ reachable
    /\ redis' = "ready"
    /\ health' = "ready"
    /\ UNCHANGED <<process, clients, sweep, reachable, post>>

Post(m) ==
    /\ Alive
    /\ Deliver(m)
    /\ UNCHANGED <<process, clients, sweep, link, channel>>

Next ==
    \/ ReadConfig \/ ConnectRedis \/ Refuse \/ Start
    \/ Signal \/ Fatal \/ Drained \/ Disposed \/ Disconnected \/ ForceExit \/ RunDry
    \/ \E c \in Clients :
          Connect(c) \/ Probe(c) \/ Request(c) \/ AnswerProbe(c) \/ Answer(c) \/ Leave(c)
    \/ Sweep \/ Network \/ LoseRedis \/ RegainRedis
    \/ \E m \in Mails : Post(m)

Spec == Init /\ [][Next]_vars

\* The timer of the forced exit fires.  The client of Redis notices that the
\* connection is gone and goes on trying.  A send settles and a sleep ends.
Fairness ==
    /\ WF_vars(ForceExit)
    /\ WF_vars(LoseRedis)
    /\ WF_vars(RegainRedis)
    /\ \A m \in Mails : WF_vars(Post(m))

FairSpec == Spec /\ Fairness

-----------------------------------------------------------------------------
(* Properties.                                                             *)

\* A process that says 0 had no fatal error before or during the shutdown; it was
\* told to stop and not cut short, or it had neither the port nor Redis.
ZeroIsClean ==
    main = "exited" /\ exit.code = 0 =>
        /\ ~faulted
        /\ \/ cause = "signal" /\ exit.how = "clean"
           \/ cause = "none" /\ exit.how = "idle" /\ ~listening /\ store = "memory"

\* Whatever signals and errors come during the shutdown, the cleanup begins only
\* when no client is connected any more, and a clean exit leaves Redis and the
\* database released.
NobodyCutOff ==
    /\ main \in {"disposing", "disconnecting"} \/ exit.how = "clean" =>
          /\ \A c \in Clients : clients[c].conn = "none"
          /\ redis \in {"none", "closed"}
          /\ ~sweep.timer /\ ~listening
    /\ exit.how = "clean" => ~database

\* No run of the cleanup job begins once the shutdown has.
NoLateSweep == [][ShuttingDown => ~(sweep'.running /\ ~sweep.running)]_vars

\* /ready answers 200 only to a request it took before the shutdown began, although
\* it may have begun since, and only if the flag of Redis is up when it answers.
ReadyTold ==
    [][\A c \in Clients :
          clients'[c].ready /\ ~clients[c].ready =>
             ~clients[c].late /\ (store = "redis" => health = "ready")]_vars

\* What a mail still has before it: attempts and the sleeps between them.
Remaining(mail) ==
    CASE mail.status = "none"    -> 2 * MaxAttempts + 1
      [] mail.status = "sending" -> 2 * (MaxAttempts - mail.attempt) + 2
      [] mail.status = "waiting" -> 2 * (MaxAttempts - mail.attempt) + 1
      [] OTHER                   -> 0

\* withRetry comes to an end: whatever the mail server answers, each thing that
\* happens to a mail leaves it less to go through, and one that is settled stays so.
MailsRunOut ==
    [][\A m \in Mails : mails'[m] # mails[m] => Remaining(mails'[m]) < Remaining(mails[m])]_vars

\* The process as ProcessLife sees it.
Stage ==
    CASE Booting         -> "starting"
      [] main = "up"     -> "serving"
      [] main = "exited" -> "ended"
      [] OTHER           -> "stopping"

\* During the shutdown, the code the process will exit with if nothing else happens.
Code ==
    IF main = "exited" THEN (IF exit.code = 0 THEN "success" ELSE "failure")
    ELSE CASE cause = "none"   -> "none"
           [] cause = "signal" -> "success"
           [] cause = "fatal"  -> "failure"

Life == INSTANCE ProcessLife WITH stage <- Stage, accepting <- listening, code <- Code

\* Whatever signals and errors come in whatever order, a process that has its port
\* stops serving once, for good, and ends with the code of the first of them, or with
\* a failure.
ImplementsLife == Life!Spec

\* While the replica serves, the flag follows Redis once Redis has settled.
Serving == main = "up" /\ store = "redis"

HealthFollows ==
    /\ <>[](Serving /\ reachable) => <>[](health = "ready")
    /\ <>[](Serving /\ ~reachable) => <>[](health = "unhealthy")

\* A shutdown ends, whatever clients, Redis and the database do.
ShutdownEnds == ShuttingDown ~> main = "exited"

\* A mail is sent or given up, unless the process ends first.
MailSettles == \A m \in Mails : Underway(m) ~> (~Underway(m) \/ main = "exited")
=============================================================================
