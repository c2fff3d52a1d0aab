-------------------------- MODULE LifecycleProofs --------------------------
(***************************************************************************)
(* Proofs about Lifecycle for every number of clients, mails and attempts. *)
(***************************************************************************)
EXTENDS Lifecycle, TLAPS

\* An attempt is left while a mail waits for one, and a mail that is not sent has
\* reached the server only with its answer lost.
AttemptsLeft ==
    \A m \in Mails :
        /\ mails[m].status = "waiting" => mails[m].attempt < MaxAttempts
        /\ mails[m].status # "sent" /\ mails[m].copies > 0 => mails[m].lost

\* The shutdown has begun exactly where main has left "up" for it.
CauseKnown ==
    /\ Booting \/ main = "up" => ~ShuttingDown
    /\ main \in {"draining", "disposing", "disconnecting"} => ShuttingDown
    /\ exit.how = "clean" => ShuttingDown
    /\ Alive <=> exit.how = "none"
    /\ Alive => exit.code = 1

\* What the shutdown takes down first, the fatal handlers with it: the process
\* outlives an error only where it is the cause.
TakenDown ==
    /\ ShuttingDown => ~attached /\ ~sweep.timer /\ ~listening
    /\ main = "up" => attached
    /\ attached => ~Booting
    /\ Alive /\ faulted => cause = "fatal"

\* /ready begins its query before the shutdown, or not at all.
ProbesEarly == \A c \in Clients : clients[c].work = "probe" => ~clients[c].late

\* A replica with the shared store serves with a client of Redis.
RedisKept == main \in {"starting", "up"} /\ store = "redis" => redis # "none"

IndInv ==
    /\ TypeOK
    /\ MailInv
    /\ AttemptsLeft
    /\ CauseKnown
    /\ TakenDown
    /\ ProbesEarly
    /\ RedisKept
    /\ ZeroIsClean
    /\ NobodyCutOff

-----------------------------------------------------------------------------
LEMMA InitInv == Init => IndInv
  <1> SUFFICES ASSUME Init PROVE IndInv
    OBVIOUS
  <1>1. MailTypeOK /\ MailInv /\ AttemptsLeft
    <2>1. NoMail \in Mail
      BY MaxAttemptsAssumption DEF NoMail, Mail
    <2>2. channel \in {"smtp", "console"} /\ mails \in [Mails -> Mail]
          /\ \A m \in Mails : mails[m] = NoMail
      BY <2>1 DEF Init, MailInit
    <2> QED
      BY <2>2 DEF NoMail, MailTypeOK, MailInv, AttemptsLeft
  <1>2. NoClient \in Client
    BY DEF NoClient, Client
  <1>3. clients \in [Clients -> Client] /\ ProbesEarly
    BY <1>2 DEF Init, NoClient, ProbesEarly
  <1>4. TypeOK
    BY <1>1, <1>3 DEF Init, TypeOK, Running
  <1>5. CauseKnown /\ TakenDown /\ RedisKept /\ ZeroIsClean /\ NobodyCutOff
    BY DEF Init, Booting, Alive, ShuttingDown, CauseKnown, TakenDown, RedisKept, ZeroIsClean,
           NobodyCutOff
  <1> QED
    BY <1>1, <1>3, <1>4, <1>5 DEF IndInv

-----------------------------------------------------------------------------
(* Mails.                                                                  *)

MailOK(v) ==
    /\ v.copies = 2 => v.lost = TRUE
    /\ v.status = "sent" /\ channel = "smtp" => v.copies > 0
    /\ v.status = "failed" => v.attempt = MaxAttempts
    /\ v.status = "waiting" => v.attempt < MaxAttempts
    /\ v.status # "sent" /\ v.copies > 0 => v.lost = TRUE

MailsInv == MailTypeOK /\ \A m \in Mails : MailOK(mails[m])

LEMMA MailsInvIs ==
    /\ MailsInv <=> MailTypeOK /\ MailInv /\ AttemptsLeft
    /\ MailsInv' <=> MailTypeOK' /\ MailInv' /\ AttemptsLeft'
  <1>1. /\ MailTypeOK => \A m \in Mails : mails[m].lost = TRUE <=> mails[m].lost
        /\ MailTypeOK' => \A m \in Mails : mails'[m].lost = TRUE <=> mails'[m].lost
    BY DEF MailTypeOK, Mail
  <1> QED
    BY <1>1 DEF MailsInv, MailOK, MailInv, AttemptsLeft

\* One mail becomes one that is as it should be.
LEMMA MailSlot ==
    ASSUME MailsInv, NEW m \in Mails, channel' = channel,
           mails' \in [Mails -> Mail], \A i \in Mails \ {m} : mails'[i] = mails[i],
           MailOK(mails'[m])
    PROVE  MailsInv'
  BY DEF MailsInv, MailTypeOK, MailOK

LEMMA SubmitInv ==
    ASSUME MailsInv, NEW m \in Mails, Submit(m), channel' = channel
    PROVE  MailsInv'
  <1>1. NoMail \in Mail /\ 1 \in 0 .. MaxAttempts
    BY MaxAttemptsAssumption DEF NoMail, Mail
  <1>2. /\ mails' \in [Mails -> Mail]
        /\ \A i \in Mails \ {m} : mails'[i] = mails[i]
        /\ mails'[m].copies = 0
        /\ mails'[m].status = IF channel = "console" THEN "sent" ELSE "sending"
    BY <1>1 DEF Submit, NoMail, Mail, MailsInv, MailTypeOK
  <1>3. MailOK(mails'[m])
    BY <1>2 DEF MailOK
  <1> QED
    BY <1>2, <1>3, MailSlot

LEMMA DeliverInv ==
    ASSUME MailsInv, NEW m \in Mails, Deliver(m), channel' = channel
    PROVE  MailsInv'
  <1>1. /\ mails \in [Mails -> Mail] /\ MaxAttempts \in Nat
        /\ mails[m].attempt \in 0 .. MaxAttempts
        /\ mails[m].copies \in 0 .. 2 /\ OneMore(mails[m].copies) \in 0 .. 2
        /\ OneMore(mails[m].copies) > 0
        /\ OneMore(mails[m].copies) = 2 => mails[m].copies > 0
        /\ mails[m].status = "waiting" => mails[m].attempt < MaxAttempts
        /\ mails[m].status # "sent" /\ mails[m].copies > 0 => mails[m].lost = TRUE
    BY MaxAttemptsAssumption DEF MailsInv, MailTypeOK, MailOK, Mail, OneMore
  <1>2. CASE Accepted(m)
    <2>1. /\ mails' \in [Mails -> Mail]
          /\ \A i \in Mails \ {m} : mails'[i] = mails[i]
          /\ mails[m].status = "sending" /\ mails'[m].status = "sent"
          /\ mails'[m].copies = OneMore(mails[m].copies) /\ mails'[m].lost = mails[m].lost
      BY <1>1, <1>2 DEF Accepted, Sending, Mail
    <2>2. MailOK(mails'[m])
      BY <1>1, <2>1 DEF MailOK
    <2> QED
      BY <2>1, <2>2, MailSlot
  <1>3. CASE Refused(m)
    <2>1. /\ mails' \in [Mails -> Mail]
          /\ \A i \in Mails \ {m} : mails'[i] = mails[i]
          /\ mails[m].status = "sending"
          /\ mails'[m].status = IF mails[m].attempt = MaxAttempts THEN "failed" ELSE "waiting"
          /\ mails'[m].attempt = mails[m].attempt
          /\ mails'[m].copies = mails[m].copies /\ mails'[m].lost = mails[m].lost
      BY <1>1, <1>3 DEF Refused, AfterFailure, Sending, Mail
    <2>2. MailOK(mails'[m])
      BY <1>1, <2>1 DEF MailOK
    <2> QED
      BY <2>1, <2>2, MailSlot
  <1>4. CASE AnswerLost(m)
    <2>1. AfterFailure(m) \in {"failed", "waiting"}
      BY DEF AfterFailure
    <2> DEFINE lostMail == [mails[m] EXCEPT !.status = AfterFailure(m),
                                            !.copies = OneMore(mails[m].copies), !.lost = TRUE]
    <2>a. mails[m] \in Mail
      BY <1>1
    <2>b. /\ lostMail \in Mail
          /\ lostMail.status = AfterFailure(m)
          /\ lostMail.attempt = mails[m].attempt /\ lostMail.lost = TRUE
      BY <1>1, <2>1, <2>a DEF Mail
    <2>c. mails' = [mails EXCEPT ![m] = lostMail]
      BY <1>1, <1>4 DEF AnswerLost
    <2> HIDE DEF lostMail
    <2>d. /\ mails' \in [Mails -> Mail]
          /\ \A i \in Mails \ {m} : mails'[i] = mails[i]
          /\ mails'[m] = lostMail
      BY <1>1, <2>b, <2>c
    <2>2. /\ mails' \in [Mails -> Mail]
          /\ \A i \in Mails \ {m} : mails'[i] = mails[i]
          /\ mails'[m].status = AfterFailure(m)
          /\ mails'[m].attempt = mails[m].attempt /\ mails'[m].lost = TRUE
      BY <2>b, <2>d
    <2>3. MailOK(mails'[m])
      BY <1>1, <2>2 DEF MailOK, AfterFailure
    <2> QED
      BY <2>2, <2>3, MailSlot
  <1>5. CASE Retry(m)
    <2>1. /\ mails' \in [Mails -> Mail]
          /\ \A i \in Mails \ {m} : mails'[i] = mails[i]
          /\ mails[m].status = "waiting" /\ mails'[m].status = "sending"
          /\ mails'[m].copies = mails[m].copies /\ mails'[m].lost = mails[m].lost
      BY <1>1, <1>5 DEF Retry, Mail
    <2>2. MailOK(mails'[m])
      BY <1>1, <2>1 DEF MailOK
    <2> QED
      BY <2>1, <2>2, MailSlot
  <1> QED
    BY <1>2, <1>3, <1>4, <1>5 DEF Deliver

-----------------------------------------------------------------------------
(* The process.                                                            *)

\* The mails after a step.
LEMMA MailsNext == IndInv /\ [Next]_vars => MailsInv'
  <1> SUFFICES ASSUME IndInv, [Next]_vars PROVE MailsInv'
    OBVIOUS
  <1>1. MailsInv
    BY MailsInvIs DEF IndInv, TypeOK
  <1>2. UNCHANGED post => MailsInv'
    BY <1>1 DEF post, MailsInv, MailTypeOK, MailOK
  <1>3. ASSUME NEW c \in Clients, Answer(c) PROVE MailsInv'
    <2>1. channel' = channel /\ ((\E m \in Mails : Submit(m)) \/ UNCHANGED mails)
      BY <1>3 DEF Answer
    <2> QED
      BY <1>1, <1>2, <2>1, SubmitInv DEF post
  <1>4. ASSUME NEW m \in Mails, Post(m) PROVE MailsInv'
    BY <1>1, <1>4, DeliverInv DEF Post
  <1>5. CASE ReadConfig \/ ConnectRedis \/ Refuse \/ Start \/ Signal \/ Fatal \/ Drained
             \/ Disposed \/ Disconnected \/ ForceExit \/ RunDry
    BY <1>2, <1>5
    DEF ReadConfig, ConnectRedis, Refuse, Start, Signal, Fatal, Drained, Disposed, Disconnected,
        ForceExit, RunDry, others
  <1>6. ASSUME NEW c \in Clients, Connect(c) \/ Probe(c) \/ Request(c) \/ AnswerProbe(c) \/ Leave(c)
        PROVE  MailsInv'
    BY <1>2, <1>6 DEF Connect, Probe, Request, Receive, AnswerProbe, Leave
  <1>7. CASE Sweep \/ Network \/ LoseRedis \/ RegainRedis \/ UNCHANGED vars
    BY <1>2, <1>7 DEF Sweep, Network, LoseRedis, RegainRedis, vars, others
  <1> QED
    BY <1>3, <1>4, <1>5, <1>6, <1>7 DEF Next

\* The client of Redis is made before main goes on, and given up by the cleanup.
LEMMA RedisNext == IndInv /\ [Next]_vars => RedisKept'
  <1> SUFFICES ASSUME IndInv, [Next]_vars PROVE RedisKept'
    OBVIOUS
  <1>1. RedisKept /\ (ShuttingDown => ~Booting /\ main # "up")
    BY DEF IndInv, CauseKnown
  <1>2. CASE ReadConfig \/ ConnectRedis \/ Refuse \/ Start \/ Drained \/ Disposed
             \/ Disconnected \/ ForceExit \/ RunDry
    BY <1>1, <1>2
    DEF ReadConfig, ConnectRedis, Refuse, Start, Drained, Disposed, Disconnected, ForceExit,
        RunDry, Exit, flags, others, link, RedisKept
  <1>3. CASE Signal \/ Fatal
    BY <1>1, <1>3 DEF Signal, Fatal, InitiateShutdown, Exit, RedisKept
  <1>4. ASSUME NEW c \in Clients,
               Connect(c) \/ Probe(c) \/ Request(c) \/ AnswerProbe(c) \/ Answer(c) \/ Leave(c)
        PROVE  RedisKept'
    BY <1>1, <1>4
    DEF Connect, Probe, Request, Receive, AnswerProbe, Answer, Leave, process, flags, link,
        RedisKept
  <1>5. ASSUME NEW m \in Mails, Post(m) PROVE RedisKept'
    BY <1>1, <1>5 DEF Post, process, flags, link, RedisKept
  <1>6. CASE Sweep \/ Network \/ LoseRedis \/ RegainRedis \/ UNCHANGED vars
    BY <1>1, <1>6
    DEF Sweep, Network, LoseRedis, RegainRedis, vars, process, flags, others, link, RedisKept
  <1> QED
    BY <1>2, <1>3, <1>4, <1>5, <1>6 DEF Next

\* A step of one client.
LEMMA ClientStep ==
    ASSUME IndInv, MailsInv', RedisKept', NEW c \in Clients, UNCHANGED <<process, sweep, link>>,
           clients' \in [Clients -> Client],
           \A i \in Clients \ {c} : clients'[i] = clients[i],
           clients'[c].work = "probe" => ~clients'[c].late,
           clients[c].conn = "none" => listening \/ clients'[c].conn = "none"
    PROVE  IndInv'
  <1>1. ProbesEarly'
    BY DEF IndInv, ProbesEarly
  <1>2. TypeOK'
    BY DEF IndInv, TypeOK, MailsInv, process, flags, link
  <1>3. CauseKnown' /\ TakenDown' /\ ZeroIsClean'
    BY DEF IndInv, CauseKnown, TakenDown, ZeroIsClean, process, flags, Booting, Alive, ShuttingDown
  <1>4. NobodyCutOff'
    BY DEF IndInv, NobodyCutOff, process, flags, link
  <1> QED
    BY <1>1, <1>2, <1>3, <1>4, MailsInvIs DEF IndInv

\* A step of mails alone.
LEMMA SameInv ==
    ASSUME IndInv, MailsInv', RedisKept', UNCHANGED <<process, clients, sweep, link>>
    PROVE  IndInv'
  <1>1. TypeOK'
    BY DEF IndInv, TypeOK, MailsInv, process, flags, link
  <1>2. CauseKnown' /\ TakenDown' /\ ZeroIsClean' /\ ProbesEarly' /\ NobodyCutOff'
    BY DEF IndInv, CauseKnown, TakenDown, ZeroIsClean, ProbesEarly, NobodyCutOff, process, flags,
           link, Booting, Alive, ShuttingDown
  <1> QED
    BY <1>1, <1>2, MailsInvIs DEF IndInv

LEMMA ClientInv ==
    ASSUME IndInv, MailsInv', RedisKept', NEW c \in Clients,
           Connect(c) \/ Probe(c) \/ Request(c) \/ AnswerProbe(c) \/ Answer(c) \/ Leave(c)
    PROVE  IndInv'
  <1>1. clients \in [Clients -> Client] /\ ProbesEarly
    BY DEF IndInv, TypeOK
  <1>2. CASE Connect(c)
    <2>1. /\ clients' \in [Clients -> Client] /\ \A i \in Clients \ {c} : clients'[i] = clients[i]
          /\ clients'[c].work = "none"
      BY <1>1, <1>2 DEF Connect, NoClient, Client
    <2> QED
      BY <1>2, <2>1, ClientStep DEF Connect
  <1>3. CASE Probe(c) \/ Request(c)
    <2>1. PICK work \in {"probe", "other"} : Receive(c, work) /\ (work = "probe" => ~ShuttingDown)
      BY <1>3 DEF Probe, Request
    <2>2. ShuttingDown \in BOOLEAN
      BY DEF ShuttingDown
    <2>3. /\ clients' \in [Clients -> Client] /\ \A i \in Clients \ {c} : clients'[i] = clients[i]
          /\ clients'[c].work = work /\ clients'[c].late = ShuttingDown
      BY <1>1, <2>1, <2>2 DEF Receive, Client
    <2> QED
      BY <2>1, <2>3, ClientStep DEF Receive
  <1>4. CASE AnswerProbe(c) \/ Answer(c)
    <2>1. PICK ready \in BOOLEAN : Respond(c, ready)
      BY <1>4 DEF AnswerProbe, Answer, RedisReady
    <2>2. /\ clients' \in [Clients -> Client] /\ \A i \in Clients \ {c} : clients'[i] = clients[i]
          /\ clients'[c].work = "none"
          /\ clients[c].conn = "none" => clients'[c].conn = "none"
      BY <1>1, <2>1 DEF Respond, NoClient, Client
    <2>3. UNCHANGED <<process, sweep, link>>
      BY <1>4 DEF AnswerProbe, Answer
    <2> QED
      BY <2>2, <2>3, ClientStep
  <1>5. CASE Leave(c)
    <2>1. /\ clients' \in [Clients -> Client] /\ \A i \in Clients \ {c} : clients'[i] = clients[i]
          /\ clients'[c].work = "probe" => ~clients'[c].late
      BY <1>1, <1>5 DEF Leave, NoClient, Client, ProbesEarly
    <2> QED
      BY <1>5, <2>1, ClientStep DEF Leave
  <1> QED
    BY <1>2, <1>3, <1>4, <1>5

-----------------------------------------------------------------------------
(* The process.                                                            *)

\* server.close ends what it ends, and leaves the handlers alone.
LEMMA IdleClosed ==
    ASSUME clients \in [Clients -> Client], ProbesEarly
    PROVE  /\ CloseIdle \in [Clients -> Client]
           /\ \A c \in Clients : /\ CloseIdle[c].work = clients[c].work
                                 /\ CloseIdle[c].late = clients[c].late
                                 /\ CloseIdle[c].ready = clients[c].ready
  BY DEF CloseIdle, Client

\* A step that leaves the clients, the sweep and the link to Redis alone.
LEMMA MainInv ==
    ASSUME IndInv, MailsInv', RedisKept',
           ReadConfig \/ Refuse \/ Disposed \/ Disconnected \/ ForceExit \/ RunDry
    PROVE  IndInv'
  <1>1. UNCHANGED <<clients, sweep, reachable, redis, health, attached, listening, faulted, cause, store>>
    BY DEF ReadConfig, Refuse, Disposed, Disconnected, ForceExit, RunDry, Exit, flags, others, link
  <1>2. /\ main' \in Running \cup {"exited"} /\ database' \in BOOLEAN
        /\ exit' \in [how  : {"none", "refused", "killed", "crashed", "forced", "clean", "idle"},
                      code : {0, 1}]
    <2>1. CASE ReadConfig \/ Disposed
      BY <2>1 DEF ReadConfig, Disposed, flags, Running, IndInv, TypeOK
    <2>2. CASE Refuse \/ ForceExit \/ RunDry
      BY <2>2 DEF Refuse, ForceExit, RunDry, Exit, flags, IndInv, TypeOK
    <2>3. CASE Disconnected
      BY <2>3 DEF Disconnected, Exit
    <2> QED
      BY <2>1, <2>2, <2>3
  <1>3. TypeOK'
    BY <1>1, <1>2 DEF IndInv, TypeOK, MailsInv
  <1>4. ProbesEarly'
    BY <1>1 DEF IndInv, ProbesEarly
  <1>5. CauseKnown'
    BY <1>1 DEF ReadConfig, Refuse, Disposed, Disconnected, ForceExit, RunDry, Exit, IndInv, CauseKnown,
                Booting, Alive, ShuttingDown
  <1>6. TakenDown'
    BY <1>1 DEF ReadConfig, Refuse, Disposed, Disconnected, ForceExit, RunDry, Exit, IndInv, TakenDown,
                Alive, ShuttingDown, Booting
  <1>7. ZeroIsClean'
    BY <1>1 DEF ReadConfig, Refuse, Disposed, Disconnected, ForceExit, RunDry, Exit, IndInv, TakenDown,
                CauseKnown, RedisKept, TypeOK, ZeroIsClean, Alive, ShuttingDown
  <1>8. NobodyCutOff'
    BY <1>1 DEF ReadConfig, Refuse, Disposed, Disconnected, ForceExit, RunDry, Exit, flags, IndInv,
                CauseKnown, NobodyCutOff, Alive, ShuttingDown
  <1> QED
    BY <1>3, <1>4, <1>5, <1>6, <1>7, <1>8, MailsInvIs DEF IndInv

\* The client of Redis, the timer of the cleanup job and the beginning of main.
LEMMA PartsInv ==
    ASSUME IndInv, MailsInv', RedisKept',
           ConnectRedis \/ Start \/ Drained \/ Sweep \/ Network \/ LoseRedis \/ RegainRedis
    PROVE  IndInv'
  <1>1. UNCHANGED <<clients, faulted, cause, store, database, exit>>
    BY DEF ConnectRedis, Start, Drained, Sweep, Network, LoseRedis, RegainRedis, flags, others, process
  <1>2. TypeOK'
    <2>1. sweep' \in [timer : BOOLEAN, running : BOOLEAN]
      <3>1. CASE Sweep
        BY <3>1 DEF Sweep, IndInv, TypeOK
      <3>2. CASE Start
        BY <3>2 DEF Start
      <3> QED
        BY <3>1, <3>2 DEF ConnectRedis, Drained, Network, LoseRedis, RegainRedis, IndInv, TypeOK
    <2>2. /\ main' \in Running /\ attached' \in BOOLEAN /\ listening' \in BOOLEAN
          /\ reachable' \in BOOLEAN
          /\ redis' \in {"none", "ready", "reconnecting", "closed"}
          /\ health' \in {"unknown", "ready", "unhealthy"}
      <3>1. CASE ConnectRedis \/ Start \/ Drained
        BY <3>1 DEF ConnectRedis, Start, Drained, flags, link, Running, IndInv, TypeOK
      <3>2. CASE Sweep \/ Network \/ LoseRedis \/ RegainRedis
        BY <3>2 DEF Sweep, Network, LoseRedis, RegainRedis, flags, process, link, Running, IndInv,
                    TypeOK, Alive
      <3> QED
        BY <3>1, <3>2
    <2> QED
      BY <1>1, <2>1, <2>2 DEF IndInv, TypeOK, MailsInv
  <1>3. ProbesEarly'
    BY <1>1 DEF IndInv, ProbesEarly
  <1>4. CauseKnown'
    BY <1>1 DEF ConnectRedis, Start, Drained, Sweep, Network, LoseRedis, RegainRedis, process,
                IndInv, CauseKnown, Booting, Alive, ShuttingDown
  <1>5. TakenDown'
    BY <1>1 DEF ConnectRedis, Start, Drained, Sweep, Network, LoseRedis, RegainRedis, process, flags,
                IndInv, TypeOK, TakenDown, CauseKnown, Booting, Alive, ShuttingDown
  <1>6. ZeroIsClean'
    BY <1>1 DEF ConnectRedis, Start, Drained, Sweep, Network, LoseRedis, RegainRedis, process,
                IndInv, CauseKnown, ZeroIsClean, Alive
  <1>7. NobodyCutOff'
    <2>1. CASE Drained
      BY <1>1, <2>1 DEF Drained, flags, IndInv, CauseKnown, TakenDown, NobodyCutOff, Alive
    <2>2. CASE ConnectRedis \/ Start
      BY <1>1, <2>2 DEF ConnectRedis, Start, IndInv, CauseKnown, NobodyCutOff, Alive
    <2>3. CASE Sweep \/ Network \/ LoseRedis \/ RegainRedis
      BY <1>1, <2>3 DEF Sweep, Network, LoseRedis, RegainRedis, process, flags, link, IndInv, TypeOK,
                        NobodyCutOff
    <2> QED
      BY <2>1, <2>2, <2>3
  <1> QED
    BY <1>2, <1>3, <1>4, <1>5, <1>6, <1>7, MailsInvIs DEF IndInv

\* A signal or an error that begins the shutdown, finds it begun, or ends the process.
LEMMA StopInv ==
    ASSUME IndInv, MailsInv', RedisKept', Signal \/ Fatal
    PROVE  IndInv'
  <1>1. UNCHANGED <<database, store, reachable, health>> /\ Alive
    BY DEF Signal, Fatal
  <1>2. /\ clients' \in [Clients -> Client] /\ ProbesEarly'
        /\ sweep' \in [timer : BOOLEAN, running : BOOLEAN]
    <2>1. \/ clients' = clients /\ sweep' = sweep
          \/ clients' = CloseIdle /\ sweep' = [sweep EXCEPT !.timer = FALSE]
      <3>1. ASSUME NEW source, InitiateShutdown(source)
            PROVE  \/ clients' = clients /\ sweep' = sweep
                   \/ clients' = CloseIdle /\ sweep' = [sweep EXCEPT !.timer = FALSE]
        BY <3>1 DEF InitiateShutdown
      <3> QED
        BY <3>1 DEF Signal, Fatal
    <2>2. clients \in [Clients -> Client] /\ ProbesEarly
          /\ sweep \in [timer : BOOLEAN, running : BOOLEAN]
      BY DEF IndInv, TypeOK
    <2>3. clients' \in [Clients -> Client] /\ ProbesEarly'
      <3>1. CASE clients' = clients
        BY <2>2, <3>1 DEF ProbesEarly
      <3>2. CASE clients' = CloseIdle
        BY <2>2, <3>2, IdleClosed DEF ProbesEarly
      <3> QED
        BY <2>1, <3>1, <3>2
    <2>4. sweep' \in [timer : BOOLEAN, running : BOOLEAN]
      BY <2>1, <2>2
    <2> QED
      BY <2>3, <2>4
  <1>3. CASE UNCHANGED <<cause, attached, listening, clients, sweep, redis>>
             /\ \/ UNCHANGED <<main, exit, faulted>>
                \/ faulted' \in BOOLEAN /\ \E how \in {"killed", "crashed"} : Exit(how, 1)
    <2>1. TypeOK'
      BY <1>1, <1>2, <1>3 DEF Exit, IndInv, TypeOK, MailsInv
    <2>2. CauseKnown' /\ TakenDown' /\ ZeroIsClean' /\ NobodyCutOff'
      BY <1>1, <1>3 DEF Exit, IndInv, CauseKnown, TakenDown, ZeroIsClean, NobodyCutOff, Booting, Alive,
                        ShuttingDown
    <2> QED
      BY <1>2, <2>1, <2>2, MailsInvIs DEF IndInv
  <1>4. CASE /\ ~ShuttingDown /\ ~Booting /\ exit' = exit
             /\ main' = "draining" /\ ~attached' /\ ~sweep'.timer /\ ~listening'
             /\ \/ cause' = "signal" /\ faulted' = faulted
                \/ cause' = "fatal" /\ faulted' = TRUE
             /\ attached' \in BOOLEAN /\ listening' \in BOOLEAN /\ redis' = redis
    <2>1. TypeOK'
      <3>1. cause' \in {"none", "signal", "fatal"} /\ faulted' \in BOOLEAN /\ main' \in Running
        BY <1>4 DEF IndInv, TypeOK, Running
      <3> QED
        BY <1>1, <1>2, <1>4, <3>1 DEF IndInv, TypeOK, MailsInv
    <2>2. ~faulted \/ cause' = "fatal"
      BY <1>1, <1>4 DEF IndInv, TakenDown, ShuttingDown
    <2>3. CauseKnown' /\ TakenDown' /\ ZeroIsClean' /\ NobodyCutOff'
      BY <1>1, <1>4, <2>2
      DEF IndInv, CauseKnown, TakenDown, ZeroIsClean, NobodyCutOff, Booting, Alive, ShuttingDown
    <2> QED
      BY <1>2, <2>1, <2>3, MailsInvIs DEF IndInv
  <1>5. CASE Signal
    BY <1>3, <1>4, <1>5 DEF Signal, InitiateShutdown, IndInv, TypeOK
  <1>6. CASE Fatal
    <2>1. CASE attached
      <3>1. ~ShuttingDown /\ ~Booting
        BY <2>1 DEF IndInv, TakenDown
      <3> QED
        BY <1>4, <1>6, <2>1, <3>1 DEF Fatal, InitiateShutdown, IndInv, TypeOK
    <2>2. CASE ~attached
      BY <1>3, <1>6, <2>2 DEF Fatal
    <2> QED
      BY <2>1, <2>2
  <1> QED
    BY <1>5, <1>6

LEMMA NextInv == IndInv /\ [Next]_vars => IndInv'
  <1> SUFFICES ASSUME IndInv, [Next]_vars PROVE IndInv'
    OBVIOUS
  <1>1. MailsInv' /\ RedisKept'
    BY MailsNext, RedisNext
  <1>2. ASSUME NEW m \in Mails, Post(m) PROVE IndInv'
    <2>1. UNCHANGED <<process, clients, sweep, link>>
      BY <1>2 DEF Post
    <2> QED
      BY <1>1, <2>1, SameInv
  <1>3. CASE UNCHANGED vars
    BY <1>1, <1>3, SameInv DEF vars, others
  <1> QED
    BY <1>1, <1>2, <1>3, ClientInv, MainInv, PartsInv, StopInv DEF Next

THEOREM Invariance == Spec => []IndInv
  <1> QED
    BY InitInv, NextInv, PTL DEF Spec

\* Everything has its type, in every behaviour.
THEOREM TypeCorrect == Spec => []TypeOK
  <1>1. IndInv => TypeOK
    BY DEF IndInv
  <1> QED
    BY <1>1, Invariance, PTL

\* An orchestrator that sees exit code 0 can trust it: whatever signals and errors
\* arrive in whatever order, the process did not fail, and it was told to stop unless
\* it had nothing to wait for, without its port and without Redis.
THEOREM ExitCodeHonest == Spec => []ZeroIsClean
  <1>1. IndInv => ZeroIsClean
    BY DEF IndInv
  <1> QED
    BY <1>1, Invariance, PTL

\* The cleanup of the shutdown cuts no client off, and a clean exit holds nothing.
THEOREM ClientsFirst == Spec => []NobodyCutOff
  <1>1. IndInv => NobodyCutOff
    BY DEF IndInv
  <1> QED
    BY <1>1, Invariance, PTL

\* Mails are tried as often as configured, and twice delivered only where an answer
\* was lost.
THEOREM MailsAccountedFor == Spec => []MailInv
  <1>1. IndInv => MailInv
    BY DEF IndInv
  <1> QED
    BY <1>1, Invariance, PTL

\* No cleanup run begins in a replica that is going down.
THEOREM SweepsEndFirst == Spec => NoLateSweep
  <1>1. ASSUME IndInv, [Next]_vars, ShuttingDown, sweep'.running, ~sweep.running PROVE FALSE
    <2>1. ~sweep.timer /\ ~Booting
      BY <1>1 DEF IndInv, TakenDown, CauseKnown
    <2>2. sweep' # sweep
      BY <1>1
    <2>3. ~InitiateShutdown("signal") /\ ~InitiateShutdown("fatal")
      BY <1>1, <2>2 DEF InitiateShutdown
    <2> QED
      BY <1>1, <2>1, <2>2
      DEF Next, vars, process, others, link, ReadConfig, ConnectRedis, Refuse, Start, Signal, Fatal,
          Drained, Disposed, Disconnected, ForceExit, RunDry, Connect, Probe, Request, Receive, AnswerProbe,
          Answer, Leave, Sweep, Network, LoseRedis, RegainRedis, Post, InitiateShutdown, Booting
  <1>2. IndInv /\ [Next]_vars => [ShuttingDown => ~(sweep'.running /\ ~sweep.running)]_vars
    BY <1>1
  <1> QED
    BY <1>2, Invariance, PTL DEF Spec, NoLateSweep

\* A load balancer that is told 200 asked before the shutdown, while Redis was well.
THEOREM ReadyIsTrue == Spec => ReadyTold
  <1>1. ASSUME IndInv, [Next]_vars, NEW c \in Clients, clients'[c].ready, ~clients[c].ready
        PROVE  ~clients[c].late /\ (store = "redis" => health = "ready")
    <2>1. clients \in [Clients -> Client] /\ ProbesEarly
      BY <1>1 DEF IndInv, TypeOK
    <2>2. PICK i \in Clients : AnswerProbe(i)
      <3>1. ~UNCHANGED clients
        BY <1>1
      <3>2. ~(Signal \/ Fatal)
        BY <1>1, <2>1, <3>1, IdleClosed DEF Signal, Fatal, InitiateShutdown
      <3>3. ASSUME NEW i \in Clients, Connect(i) \/ Probe(i) \/ Request(i) \/ Answer(i) \/ Leave(i)
            PROVE  FALSE
        <4>1. CASE Connect(i) \/ Leave(i)
          BY <1>1, <2>1, <4>1 DEF Connect, Leave, NoClient, Client
        <4>2. CASE Probe(i) \/ Request(i)
          <5>1. PICK work \in {"probe", "other"} : Receive(i, work)
            BY <4>2 DEF Probe, Request
          <5> QED
            BY <1>1, <2>1, <5>1 DEF Receive, Client
        <4>3. CASE Answer(i)
          <5>1. Respond(i, FALSE)
            BY <4>3 DEF Answer
          <5> QED
            BY <1>1, <2>1, <5>1 DEF Respond, NoClient, Client
        <4> QED
          BY <3>3, <4>1, <4>2, <4>3
      <3> QED
        BY <1>1, <3>1, <3>2, <3>3
        DEF Next, vars, others, ReadConfig, ConnectRedis, Refuse, Start, Drained, Disposed,
            Disconnected, ForceExit, RunDry, Sweep, Network, LoseRedis, RegainRedis, Post
    <2>3. clients[i].work = "probe" /\ \E ok \in BOOLEAN : Respond(i, ok /\ RedisReady)
      BY <2>2 DEF AnswerProbe
    <2>4. i = c /\ RedisReady
      BY <1>1, <2>1, <2>3 DEF Respond, NoClient, Client
    <2> QED
      BY <2>1, <2>3, <2>4 DEF ProbesEarly, RedisReady
  <1>2. IndInv /\ [Next]_vars =>
           [\A c \in Clients :
               clients'[c].ready /\ ~clients[c].ready =>
                  ~clients[c].late /\ (store = "redis" => health = "ready")]_vars
    BY <1>1
  <1> QED
    BY <1>2, Invariance, PTL DEF Spec, ReadyTold

-----------------------------------------------------------------------------
(* Mails come to an end.                                                   *)

\* A mail is submitted once, and an attempt, a failure or a sleep leaves less.
LEMMA MailStep ==
    ASSUME IndInv, NEW m \in Mails, Submit(m) \/ Deliver(m)
    PROVE  /\ Remaining(mails'[m]) < Remaining(mails[m])
           /\ \A i \in Mails \ {m} : mails'[i] = mails[i]
  <1>1. /\ mails \in [Mails -> Mail] /\ MaxAttempts \in Nat \ {0}
        /\ mails[m].attempt \in 0 .. MaxAttempts
        /\ mails[m].status = "waiting" => mails[m].attempt < MaxAttempts
    BY MaxAttemptsAssumption DEF IndInv, TypeOK, MailTypeOK, AttemptsLeft, Mail
  <1>2. CASE Submit(m)
    <2>1. /\ mails[m].status = "none"
          /\ \A i \in Mails \ {m} : mails'[i] = mails[i]
          /\ \/ mails'[m].status = "sent"
             \/ mails'[m].status = "sending" /\ mails'[m].attempt = 1
      BY <1>1, <1>2 DEF Submit, NoMail
    <2> QED
      BY <1>1, <2>1 DEF Remaining
  <1>3. CASE Accepted(m)
    <2>1. /\ mails[m].status = "sending" /\ mails'[m].status = "sent"
          /\ \A i \in Mails \ {m} : mails'[i] = mails[i]
      BY <1>1, <1>3 DEF Accepted, Sending, Mail
    <2> QED
      BY <1>1, <2>1 DEF Remaining
  <1>4. CASE Refused(m) \/ AnswerLost(m)
    <2>1. /\ mails[m].status = "sending" /\ mails'[m].status = AfterFailure(m)
          /\ mails'[m].attempt = mails[m].attempt
          /\ \A i \in Mails \ {m} : mails'[i] = mails[i]
      BY <1>1, <1>4 DEF Refused, AnswerLost, Sending, Mail
    <2>2. AfterFailure(m) \in {"failed", "waiting"}
      BY DEF AfterFailure
    <2> QED
      BY <1>1, <2>1, <2>2 DEF Remaining
  <1>5. CASE Retry(m)
    <2>1. /\ mails[m].status = "waiting" /\ mails'[m].status = "sending"
          /\ mails'[m].attempt = mails[m].attempt + 1
          /\ \A i \in Mails \ {m} : mails'[i] = mails[i]
      BY <1>1, <1>5 DEF Retry, Mail
    <2> QED
      BY <1>1, <2>1 DEF Remaining
  <1> QED
    BY <1>2, <1>3, <1>4, <1>5 DEF Deliver

\* For any number of attempts: whatever the mail server answers, withRetry ends.
THEOREM RetriesEnd == Spec => MailsRunOut
  <1>1. ASSUME IndInv, [Next]_vars, NEW m \in Mails, mails'[m] # mails[m]
        PROVE  Remaining(mails'[m]) < Remaining(mails[m])
    <2>1. ~UNCHANGED mails
      BY <1>1
    <2>2. PICK i \in Mails : Submit(i) \/ Deliver(i)
      BY <1>1, <2>1
      DEF Next, vars, others, post, ReadConfig, ConnectRedis, Refuse, Start, Signal, Fatal,
          Drained, Disposed, Disconnected, ForceExit, RunDry, Connect, Probe, Request, Receive, AnswerProbe,
          Answer, Leave, Sweep, Network, LoseRedis, RegainRedis, Post
    <2>3. /\ Remaining(mails'[i]) < Remaining(mails[i])
          /\ \A j \in Mails \ {i} : mails'[j] = mails[j]
      BY <1>1, <2>2, MailStep
    <2> QED
      BY <1>1, <2>3
  <1>2. IndInv /\ [Next]_vars =>
           [\A m \in Mails :
               mails'[m] # mails[m] => Remaining(mails'[m]) < Remaining(mails[m])]_vars
    BY <1>1
  <1> QED
    BY <1>2, Invariance, PTL DEF Spec, MailsRunOut

-----------------------------------------------------------------------------
(* ProcessLife is implemented.                                             *)

LEMMA LifeInit == Init => Life!Init
  BY DEF Init, Life!Init, Stage, Code, Booting

\* A step that neither ends the process nor begins the shutdown shows nothing, but
\* for the one that puts the replica into service.
LEMMA LifeRuns ==
    ASSUME IndInv, ReadConfig \/ ConnectRedis \/ Start \/ Drained \/ Disposed
    PROVE  Life!Next \/ UNCHANGED Life!vars
  <1>1. CASE ReadConfig \/ ConnectRedis \/ Drained \/ Disposed
    <2>1. UNCHANGED <<cause, listening, exit>>
      BY <1>1 DEF ReadConfig, ConnectRedis, Drained, Disposed, flags
    <2>2. main # "exited" /\ main' # "exited" /\ Stage' = Stage
      BY <1>1 DEF ReadConfig, ConnectRedis, Drained, Disposed, Stage, Booting
    <2>3. Code' = Code
      BY <2>1, <2>2 DEF Code, IndInv, TypeOK
    <2> QED
      BY <2>1, <2>2, <2>3 DEF Life!vars
  <1>2. CASE Start
    BY <1>2 DEF Start, Stage, Code, Booting, Life!Next, Life!Serve
  <1> QED
    BY <1>1, <1>2

\* The process ends, with a failure, or with the code that the shutdown has settled.
LEMMA LifeEnds ==
    ASSUME IndInv, Alive, Booting \/ ShuttingDown,
           main' = "exited", UNCHANGED <<cause, listening>>,
           exit'.code = 1 \/ (exit'.code = 0 /\ cause = "signal")
    PROVE  Life!Next
  <1>1. /\ Stage' = "ended"
        /\ Code' = IF exit'.code = 0 THEN "success" ELSE "failure"
    BY DEF Stage, Code, Booting
  <1>2. CASE Booting
    <2>1. Stage = "starting" /\ Code' = "failure"
      BY <1>1, <1>2 DEF Stage, IndInv, CauseKnown, ShuttingDown, Booting
    <2> QED
      BY <1>1, <2>1 DEF Life!Next, Life!Abort
  <1>3. CASE ~Booting
    <2>1. Stage = "stopping"
      BY <1>3 DEF Stage, Alive, IndInv, CauseKnown
    <2>2. Code' \in {Code, "failure"}
      BY <1>1, <1>3 DEF Code, Alive
    <2> QED
      BY <1>1, <2>1, <2>2 DEF Life!Next, Life!End
  <1> QED
    BY <1>2, <1>3

\* A signal or an error stops the replica if it serves, ends it if it has not begun
\* to or if no handler is left, and shows nothing once the shutdown has begun.
LEMMA LifeStops ==
    ASSUME IndInv, Signal \/ Fatal
    PROVE  Life!Next \/ UNCHANGED Life!vars
  <1>1. ASSUME NEW source \in {"signal", "fatal"}, InitiateShutdown(source), exit' = exit,
               Alive, ~Booting
        PROVE  Life!Next \/ UNCHANGED Life!vars
    <2>1. CASE ShuttingDown
      <3>1. UNCHANGED <<main, cause, listening, exit>>
        BY <1>1, <2>1 DEF InitiateShutdown
      <3> QED
        BY <3>1 DEF Life!vars, Stage, Code, Booting
    <2>2. CASE ~ShuttingDown
      <3>1. main = "up"
        BY <1>1, <2>2 DEF IndInv, TypeOK, CauseKnown, Running, Booting, Alive
      <3>2. main' = "draining" /\ cause' = source /\ listening' = FALSE
        BY <1>1, <2>2 DEF InitiateShutdown
      <3>3. Life!Stop
        BY <1>1, <3>1, <3>2 DEF Life!Stop, Stage, Code, Booting
      <3> QED
        BY <3>3 DEF Life!Next
    <2> QED
      BY <2>1, <2>2
  <1>2. CASE Signal
    <2>1. CASE Booting
      BY <1>2, <2>1, LifeEnds DEF Signal, Exit
    <2> QED
      BY <1>1, <1>2, <2>1 DEF Signal
  <1>3. CASE Fatal /\ attached
    BY <1>1, <1>3 DEF Fatal, IndInv, TakenDown
  <1>4. CASE Fatal /\ ~attached
    <2>1. Booting \/ ShuttingDown
      BY <1>4 DEF Fatal, IndInv, TypeOK, TakenDown, CauseKnown, Running, Booting, Alive
    <2> QED
      BY <1>4, <2>1, LifeEnds DEF Fatal, Exit
  <1> QED
    BY <1>2, <1>3, <1>4

\* Every step of the replica is a step of ProcessLife or shows nothing.
LEMMA LifeNext ==
    ASSUME IndInv, [Next]_vars
    PROVE  Life!Next \/ UNCHANGED Life!vars
  <1>1. ASSUME UNCHANGED process PROVE UNCHANGED Life!vars
    BY <1>1 DEF process, flags, Life!vars, Stage, Code, Booting
  <1>2. CASE Sweep \/ Network \/ LoseRedis \/ RegainRedis \/ UNCHANGED vars
             \/ \E m \in Mails : Post(m)
    <2>1. UNCHANGED process
      BY <1>2 DEF Sweep, Network, LoseRedis, RegainRedis, Post, vars
    <2> QED
      BY <1>1, <2>1
  <1>3. ASSUME NEW c \in Clients,
               Connect(c) \/ Probe(c) \/ Request(c) \/ AnswerProbe(c) \/ Answer(c) \/ Leave(c)
        PROVE  UNCHANGED Life!vars
    <2>1. UNCHANGED process
      BY <1>3 DEF Connect, Probe, Request, Receive, AnswerProbe, Answer, Leave
    <2> QED
      BY <1>1, <2>1
  <1>4. CASE Refuse \/ ForceExit
    <2>1. Alive /\ (Booting \/ ShuttingDown)
      BY <1>4 DEF Refuse, ForceExit, Alive, Booting, IndInv, CauseKnown
    <2> QED
      BY <1>4, <2>1, LifeEnds DEF Refuse, ForceExit, Exit, flags
  <1>5. CASE Disconnected
    <2>1. ShuttingDown /\ Alive
      BY <1>5 DEF Disconnected, Alive, IndInv, CauseKnown
    <2>2. /\ main' = "exited" /\ UNCHANGED <<cause, listening>>
          /\ exit'.code = IF cause = "signal" THEN 0 ELSE 1
      BY <1>5 DEF Disconnected, Exit
    <2> QED
      BY <2>1, <2>2, LifeEnds
  <1>6. CASE RunDry
    <2>1. Stage = "serving" /\ ~listening /\ UNCHANGED <<cause, listening>>
      BY <1>6 DEF RunDry, Stage, Booting, flags
    <2>2. Stage' = "ended" /\ Code' = "success"
      BY <1>6 DEF RunDry, Exit, Stage, Code, Booting
    <2> QED
      BY <2>1, <2>2 DEF Life!Next, Life!RunOut
  <1> QED
    BY <1>2, <1>3, <1>4, <1>5, <1>6, LifeRuns, LifeStops DEF Next

\* However signals, errors, connections, Redis and the database behave, a replica
\* lives the life that ProcessLife promises the orchestrator.
THEOREM Refinement == Spec => ImplementsLife
  <1>1. IndInv /\ [Next]_vars => [Life!Next]_Life!vars
    BY LifeNext
  <1> QED
    BY <1>1, LifeInit, Invariance, PTL DEF Spec, ImplementsLife, Life!Spec
=============================================================================
