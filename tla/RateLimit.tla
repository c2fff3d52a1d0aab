----------------------------- MODULE RateLimit -----------------------------
(***************************************************************************)
(* Rate limiting: the limiters that registerSecurity builds                *)
(* (src/middleware/security.ts) and hands to the routes                    *)
(* (src/middleware/authRateLimits.ts), for the requests of one client.     *)
(*                                                                         *)
(* A limiter of express-rate-limit counts in a window that begins with the *)
(* first request after the last window, and counts refused requests too.   *)
(* In Redis every replica counts in the same place, and the counter        *)
(* outlives it; in memory each counts for itself.  Ages and windows are in *)
(* ticks, and kept as distances, so that time is unbounded.                *)
(***************************************************************************)
EXTENDS Naturals, Sequences, FiniteSets, Functions

CONSTANTS
    Replicas,
    Requests,
    Kinds,          \* the kinds of requests the client makes
    Rpm,            \* the configured rate of each limiter, a fraction
    WindowSec,      \* RATE_LIMIT_WINDOW_SEC
    Window,         \* its length in ticks
    MaxRestarts     \* bound on the restarts

VARIABLES
    shared,         \* the store is Redis, for good
    max,            \* what toMax has made of the rates
    counters,       \* per place of counting and limiter
    reqs,
    passed,         \* history: requests let through at each place, not older than each age
    restarts,       \* history: how often each replica was replaced
    answer          \* history: how the last request ended

vars == <<shared, max, counters, reqs, passed, restarts, answer>>

Limiters == {"global", "auth", "register", "reset"}

ASSUME RateLimitAssumption ==
    /\ WindowSec \in Nat \ {0} /\ Window \in Nat \ {0} /\ MaxRestarts \in Nat
    /\ Rpm \in [Limiters -> [num : Nat, den : Nat \ {0}]]
    /\ Kinds \subseteq {"other", "login", "register", "reset"}
    /\ IsFiniteSet(Replicas) /\ "redis" \notin Replicas

\* The limiters in the way of a request, in their order.
Chain(kind) ==
    CASE kind = "other"    -> <<"global">>
      [] kind = "login"    -> <<"global", "auth">>
      [] kind = "register" -> <<"global", "auth", "register">>
      [] kind = "reset"    -> <<"global", "auth", "reset">>

Idle == [kind |-> "none", replica |-> "none", at |-> 0]

Request == [kind : Kinds, replica : Replicas, at : 1 .. 3]

Places == IF shared THEN {"redis"} ELSE Replicas

Place(r) == IF shared THEN "redis" ELSE reqs[r].replica

\* left is what is left of the window, nothing if there is none.
NoWindow == [hits |-> 0, left |-> 0]

TypeOK ==
    /\ shared \in BOOLEAN
    /\ max \in [Limiters -> Nat \ {0}]
    /\ counters \in [Places -> [Limiters -> [hits : Nat, left : 0 .. Window]]]
    /\ reqs \in [Requests -> Request \cup {Idle}]
    /\ passed \in [Places -> [Limiters -> [0 .. Window - 1 -> Nat]]]
    /\ restarts \in [Replicas -> Nat]
    /\ answer \in {"none", "handled", "limited", "error"}

-----------------------------------------------------------------------------
\* A product that should be whole may come out above it in floating point, and is
\* then rounded up by one.
Ceilings(num, den) ==
    LET n == (num + den - 1) \div den
    IN  IF num % den = 0 THEN {n, n + 1} ELSE {n}

\* Mutant: a rate of nothing is a limit of nothing.
ToMax_NoFloor(l) == Ceilings(Rpm[l].num * WindowSec, Rpm[l].den * 60)

\* toMax: the rate over the window, and at least one.
ToMax(l) ==
    {IF n = 0 THEN 1 ELSE n : n \in Ceilings(Rpm[l].num * WindowSec, Rpm[l].den * 60)}

Init ==
    /\ shared \in BOOLEAN
    /\ max \in {m \in [Limiters -> UNION {ToMax(l) : l \in Limiters}] :
                   \A l \in Limiters : m[l] \in ToMax(l)}
    /\ counters = [p \in Places |-> [l \in Limiters |-> NoWindow]]
    /\ reqs = [r \in Requests |-> Idle]
    /\ passed = [p \in Places |-> [l \in Limiters |-> [a \in 0 .. Window - 1 |-> 0]]]
    /\ restarts = [p \in Replicas |-> 0]
    /\ answer = "none"

Arrive(r, kind, p) ==
    /\ reqs[r] = Idle
    /\ reqs' = [reqs EXCEPT ![r] = [kind |-> kind, replica |-> p, at |-> 1]]
    /\ UNCHANGED <<shared, max, counters, passed, restarts, answer>>

LimiterOf(r) == Chain(reqs[r].kind)[reqs[r].at]

CounterOf(r) == counters[Place(r)][LimiterOf(r)]

\* Mutant: every request begins the window again.
Counted_Sliding(c) == [hits |-> IF c.left = 0 THEN 1 ELSE c.hits + 1, left |-> Window]

\* The store counts the request, in a new window if there is none.
Counted(c) == IF c.left = 0 THEN [hits |-> 1, left |-> Window] ELSE [c EXCEPT !.hits = @ + 1]

\* Beyond the limit a count makes no difference, and is kept as the limit plus one.
Hit(r) ==
    LET l == LimiterOf(r)
        c == Counted(CounterOf(r))
    IN  counters' = [counters EXCEPT ![Place(r)][l] =
                        [c EXCEPT !.hits = IF @ > max[l] THEN max[l] + 1 ELSE @]]

Over(r) == Counted(CounterOf(r)).hits > max[LimiterOf(r)]

Finish(r, how) ==
    /\ reqs' = [reqs EXCEPT ![r] = Idle]
    /\ answer' = how

\* The limiter lets the request through, to the next or to the handler.
LetThrough(r) ==
    /\ passed' = [passed EXCEPT ![Place(r)][LimiterOf(r)] = [a \in 0 .. Window - 1 |-> @[a] + 1]]
    /\ IF reqs[r].at = Len(Chain(reqs[r].kind)) THEN Finish(r, "handled")
       ELSE /\ reqs' = [reqs EXCEPT ![r].at = @ + 1]
            /\ UNCHANGED answer

Pass(r) ==
    /\ reqs[r] # Idle
    /\ Hit(r)
    /\ ~Over(r)
    /\ LetThrough(r)
    /\ UNCHANGED <<shared, max, restarts>>

\* 429.
Limit(r) ==
    /\ reqs[r] # Idle
    /\ Hit(r)
    /\ Over(r)
    /\ Finish(r, "limited")
    /\ UNCHANGED <<shared, max, passed, restarts>>

\* Mutant: passOnStoreError.
StoreFails_Open(r) ==
    /\ shared
    /\ reqs[r] # Idle
    /\ LetThrough(r)
    /\ UNCHANGED <<shared, max, counters, restarts>>

\* Redis fails, before it counts the request or after: 500, and nothing is handled.
StoreFails(r) ==
    /\ shared
    /\ reqs[r] # Idle
    /\ Hit(r) \/ UNCHANGED counters
    /\ Finish(r, "error")
    /\ UNCHANGED <<shared, max, passed, restarts>>

\* A replica is replaced: its requests are cut off, and what it counted in its own
\* memory is gone.
Restart(p) ==
    /\ SumFunction(restarts) < MaxRestarts
    /\ counters' = IF shared THEN counters
                   ELSE [counters EXCEPT ![p] = [l \in Limiters |-> NoWindow]]
    /\ reqs' = [r \in Requests |-> IF reqs[r].replica = p THEN Idle ELSE reqs[r]]
    /\ restarts' = [restarts EXCEPT ![p] = @ + 1]
    /\ UNCHANGED <<shared, max, passed, answer>>

\* A window that has run out is as good as none.
Older(c) == IF c.left <= 1 THEN NoWindow ELSE [c EXCEPT !.left = @ - 1]

Tick ==
    /\ counters' = [p \in Places |-> [l \in Limiters |-> Older(counters[p][l])]]
    /\ passed' = [p \in Places |-> [l \in Limiters |-> [a \in 0 .. Window - 1 |->
                                         IF a = 0 THEN 0 ELSE passed[p][l][a - 1]]]]
    /\ UNCHANGED <<shared, max, reqs, restarts, answer>>

Serve(r) == Pass(r) \/ Limit(r) \/ StoreFails(r)

Next ==
    \/ Tick
    \/ \E p \in Replicas :
          \/ Restart(p)
          \/ \E r \in Requests, kind \in Kinds : Arrive(r, kind, p)
    \/ \E r \in Requests : Serve(r)

Spec == Init /\ [][Next]_vars

\* Only time is sure to pass.
FairSpec == Spec /\ WF_vars(Tick)

-----------------------------------------------------------------------------
(* Properties.                                                             *)

\* The configured number of requests in a window, at least one: the reference for
\* toMax.
Quota(l) ==
    CHOOSE n \in 1 .. Rpm[l].num * WindowSec + 1 :
        /\ n * Rpm[l].den * 60 >= Rpm[l].num * WindowSec
        /\ \A k \in 1 .. n - 1 : k * Rpm[l].den * 60 < Rpm[l].num * WindowSec

\* toMax is at most one above the quota, and only where the quota is exact.
QuotaOrOneMore(l) ==
    Quota(l) + (IF Quota(l) * Rpm[l].den * 60 = Rpm[l].num * WindowSec THEN 1 ELSE 0)

\* What the limiter has let through anywhere within the length of a window.
Recent(l) == SumFunction([p \in Places |-> passed[p][l][Window - 1]])

\* In any stretch of time as long as the window a limiter lets through the end of one
\* window and the whole of the next: less than twice its quota in Redis, whatever
\* replicas serve the client and whatever fails; in memory that once per replica,
\* and a quota more for each restart.
BurstBound ==
    \A l \in Limiters :
        LET q == QuotaOrOneMore(l)
        IN  Recent(l) <= IF shared THEN 2 * q - 1
                         ELSE (2 * q - 1) * Cardinality(Replicas) + q * SumFunction(restarts)

\* A client that goes on although it is refused is let in again and again, unless
\* Redis keeps failing: refused requests are counted, but prolong no window.
RetryingHelps ==
    /\ []<><<answer' = "limited" /\ reqs' # reqs>>_vars
    /\ <>[](answer # "error")
    => []<><<answer' = "handled" /\ reqs' # reqs>>_vars
=============================================================================
