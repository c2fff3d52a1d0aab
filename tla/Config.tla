------------------------------- MODULE Config -------------------------------
(***************************************************************************)
(* Config: what getConfig (src/config/index.ts) makes of the environment,  *)
(* as far as the service decides by it, and the two readings of a lifetime *)
(* such as "7d": that of jsonwebtoken, which signs tokens with it, and     *)
(* that of the session cleanup (src/jobs/sessionCleanup.ts).               *)
(*                                                                         *)
(* A variable is the class its value belongs to.  "absent" stands for an   *)
(* empty value too, except of RATE_LIMIT_REDIS_URL, which must be a URL if *)
(* it is there; "blank" stands for spaces, "separators" for commas alone.  *)
(***************************************************************************)
EXTENDS Naturals

CONSTANTS Origins, Amounts

ASSUME AmountsAssumption == Amounts \subseteq Nat \ {0}

Units == {"bare", "ms", "s", "m", "h", "d", "w", "y"}

\* A positive number with its unit, if any.
Expiry == [amount : Amounts, unit : Units]

\* rest tells whether every other variable has a value the schema takes.
Env == [nodeEnv   : {"development", "test", "production"},
        rest      : BOOLEAN,
        guard     : {"none", "secret", "cidr"},
        secret    : {"absent", "blank", "text"},
        allowlist : {"absent", "separators", "invalid", "valid"},
        metrics   : BOOLEAN,
        origins   : SUBSET Origins,
        redisUrl  : {"absent", "notUrl", "url"},
        expiry    : Expiry]

If(condition, issue) == IF condition THEN {issue} ELSE {}

\* Mutant: a secret of spaces will do.
SecretIssues_NoTrim(env) ==
    IF env.guard = "secret" THEN If(env.secret = "absent", "METRICS_GUARD_SECRET")
    ELSE If(env.secret # "absent", "METRICS_GUARD_SECRET")

SecretIssues(env) ==
    IF env.guard = "secret" THEN If(env.secret # "text", "METRICS_GUARD_SECRET")
    ELSE If(env.secret # "absent", "METRICS_GUARD_SECRET")

AllowlistIssues(env) ==
    IF env.guard = "cidr" THEN If(env.allowlist # "valid", "METRICS_GUARD_ALLOWLIST")
    ELSE If(env.allowlist # "absent", "METRICS_GUARD_ALLOWLIST")

ProductionIssues(env) ==
    If(env.metrics /\ env.guard = "none", "METRICS_GUARD")
        \cup If(env.origins = {}, "CORS_ORIGINS")
        \cup If(env.redisUrl # "url", "RATE_LIMIT_REDIS_URL")

\* The refinement runs when the schema is satisfied, and stops at an allowlist with
\* nothing in it.
Issues(env) ==
    IF ~env.rest \/ env.redisUrl = "notUrl" THEN {"schema"}
    ELSE SecretIssues(env) \cup AllowlistIssues(env)
            \cup (IF \/ env.nodeEnv # "production"
                     \/ env.guard = "cidr" /\ env.allowlist \in {"absent", "separators"}
                  THEN {} ELSE ProductionIssues(env))

Accepted(env) == Issues(env) = {}

\* What app.ts and security.ts go by.  The expected secret has been trimmed.
ConfigOf(env) ==
    [prod     |-> env.nodeEnv = "production",
     guard    |-> env.guard,
     expected |-> IF env.secret = "text" THEN "text" ELSE "empty",
     mounted  |-> env.nodeEnv # "production" \/ env.metrics,
     origins  |-> env.origins]

StoreOf(env) == IF env.redisUrl = "url" THEN "redis" ELSE "memory"

AppConfig == [prod : BOOLEAN, guard : {"none", "secret", "cidr"}, expected : {"text", "empty"},
              mounted : BOOLEAN, origins : SUBSET Origins]

-----------------------------------------------------------------------------
(* The lifetime of refresh tokens, in seconds.                             *)

\* Mutant: a zero is missing.
SweepSeconds_ShortDay ==
    [bare |-> 1, s |-> 1, m |-> 60, h |-> 3600, d |-> 8640, w |-> 604800, y |-> 31536000]

\* unitsToMs, for a bare number too.
SweepSeconds ==
    [bare |-> 1, s |-> 1, m |-> 60, h |-> 3600, d |-> 86400, w |-> 604800, y |-> 31536000]

\* The units of the ms package, whose year is 365.25 days.
TokenSeconds == [s |-> 1, m |-> 60, h |-> 3600, d |-> 86400, w |-> 604800, y |-> 31557600]

\* parseExpiryToMs.
SweepTtl(e) == IF e.unit = "ms" THEN e.amount \div 1000 ELSE e.amount * SweepSeconds[e.unit]

\* jsonwebtoken takes a string without a unit for milliseconds, and a token expires
\* at a whole second.
TokenTtl(e) ==
    IF e.unit \in {"bare", "ms"} THEN e.amount \div 1000 ELSE e.amount * TokenSeconds[e.unit]
=============================================================================
