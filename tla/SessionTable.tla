---------------------------- MODULE SessionTable ----------------------------
(***************************************************************************)
(* The Session table of prisma/schema.prisma and the statements that       *)
(* src/services/authService.ts and src/jobs/sessionCleanup.ts send to it.  *)
(* Each operator is what one statement does to the whole table; PostgreSQL *)
(* runs a single statement atomically.                                     *)
(*                                                                         *)
(* A Token stands for the pair of JWTs that mintSessionTokens signs at one *)
(* moment: the access token carries (sub, sessionId, iat) and the refresh  *)
(* token (sub, sid, jti, iat).  The stored hash of a refresh token is      *)
(* represented by the token itself, and the empty string, which            *)
(* tokenEqualsHash never matches, by NoToken.                              *)
(***************************************************************************)
EXTENDS Naturals

CONSTANTS
    Users,          \* ids of the rows of User
    SessionIds,     \* the UUIDs that randomUUID can draw
    NoToken,        \* the empty hash, and the absence of a token
    NoRow           \* the absence of a row

Token == [sid : SessionIds, sub : Users, jti : Nat, iat : Nat]

Row == [userId    : Users,
        valid     : BOOLEAN,
        token     : Token \cup {NoToken},
        updatedAt : Nat]

Table == [SessionIds -> Row \cup {NoRow}]

ASSUME NoTokenAssumption == NoToken \notin Token

ASSUME NoRowAssumption == NoRow \notin Row

EmptyTable == [s \in SessionIds |-> NoRow]

-----------------------------------------------------------------------------
(* Selections: the WHERE clauses.                                          *)

Exists(table, s) == table[s] # NoRow

\* The session authenticates and can be refreshed.
Live(table, s) == Exists(table, s) /\ table[s].valid

\* Mutant: the statement loses its WHERE clause on userId.
OfUser_Anyone(table, u) == {s \in SessionIds : Exists(table, s)}

OfUser(table, u) == {s \in SessionIds : Exists(table, s) /\ table[s].userId = u}

\* Mutant: rows are compared with the reference time itself.
Stale_NoTtl(table, reference, ttl) ==
    {s \in SessionIds :
        /\ Exists(table, s)
        /\ \/ ~table[s].valid
           \/ table[s].updatedAt <= reference}

\* The rows cleanupExpiredSessions deletes, for a reference time and the
\* number of ticks that parseExpiryToMs reads in JWT_REFRESH_EXPIRY.
Stale(table, reference, ttl) ==
    {s \in SessionIds :
        /\ Exists(table, s)
        /\ \/ ~table[s].valid
           \/ table[s].updatedAt + ttl <= reference}

-----------------------------------------------------------------------------
(* Statements.  Prisma sets the @updatedAt column in every update.         *)

\* Mutant: the id and the owner are swapped.
Insert_SwappedIds(table, s, u, tok, time) ==
    [table EXCEPT ![s] = [userId    |-> s,
                          valid     |-> TRUE,
                          token     |-> tok,
                          updatedAt |-> time]]

Insert(table, s, u, tok, time) ==
    [table EXCEPT ![s] = [userId    |-> u,
                          valid     |-> TRUE,
                          token     |-> tok,
                          updatedAt |-> time]]

\* Mutant: a raw statement that does not maintain updatedAt.
SetToken_KeepsClock(table, s, tok, time) ==
    [table EXCEPT ![s] = [table[s] EXCEPT !.token = tok]]

\* Mutant: the rotation writes valid: true along with the token.
SetToken_Revalidates(table, s, tok, time) ==
    [table EXCEPT ![s] = [table[s] EXCEPT !.valid = TRUE, !.token = tok, !.updatedAt = time]]

\* session.update({ where: { id }, data: { token } })
SetToken(table, s, tok, time) ==
    [table EXCEPT ![s] = [table[s] EXCEPT !.token = tok, !.updatedAt = time]]

\* session.updateMany({ where, data: { valid: false, token: "" } })
Invalidate(table, S, time) ==
    [s \in SessionIds |->
        IF s \in S /\ Exists(table, s)
        THEN [table[s] EXCEPT !.valid = FALSE, !.token = NoToken, !.updatedAt = time]
        ELSE table[s]]

\* session.deleteMany({ where })
DeleteMany(table, S) == [s \in SessionIds |-> IF s \in S THEN NoRow ELSE table[s]]
=============================================================================
