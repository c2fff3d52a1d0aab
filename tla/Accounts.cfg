CONSTANTS
    Emails = {e1, e2}
    UserIds = {u1, u2}
    TokenIds = {t1, t2}
    SessionIds = {s1, s2}
    Requests = {r1, r2, r3}
    NoRow = NoRow
    NoTime = NoTime
    NoEmail = NoEmail
    NoId = NoId
    Ttl = 2
    MaxTime = 3
SPECIFICATION Spec
SYMMETRY Symmetry
INVARIANTS TypeOK OneAccountPerEmail RegistrationIsWhole VerifiedByMail OnlyVerifiedLogIn
PROPERTIES StrandedForGood ImplementsLedger
