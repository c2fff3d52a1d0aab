CONSTANTS
    Users = {u1, u2}
    SessionIds = {s1, s2}
    Requests = {r1, r2}
    Sweepers = {w1}
    NoUser = NoUser
    NoToken = NoToken
    NoRow = NoRow
    RefreshTtl = 1
    AccessTtl = 1
    SweepTtl = 1
    MaxTime = 2
    MaxMint = 2
SPECIFICATION Spec
SYMMETRY Symmetry
INVARIANT TypeOK
PROPERTIES ActsForItsUser ImplementsLedger
