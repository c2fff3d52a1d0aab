CONSTANTS
    Users = {u1}
    SessionIds = {s1}
    Requests = {r1, r2}
    Sweepers = {w1}
    NoUser = NoUser
    NoToken = NoToken
    NoRow = NoRow
    RefreshTtl = 2
    AccessTtl = 1
    SweepTtl = 2
    MaxTime = 3
    MaxMint = 3
SPECIFICATION Spec
PROPERTIES RotationIsExclusive
