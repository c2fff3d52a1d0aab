CONSTANTS
    Users = {u1}
    ResetIds = {i1, i2}
    SessionIds = {s1}
    Requests = {r1, r2}
    NoRow = NoRow
    NoUser = NoUser
    NoId = NoId
    ResetTtl = 1
    MaxTime = 1
    MaxVersion = 2
SPECIFICATION Spec
INVARIANTS SessionsMatchPassword
