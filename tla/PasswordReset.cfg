CONSTANTS
    Users = {u1}
    ResetIds = {i1, i2}
    SessionIds = {s1, s2}
    Requests = {r1, r2, r3}
    NoRow = NoRow
    NoUser = NoUser
    NoId = NoId
    ResetTtl = 1
    MaxTime = 1
    MaxVersion = 2
SPECIFICATION Spec
SYMMETRY Symmetry
INVARIANTS TypeOK NoSessionSurvivesTwoChanges TokensSurviveOnlyPastResets OnlyOverlappingTokens
