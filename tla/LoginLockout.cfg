CONSTANTS
    Requests = {r1, r2, r3}
    NoRow = NoRow
    MaxAttempts = 2
    Window = 1
    Lockout = 2
SPECIFICATION FairSpec
INVARIANTS TypeOK CountInv
PROPERTIES OverlapsRunOut LockEnds
