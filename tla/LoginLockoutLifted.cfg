CONSTANTS
    Requests = {r1, r2}
    NoRow = NoRow
    MaxAttempts = 2
    Window = 2
    Lockout = 2
SPECIFICATION Spec
PROPERTIES LockHolds
