CONSTANTS
    Replicas = {p1, p2}
    Requests = {r1}
    Kinds = {"other", "login"}
    Rpm <- Rates
    WindowSec = 20
    Window = 2
    MaxRestarts = 1
SPECIFICATION FairSpec
INVARIANTS TypeOK BurstBound
PROPERTIES RetryingHelps
