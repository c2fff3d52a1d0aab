CONSTANTS
    Origins = {o1}
    Amounts = {2}
    Users = {u1, u2}
    Scripts = {k1, k2}
    NoEnv = NoEnv
    NoConfig = NoConfig
    NoUser = NoUser
SPECIFICATION Spec
SYMMETRY Symmetry
INVARIANT TypeOK
PROPERTIES ProductionFailsClosed AnswersJustified OnlyYearsFallShort
CHECK_DEADLOCK FALSE
