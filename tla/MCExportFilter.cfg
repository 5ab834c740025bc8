SPECIFICATION Spec
CONSTANTS
    u = u
    g = g
    Users = {u}
    Guests = {g}
    Count = 1
    TableModes <- MCModes
    MaxId = 3
    MaxChanges = 2
INVARIANTS
    TypeOK
    FitsTogether
    NobodyElse
    TakesTheWanted
CHECK_DEADLOCK FALSE
