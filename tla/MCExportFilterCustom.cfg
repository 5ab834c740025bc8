SPECIFICATION Spec
CONSTANTS
    u = u
    g = g
    Users = {u}
    Guests = {g}
    Count = 1
    TableModes <- MCCustom
    MaxId = 3
    MaxChanges = 0
INVARIANTS
    OrderPostsFiltered
CHECK_DEADLOCK FALSE
