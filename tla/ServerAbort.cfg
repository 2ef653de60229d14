CONSTANTS
    Businesses = {b1, b2, b3}
    Requests = {r1, r2, r3, j1}
    Jobs = {j1}
    MaxClients = 2
    MaxWaiting = 4
    Aborts = TRUE
    Owner = o
    k = k
    Cashiers <- ServerCashiers
    Home = 1
    Branches = {1, 2}
    Asked <- ServerAsked
    Changing <- ServerChanging
    Grants <- ServerGrants
    MaxChanges = 2
    MaxEdits = 2
    MaxRegisters = 1
INIT ServerInit
NEXT ServerNext
SYMMETRY ClientSymmetry
INVARIANT
    EveryUseIsLetGo
CHECK_DEADLOCK FALSE
