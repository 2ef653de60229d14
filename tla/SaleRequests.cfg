CONSTANTS
    asha = asha
    NoLimit = NoLimit
    NoKey = NoKey
    Nobody = Nobody
    Bills = {b1, b2}
    Customers <- MCCustomers
    WalkIns = {}
    CreditLimit <- MCCreditLimit
    Lines = {l1}
    Baskets <- MCBaskets
    FreeGoods = FALSE
    MaxGrand = 2
    MaxPay = 3
    MaxTopup = 1
    MaxAdjust = 0
    MaxDay = 0
    WindowDays = 0
    Offline = FALSE
    Ops <- MCOps
    Requests = {r1, r2}
    Keys = {k1}
SYMMETRY Symmetry
SPECIFICATION ReqSpec
INVARIANTS
    KeyPaysOnce
PROPERTIES
    AsIfAlone
CHECK_DEADLOCK FALSE
