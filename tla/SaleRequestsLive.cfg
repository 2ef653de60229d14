CONSTANTS
    asha = asha
    NoLimit = NoLimit
    NoKey = NoKey
    Nobody = Nobody
    Bills = {b1, b2}
    Customers <- MCCustomers
    WalkIns = {}
    CreditLimit <- MCLooseLimit
    Lines = {l1}
    Baskets <- MCBaskets
    FreeGoods = FALSE
    MaxGrand = 2
    MaxPay = 3
    MaxTopup = 0
    MaxAdjust = 1
    MaxDay = 0
    WindowDays = 0
    Offline = FALSE
    Ops <- MCLiveOps
    Requests = {r1, r2}
    Keys = {k1}
SPECIFICATION FairSpec
PROPERTIES
    EveryRequestAnswered
CHECK_DEADLOCK FALSE
