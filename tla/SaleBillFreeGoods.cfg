CONSTANTS
    walkin = walkin
    asha = asha
    NoLimit = NoLimit
    Bills = {b1, b2}
    Customers <- MCCustomers
    WalkIns <- MCWalkIns
    CreditLimit <- MCCreditLimit
    Lines = {l1}
    Baskets <- MCBaskets
    FreeGoods = TRUE
    MaxGrand = 2
    MaxPay = 3
    MaxTopup = 1
    MaxAdjust = 1
    MaxDay = 1
    WindowDays = 0
    Offline = FALSE
SYMMETRY BillSymmetry
SPECIFICATION Spec
INVARIANTS
    GoodsBackAtMostOnce
CHECK_DEADLOCK FALSE
