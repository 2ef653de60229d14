CONSTANTS
    walkin = walkin
    asha = asha
    NoLimit = NoLimit
    Bills = {b1, b2}
    Customers <- MCCustomers
    WalkIns <- MCWalkIns
    CreditLimit <- MCCreditLimit
    Lines = {l1}
    Baskets <- MCBaskets
    FreeGoods = FALSE
    MaxGrand = 2
    MaxPay = 2
    MaxTopup = 1
    MaxAdjust = 1
    MaxDay = 1
    WindowDays = 0
    Offline = FALSE
SYMMETRY BillSymmetry
SPECIFICATION Spec
INVARIANTS
    MoneyAgrees
    FullReturnSquares
    GoodsBackAtMostOnce
    MoneyAccountedFor
    OverLimitOnlyByAdmin
PROPERTIES
    SettledStaysSettled
CHECK_DEADLOCK FALSE
