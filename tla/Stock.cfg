CONSTANTS
    main = main
    shop = shop
    m1 = m1
    m2 = m2
    s1 = s1
    p1 = p1
    t1 = t1
    NoBatch = NoBatch
    NoDocument = NoDocument
    Branches <- MCBranches
    Items <- MCItems
    Batches = {m1, m2}
    ItemOf <- MCItemOf
    Expiry <- MCExpiry
    Documents = {s1, p1, t1}
    Ops <- MCOps
    MaxDay = 1
    MaxSwitches = 1
    MaxDone = 4
    Requests = {r1, r2}
SYMMETRY Symmetry
SPECIFICATION StockSpec
INVARIANTS
    NeverShort
    GoodsAccountedFor
    DeadlocksNeedPurchase
PROPERTIES
    AsIfAlone
CHECK_DEADLOCK FALSE
