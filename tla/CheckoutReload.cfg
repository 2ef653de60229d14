CONSTANTS
    abc = abc
    ABC = ABC
    xyz = xyz
    S = S
    M = M
    Items = {1, 2, 3}
    Codes <- MCCodes
    Key <- MCKey
    Product = shirt
    Sizes = {S, M}
    Single = Single
    Amounts = {0, 1, 2}
    NoItem = NoItem
    NoPrice = NoPrice
    Ops <- MCOps
    Requests = {r1, r2}
    MaxDone = 4
    LineChoices <- LC
    OrderChoices <- OC
    MaxLines = 2
    Tabs = {r1}
    Orders = {a, b}
    Alike = FALSE
    NoOrder = NoOrder
    MaxDrafts = 1
    MaxKeys = 2
    MaxTries = 2
    MaxWire = 2
    Windows = {r1, r2}
    Details = {a, b}
    MaxPayments = 2
    MaxIds = 3
    MaxSent = 4
INIT ShopInit
NEXT ShopNext
INVARIANTS
    RetryBillsOnce
CHECK_DEADLOCK FALSE
