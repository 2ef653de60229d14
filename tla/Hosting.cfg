CONSTANTS
    Plans = {"starter", "growth"}
    TrialPlan = "growth"
    Price <- PriceDef
    PeriodDays <- PeriodDaysDef
    Offer <- OfferDef
    TrialDays = 1
    GraceDays = 1
    SoonDays = 1
    Checkouts = {1, 2}
    Processes = {p, q}
    MaxDay = 3
    MaxEvents = 3
    Owners = {o1, o2}
    Erasers = {e1, e2}
    DeletionGrace = 2
    CodeTries = 2
    LastDay = 4
    Calls = {q1, q2}
    MaxClock = 7
INIT HostingInit
NEXT HostingNext
SYMMETRY HostingSymmetry
INVARIANTS
    PaymentsCount
    RemindedOnce
    GraceKept
    SessionsEnd
CHECK_DEADLOCK FALSE
