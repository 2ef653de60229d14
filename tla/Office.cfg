CONSTANTS
    Forms <- OfficeForms
    Threshold = 2
    Types = {"REGULAR", "COMPOSITION"}
    Zones = {0, 1}
    DayParts = 2
    PeriodDays = 1
    LastPeriod = 1
    LastTime = 2
    MaxBills = 2
    MaxOffline = 1
    MaxEvents = 2
    Whos <- OfficeWhos
    MaxForms = 2
INIT OfficeInit
NEXT OfficeNext
INVARIANTS
    TablesAgree
    FiledStands
    PagesServed
    OwnChangeShown
CHECK_DEADLOCK FALSE
