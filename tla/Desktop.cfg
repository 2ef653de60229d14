CONSTANTS
    Bills = {b1, b2}
    Races = {"sale", "answer", "start"}
    MaxImports = 2
    MaxUploads = 2
    MaxWork = 1
    KeepDays = 1
    MaxChanges = 2
    MaxBackups = 3
    LastDate = 2
INIT DesktopInit
NEXT DesktopNext
SYMMETRY BillSymmetry
INVARIANTS
    OfflineWorkKept
    ServerRowsAgree
    NumbersUsedOnceUnlessBehind
    MovedOnce
    BusinessKept
CHECK_DEADLOCK FALSE
