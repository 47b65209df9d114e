SPECIFICATION Spec
CONSTANTS
    Threads = {t1, t2}
    Keys <- MCKeys
    Limit <- MCLimit
    Window <- MCWindow
    Requests = {"text", "image"}
    Checks <- MCChecks
    Units <- MCUnits
    Budget = 3
    MaxClock = 3
    LastDay = 2
    DateOf <- MCDateOf
    MaxRequests = 5
INVARIANTS TypeOK WindowKept BudgetKept
PROPERTIES RefusedOnlyWhenFull
SYMMETRY Symmetry
