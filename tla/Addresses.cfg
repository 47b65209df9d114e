SPECIFICATION Spec
CONSTANTS
    Items = {1}
    Grades = {90}
    StrongAt = 80
    WeakAt = 50
    MaxTime = 0
    MaxFaults = 1
    None = None
    Reports = {r1}
    Emails = {a, b}
    Tokens = {k1, k2}
    Seeded = {}
    KeepN = 6
    GradedMax = 500
    WatchDefault = 1
    WatchMax = 2
    Retention = 1
    VerifyFor = 1
    Threads = {t1, t2}
    Requests = {"register", "alerts", "verify", "delete"}
    DaysAsked = {1}
    MaxRequests = 4
SYMMETRY Symmetry
INVARIANTS TypeOK VerifiedIsConsented ResultMailIsConsented PendingLinkIsCurrent
PROPERTIES LinkWorksOnce KeepsOptIn
