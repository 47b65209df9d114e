SPECIFICATION FairSpec
CONSTANTS
    Items = {1, 2}
    Grades = {60, 80}
    StrongAt = 80
    WeakAt = 50
    MaxTime = 0
    MaxFaults = 0
    None = None
    Reports = {r1}
    Emails = {a}
    Tokens = {k1}
    Seeded = {r1}
    KeepN = 6
    GradedMax = 500
    WatchDefault = 1
    WatchMax = 2
    Retention = 1
    VerifyFor = 1
    Threads = {t1}
    Requests = {"alerts", "verify", "confirm", "dismiss", "delete"}
    DaysAsked = {1}
    MaxRequests = 3
PROPERTIES StrongIsPromoted WeakIsTold
