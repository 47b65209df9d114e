SPECIFICATION FairSpec
CONSTANTS
    Items = {1, 2}
    Grades = {60}
    StrongAt = 80
    WeakAt = 50
    MaxTime = 5
    MaxFaults = 1
    None = None
    Reports = {r1}
    Emails = {a}
    Tokens = {k1}
    Seeded = {r1}
    KeepN = 6
    GradedMax = 500
    WatchDefault = 1
    WatchMax = 2
    Retention = 1
    VerifyFor = 1
    Threads = {t1}
    Requests = {"alerts"}
    DaysAsked = {1}
    MaxRequests = 1
PROPERTIES ItemsGetJudged PastReportsExpire OldReportsArePurged
