SPECIFICATION Spec
CONSTANTS
    Items = {1, 2}
    Grades = {60, 90}
    StrongAt = 80
    WeakAt = 50
    MaxTime = 0
    MaxFaults = 1
    None = None
    Reports = {r1}
    Emails = {a, b}
    Tokens = {k1}
    Seeded = {r1}
    KeepN = 1
    GradedMax = 500
    WatchDefault = 1
    WatchMax = 2
    Retention = 1
    VerifyFor = 1
    Threads = {t1, t2}
    Requests = {"alerts", "verify", "confirm", "dismiss", "delete"}
    DaysAsked = {1}
    MaxRequests = 2
SYMMETRY Symmetry
INVARIANTS CandidateIsStrong GradedWasJudged
PROPERTIES NoRepeatedAlert SettingsAreTheOwners StaleIsTouched
