SPECIFICATION FairSpec
CONSTANTS
    Threads = {t1, t2}
    MaxRetry = 2
    MaxFaults = 1
    Words = {w1, w2, w3}
    CacheMax = 1
    Langs = {"ko", "en", "fr"}
    Requests <- MCRequests
    Emails = {"a"}
    MaxQueries = 1
    MaxMatches = 2
    TopPhotos = 1
    None = None
    Loads <- MCLoads
    Form <- MCForm
PROPERTIES Answered
INVARIANTS TypeOK CacheMissesBounded PostsBounded AnswerIsTrue FallbackIsNotKept
CHECK_DEADLOCK FALSE
