SPECIFICATION Spec
CONSTANTS
    Letters <- MCLetters
    Provinces <- MCProvinces
    Metros <- MCMetros
    Deps <- MCDeps
    Csvs <- MCCsvs
    Docs = {"i1", "i2", "i3"}
    DepOf <- MCDepOf
    Kakao <- MCKakao
    Wanted <- MCWanted
    FlushAt = 2
    MaxFaults = 1
    MaxDeploys = 1
    MaxJobs = 4
    None = None
INVARIANTS BackfillMends MissIsReal BonusIsDeserved
CHECK_DEADLOCK FALSE
