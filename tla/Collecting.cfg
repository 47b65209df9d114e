SPECIFICATION FairSpec
CONSTANTS
    Items = {1, 2, 3, 4}
    Sources <- MCSources
    SourceOf <- MCSourceOf
    Rows = 2
    MaxItems = 4
    Batch = 2
    MaxFaults = 2
    None = None
INVARIANTS CalmRunIndexesAll PaidOnce BatchesKept
PROPERTIES ListedGetsIndexed
