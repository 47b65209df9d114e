SPECIFICATION Spec
CONSTANTS
    Corpus <- MCCorpus
    KeyOf <- MCKeyOf
    Golden <- MCGolden
    Expected <- MCExpected
    Hard <- MCHard
    Order <- MCOrder
    Chunk = 2
    Ks = {1, 2}
    Scores = {0, 1}
    MaxRuns = 4
    MaxFaults = 1
    None = None
    Bad = Bad
INVARIANTS PaidOnce RecallAtKKept
CHECK_DEADLOCK FALSE
