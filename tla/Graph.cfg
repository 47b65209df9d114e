SPECIFICATION Spec
CONSTANTS
    Items = {i1, i2, i3}
    Scores = {1, 2}
    Bonus = 2
    FromIndex = 3
    PerQuery = 2
    TopK = 2
    Said <- MCSaid
    MaxReply = 2
    None = None
INVARIANTS DominantFirst BestScoreCounts VerdictsAreTheirOwn JudgedFirst
SYMMETRY Symmetry
CHECK_DEADLOCK FALSE
