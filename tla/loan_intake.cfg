\* Two workers, one application, three uploads or reviews, every fault, crashes.
CONSTANTS
    None = None
    Today <- MCToday
    Workers = {w1, w2}
    Applications = {a}
    Requests <- MCRequests
    Files <- MCFiles
    WriteOutcomes <- AllOutcomes
    BucketOutcomes <- BothOutcomes
    ReaderOutcomes <- CallOutcomes
    MayCrash = TRUE
    MaxBegun = 3
SPECIFICATION Spec
INVARIANTS
    DocumentsBearOut
    OnlySoftIssues
    RefusedIsRemoved
    StatusIsReviewed
    LogIsExact
SYMMETRY Symmetry
CHECK_DEADLOCK FALSE
