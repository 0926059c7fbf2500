\* Two workers, requests of one application, every database fault, crashes.
CONSTANTS
    Workers = {w1, w2}
    Apps = {a1}
    None = None
    Reports <- MCReports
    TermsAsked <- MCTerms
    MaxRuns = 2
    WriteOutcomes <- AllOutcomes
    MayCrash = TRUE
SPECIFICATION Spec
INVARIANTS
    DecisionIsOwn
    AnswerIsRecorded
    HardDeclineIsDeclined
SYMMETRY Symmetry
CHECK_DEADLOCK FALSE
