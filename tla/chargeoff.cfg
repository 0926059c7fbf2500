\* One worker, two applicants who differ in their payments only.
CONSTANTS
    Workers = {w1}
    Apps = {a1, a2}
    None = None
    Reports <- MCPayments
    TermsAsked <- MCTerms
    MaxRuns = 2
    WriteOutcomes <- Reliable
    MayCrash = FALSE
SPECIFICATION Spec
INVARIANTS
    ChargeoffCounts
CHECK_DEADLOCK FALSE
