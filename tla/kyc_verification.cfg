\* Two workers, requests of one applicant, every commit fault, crashes.
CONSTANTS
    Workers = {w1, w2}
    Applicants = {a1}
    Keys = {k1}
    None = None
    Today <- MCToday
    Profiles <- MCProfiles
    MaxRuns = 2
    CommitOutcomes <- AllOutcomes
    MayCrash = TRUE
SPECIFICATION Spec
INVARIANTS
    CaseMatchesCheck
    CheckIsOwn
    CheckIsAudited
    SanctionedIsFailed
    AnswerIsRecorded
SYMMETRY Symmetry
CHECK_DEADLOCK FALSE
