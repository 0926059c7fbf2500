\* Two workers, one request id of each kind, every fault, crashes.
CONSTANTS
    Workers = {w1, w2}
    Keys <- MCKeys
    Kind <- MCKind
    Payloads <- MCPayloads
    WriteOutcomes <- AllOutcomes
    MayCrash = TRUE
    MaxStored = 2
SPECIFICATION Spec
INVARIANTS
    StoredOnce
    AnswersAgree
    RejectedCanRetry
    AcceptedIsRecorded
    CallbackOnce
SYMMETRY Symmetry
