\* Two concurrent workers, every kind of request, every database fault, crashes.
CONSTANTS
    Workers = {w1, w2}
    Apps = {a1}
    None = None
    SettleLimit <- MCSettleLimit
    MaxTenure <- MCMaxTenure
    Requests <- MCRequests
    WriteOutcomes <- AllOutcomes
    MayCrash = TRUE
SPECIFICATION Spec
INVARIANTS
    AtMostOneTransfer
    OneExecutor
    MoneyIsClaimed
    SettledIsBacked
    AnswersAgree
    BooksAreInOrder
    AuditIsHonest
PROPERTIES
    RowIsSettledOnce
    ContractKept
SYMMETRY Symmetry
