CONSTANTS
    SettleLimit <- MCSettleLimit
    MaxTenure <- MCMaxTenure
    Requests <- MCRequests
SPECIFICATION Spec
INVARIANTS
    NodesComputeFinalState
    ReceiptTellsTheTruth
    HistoryIsAPath
CHECK_DEADLOCK FALSE
