\* Nothing fails: three racing workers, liveness (no symmetry).
CONSTANTS
    Workers = {w1, w2, w3}
    Apps = {a1}
    None = None
    SettleLimit <- MCSettleLimit
    MaxTenure <- MCMaxTenure
    Requests <- MCFewRequests
    WriteOutcomes <- Reliable
    MayCrash = FALSE
SPECIFICATION FairSpec
PROPERTIES
    ClaimIsSettled
