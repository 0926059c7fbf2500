\* Two requests at a time, re-runs with other terms, cancels, late calls, restarts.
CONSTANTS
    Jobs = {j1, j2}
    Apps = {a1}
    None = None
    SettleLimit <- MCSettleLimit
    MaxTenure <- MCMaxTenure
    Requests <- TwoOffers
    Shapes <- AllShapes
SPECIFICATION Spec
INVARIANTS
    PaidWasConfirmed
    ReportsMatchClaim
    OfferIsKeptForRetry
SYMMETRY Symmetry
