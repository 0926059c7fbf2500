\* Expected to be violated: see the property.
CONSTANTS
    Jobs = {j1, j2}
    Apps = {a1}
    None = None
    SettleLimit <- MCSettleLimit
    MaxTenure <- MCMaxTenure
    Requests <- TwoOffers
    Shapes <- NestedShape
SPECIFICATION Spec
PROPERTY CancelledIsNotPaid
