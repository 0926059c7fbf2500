CONSTANTS
    Loans <- MCLoans
SPECIFICATION ScheduleSpec
INVARIANTS
    LoanIsRepaid
PROPERTIES
    LastIsNearEmi
CHECK_DEADLOCK FALSE
