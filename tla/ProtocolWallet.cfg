CONSTANTS
    Assets = {usd}
    Radix = 2
    TopLimb = 2
    Prime = 11
    Payments <- PaymentsDef
    Ctxs = {1, 2, 3, 4, 5, 6}
    Clashing = {2}
    MaxProofs = 2
    MaxInFlight = 2
    MaxMishaps = 1
SPECIFICATION FairSpec
INVARIANTS AuditExact ReplayRestores
PROPERTIES ImplementsLedger EventuallyConsigned
CHECK_DEADLOCK FALSE
