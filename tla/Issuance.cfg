SPECIFICATION Spec
CONSTANTS
    Release <- MCRelease
    Host <- MCHost
    BuiltIn <- MCBuiltIn
    MaxRecipients = 2
    MinFeeReserve = 1
    MinOutput = 1
    Policy <- MCPolicy
    Authorization <- MCAuthorization
    Outpoints = {"o1", "o2"}
    Late = {"o1"}
    RootAuthenticated = TRUE
    MaxU64 = 7
    MaxTime = 2
    MaxMishaps = 1
    None = None
INVARIANTS MintedOnce SupplyBounded
PROPERTY SignsUnderFloor
CHECK_DEADLOCK FALSE
