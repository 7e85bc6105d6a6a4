\* One fee bump, reorganized blocks; the explorer may demote what it does not see.
SPECIFICATION FairSpec
CONSTANTS
    MaxBumps = 1
    RawRequired = FALSE
    None = None
INVARIANTS  DeliveredWasSent
 
