SPECIFICATION Spec
SYMMETRY Symmetry
CONSTANTS
    t1 = t1
    t2 = t2
    t3 = t3
    Txs <- MCTxs
    Anchor <- MCAnchor
    Consignments <- MCConsignments
    Consignment <- MCConsignment
    Required = 2
    Observers = {"o1", "o2"}
    Quorum = 2
    Liars = {"o2"}
    BlockSize = 1
    MaxHeight = 3
    MaxMishaps = 1
INVARIANT SettledIsFirst
PROPERTIES SignedParentRecent CrossCheckSound
CHECK_DEADLOCK FALSE
