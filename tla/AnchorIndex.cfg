SPECIFICATION Spec
CONSTANTS
    t1 = t1
    t2 = t2
    Txs = {t1, t2}
    Kinds = {"bitcoind", "esplora"}
    Required = 3
    PageSize = 1
    BlockSize = 2
    MaxHeight = 4
    MaxReorgs = 1
    MaxMishaps = 2
INVARIANTS NothingSkipped SettledIsMined
PROPERTY CatchesUp
CHECK_DEADLOCK FALSE
