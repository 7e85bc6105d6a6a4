SPECIFICATION Spec
CONSTANTS
    Operations = {1, 2}
    Coins = {c1, c2}
    Keys = {k1, k2}
    None = None
    MaxMishaps = 2
INVARIANTS DeviceBound SignedInBackup CoinExclusive
SYMMETRY Symmetry
CHECK_DEADLOCK FALSE
