CONSTANTS
    b1 = b1  b2 = b2  o1 = o1  o2 = o2  o3 = o3  c1 = c1  c2 = c2  c3 = c3
    r1 = r1  r2 = r2  v1 = v1  v2 = v2  t1 = t1  t2 = t2
    None = None
    Reserves = {r1}
    Vouts = {v1}
    Batches = {b1, b2}
    Operations = {o1, o2, o3}
    Coins = {c1, c2}
    Threads = {t1, t2}
    MaxRecipients = 2
    MaxBumps = 1
    MaxMishaps = 2
SPECIFICATION Spec
SYMMETRY Symmetry
INVARIANTS  SignedOnce  StockUsable
CHECK_DEADLOCK FALSE
