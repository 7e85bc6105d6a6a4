\* A crash after the proof is stored and before the lease is dropped.
SPECIFICATION Spec
CONSTANTS
    Operations = {op1, op2, op3}
    Outpoints = {o1, o2}
    Coins = {c1, c2}
    Threads = {t1, t2}
    Reenter = {op3}
    MayCrash = TRUE
    None = None
SYMMETRY MCSymmetry
INVARIANT LeaseReclaimable
