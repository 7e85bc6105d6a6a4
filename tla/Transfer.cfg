\* Crashes anywhere; three payments, one of them proved by two threads, compete for two
\* fee outpoints and two coins.
SPECIFICATION Spec
CONSTANTS
    Operations = {op1, op2, op3}
    Outpoints = {o1, o2}
    Coins = {c1, c2}
    Threads = {t1, t2}
    Reenter = {op3}
    MayCrash = TRUE
    None = None
SYMMETRY MCSymmetry
INVARIANTS TypeOK PublishedIsSigned CoinExclusive
PROPERTY SignsOwnReservation
