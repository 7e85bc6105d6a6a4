SPECIFICATION Spec
CONSTANTS
    Procs = {p1, p2}
    Coins = {c1, c2}
    Kinds = {"bitcoind", "server", "demo"}
    Funding = {1, 2}
    MaxAnchors = 2
    MaxMishaps = 1
INVARIANTS CreditsStand 
PROPERTY CommandsEnd
CHECK_DEADLOCK FALSE
