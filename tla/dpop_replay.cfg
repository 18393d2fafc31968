CONSTANTS
    None = None
    Instances = {i1, i2}
    Clients = {a}
    Proofs = {p1, p2, p3, p4, p5, p6, p7}
    Owner <- MCOwner
    Home <- MCHome
    Calls = {c1, c2}
    NonceEnabled = TRUE
    MaxAge = 1
    Leeway = 1
    NonceTTL = 1
    Ahead = 1
    Behind = 0
    MaxTime = 4
    MaxFaults = 1
SPECIFICATION FairSpec
INVARIANTS
    TypeOK
    AcceptedAgainLate
PROPERTIES
    Served
CHECK_DEADLOCK FALSE
