CONSTANTS
    None = None
    c1 = c1
    c2 = c2
    m1 = m1
    m2 = m2
    Clients = {c1, c2}
    Browsers = {b1}
    People = {alice}
    Methods = {m1}
    SingleSignOn = {c1}
    Offered <- MCOffered
    SignIns = {s1, s2}
    Answers = {}
    Exchanges = {}
    Refreshes = {}
    Revokes = {}
    Logouts = {l1}
    SessionTTL = 1
    MaxTime = 0
    MaxOutages = 0
SPECIFICATION Spec
INVARIANT SignedInReached
CHECK_DEADLOCK FALSE
