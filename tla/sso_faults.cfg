CONSTANTS
    None = None
    c1 = c1
    c2 = c2
    m1 = m1
    m2 = m2
    Clients = {c1, c2}
    Browsers = {b1}
    People = {alice}
    Methods = {m1}
    SingleSignOn = {c1}
    Offered <- MCOffered
    SignIns = {s1}
    Answers = {a1}
    Exchanges = {x1, x2}
    Refreshes = {f1}
    Revokes = {v1}
    Logouts = {}
    SessionTTL = 1
    MaxTime = 1
    MaxOutages = 1
SPECIFICATION Spec
INVARIANTS
    SessionNamesItsGrant
    RefusedOnlyWhenEnded
    AnsweredListed
    OutageIsNoRefusal
PROPERTIES
    StaysEnded
CHECK_DEADLOCK FALSE
