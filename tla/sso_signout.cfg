CONSTANTS
    None = None
    c1 = c1
    c2 = c2
    m1 = m1
    m2 = m2
    Clients = {c1, c2}
    Browsers = {b1}
    People = {alice, bob}
    Methods = {m1, m2}
    SingleSignOn = {c1}
    Offered <- MCOneEach
    SignIns = {s1, s2}
    Answers = {a1}
    Exchanges = {}
    Refreshes = {}
    Revokes = {}
    Logouts = {l1}
    SessionTTL = 2
    MaxTime = 1
    MaxOutages = 0
SPECIFICATION FairSpec
INVARIANTS
    TypeOK
    SharedSubject
    AnsweredReached
    OneSessionPerClient
    AnsweredOnProof
PROPERTIES
    SignOutReaches
CHECK_DEADLOCK FALSE
