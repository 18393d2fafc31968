CONSTANTS
    None = None
    c2 = c2
    directory = directory
    scan = scan
    u1 = u1
    u2 = u2
    Card = card
    Browsers = {b1, b2}
    Tabs = {t1, t2}
    Returns = {r1, r2}
    Clients = {c1, c2}
    Methods = {card, scan, directory}
    Upstreams = {u1, u2}
    ProviderOf <- MCProviderOf
    Offered <- MCOffered
    FlowTTL = 1
    MaxTime = 1
    MaxFlows = 2
    MaxBindings = 2
SPECIFICATION Spec
SYMMETRY Symmetric
INVARIANTS
    TypeOK
    SignedInAsAsked
    OncePerFlow
    BoundTabFinishes
CHECK_DEADLOCK FALSE
