CONSTANTS
    None = None
    ann = ann
    bob = bob
    eParaksts = eParaksts
    directory = directory
    LV = LV
    n1 = n1
    u1 = u1
    u2 = u2
    iss = iss
    authority = authority
    mobile = mobile
    scan = scan
    entra = entra
    high = high
    low = low
    Flows = {f1, f2}
    Answers = {r1}
    Browsers = {b1}
    People = {ann, bob}
    Providers = {eParaksts, directory}
    Card = Card
    Methods = {mobile, scan, entra, webEid, eid}
    CardMethod = webEid
    NoMethod = eid
    Levels = {high, low}
    CardLevel = high
    Words <- MCWords
    Names = {iss, authority}
    Countries = {LV}
    Digits = {n1}
    Handles = {u1, u2}
    Code <- MCCode
    Handle <- MCHandle
    Claim <- MCClaim
    Accounts <- MCAccounts
    Guests <- MCGuests
    Says <- MCSays
    Trusts = {eParaksts}
    Keyed = {directory}
    StatesTime = {directory}
    Offset <- MCOffset
    Honours = {eParaksts}
    Issuer <- MCIssuer
    Authority <- MCAuthority
    Holder = eParaksts
    Country <- MCCountry
    MethodPolicy <- MCMethodPolicy
    LoAPolicy <- MCLoAPolicy
    MethodDefault <- MCMethodDefault
    LoADefault <- MCLoADefault
    MethodsAllowed <- MCMethodsAllowed
    ToRegister = {ann}
    Named <- MCNamed
    Asks <- MCAsks
    SessionTTL = 3
    FlowTTL = 2
    Skew = 1
    Stall = 1
    Epoch = 2
    MaxTime = 3
    MaxFaults = 1
SPECIFICATION Spec
INVARIANTS
    TypeOK
    PersonsToldApart
    PersonFoundAgain
    FreshAsAsked
SYMMETRY MCSymmetry
CHECK_DEADLOCK FALSE
