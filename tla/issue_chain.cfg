CONSTANTS
    None = None
    edge = edge  mcp = mcp  files = files
    portal = portal  app = app  portalAud = portalAud  appAud = appAud
    b1 = b1  b2 = b2  work = work  power = power
    Core = core
    Register = register
    People = {p1}
    Tenants = {t1}
    ServiceClients = {mcp, files}
    SignInClients = {app}
    Audiences = {portalAud, appAud, mcp, files, register}
    Boxes = {b1, b2}
    Levels = {work, power, claim}
    DoorScopes = {claim}
    Assistants = {a1}
    SessionIds = {s1}
    Documents <- ChainDocuments
    Roles <- ChainRoles
    Members = {mcp}
    MaxHops = 3
    MaxTokens = 2
SPECIFICATION Spec
INVARIANTS
    TypeOK
    NoBoxBeyondTheApp
    NamedLevelsOnly
    CarriedForward
    ActedForATenant
CHECK_DEADLOCK FALSE
