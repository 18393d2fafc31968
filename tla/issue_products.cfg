CONSTANTS
    None = None
    edge = edge  mcp = mcp  files = files
    portal = portal  app = app  portalAud = portalAud  appAud = appAud
    b1 = b1  b2 = b2  work = work  power = power
    Core = core
    Register = register
    People = {p1}
    Tenants = {t1, t2}
    ServiceClients = {edge, mcp}
    SignInClients = {portal}
    Audiences = {portalAud, appAud, mcp, files, register}
    Boxes = {b1, b2}
    Levels = {work, power, claim}
    DoorScopes = {claim}
    Assistants = {}
    SessionIds = {s1}
    Documents <- MembershipDocuments
    Roles <- MembershipRoles
    Members = {p1}
    MaxHops = 2
    MaxTokens = 2
SPECIFICATION Spec
INVARIANTS
    Confined
    SessionKeepsTenant
CHECK_DEADLOCK FALSE
