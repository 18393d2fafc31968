CONSTANTS
    None = None
    Sessions = {s1}
    Choices = {h1}
    Connects = {x1}
    Refreshes = {f1, f2}
    Revokes = {v1}
    Uses = {}
    SignOuts = {}
    EndAlls = {}
    Lists = {}
    MaxOutages = 1
SPECIFICATION FairSpec
INVARIANTS
    TypeOK
    NoFork
    CanStillRefresh
    SaidEndedIsEnded
PROPERTIES
    StaysEnded
    ReuseEnds
    OneTurn
CHECK_DEADLOCK FALSE
