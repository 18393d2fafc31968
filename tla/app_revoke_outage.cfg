CONSTANTS
    None = None
    Sessions = {s1}
    Choices = {h1}
    Connects = {x1}
    Refreshes = {}
    Revokes = {v1}
    Uses = {}
    SignOuts = {}
    EndAlls = {}
    Lists = {}
    MaxOutages = 1
SPECIFICATION Spec
INVARIANT RevokedAppIsEnded
CHECK_DEADLOCK FALSE
