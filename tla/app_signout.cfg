CONSTANTS
    None = None
    Sessions = {s1}
    Choices = {h1}
    Connects = {x1}
    Refreshes = {f1}
    Revokes = {}
    Uses = {u1}
    SignOuts = {o1}
    EndAlls = {e1}
    Lists = {n1}
    MaxOutages = 1
SPECIFICATION Spec
INVARIANTS
    ConnectedIsListed
    SaidEndedIsEnded
CHECK_DEADLOCK FALSE
