CONSTANTS
    None = None
    Instances = {i1}
    Keys = {k1, k2, k3}
    TokenTTL = 1
    MaxTime = 1
    MaxRestarts = 1
    MaxTokens = 2
SPECIFICATION FairSpec
INVARIANTS
    SignerVerifies
PROPERTIES
    Converges
