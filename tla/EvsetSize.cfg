CONSTANTS
    MCSizes = {5}
    Pools <- MCPools
    W = 3
    Slack = 1
    ExtraCong = 0
    CapScaling = 2
    MaxBacktrack = 3
    VerifyRetry = 2
    UnknownSib = 1
    NEvsets = 2
    MaxMiss = 1
SPECIFICATION Spec
CHECK_DEADLOCK FALSE
INVARIANT StoredSizeWithinSlack
