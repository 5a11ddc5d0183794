CONSTANTS
    MCSizes = {0, 1, 2, 5, 8}
    Pools <- MCPools
    W = 3
    Slack = 1
    ExtraCong = 0
    CapScaling = 2
    MaxBacktrack = 3
    VerifyRetry = 2
    UnknownSib = 1
    NEvsets = 2
    MaxMiss = 2
SPECIFICATION Spec
CHECK_DEADLOCK FALSE
INVARIANT TypeOK
INVARIANT AccessesInBounds
INVARIANT StoredSetsArePure
INVARIANT QuietBuildIsExact
INVARIANT QuietSetsAreDisjoint
PROPERTY Terminates
