CONSTANTS
    NSockets = 2
    MayHaveNoPairs = {}
    Scale = 4
    Rates = {0, 2, 4}
    AlphaRise = 50
    AlphaFall = 50
    BaseWait = 3000
    FixWait = {TRUE}
    MaxLost = 0
SPECIFICATION Spec
PROPERTY PublishedColdestIsStable
