CONSTANTS
    NColors = 3
    NPairsInit = 1
    MayBeUnbuilt = {}
    Scale = 4
    Rates = {0, 4}
    AlphaRise = 50
    AlphaFall = 50
    BaseWaits = {3000}
    FixWait = {FALSE}
    MaxExpandLow = 2
SPECIFICATION Spec
PROPERTY WaitReturnsWhenIdle
