CONSTANTS
    Modes = {"coarse", "gran", "vtop"}
    NPairsReq = 2
    NOffsets = 2
    NL2Sets = 2
    Placements <- MCPlacements
    FirstPlaces <- MCFirstPlaces
    MaxTopoChecks = 1
SPECIFICATION Spec
CHECK_DEADLOCK FALSE
INVARIANT HelpersGoneBeforeFree
