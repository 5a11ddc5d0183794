CONSTANTS
    Programs = {"vcolor", "lcas", "live", "multi", "para", "heatmap"}
    NColors = 3
    NPairsInit = 1
    MayBeUnbuilt = {2}
    NSockets = 2
    MayHaveNoPairs = {1}
    Scale = 4
    Rates = {0, 4}
    AlphaRise = 50
    AlphaFall = 50
    BaseWait = 3000
    BaseWaits = {1000, 2000, 3000}
    FixWait = {FALSE, TRUE}
    MaxExpandLow = 2
    Iterations = {0, 3}
    MaxLost = 1
    Modes = {"coarse", "gran", "vtop"}
    NPairsReq = 2
    NOffsets = 2
    NL2Sets = 2
    MaxTopoChecks = 1
    Built = {0, 1, 3}
    Cores = {1, 4}
    NumThreads = {0, 8}
    Callers = {"plain", "pinned", "vtop"}
    n_time_slots = 2
    MaxSockets = 2
    HeatMayFail = {"build", "calloc", "cgroup", "create", "helper"}
SPECIFICATION Spec
INVARIANT TypeOK
INVARIANT KernelFollowsMonitor
INVARIANT MapRanksSockets
PROPERTY HottestNeedsThreeScans
PROPERTY ColdestNeedsThreeScans
PROPERTY ShrinksAfterTwoSaturatedScans
PROPERTY LiveShrinksAfterTwoHotScans
PROPERTY WaitFollowsRounds
INVARIANT OneWriterPerCell
INVARIANT CompleteWhenDone
INVARIANT WorkersGoneBeforeFree
PROPERTY Completes
INVARIANT WorkersPrimeThroughOwnHelper
INVARIANT WorkersHangOnlyWithoutHelper
INVARIANT ArgumentsOutliveWorkers
