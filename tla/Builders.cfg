CONSTANTS
    Programs = {"l2", "arena", "freq", "helper", "lats", "l2color",
                "vpoisoner"}
    W = 2
    UnknownSib = 1
    NumSets = {1, 4}
    CandScale = 2
    NRetries = 2
    MaxWholeRet = 1
    MaxMiss = 2
    NOffsets = 3
    NSets = 3
    Threads = {1, 2, 3}
    Callers = {"evset", "vcolor"}
    SleepTimes = {0, 1}
    MayFail = {"mmap", "calloc", "create", "populate", "open"}
    NWays = 2
    NCands = 3
    Sizes = {1, 2, 3}
    Retry = 1
    MaxNumRecs = {1, 2}
    MaxSockets = 2
    Modes = {TRUE, FALSE}
    FreqMayFail = {"calloc", "create", "topo", "affinity", "cgroup"}
    Targets = {t1, t2}
    Blocks = {b1, b2}
    reps = 4
    Outlier = 5000
    U32 = 65536
    U64 = 16777216
    AllocMayFail = TRUE
    TableRows = 2
    TableColumns = 3
    AskedL2Sets = {0, 3, 5}
    AskedOffsets = {0, 2, 3}
    AskedThreads = {0, 1, 3}
    PairCores = {2, 4, 6}
    ScanRounds = 2
    ScanPeriod = {0, 1}
    OccMayFail = {"build", "calloc", "cgroup", "create", "helper"}
    PoisonL2Sets = {0, 1, 3, 5}
    PoisonCores = {2, 4}
    Filtered = {0, 4}
    PoisonMayFail = {"debug_mod", "mmap", "calloc", "build", "create",
                     "helper"}
SPECIFICATION Spec
INVARIANT TypeOK
INVARIANT L2ColoursDistinct
INVARIANT CountCoversViews
INVARIANT OnlyFaultsLoseColours
INVARIANT HelperRunsWhenCommanded
INVARIANT ReadsFindObjects
PROPERTY L2BuildReturns
INVARIANT PayloadAliveWhileUsed
INVARIANT DoneBeforeReturn
PROPERTY ImplementsService
PROPERTY EveryCallReturns
INVARIANT QuietCalibrationSeparates
INVARIANT RowsMeasuredOnce
INVARIANT EverythingThrashedOnce
