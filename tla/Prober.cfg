\* Four vCPUs on a host of two sockets of two cores of two threads: every
\* class of pair occurs, and two pairs can be placed.  One measurement of
\* the first detection may fail; the builder checks the topology once.
CONSTANTS
    Levels = {"detect", "measure"}
    NrCpus = 4
    HostSockets = 2
    HostCores = 2
    HostThreads = 2
    NRequested = 2
    Users = {"para", "single", "sockets"}
    MaxFailed = 1
    MaxChecks = 1
    AllocMayFail = TRUE
    SAMPLE_US = 1
    Stretch = 2
    NR_SAMPLES = 1
    nr_param = 0
    act_sample = 2
    FirstMeasurement = {FALSE}
    MaxOnes = 1
    Spurious = FALSE
    PingMayFail = {"affinity", "mmap", "create"}
SPECIFICATION MCSpec
INVARIANT MCTypeOK
INVARIANT PlacementFollowsSockets
INVARIANT ProbingIsInference
INVARIANT MappedBeforeUse
PROPERTY MeasurementReturns
