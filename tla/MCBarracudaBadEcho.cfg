\* procfs, one wrong address written back: does every job return?
\* The system stops after the leak, so deadlock is not checked.
CONSTANTS
    p1 = p1  p2 = p2  a1 = a1  a2 = a2
    Producers <- MCProducers
    Arrays <- MCArrays
    NULL = NULL
    NoOwner = NoOwner
    NoVal = NoVal
    NoMsg = NoMsg
    Disks = 5
    AllocMayFail = TRUE
    DaemonPid = 42
    Transports = {"PROCFS"}
    MaxBadEchoes = 1
    DaemonSignals = FALSE
    NlAllocMayFail = FALSE
    NlUnicastMayFail = FALSE
    Strangers = {}
    NPAGES = 16
    Backings = {"vmalloc", "kmem"}
    MapOffsets = {}
    MapPages = {1}

SPECIFICATION Spec

PROPERTY SubmitReturns

CHECK_DEADLOCK FALSE
