\* procfs, a signal may reach the daemon while it waits in proc_read: is
\* every returned job computed?
CONSTANTS
    p1 = p1  p2 = p2  a1 = a1  a2 = a2
    Producers <- MCProducers
    Arrays <- MCArrays
    NULL = NULL
    NoOwner = NoOwner
    NoVal = NoVal
    NoMsg = NoMsg
    Disks = 5
    AllocMayFail = TRUE
    DaemonPid = 42
    Transports = {"PROCFS"}
    MaxBadEchoes = 0
    DaemonSignals = TRUE
    NlAllocMayFail = FALSE
    NlUnicastMayFail = FALSE
    Strangers = {}
    NPAGES = 16
    Backings = {"vmalloc", "kmem"}
    MapOffsets = {}
    MapPages = {1}

SPECIFICATION Spec

INVARIANT ReturnedJobComputed

CHECK_DEADLOCK FALSE
