\* netlink, nlmsg_new may fail: is every returned job computed?
CONSTANTS
    p1 = p1  p2 = p2  a1 = a1  a2 = a2
    Producers <- MCProducers
    Arrays <- MCArrays
    NULL = NULL
    NoOwner = NoOwner
    NoVal = NoVal
    NoMsg = NoMsg
    Disks = 5
    AllocMayFail = TRUE
    DaemonPid = 42
    Transports = {"NL"}
    MaxBadEchoes = 0
    DaemonSignals = FALSE
    NlAllocMayFail = TRUE
    NlUnicastMayFail = FALSE
    Strangers = {}
    NPAGES = 16
    Backings = {"vmalloc", "kmem"}
    MapOffsets = {}
    MapPages = {1}

SPECIFICATION Spec

INVARIANT ReturnedJobComputed

CHECK_DEADLOCK FALSE
