\* netlink, another process (port id 7) sends to the socket: does the
\* daemon only ever compute a job whose producer is still waiting?
CONSTANTS
    p1 = p1  p2 = p2  a1 = a1  a2 = a2
    Producers <- MCProducers
    Arrays <- MCArrays
    NULL = NULL
    NoOwner = NoOwner
    NoVal = NoVal
    NoMsg = NoMsg
    Disks = 5
    AllocMayFail = TRUE
    DaemonPid = 42
    Transports = {"NL"}
    MaxBadEchoes = 0
    DaemonSignals = FALSE
    NlAllocMayFail = FALSE
    NlUnicastMayFail = FALSE
    Strangers = {7}
    NPAGES = 16
    Backings = {"vmalloc", "kmem"}
    MapOffsets = {}
    MapPages = {1}

SPECIFICATION Spec

INVARIANT ConsumerSeesLiveJob

CHECK_DEADLOCK FALSE
