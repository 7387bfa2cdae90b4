\* Two producers, a well-behaved daemon that registers any of the three
\* connection types; vmalloc in pack_smc may fail.
CONSTANTS
    p1 = p1  p2 = p2  a1 = a1  a2 = a2
    Producers <- MCProducers
    Arrays <- MCArrays
    NULL = NULL
    NoOwner = NoOwner
    NoVal = NoVal
    NoMsg = NoMsg
    Disks = 5
    AllocMayFail = TRUE
    DaemonPid = 42
    Transports = {"PROCFS", "IOCTL", "NL"}
    MaxBadEchoes = 0
    DaemonSignals = FALSE
    NlAllocMayFail = FALSE
    NlUnicastMayFail = FALSE
    Strangers = {}
    NPAGES = 16
    Backings = {"vmalloc", "kmem"}
    MapOffsets = {}
    MapPages = {1}

SPECIFICATION Spec

INVARIANT TypeOK
INVARIANT ExclusiveJob
INVARIANT ConsumerSeesLiveJob
INVARIANT ReturnedJobComputed
INVARIANT OffsetSchemeHonoured
 
PROPERTY SubmitReturns
