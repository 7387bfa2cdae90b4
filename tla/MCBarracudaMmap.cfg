\* Another process (7) maps /dev/barracuda at page offset 6, one past the
\* five buffers of every container: the specification's offset scheme says
\* the mapping fails with InvalidOffset.
CONSTANTS
    p1 = p1  p2 = p2  a1 = a1  a2 = a2
    Producers <- MCProducers
    Arrays <- MCArrays
    NULL = NULL
    NoOwner = NoOwner
    NoVal = NoVal
    NoMsg = NoMsg
    Disks = 5
    AllocMayFail = FALSE
    DaemonPid = 42
    Transports = {"PROCFS"}
    MaxBadEchoes = 0
    DaemonSignals = FALSE
    NlAllocMayFail = FALSE
    NlUnicastMayFail = FALSE
    Strangers = {7}
    NPAGES = 16
    Backings = {"vmalloc", "kmem"}
    MapOffsets = {6}
    MapPages = {1}

SPECIFICATION Spec

INVARIANT OffsetSchemeHonoured
