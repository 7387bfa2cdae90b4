\* The error paths of the transports: the daemon may write a wrong address
\* back to the procfs stub once, nlmsg_new may fail, netlink_unicast may
\* lose the job, and another process (port id 7) may send to the netlink
\* socket.  Each of these leaves a call_usp_* semaphore held or the
\* producer waiting for a reply that never comes, after which the system stops: deadlock is
\* the expected end of these behaviours, not a modelling artefact.
CONSTANTS
    p1 = p1  p2 = p2  a1 = a1  a2 = a2
    Producers <- MCProducers
    Arrays <- MCArrays
    NULL = NULL
    NoOwner = NoOwner
    NoVal = NoVal
    NoMsg = NoMsg
    Disks = 5
    AllocMayFail = TRUE
    DaemonPid = 42
    Transports = {"PROCFS", "IOCTL", "NL"}
    MaxBadEchoes = 1
    DaemonSignals = TRUE
    NlAllocMayFail = TRUE
    NlUnicastMayFail = TRUE
    Strangers = {7}
    NPAGES = 16
    Backings = {"vmalloc", "kmem"}
    MapOffsets = {1}
    MapPages = {1, 17}

SPECIFICATION Spec

INVARIANT TypeOK
INVARIANT ExclusiveJob

CHECK_DEADLOCK FALSE
