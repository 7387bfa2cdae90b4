\* Software syndrome generators: the test module's KERNELMODE iteration and
\* one call of the SMP prototype.
CONSTANTS
    NSIZE = 2
    DiskCounts = {5, 6}
    Words <- MCWords
    GflogPast = 1
    SmpNSIZE = 8
    ByteCounts = {4096}
    ThreadJobs = 3
    VmallocMayFail = TRUE
SPECIFICATION MCSpec
INVARIANTS
    SyndromeTypeOK
    VanillaMatchesReference
    LifecycleTypeOK
    StopAfterThreadDone
PROPERTY RmmodReturns
\* One benchmark iteration and one SMP call end; both programs then stop.
CHECK_DEADLOCK FALSE
