\* multi_rs_soft_gen_syndrome against the GF(2^8) definition of its rows.
CONSTANTS
    NSIZE = 2
    DiskCounts = {5, 6}
    Words <- MCWords
    GflogPast = 1
    SmpNSIZE = 8
    ByteCounts = {4096}
    ThreadJobs = 3
    VmallocMayFail = TRUE
SPECIFICATION MCSpec
INVARIANT MultiRsMatchesReference
CHECK_DEADLOCK FALSE
