\* The prototypes.  PingPong: the three ping-pong prototypes, one pong
\* process each, two tests of three pings.  MmapExample: the code's BYTES
\* (100) and number of children (8), three disks.  The system really stops:
\* the proc and ioctl threads exit after their pings while pong blocks in
\* its next read, nl pong exits after its rounds while the thread waits for
\* another init packet, and the mmap program exits.
CONSTANTS
    Prototypes = {"proc", "ioctl", "nl"}
    Tests = 2
    Runs = 3
    p1 = p1  p2 = p2  p3 = p3
    w1 = w1  w2 = w2  w3 = w3  w4 = w4
    Writers <- MCWriters
    Lines <- MCLines
    NoVal = NoVal
    Pages <- MCPages
    DISKS = 3
    BYTES = 100
    PAGE_SIZE = 4096
    MX_NPAGES = 16
    NCHILD = 8

SPECIFICATION MCSpec

INVARIANT PingPongTypeOK
INVARIANT ConfTypeOK
INVARIANT PongAnswersOutstandingPing
INVARIANT PongMapsPackedBuffers
INVARIANT ChildrenTileBuffers
PROPERTY PingReturnsOnlyAnswered
PROPERTY PingsReturn

CHECK_DEADLOCK FALSE
