------------------------------ MODULE Barracuda ------------------------------
(***************************************************************************)
(* The offload channel of src/barracuda_kernel_module/raid6cuda.c, put     *)
(* together: the controller (OffloadController), the configuration gate    *)
(* (ConfGate) and the transport the daemon selects (ProcfsTransport, ...), *)
(* with the user-space daemon as the single consumer.                      *)
(*                                                                         *)
(* The daemon's own code is not in the repository; its behaviour is the   *)
(* one the specification describes: it registers with "pid=<its pid>" and *)
(* "con=<transport>", then loops receiving a job, mapping the container    *)
(* and the buffers through /dev/barracuda, computing the syndromes in      *)
(* place and signalling completion.                                        *)
(***************************************************************************)
EXTENDS Naturals, FiniteSets, Sequences

CONSTANTS Producers, Arrays, NULL, NoOwner, Disks, AllocMayFail,
          NoVal,
          Transports,    \* connection types the daemon may choose: "PROCFS", ...
          DaemonPid,     \* the daemon's process id
          MaxBadEchoes, DaemonSignals, NoMsg, NlAllocMayFail, NlUnicastMayFail, Strangers,
          NPAGES,        \* map_kmem's ceiling in pages
          Backings,      \* how callers may allocate their buffers: "vmalloc", "kmem"
          MapOffsets,    \* offsets other processes mmap or read /dev/barracuda at
          MapPages       \* lengths, in pages, of their mappings

ASSUME /\ Transports \subseteq {"PROCFS", "IOCTL", "NL"}
       /\ DaemonPid \in Nat \ {0} /\ Strangers \subseteq Nat \ {0, DaemonPid}

VARIABLES sem, pc, snc, actual, allocated, computed,
          PID, configured, callUsp,
          transport,     \* the connection type the daemon registers
          dpc, procfsFlag, badEchoes, ioctlFlag, nlFlag, skbGlobal, toDaemon,
          backing, lastAccess,
          dmap,          \* the next page offset the daemon maps
          dviews         \* the targets of the daemon's current mappings

vars == <<sem, pc, snc, actual, allocated, computed, PID, configured, callUsp,
          transport, dpc, procfsFlag, badEchoes, ioctlFlag, nlFlag, skbGlobal, toDaemon,
          backing, lastAccess, dmap, dviews>>

Ctl  == INSTANCE OffloadController
Conf == INSTANCE ConfGate WITH Writers <- {}, Lines <- {},
                               wpc <- <<>>, wline <- <<>>
Proc == INSTANCE ProcfsTransport
Ioctl == INSTANCE IoctlTransport
Nl   == INSTANCE NetlinkTransport
Mm   == INSTANCE MemoryMap

ctlVars  == <<pc, snc, actual, allocated, computed>>
confVars == <<PID, configured, callUsp>>
procVars == <<procfsFlag, badEchoes>>
ioctlVars == <<ioctlFlag>>
nlVars == <<nlFlag, skbGlobal, toDaemon>>
trVars == <<procVars, ioctlVars, nlVars>>
mmVars == <<backing, lastAccess, dmap, dviews>>

Init == /\ Ctl!ControllerInit
        /\ Conf!ConfInit
        /\ Proc!ProcInit
        /\ Ioctl!IoctlInit
        /\ Nl!NlInit
        /\ transport \in Transports
        /\ dpc = "reg_pid"
        /\ backing \in Backings
        /\ lastAccess = Mm!NoAccess
        /\ dmap = 0
        /\ dviews = {}

(***************************************************************************)
(* The daemon.                                                             *)
(***************************************************************************)

RegLine(instr, v) == [instr |-> instr, val |-> v, copy |-> "ok"]

\* The state the daemon's job loop starts in, and the one it enters after
\* computing a job, for each connection type.
LoopStart    == [PROCFS |-> "read",  IOCTL |-> "ioctl", NL |-> "nl_req"]
AfterCompute == [PROCFS |-> "write", IOCTL |-> "ioctl", NL |-> "nl_reply"]

\* Registration, first step: write "pid=<DaemonPid>" to /proc/barracuda/conf.
DaemonRegisterPid ==
    /\ dpc = "reg_pid"
    /\ Conf!ConfWrite(RegLine("pid", Conf!Decimal(0, DaemonPid)))
    /\ dpc' = "reg_con"
    /\ UNCHANGED <<ctlVars, trVars, transport, mmVars>>

\* Registration, second step: write "con=<transport>".
DaemonRegisterCon ==
    /\ dpc = "reg_con"
    /\ Conf!ConfWrite(RegLine("con", Conf!Word(transport)))
    /\ dpc' = LoopStart[transport]
    /\ UNCHANGED <<ctlVars, trVars, transport, mmVars>>

\* The daemon maps offset 0 (the container, one page) and then, as the
\* mapped container's disks says, offsets 1..disks (one page per buffer).
\* A NULL dereference in mmap_mmap oopses in the daemon's system call,
\* which kills the daemon.
DaemonMap ==
    /\ dpc = "map"
    /\ dmap <= actual.disks
    /\ Mm!MmapMmap("daemon", dmap, 1)
    /\ IF lastAccess'.result = "oops"
       THEN dpc' = "dead" /\ UNCHANGED <<dviews, dmap>>
       ELSE /\ dviews' = dviews \cup {lastAccess'.target}
            /\ dmap' = dmap + 1
            /\ UNCHANGED dpc
    /\ UNCHANGED <<ctlVars, sem, confVars, trVars, transport>>

\* With everything mapped, the daemon computes the syndromes into the
\* caller's buffers and unmaps them before it signals completion.
ConsumerCompute ==
    /\ dpc = "map"
    /\ dmap > actual.disks
    /\ computed' = computed \cup ({actual.owner} \cap Producers)
    /\ dpc' = AfterCompute[transport]
    /\ dmap' = 0
    /\ dviews' = {}
    /\ UNCHANGED <<sem, pc, snc, actual, allocated, confVars, trVars, transport,
                   backing, lastAccess>>

(***************************************************************************)
(* The composition.                                                        *)
(***************************************************************************)

ProducerNext(p) ==
    \/ (Ctl!Enter(p) \/ Ctl!Pack(p) \/ Ctl!Kill(p))
          /\ UNCHANGED <<confVars, transport, dpc, trVars, mmVars>>
    \/ callUsp = "proc" /\ Proc!ProcProducerNext(p)
          /\ UNCHANGED <<confVars, transport, ioctlVars, nlVars, mmVars>>
    \/ callUsp = "ioctl" /\ Ioctl!IoctlProducerNext(p)
          /\ UNCHANGED <<confVars, transport, procVars, nlVars, mmVars>>
    \/ callUsp = "nl" /\ Nl!NlProducerNext(p)
          /\ UNCHANGED <<configured, callUsp, transport, procVars, ioctlVars, mmVars>>

ConsumerNext ==
    \/ DaemonRegisterPid \/ DaemonRegisterCon \/ DaemonMap \/ ConsumerCompute
    \/ transport = "PROCFS" /\ Proc!ProcConsumerNext
          /\ UNCHANGED <<confVars, transport, ioctlVars, nlVars, mmVars>>
    \/ transport = "IOCTL" /\ Ioctl!IoctlConsumerNext
          /\ UNCHANGED <<confVars, transport, procVars, nlVars, mmVars>>
    \/ transport = "NL" /\ Nl!NlConsumerNext
          /\ UNCHANGED <<configured, callUsp, transport, procVars, ioctlVars, mmVars>>

\* A signal (the daemon being stopped, or any other) reaches the daemon
\* while it waits in proc_read.
DaemonSignalled ==
    /\ transport = "PROCFS" /\ Proc!ProcReadInterrupted
    /\ UNCHANGED <<confVars, transport, ioctlVars, nlVars, mmVars>>

\* Another process sends to the netlink socket.
StrangerNext ==
    \E s \in Strangers :
        /\ Nl!NlForeignSend(s)
        /\ UNCHANGED <<configured, callUsp, transport, procVars, ioctlVars, mmVars>>

\* Another process opens /dev/barracuda (local_dev_open checks nothing) and
\* mmaps it, reads it or writes it, at an offset of its choice.
StrangerAccess ==
    \E s \in Strangers, i \in MapOffsets :
        /\ \/ \E n \in MapPages : Mm!MmapMmap(s, i, n)
           \/ Mm!BarracudaRead(s, i)
           \/ Mm!BarracudaWrite(s, i)
        /\ UNCHANGED <<sem, pc, snc, computed, confVars, transport, dpc, trVars,
                       dmap, dviews>>

Next == (\E p \in Producers : ProducerNext(p)) \/ ConsumerNext \/ StrangerNext
        \/ StrangerAccess \/ DaemonSignalled

\* Kernel semaphores wake their waiters in FIFO order and every waiting
\* thread is rescheduled: strong fairness for each down, weak fairness for
\* every other step of a producer or of the daemon.
Fairness ==
    /\ \A p \in Producers :
          /\ SF_vars(ProducerNext(p) /\ pc[p] \in {"down_gen", "call"})
          /\ WF_vars(ProducerNext(p) /\ pc[p] \notin {"idle", "down_gen", "call"})
    /\ SF_vars(ConsumerNext)

Spec == Init /\ [][Next]_vars /\ Fairness

-----------------------------------------------------------------------------
(***************************************************************************)
(* Properties.                                                             *)
(***************************************************************************)

TypeOK ==
    /\ sem \in [Ctl!SemNames -> Nat]
    /\ pc \in [Producers -> {"idle", "down_gen", "call", "proc_wait", "ioctl_lock",
                             "ioctl_wait", "nl_wait_req", "nl_wait_reply", "kill"}]
    /\ snc \in [Producers -> Ctl!Container]
    /\ actual \in Ctl!SharedContainer
    /\ allocated \subseteq Arrays
    /\ computed \subseteq Producers
    /\ PID \in Nat /\ configured \in {0, 1}
    /\ callUsp \in {"none", "proc", "ioctl", "nl"}
    /\ transport \in Transports
    /\ dpc \in {"reg_pid", "reg_con", "read", "read_wait", "map", "write",
               "ioctl", "ioctl_wait", "nl_req", "nl_recv", "nl_reply", "dead"}
    /\ procfsFlag \in {0, 2}
    /\ badEchoes \in 0..MaxBadEchoes
    /\ ioctlFlag \in {0, 1}
    /\ nlFlag \in {0, 1, 2}
    /\ skbGlobal \in {NoMsg} \cup [pid : Nat, addr : {"none", "back"}]
    /\ toDaemon \in Seq({"back"})
    /\ backing \in Backings
    /\ lastAccess = Mm!NoAccess \/ lastAccess.op \in {"mmap", "read", "write"}
    /\ dmap \in 0..Disks + 1
    /\ \A v \in dviews : v.kind \in {"container", "buffer", "beyond", "freed"}

\* raid6_cuda_gen_syndrome runs one job at a time: at most one producer is
\* between its down(&gen_syndrome_mutex) and its up, though barracuda_start
\* leaves the semaphore held and conf_write, not a producer, releases it.
ExclusiveJob == Cardinality(Ctl!InFlight) <= 1

\* The states in which a producer waits for the consumer inside call_usp.
TransportWait == {"proc_wait", "ioctl_wait", "nl_wait_reply"}

\* Whenever the daemon maps and computes, actual_snc holds the container of
\* the producer that is waiting for it, and the reference array it is about
\* to dereference has not been vfree'd by kill_smc (no stale or freed job);
\* every buffer the daemon has mapped so far belongs to that job.
ConsumerSeesLiveJob ==
    dpc = "map" =>
        \E p \in Producers :
            /\ pc[p] \in TransportWait
            /\ actual = Ctl!CopyToActual(p)
            /\ actual.disks > 0 => actual.ptrs \in allocated
            /\ \A v \in dviews : v.kind = "buffer" => v.arr = actual.ptrs

\* mmap of /dev/barracuda follows the offset scheme: a mapping that
\* mmap_mmap grants at offset 0 is of the container, at offset i in
\* 1..disks of buffer i-1 of the live reference array, and at any other
\* offset no mapping is granted (InvalidOffset).
OffsetSchemeHonoured ==
    lastAccess.op = "mmap" /\ lastAccess.result = "view" =>
        lastAccess.target = Mm!SchemeTarget(lastAccess.off, lastAccess.disks, lastAccess.arr)

\* A producer gets back from call_usp, and goes on to kill_smc and to return
\* to the RAID code, only after the consumer computed its job.
ReturnedJobComputed == \A p \in Producers : pc[p] = "kill" => p \in computed

\* The channel implements OffloadChannel: the producer between pack_smc and
\* the up(&gen_syndrome_mutex) after kill_smc holds the channel, its job is
\* computed once the consumer has computed it, and the channel is open once
\* conf_write has set configured.
ChanHolder == IF Ctl!InFlight = {} THEN NoOwner ELSE CHOOSE p \in Ctl!InFlight : TRUE
Chan == INSTANCE OffloadChannel WITH
            None <- NoOwner,
            open <- configured = 1,
            holder <- ChanHolder,
            phase <- IF ChanHolder = NoOwner THEN "free"
                     ELSE IF ChanHolder \in computed THEN "computed" ELSE "pending"

SubmitReturns == \A p \in Producers : pc[p] = "down_gen" ~> pc[p] = "idle"
=============================================================================
