--------------------------- MODULE OffloadController ---------------------------
(***************************************************************************)
(* The offload controller of src/barracuda_kernel_module/raid6cuda.c:      *)
(* raid6_cuda_gen_syndrome, the kernel entry point called by RAID code,   *)
(* and the syndrome-container helpers pack_smc and kill_smc.              *)
(*                                                                         *)
(* Every kernel semaphore of the module (DECLARE_MUTEX, a counting         *)
(* semaphore initialised to 1) is one entry of the function sem.  down()   *)
(* is a guard sem[s] > 0 followed by a decrement, up() an increment.       *)
(*                                                                         *)
(* A producer p is one kernel thread inside raid6_cuda_gen_syndrome.  Its  *)
(* program counter pc[p] runs                                              *)
(*    "idle" -> "down_gen" -> "call" -> (transport states) -> "kill"       *)
(* The transport modules move pc[p] from "call" to "kill".                 *)
(*                                                                         *)
(* Data is abstracted to identities: the reference array that pack_smc     *)
(* vmallocs is an element of Arrays, the buffers themselves are not        *)
(* represented.  actual.owner and computed are history variables that      *)
(* record which producer's container was last copied into actual_snc and  *)
(* whose buffers the consumer has computed the syndrome of.                *)
(***************************************************************************)
EXTENDS Naturals

CONSTANTS
    Producers,     \* kernel threads that call raid6_cuda_gen_syndrome
    Arrays,        \* addresses vmalloc may return for a reference array
    NULL,          \* the null pointer
    NoOwner,       \* owner of a container no producer has packed
    Disks,         \* the disks argument of every call (>= 3)
    AllocMayFail   \* whether vmalloc in pack_smc may return NULL

ASSUME /\ Disks \in Nat /\ Disks >= 3
       /\ AllocMayFail \in BOOLEAN
       /\ NULL \notin Arrays /\ NoOwner \notin Producers

VARIABLES
    sem,        \* kernel semaphore counts
    pc,         \* program counter of each producer
    snc,        \* the local syndrome_container of each producer
    actual,     \* *actual_snc, the container shared with the consumer
    allocated,  \* reference arrays currently vmalloc'ed
    computed    \* producers whose current job the consumer has computed

SemNames == {"gen_syndrome_mutex", "conf_mutex",
             "call_usp_proc_mutex", "proc_read_mutex", "proc_write_mutex",
             "call_usp_ioctl_mutex", "ioctl_init_mutex", "ioctl_callback_mutex",
             "call_usp_nl_mutex"}

\* down(&s) after the caller has seen sem[s] > 0, and up(&s).
Down(f, s) == [f EXCEPT ![s] = @ - 1]
Up(f, s)   == [f EXCEPT ![s] = @ + 1]

\* syndrome_container {disks; bytes; ptrs}; bytes is not represented.
Container == [ptrs : Arrays \cup {NULL}, disks : {0, Disks}]
\* *actual_snc: a container plus the history field owner.
SharedContainer == [ptrs : Arrays \cup {NULL}, disks : {0, Disks},
                    owner : Producers \cup {NoOwner}]

\* Faulty variants of SemInit: barracuda_start without one of its downs.
SemInitGenFree == [s \in SemNames |-> IF s = "ioctl_init_mutex" THEN 0 ELSE 1]
SemInitIoctlOpen == [s \in SemNames |-> IF s = "gen_syndrome_mutex" THEN 0 ELSE 1]

\* barracuda_start runs down(&gen_syndrome_mutex) and down(&ioctl_init_mutex)
\* before anything else; every other semaphore is still at its initial 1.
SemInit == [s \in SemNames |->
              IF s \in {"gen_syndrome_mutex", "ioctl_init_mutex"} THEN 0 ELSE 1]

ControllerInit ==
    /\ sem = SemInit
    /\ pc = [p \in Producers |-> "idle"]
    /\ snc = [p \in Producers |-> [ptrs |-> NULL, disks |-> 0]]
    \* actual_snc is vmalloc'ed and never initialised: any contents.
    /\ actual \in [ptrs : Arrays \cup {NULL}, disks : {0, Disks},
                   owner : {NoOwner}]
    /\ allocated = {}
    /\ computed = {}

\* A RAID thread calls raid6_cuda_gen_syndrome(disks, bytes, ptrs).
Enter(p) ==
    /\ pc[p] = "idle"
    /\ pc' = [pc EXCEPT ![p] = "down_gen"]
    /\ UNCHANGED <<sem, snc, actual, allocated, computed>>

\* pack_smc: vmalloc the reference array and copy the pointers into it; on
\* allocation failure a container {ptrs = NULL, disks = 0}.
PackSmc(a) == [ptrs |-> a, disks |-> Disks]
PackFailed == [ptrs |-> NULL, disks |-> 0]

\* Faulty variant of Pack: the semaphore's count taken without waiting for it.
PackNoGuard(p) ==
    /\ pc[p] = "down_gen"
    /\ sem' = Down(sem, "gen_syndrome_mutex")
    /\ \E a \in Arrays \ allocated :
          /\ snc' = [snc EXCEPT ![p] = PackSmc(a)]
          /\ allocated' = allocated \cup {a}
    /\ computed' = computed \ {p}
    /\ pc' = [pc EXCEPT ![p] = "call"]
    /\ UNCHANGED actual

\* down(&gen_syndrome_mutex); snc = pack_smc(disks, bytes, ptrs);
Pack(p) ==
    /\ pc[p] = "down_gen"
    /\ sem["gen_syndrome_mutex"] > 0
    /\ sem' = Down(sem, "gen_syndrome_mutex")
    /\ \/ \E a \in Arrays \ allocated :
              /\ snc' = [snc EXCEPT ![p] = PackSmc(a)]
              /\ allocated' = allocated \cup {a}
       \/ /\ AllocMayFail
          /\ snc' = [snc EXCEPT ![p] = PackFailed]
          /\ UNCHANGED allocated
    /\ computed' = computed \ {p}
    /\ pc' = [pc EXCEPT ![p] = "call"]
    /\ UNCHANGED actual

\* call_usp(snc) has returned: kill_smc(&snc) vfrees the reference array
\* (vfree(NULL) does nothing), then up(&gen_syndrome_mutex).
Kill(p) ==
    /\ pc[p] = "kill"
    /\ allocated' = allocated \ {snc[p].ptrs}
    /\ sem' = Up(sem, "gen_syndrome_mutex")
    /\ pc' = [pc EXCEPT ![p] = "idle"]
    /\ UNCHANGED <<snc, actual, computed>>

\* memcpy(actual_snc, &snc, sizeof(syndrome_container)), done by each
\* call_usp_* before it hands the job to the consumer.
CopyToActual(p) == [ptrs |-> snc[p].ptrs, disks |-> snc[p].disks, owner |-> p]

\* The producers between Pack and Kill: those holding gen_syndrome_mutex.
InFlight == {p \in Producers : pc[p] \notin {"idle", "down_gen"}}
=============================================================================
