---------------------------- MODULE IoctlTransport ----------------------------
(***************************************************************************)
(* The ioctl transport of src/barracuda_kernel_module/raid6cuda.c:         *)
(* call_usp_ioctl on the producer side and ioctl_callback, the ioctl       *)
(* handler of /dev/barracuda, on the consumer side, synchronised by        *)
(* ioctl_wq_enter_flag and the wait queue ioctl_wq_enter.                  *)
(*                                                                         *)
(* One ioctl of the daemon both reports the previous job done (flag = 1)   *)
(* and waits for the next one (flag = 0).  ioctl_init_mutex, left held by  *)
(* barracuda_start, keeps the first producer out until the daemon's first *)
(* ioctl, so that this first ioctl is not taken for a completion.          *)
(***************************************************************************)
EXTENDS Naturals

CONSTANTS Producers, Arrays, NULL, NoOwner, Disks, AllocMayFail

VARIABLES sem, pc, snc, actual, allocated, computed,
          ioctlFlag,     \* ioctl_wq_enter_flag: 1 done/ready, 0 job pending
          dpc

LOCAL Ctl == INSTANCE OffloadController

IoctlInit == ioctlFlag = 1

(***************************************************************************)
(* Producer side: call_usp_ioctl(snc).                                     *)
(***************************************************************************)

\* down(&ioctl_init_mutex);
IoctlEnter(p) ==
    /\ pc[p] = "call"
    /\ sem["ioctl_init_mutex"] > 0
    /\ sem' = Ctl!Down(sem, "ioctl_init_mutex")
    /\ pc' = [pc EXCEPT ![p] = "ioctl_lock"]
    /\ UNCHANGED <<snc, actual, allocated, computed, ioctlFlag, dpc>>

\* down(&call_usp_ioctl_mutex); memcpy(actual_snc, &snc, ..);
\* ioctl_wq_enter_flag = 0; wake_up_interruptible(&ioctl_wq_enter);
IoctlSend(p) ==
    /\ pc[p] = "ioctl_lock"
    /\ sem["call_usp_ioctl_mutex"] > 0
    /\ sem' = Ctl!Down(sem, "call_usp_ioctl_mutex")
    /\ actual' = Ctl!CopyToActual(p)
    /\ ioctlFlag' = 0
    /\ pc' = [pc EXCEPT ![p] = "ioctl_wait"]
    /\ UNCHANGED <<snc, allocated, computed, dpc>>

\* wait_event_interruptible(ioctl_wq_enter, ioctl_wq_enter_flag==1);
\* up(&call_usp_ioctl_mutex); return 0;
IoctlWaitDone(p) ==
    /\ pc[p] = "ioctl_wait"
    /\ ioctlFlag = 1
    /\ sem' = Ctl!Up(sem, "call_usp_ioctl_mutex")
    /\ pc' = [pc EXCEPT ![p] = "kill"]
    /\ UNCHANGED <<snc, actual, allocated, computed, ioctlFlag, dpc>>

(***************************************************************************)
(* Consumer side: the daemon's ioctl(fd, IOCTL_GETVALUE, "flag").          *)
(***************************************************************************)

\* Faulty variant: ioctl_callback without up(&ioctl_init_mutex).
IoctlCallNoInit ==
    /\ dpc = "ioctl"
    /\ ioctlFlag' = 1
    /\ dpc' = "ioctl_wait"
    /\ UNCHANGED <<sem, pc, snc, actual, allocated, computed>>

\* ioctl_callback up to its wait: the strcmp with "flag" only prints;
\* ioctl_wq_enter_flag = 1; wake_up; up(&ioctl_init_mutex);
\* up(&ioctl_callback_mutex); down(&ioctl_callback_mutex) (never blocks:
\* the up just before it leaves the count positive).
IoctlCall ==
    /\ dpc = "ioctl"
    /\ ioctlFlag' = 1
    /\ sem' = Ctl!Up(sem, "ioctl_init_mutex")
    /\ dpc' = "ioctl_wait"
    /\ UNCHANGED <<pc, snc, actual, allocated, computed>>

\* wait_event_interruptible(ioctl_wq_enter, ioctl_wq_enter_flag==0);
\* copy_to_user(arg, "flag", 5); return 0.  The daemon has a job.
IoctlReturn ==
    /\ dpc = "ioctl_wait"
    /\ ioctlFlag = 0
    /\ dpc' = "map"
    /\ UNCHANGED <<sem, pc, snc, actual, allocated, computed, ioctlFlag>>

IoctlProducerNext(p) == IoctlEnter(p) \/ IoctlSend(p) \/ IoctlWaitDone(p)
IoctlConsumerNext == IoctlCall \/ IoctlReturn
=============================================================================
