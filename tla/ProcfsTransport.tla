--------------------------- MODULE ProcfsTransport ---------------------------
(***************************************************************************)
(* The procfs transport of src/barracuda_kernel_module/raid6cuda.c:        *)
(* call_usp_proc on the producer side, proc_read and proc_write (the read *)
(* and write handlers of /proc/barracuda/stub) on the consumer side, all  *)
(* synchronised by procfs_wq_flag and the wait queue procfs_wq.           *)
(*                                                                         *)
(* The consumer is the user-space daemon, one thread with program counter  *)
(* dpc: it reads the stub (proc_read), maps and computes the job ("map",   *)
(* see Barracuda), and writes the address back (proc_write).               *)
(*                                                                         *)
(* wait_event_interruptible(wq, c) is a guard c: the condition is checked  *)
(* again after every wake-up, so no wake-up is lost.  Producers are kernel *)
(* threads that do not allow signals, so their waits are never cut short.  *)
(***************************************************************************)
EXTENDS Naturals

CONSTANTS Producers, Arrays, NULL, NoOwner, Disks, AllocMayFail,
          MaxBadEchoes,  \* how many wrong addresses the consumer may write
          DaemonSignals  \* whether a signal may reach the daemon in proc_read

VARIABLES sem, pc, snc, actual, allocated, computed,
          procfsFlag,    \* procfs_wq_flag: 0 job ready, 2 job done
          dpc,           \* the consumer's program counter
          badEchoes      \* wrong addresses written so far

LOCAL Ctl == INSTANCE OffloadController

ProcInit == /\ procfsFlag = 2
            /\ badEchoes = 0

(***************************************************************************)
(* Producer side: call_usp_proc(snc).                                      *)
(***************************************************************************)

\* down(&call_usp_proc_mutex); memcpy(actual_snc, &snc, ..);
\* procfs_wq_flag = 0; wake_up_interruptible(&procfs_wq);
CallUspProc(p) ==
    /\ pc[p] = "call"
    /\ sem["call_usp_proc_mutex"] > 0
    /\ sem' = Ctl!Down(sem, "call_usp_proc_mutex")
    /\ actual' = Ctl!CopyToActual(p)
    /\ procfsFlag' = 0
    /\ pc' = [pc EXCEPT ![p] = "proc_wait"]
    /\ UNCHANGED <<snc, allocated, computed, dpc, badEchoes>>

\* wait_event_interruptible(procfs_wq, procfs_wq_flag==2);
\* up(&call_usp_proc_mutex); return 0;
ProcWaitDone(p) ==
    /\ pc[p] = "proc_wait"
    /\ procfsFlag = 2
    /\ sem' = Ctl!Up(sem, "call_usp_proc_mutex")
    /\ pc' = [pc EXCEPT ![p] = "kill"]
    /\ UNCHANGED <<snc, actual, allocated, computed, procfsFlag, dpc, badEchoes>>

(***************************************************************************)
(* Consumer side: the daemon's read and write of /proc/barracuda/stub.     *)
(***************************************************************************)

\* proc_read: down(&proc_read_mutex);
ProcReadDown ==
    /\ dpc = "read"
    /\ sem["proc_read_mutex"] > 0
    /\ sem' = Ctl!Down(sem, "proc_read_mutex")
    /\ dpc' = "read_wait"
    /\ UNCHANGED <<pc, snc, actual, allocated, computed, procfsFlag, badEchoes>>

\* Faulty variant: proc_read returning without waiting for a job.
ProcReadReturnNoWait ==
    /\ dpc = "read_wait"
    /\ sem' = Ctl!Up(sem, "proc_read_mutex")
    /\ dpc' = "map"
    /\ UNCHANGED <<pc, snc, actual, allocated, computed, procfsFlag, badEchoes>>

\* wait_event_interruptible(procfs_wq, procfs_wq_flag==0);
\* back_adress = &actual_snc; memcpy(page, ..); up(&proc_read_mutex);
ProcReadReturn ==
    /\ dpc = "read_wait"
    /\ procfsFlag = 0
    /\ sem' = Ctl!Up(sem, "proc_read_mutex")
    /\ dpc' = "map"
    /\ UNCHANGED <<pc, snc, actual, allocated, computed, procfsFlag, badEchoes>>

\* A signal to the daemon ends wait_event_interruptible early; proc_read
\* ignores its result and returns &actual_snc with no job ready.
ProcReadInterrupted ==
    /\ DaemonSignals
    /\ dpc = "read_wait"
    /\ procfsFlag # 0
    /\ sem' = Ctl!Up(sem, "proc_read_mutex")
    /\ dpc' = "map"
    /\ UNCHANGED <<pc, snc, actual, allocated, computed, procfsFlag, badEchoes>>

\* proc_write with the address the daemon read (echo = "good") or another
\* value or a short count (echo = "bad").  down(&proc_write_mutex); a bad
\* echo returns -EOVERFLOW or -EFAULT there and then, without
\* up(&proc_write_mutex); a good one sets procfs_wq_flag = 2, wakes the
\* producer and runs up(&proc_write_mutex).  The daemon then reads again.
ProcWrite(echo) ==
    /\ dpc = "write"
    /\ sem["proc_write_mutex"] > 0
    /\ \/ /\ echo = "good"
          /\ procfsFlag' = 2
          /\ UNCHANGED <<sem, badEchoes>>
       \/ /\ echo = "bad"
          /\ badEchoes < MaxBadEchoes
          /\ sem' = Ctl!Down(sem, "proc_write_mutex")
          /\ badEchoes' = badEchoes + 1
          /\ UNCHANGED procfsFlag
    /\ dpc' = "read"
    /\ UNCHANGED <<pc, snc, actual, allocated, computed>>

ProcProducerNext(p) == CallUspProc(p) \/ ProcWaitDone(p)
ProcConsumerNext == ProcReadDown \/ ProcReadReturn
                    \/ \E e \in {"good", "bad"} : ProcWrite(e)
=============================================================================
