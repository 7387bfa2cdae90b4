------------------------------ MODULE TestModule ------------------------------
(***************************************************************************)
(* The lifecycle of the in-kernel test module, raid6cuda_tst.c built with *)
(* BENCHMARK (and without KERNELMODE), together with barracuda_start and   *)
(* barracuda_stop of raid6cuda.c.                                          *)
(*                                                                         *)
(* mod_init takes dont_kill_mutex, runs barracuda_start (which takes       *)
(* gen_syndrome_mutex and registers the interface) and starts thread_code. *)
(* The thread calls raid6_cuda_gen_syndrome over and over; each call       *)
(* waits for gen_syndrome_mutex, which conf_write releases once the daemon *)
(* has chosen a connection.  At the end the thread gives dont_kill_mutex   *)
(* back; mod_exit waits for it before barracuda_stop tears the interface   *)
(* down.  dont_kill_mutex is thus a completion: "the thread is done".     *)
(*                                                                         *)
(* The registrations are names; the buffers and timings of the benchmark  *)
(* are left out, and its 60 x 10 timed loops are ThreadJobs calls.         *)
(***************************************************************************)
EXTENDS Naturals, Sequences

CONSTANTS
    ThreadJobs,      \* calls of raid6_cuda_gen_syndrome the thread makes
    VmallocMayFail   \* whether the benchmark's unchecked vmalloc may fail

(* The interface barracuda_start registers, in the order it does so.      *)
StartSteps == <<"proc_dir", "stub", "conf", "chrdev", "cdev", "netlink">>

VARIABLES
    mpc,        \* "out", "loaded", "exit_down" (rmmod blocked), "removed"
    dontKill,   \* dont_kill_mutex
    gen,        \* gen_syndrome_mutex
    reg,        \* the registrations barracuda_start left in place
    threadId,   \* kernel_thread's result: "none", "pid" or "err" (< 0)
    thread,     \* thread_code's position
    tj,         \* calls of raid6_cuda_gen_syndrome completed
    daemon      \* "none" or "registered" (conf_write chose a connection)

lcVars == <<mpc, dontKill, gen, reg, threadId, thread, tj, daemon>>

(* Both semaphores are DECLARE_MUTEX, initially 1; nothing is registered. *)
LifecycleInit ==
    /\ mpc = "out"
    /\ dontKill = 1 /\ gen = 1
    /\ reg = {}
    /\ threadId = "none" /\ thread = "none" /\ tj = 0
    /\ daemon = "none"

(* barracuda_start returns -EIO at the first proc_mkdir, create_proc_entry,*)
(* alloc_chrdev_region, cdev_add or netlink_kernel_create that fails,      *)
(* leaving the earlier registrations in place; a failed cdev_add also     *)
(* unregisters the chrdev region.  When all succeed actual_snc is          *)
(* vmalloc'ed, unchecked.                                                  *)
StartOutcomes ==
    { {StartSteps[i] : i \in 1..k} \ (IF k = 4 THEN {"chrdev"} ELSE {}) :
          k \in 0..Len(StartSteps)-1 }
    \cup { {StartSteps[i] : i \in 1..Len(StartSteps)} \cup a :
              a \in {{}, {"actual_snc"}} }

\* Faulty variant of ModInit: dont_kill_mutex not taken at insmod.
ModInitNoHold ==
    /\ mpc = "out"
    /\ gen' = gen - 1
    /\ reg' \in StartOutcomes
    /\ threadId' \in {"pid", "err"}
    /\ thread' = IF threadId' = "pid" THEN "job" ELSE "none"
    /\ mpc' = "loaded"
    /\ UNCHANGED <<dontKill, tj, daemon>>

(* mod_init: down(&dont_kill_mutex); barracuda_start(), whose result is   *)
(* ignored and which first takes gen_syndrome_mutex; kernel_thread, which  *)
(* returns a pid or a negative error.  The check thread_id == 0 never      *)
(* holds, so mod_init always returns 0 and the module stays loaded.        *)
ModInit ==
    /\ mpc = "out"
    /\ dontKill > 0
    /\ dontKill' = dontKill - 1
    /\ gen' = gen - 1
    /\ reg' \in StartOutcomes
    /\ threadId' \in {"pid", "err"}
    /\ thread' = IF threadId' = "pid" THEN "job" ELSE "none"
    /\ mpc' = "loaded"
    /\ UNCHANGED <<tj, daemon>>

(* The daemon writes con=... to /proc/barracuda/conf: conf_write's        *)
(* up(&gen_syndrome_mutex).  It needs the conf entry.                      *)
DaemonConfigure ==
    /\ daemon = "none"
    /\ "conf" \in reg
    /\ mpc \in {"loaded", "exit_down"}
    /\ gen' = gen + 1
    /\ daemon' = "registered"
    /\ UNCHANGED <<mpc, dontKill, reg, threadId, thread, tj>>

(* An iteration of the benchmark loop: vmalloc the pointer array and the  *)
(* buffers, unchecked; a NULL is written through and oopses the thread.    *)
ThreadAlloc ==
    /\ thread = "job"
    /\ thread' \in IF VmallocMayFail THEN {"down_gen", "oops"} ELSE {"down_gen"}
    /\ UNCHANGED <<mpc, dontKill, gen, reg, threadId, tj, daemon>>

(* raid6_cuda_gen_syndrome: down(&gen_syndrome_mutex).                     *)
ThreadGenEnter ==
    /\ thread = "down_gen"
    /\ gen > 0
    /\ gen' = gen - 1
    /\ thread' = "in_gen"
    /\ UNCHANGED <<mpc, dontKill, reg, threadId, tj, daemon>>

\* Faulty variant of ThreadGenReturn: the disks loop run with "<=".
ThreadGenReturnPastEnd ==
    /\ thread = "in_gen"
    /\ \/ /\ "actual_snc" \notin reg
          /\ thread' = "oops"
          /\ UNCHANGED <<gen, tj>>
       \/ /\ "actual_snc" \in reg
          /\ gen' = gen + 1
          /\ tj' = tj + 1
          /\ thread' = IF tj + 1 > ThreadJobs THEN "up" ELSE "job"
    /\ UNCHANGED <<mpc, dontKill, reg, threadId, daemon>>

(* The rest of raid6_cuda_gen_syndrome: pack_smc, then call_usp, whose    *)
(* call_usp_* first memcpy's the job into actual_snc.  actual_snc is NULL *)
(* when barracuda_start returned before its vmalloc, or that vmalloc      *)
(* failed: the memcpy oopses the thread inside the call, with             *)
(* gen_syndrome_mutex and dont_kill_mutex held.  Otherwise the daemon     *)
(* answers (its protocols are the Barracuda model's), kill_smc and        *)
(* up(&gen_syndrome_mutex); the thread vfrees the buffers and goes on to   *)
(* the next iteration, or leaves the loops after the last one.            *)
ThreadGenReturn ==
    /\ thread = "in_gen"
    /\ \/ /\ "actual_snc" \notin reg
          /\ thread' = "oops"
          /\ UNCHANGED <<gen, tj>>
       \/ /\ "actual_snc" \in reg
          /\ gen' = gen + 1
          /\ tj' = tj + 1
          /\ thread' = IF tj + 1 = ThreadJobs THEN "up" ELSE "job"
    /\ UNCHANGED <<mpc, dontKill, reg, threadId, daemon>>

\* Faulty variant of ThreadUp: the thread finishes without up().
ThreadUpMissing ==
    /\ thread = "up"
    /\ thread' = "returning"
    /\ UNCHANGED <<mpc, dontKill, gen, reg, threadId, tj, daemon>>

(* barracuda_printk("Test is ready"); up(&dont_kill_mutex).                *)
ThreadUp ==
    /\ thread = "up"
    /\ dontKill' = dontKill + 1
    /\ thread' = "returning"
    /\ UNCHANGED <<mpc, gen, reg, threadId, tj, daemon>>

(* return 0: the thread leaves thread_code, still module text until then. *)
ThreadReturn ==
    /\ thread = "returning"
    /\ thread' = "exited"
    /\ UNCHANGED <<mpc, dontKill, gen, reg, threadId, tj, daemon>>

(* barracuda_stop: remove_proc_entry of stub, conf and the directory,     *)
(* cdev_del, unregister_chrdev_region, sock_release of nl_sk if set, and  *)
(* vfree(actual_snc), whichever of them barracuda_start managed to make.   *)
BarracudaStop(r) ==
    r \ ({StartSteps[i] : i \in 1..Len(StartSteps)} \cup {"actual_snc"})

(* rmmod calls mod_exit, whose down(&dont_kill_mutex) blocks.              *)
ModExitBegin ==
    /\ mpc = "loaded"
    /\ mpc' = "exit_down"
    /\ UNCHANGED <<dontKill, gen, reg, threadId, thread, tj, daemon>>

(* down returns; kill_proc(thread_id) (a kernel thread ignores SIGTERM);   *)
(* barracuda_stop(); up(&dont_kill_mutex).                                *)
ModExit ==
    /\ mpc = "exit_down"
    /\ dontKill > 0
    /\ reg' = BarracudaStop(reg)
    /\ mpc' = "removed"
    /\ UNCHANGED <<dontKill, gen, threadId, thread, tj, daemon>>

ThreadNext ==
    ThreadAlloc \/ ThreadGenEnter \/ ThreadGenReturn \/ ThreadUp \/ ThreadReturn

LifecycleNext ==
    ModInit \/ DaemonConfigure \/ ThreadNext \/ ModExitBegin \/ ModExit

-----------------------------------------------------------------------------
LifecycleTypeOK ==
    /\ mpc \in {"out", "loaded", "exit_down", "removed"}
    /\ dontKill \in 0..1 /\ gen \in 0..1
    /\ threadId \in {"none", "pid", "err"}
    /\ thread \in {"none", "job", "down_gen", "in_gen", "up", "returning",
                   "exited", "oops"}
    /\ tj \in 0..ThreadJobs
    /\ daemon \in {"none", "registered"}

(* barracuda_stop never tears the interface down under the test thread:   *)
(* once mod_exit has run, the thread is not inside its benchmark loop nor  *)
(* in raid6_cuda_gen_syndrome, since mod_exit waits for the up() of        *)
(* dont_kill_mutex that mod_init's down() left to the thread.             *)
StopAfterThreadDone ==
    mpc = "removed" => thread \notin {"job", "down_gen", "in_gen", "up"}

(* rmmod returns: once mod_exit is blocked on dont_kill_mutex, with the    *)
(* thread started and barracuda_start's whole interface made (actual_snc   *)
(* included), the module is eventually removed, unless the thread oopsed   *)
(* on a failed vmalloc of its own buffers.  The thread's up() at the end   *)
(* of thread_code is the only way out of mod_exit's down().                *)
RmmodReturns ==
    (mpc = "exit_down" /\ threadId = "pid" /\ "actual_snc" \in reg)
        ~> (mpc = "removed" \/ thread = "oops")
=============================================================================
