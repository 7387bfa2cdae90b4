------------------------------- MODULE PingPong -------------------------------
(***************************************************************************)
(* The transport prototypes under src/prototypes: a kernel module whose    *)
(* thread_code pings a user-space pong process Tests x Runs times (30 x    *)
(* 1000 in the code), over one of three transports, chosen at Init:        *)
(*   "proc"  ping_pong_proc: ping() publishes, wq_flag = 0, and waits for  *)
(*           wq_flag = 2; pong's read (proc_read) waits for wq_flag = 0,   *)
(*           its write (write_proc) sets wq_flag = 2;                      *)
(*   "ioctl" ping_pong_ioctl: one ioctl (ioctl_callback) first answers,    *)
(*           wq_flag = 1, then waits for the next ping, wq_flag = 0;       *)
(*   "nl"    ping_pong_nl_ksp: the thread unicasts a ping and blocks in    *)
(*           nl_recv_pkg; pong's sendmsg runs nl_data_ready in its own     *)
(*           context, which waits for nl_recv_pkg's wq_flag = 0.           *)
(* A ping is its number; cur is the last one sent, done the count of      *)
(* pings that have returned.  `answered` is a history variable: a pong has *)
(* answered since the last ping was sent.                                  *)
(*                                                                         *)
(* The module is insmod'ed (mod_init may fail, or start no thread) and     *)
(* rmmod'ed (mod_exit waits for the thread's complete_and_exit); the pong  *)
(* opens its file or socket, and may be killed by the user at any time.   *)
(***************************************************************************)
EXTENDS Naturals, Sequences

CONSTANTS
    Prototypes,   \* subset of {"proc", "ioctl", "nl"}
    Tests,        \* iterations of thread_code's loop (30), and of nl pong's j loop
    Runs          \* RUNS: pings per test

Total == Tests * Runs

VARIABLES
    proto,     \* the prototype
    mst,       \* the module: "unloaded", "failed", "loaded", "exiting", "removed"
    tflag,     \* nl: thread_flag
    flag,      \* wq_flag
    pingSem,   \* ping_mutex (proc, ioctl)
    readSem,   \* read_mutex (proc)
    tpc,       \* the kernel thread's position
    ti,        \* nl: netlink_test's loop index i
    cur,       \* the number of the last ping sent
    done,      \* the number of pings that have returned to the thread
    answered,  \* history: a pong answered after ping cur was sent
    buf,       \* ioctl: global_buffer, a ping number or 0 for "pong"
    queue,     \* nl: the pong socket's receive queue of pings
    ppc,       \* the pong process's position
    got,       \* the last ping the pong received (0: none yet)
    pi, pj     \* nl pong's loop indices i and j

ppVars == <<proto, mst, tflag, flag, pingSem, readSem, tpc, ti, cur, done, answered,
            buf, queue, ppc, got, pi, pj>>

PpInit ==
    /\ proto \in Prototypes
    /\ flag = IF proto = "ioctl" THEN 1 ELSE 2
    /\ pingSem = 1 /\ readSem = 1
    /\ mst = "unloaded" /\ tflag = 0
    /\ tpc = "none"
    /\ ti = 0 /\ cur = 0 /\ done = 0 /\ answered = FALSE
    /\ buf = 0          \* kmalloc'ed, never read before a ping writes it
    /\ queue = <<>>
    /\ ppc = "open"
    /\ got = 0 /\ pi = 0 /\ pj = 0

(* The thread's loop: after ping number Total it calls complete_and_exit.  *)
NextPing == IF done + 1 = Total THEN "exited" ELSE "ping"

(* A pong's answer; `answered` records whether a ping was outstanding.     *)
Answer == answered' = (cur > done)

\* Faulty variant of ProcPing: up(&ping_mutex) where down() is meant.
ProcPingUp ==
    /\ proto = "proc" /\ tpc = "ping"
    /\ pingSem' = pingSem + 1 /\ flag' = 0 /\ cur' = cur + 1
    /\ answered' = FALSE /\ tpc' = "wait"
    /\ UNCHANGED <<readSem, ti, done, buf, queue, ppc, got, pi, pj, proto, mst, tflag>>

(* proc ping(): down(&ping_mutex); global_buffer = buffer; wq_flag = 0.   *)
ProcPing ==
    /\ proto = "proc" /\ tpc = "ping" /\ pingSem > 0
    /\ pingSem' = pingSem - 1 /\ flag' = 0 /\ cur' = cur + 1
    /\ answered' = FALSE /\ tpc' = "wait"
    /\ UNCHANGED <<readSem, ti, done, buf, queue, ppc, got, pi, pj, proto, mst, tflag>>

(* proc ping(): wait for wq_flag == 2, up(&ping_mutex), return.           *)
ProcPingDone ==
    /\ proto = "proc" /\ tpc = "wait" /\ flag = 2
    /\ pingSem' = pingSem + 1 /\ done' = done + 1 /\ tpc' = NextPing
    /\ UNCHANGED <<flag, readSem, ti, cur, answered, buf, queue, ppc, got,
                   pi, pj, proto, mst, tflag>>

(* pong's fread: proc_read does down(&read_mutex) ...                      *)
ProcRead ==
    /\ proto = "proc" /\ ppc = "read" /\ readSem > 0 /\ mst # "removed"
    /\ readSem' = readSem - 1 /\ ppc' = "readwait"
    /\ UNCHANGED <<flag, pingSem, tpc, ti, cur, done, answered, buf, queue,
                   got, pi, pj, proto, mst, tflag>>

\* Faulty variant of ProcReadDone: proc_read without its wait.
ProcReadDoneNoWait ==
    /\ proto = "proc" /\ ppc = "readwait"
    /\ got' = cur /\ readSem' = readSem + 1 /\ ppc' = "write"
    /\ UNCHANGED <<flag, pingSem, tpc, ti, cur, done, answered, buf, queue,
                   pi, pj, proto, mst, tflag>>

(* ... waits for wq_flag == 0, copies the ping's address out and ups.     *)
ProcReadDone ==
    /\ proto = "proc" /\ ppc = "readwait" /\ flag = 0
    /\ got' = cur /\ readSem' = readSem + 1 /\ ppc' = "write"
    /\ UNCHANGED <<flag, pingSem, tpc, ti, cur, done, answered, buf, queue,
                   pi, pj, proto, mst, tflag>>

(* pong's fwrite "pong": write_proc sets wq_flag = 2, whatever it is.      *)
ProcWrite ==
    /\ proto = "proc" /\ ppc = "write"
    /\ flag' = 2 /\ Answer /\ ppc' = "read"
    /\ UNCHANGED <<pingSem, readSem, tpc, ti, cur, done, buf, queue, got,
                   pi, pj, proto, mst, tflag>>

(* ioctl ping(): down(&ping_mutex); strcpy(global_buffer, "ping");       *)
(* wq_flag = 0.                                                            *)
IoctlPing ==
    /\ proto = "ioctl" /\ tpc = "ping" /\ pingSem > 0
    /\ pingSem' = pingSem - 1 /\ buf' = cur + 1 /\ flag' = 0
    /\ cur' = cur + 1 /\ answered' = FALSE /\ tpc' = "wait"
    /\ UNCHANGED <<readSem, ti, done, queue, ppc, got, pi, pj, proto, mst, tflag>>

\* Faulty variant of IoctlPingDone: ping() returns without its wait.
IoctlPingDoneNoWait ==
    /\ proto = "ioctl" /\ tpc = "wait"
    /\ pingSem' = pingSem + 1 /\ done' = done + 1 /\ tpc' = NextPing
    /\ UNCHANGED <<flag, readSem, ti, cur, answered, buf, queue, ppc, got,
                   pi, pj, proto, mst, tflag>>

(* ioctl ping(): wait for wq_flag == 1, up(&ping_mutex), return.          *)
IoctlPingDone ==
    /\ proto = "ioctl" /\ tpc = "wait" /\ flag = 1
    /\ pingSem' = pingSem + 1 /\ done' = done + 1 /\ tpc' = NextPing
    /\ UNCHANGED <<flag, readSem, ti, cur, answered, buf, queue, ppc, got,
                   pi, pj, proto, mst, tflag>>

\* Faulty variant of IoctlReceive: the answer does not set wq_flag = 1.
IoctlReceiveNoFlag ==
    /\ proto = "ioctl" /\ ppc = "ioctl"
    /\ buf' = 0 /\ Answer /\ ppc' = "wait"
    /\ UNCHANGED <<flag, pingSem, readSem, tpc, ti, cur, done, queue, got,
                   pi, pj, proto, mst, tflag>>

(* ioctl_callback, receive half: strcpy(global_buffer, arg) with pong's    *)
(* "pong", wq_flag = 1, up(&callback_mutex) and down(&callback_mutex).     *)
(* callback_mutex starts at 1 and is upped before it is downed, so it      *)
(* never blocks and its count is left as it was.                           *)
IoctlReceive ==
    /\ proto = "ioctl" /\ ppc = "ioctl"
    /\ buf' = 0 /\ flag' = 1 /\ Answer /\ ppc' = "wait"
    /\ UNCHANGED <<pingSem, readSem, tpc, ti, cur, done, queue, got,
                   pi, pj, proto, mst, tflag>>

(* ioctl_callback, send half: wait for wq_flag == 0 and copy_to_user the  *)
(* global_buffer; pong's loop then issues the next ioctl.                  *)
IoctlSend ==
    /\ proto = "ioctl" /\ ppc = "wait" /\ flag = 0
    /\ got' = buf /\ ppc' = "ioctl"
    /\ UNCHANGED <<flag, pingSem, readSem, tpc, ti, cur, done, answered, buf,
                   queue, pi, pj, proto, mst, tflag>>

(* nl_recv_pkg: wq_flag = 0, then wait (for the init packet or a pong).    *)
NlRecvPkg ==
    /\ proto = "nl" /\ tpc \in {"rinit", "rpong"}
    /\ flag' = 0
    /\ tpc' = IF tpc = "rinit" THEN "winit" ELSE "wpong"
    /\ UNCHANGED <<pingSem, readSem, ti, cur, done, answered, buf, queue, ppc,
                   got, pi, pj, proto, mst, tflag>>

(* nl thread_code: while (thread_flag == 0) netlink_test();              *)
(* complete_and_exit.                                                       *)
NlNextTest == IF tflag = 1 THEN "exited" ELSE "rinit"

(* nl_recv_pkg returns skb_global once wq_flag == 1.  After the init      *)
(* packet netlink_test starts its ping loop; after a pong it counts the    *)
(* ping done, and after RUNS of them thread_code (thread_flag is never set *)
(* while pong runs) calls netlink_test again, which waits for an init.     *)
NlRecvDone ==
    /\ proto = "nl" /\ tpc \in {"winit", "wpong"} /\ flag = 1
    /\ IF tpc = "winit"
       THEN ti' = 0 /\ tpc' = "ping" /\ UNCHANGED done
       ELSE /\ done' = done + 1 /\ ti' = ti + 1
            /\ tpc' = IF ti + 1 = Runs THEN NlNextTest ELSE "ping"
    /\ UNCHANGED <<flag, pingSem, readSem, cur, answered, buf, queue, ppc,
                   got, pi, pj, proto, mst, tflag>>

(* netlink_test: nlmsg_new, nlmsg_put "ping", netlink_unicast to the pid  *)
(* of the last packet; then nl_recv_pkg for the pong.                       *)
NlPing ==
    /\ proto = "nl" /\ tpc = "ping"
    /\ queue' = Append(queue, cur + 1) /\ cur' = cur + 1
    /\ answered' = FALSE /\ tpc' = "rpong"
    /\ UNCHANGED <<flag, pingSem, readSem, ti, done, buf, ppc, got, pi, pj,
                   proto, mst, tflag>>

(* pong's sendmsg of "init" (top of the j loop) or of "pong": the kernel   *)
(* runs nl_data_ready in pong's context, which blocks there.               *)
NlSend ==
    /\ proto = "nl" /\ ppc \in {"init", "send"}
    /\ ppc' = IF ppc = "init" THEN "cbinit" ELSE "cbpong"
    /\ UNCHANGED <<flag, pingSem, readSem, tpc, ti, cur, done, answered, buf,
                   queue, got, pi, pj, proto, mst, tflag>>

(* nl_data_ready: wait for wq_flag == 0, skb_global = skb_copy(skb),       *)
(* wq_flag = 1; sendmsg returns and pong goes on with its loops.           *)
NlDataReady ==
    /\ proto = "nl" /\ ppc \in {"cbinit", "cbpong"} /\ flag = 0
    /\ flag' = 1 /\ Answer
    /\ IF ppc = "cbinit"
       THEN pi' = 0 /\ ppc' = "recv" /\ UNCHANGED pj
       ELSE /\ pi' = pi + 1
            /\ IF pi + 1 = Runs
               THEN /\ pj' = pj + 1
                    /\ ppc' = IF pj + 1 = Tests THEN "exited" ELSE "init"
               ELSE ppc' = "recv" /\ UNCHANGED pj
    /\ UNCHANGED <<pingSem, readSem, tpc, ti, cur, done, buf, queue, got,
                   proto, mst, tflag>>

(* pong's recvmsg: the next ping of its socket queue.                       *)
NlRecv ==
    /\ proto = "nl" /\ ppc = "recv" /\ queue # <<>>
    /\ got' = Head(queue) /\ queue' = Tail(queue) /\ ppc' = "send"
    /\ UNCHANGED <<flag, pingSem, readSem, tpc, ti, cur, done, answered, buf,
                   pi, pj, proto, mst, tflag>>

(* What mod_init leaves: "ok" (the thread runs), "nothread" (kernel_thread *)
(* returned a negative error, which the check thread_id == 0 misses) or    *)
(* "failed" (-EIO: the module is not loaded).                              *)
(* proc: proc_mkdir or create_proc_entry of stub may fail.                  *)
ProcLoadOutcomes == {"ok", "nothread", "failed"}
(* ioctl: register_chrdev may fail (the unchecked kmalloc is not modelled). *)
IoctlLoadOutcomes == {"ok", "nothread", "failed"}
(* nl: netlink_kernel_create's result is not checked.                       *)
NlLoadOutcomes == {"ok", "nothread"}

LoadOutcomes ==
    CASE proto = "proc" -> ProcLoadOutcomes
      [] proto = "ioctl" -> IoctlLoadOutcomes
      [] proto = "nl" -> NlLoadOutcomes

(* insmod: mod_init, then the thread starts pinging (nl: waiting for the  *)
(* init packet).                                                           *)
PingModInit ==
    /\ mst = "unloaded"
    /\ \E r \in LoadOutcomes :
          /\ mst' = IF r = "failed" THEN "failed" ELSE "loaded"
          /\ tpc' = IF r # "ok" THEN "none"
                    ELSE IF proto = "nl" THEN "rinit" ELSE "ping"
    /\ UNCHANGED <<proto, tflag, flag, pingSem, readSem, ti, cur, done,
                   answered, buf, queue, ppc, got, pi, pj>>

(* pong's main: fopen of /proc/baracuda/stub, open of /dev/baracuda, or   *)
(* socket and bind.  Without the module it fails: the proc pong's check    *)
(* fd < 0 misses fopen's NULL and its fread crashes, the ioctl pong        *)
(* returns -1.  A module being removed can no longer be opened.            *)
PongStart ==
    /\ ppc = "open"
    /\ ppc' = IF mst # "loaded" THEN "exited"
              ELSE CASE proto = "proc" -> "read" [] proto = "ioctl" -> "ioctl"
                     [] proto = "nl" -> "init"
    /\ UNCHANGED <<proto, mst, tflag, flag, pingSem, readSem, tpc, ti, cur,
                   done, answered, buf, queue, got, pi, pj>>

(* The user kills pong.  The signal ends the wait it is blocked in, and   *)
(* the handler goes on as if woken: proc_read ups read_mutex, nl_data_ready *)
(* copies pong's message to skb_global and sets wq_flag = 1.               *)
PongKill ==
    /\ ppc \notin {"open", "exited"}
    /\ readSem' = IF ppc = "readwait" THEN readSem + 1 ELSE readSem
    /\ IF ppc \in {"cbinit", "cbpong"}
       THEN flag' = 1 /\ Answer
       ELSE UNCHANGED <<flag, answered>>
    /\ ppc' = "exited"
    /\ UNCHANGED <<proto, mst, tflag, pingSem, tpc, ti, cur, done, buf, queue,
                   got, pi, pj>>

(* The open /dev/baracuda (fops.owner) or netlink socket (the module given *)
(* to netlink_kernel_create) holds a reference: rmmod fails with EBUSY.     *)
ModuleHeld == proto \in {"ioctl", "nl"} /\ ppc \notin {"open", "exited"}

(* rmmod: mod_exit; nl first sets thread_flag = 1.  Every prototype then   *)
(* blocks in wait_for_completion(&on_exit).                                *)
PingModExitBegin ==
    /\ mst = "loaded" /\ ~ModuleHeld
    /\ mst' = "exiting"
    /\ tflag' = IF proto = "nl" THEN 1 ELSE tflag
    /\ UNCHANGED <<proto, flag, pingSem, readSem, tpc, ti, cur, done,
                   answered, buf, queue, ppc, got, pi, pj>>

(* remove_proc_entry waits for the callers inside the entry's handlers.   *)
ProcEntryBusy == proto = "proc" /\ ppc = "readwait"

(* The thread has completed: kill_proc, then remove the proc entries,      *)
(* unregister the chrdev and kfree global_buffer, or release nl_sk.         *)
PingModExitEnd ==
    /\ mst = "exiting" /\ tpc = "exited" /\ ~ProcEntryBusy
    /\ mst' = "removed"
    /\ UNCHANGED <<proto, tflag, flag, pingSem, readSem, tpc, ti, cur, done,
                   answered, buf, queue, ppc, got, pi, pj>>

ThreadNext == ProcPing \/ ProcPingDone \/ IoctlPing \/ IoctlPingDone
              \/ NlRecvPkg \/ NlRecvDone \/ NlPing
PongNext == ProcRead \/ ProcReadDone \/ ProcWrite \/ IoctlReceive \/ IoctlSend
            \/ NlSend \/ NlDataReady \/ NlRecv
PpNext == ThreadNext \/ PongNext \/ PingModInit \/ PongStart \/ PongKill
          \/ PingModExitBegin \/ PingModExitEnd

(* The kernel thread and the pong process both keep running while they    *)
(* can, and mod_exit returns from its wait once the thread has completed:  *)
(* weak fairness for each.  insmod, rmmod, starting and killing pong are   *)
(* the user's, and need not happen.                                        *)
PpFairness == WF_ppVars(ThreadNext) /\ WF_ppVars(PongNext \/ PongStart)
              /\ WF_ppVars(PingModExitEnd)

PpSpec == PpInit /\ [][PpNext]_ppVars /\ PpFairness

-----------------------------------------------------------------------------
PingPongTypeOK ==
    /\ proto \in {"proc", "ioctl", "nl"}
    /\ mst \in {"unloaded", "failed", "loaded", "exiting", "removed"}
    /\ flag \in {0, 1, 2}
    /\ pingSem \in 0..1 /\ readSem \in 0..1
    /\ cur \in 0..Total /\ done \in 0..cur /\ got \in 0..cur /\ buf \in 0..cur
    /\ queue \in Seq(1..Total) /\ answered \in BOOLEAN

(* A pong that holds a received ping and has not answered yet (proc       *)
(* between fread and fwrite, ioctl between two ioctls, nl between recvmsg  *)
(* and sendmsg) holds the ping the thread is still waiting on: the waits   *)
(* of proc_read, ioctl_callback and nl_data_ready keep thread and pong in   *)
(* lockstep, so no pong ever answers a ping that has already returned.     *)
Holding == got # 0 /\ ppc \in {"write", "ioctl", "send"}
PongAnswersOutstandingPing == Holding => got = cur /\ cur > done

(* A ping returns to the thread only after a pong answered while it was   *)
(* outstanding (write_proc, ioctl_callback or nl_data_ready of a pong).    *)
PingReturnsOnlyAnswered == [][done' > done => answered]_ppVars

(* Every ping that is sent eventually returns: the thread's wait in ping() *)
(* or nl_recv_pkg is always ended by the pong.                             *)
PingsReturn ==
    \A k \in 1..Total : (cur = k) ~> (done >= k \/ ppc = "exited")

=============================================================================
