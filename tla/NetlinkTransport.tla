--------------------------- MODULE NetlinkTransport ---------------------------
(***************************************************************************)
(* The netlink transport of src/barracuda_kernel_module/raid6cuda.c:       *)
(* call_usp_nl on the producer side; nl_data_ready, the input callback of  *)
(* the NETLINK_RS_SERVER socket, and nl_recv_pkg, the blocking receive     *)
(* built on it with nl_receive_flag and the one-slot skb_global.           *)
(*                                                                         *)
(* A message of the daemon to the kernel is a record [pid, addr]: the      *)
(* sender's port id and the address it carries ("none" for the daemon's   *)
(* request for a job).  A message of the kernel to the daemon is the       *)
(* address it carries; toDaemon is the daemon socket's receive queue.      *)
(* The only address the kernel sends is &actual_snc, written "back".       *)
(*                                                                         *)
(* nl_data_ready runs in the context of the daemon's sendmsg, so the       *)
(* daemon's send blocks in its wait for nl_receive_flag == 0.              *)
(***************************************************************************)
EXTENDS Naturals, Sequences

CONSTANTS Producers, Arrays, NULL, NoOwner, Disks, AllocMayFail,
          DaemonPid,       \* the daemon's netlink port id (its pid)
          NoMsg,           \* skb_global before the first message
          NlAllocMayFail,  \* whether nlmsg_new(NLMSG_GOODSIZE, ..) may fail
          NlUnicastMayFail, \* whether netlink_unicast(.., MSG_DONTWAIT) may fail
          Strangers        \* port ids of other processes sending to the socket

VARIABLES sem, pc, snc, actual, allocated, computed,
          PID,             \* read by call_usp_nl
          nlFlag,          \* nl_receive_flag: 0 receiver waiting, 1 delivered
          skbGlobal,       \* skb_global: the last message of the daemon
          toDaemon,        \* messages queued at the daemon's socket
          dpc

LOCAL Ctl == INSTANCE OffloadController

NlInit == /\ nlFlag = 2
          /\ skbGlobal = NoMsg
          /\ toDaemon = <<>>

\* nl_recv_pkg up to its wait: nl_receive_flag = 0; wake_up_interruptible.
NlRecvStart == nlFlag' = 0

(***************************************************************************)
(* Producer side: call_usp_nl(snc).                                        *)
(***************************************************************************)

\* down(&call_usp_nl_mutex); skb = nl_recv_pkg(): first a request of the
\* daemon.
NlWaitRequest(p) ==
    /\ pc[p] = "call"
    /\ sem["call_usp_nl_mutex"] > 0
    /\ sem' = Ctl!Down(sem, "call_usp_nl_mutex")
    /\ NlRecvStart
    /\ pc' = [pc EXCEPT ![p] = "nl_wait_req"]
    /\ UNCHANGED <<snc, actual, allocated, computed, PID, skbGlobal, toDaemon, dpc>>

\* nl_recv_pkg returns skb_global once nl_receive_flag == 1.  If its
\* nlmsg_pid is not PID, or nlmsg_new fails, call_usp_nl returns 1 there
\* and then, without up(&call_usp_nl_mutex).  Otherwise memcpy into
\* actual_snc, netlink_unicast of &actual_snc to PID, and nl_recv_pkg again.
\* A failing unicast (status < 0) is only printed: the message is lost and
\* the producer waits for the reply all the same.
NlGotRequest(p) ==
    /\ pc[p] = "nl_wait_req"
    /\ nlFlag = 1
    /\ \/ /\ skbGlobal.pid # PID
          /\ pc' = [pc EXCEPT ![p] = "kill"]
          /\ UNCHANGED <<actual, nlFlag, toDaemon>>
       \/ /\ skbGlobal.pid = PID
          /\ actual' = Ctl!CopyToActual(p)
          /\ \/ /\ NlAllocMayFail
                /\ pc' = [pc EXCEPT ![p] = "kill"]
                /\ UNCHANGED <<nlFlag, toDaemon>>
             \/ /\ toDaemon' \in {Append(toDaemon, "back")}
                                 \cup (IF NlUnicastMayFail THEN {toDaemon} ELSE {})
                /\ NlRecvStart
                /\ pc' = [pc EXCEPT ![p] = "nl_wait_reply"]
    /\ UNCHANGED <<sem, snc, allocated, computed, PID, skbGlobal, dpc>>

\* The reply: nl_recv_pkg returns; if the address it carries is not
\* back_adress, return -EFAULT without up(&call_usp_nl_mutex); otherwise
\* up(&call_usp_nl_mutex); return 0.
NlGotReply(p) ==
    /\ pc[p] = "nl_wait_reply"
    /\ nlFlag = 1
    /\ sem' = IF skbGlobal.addr = "back"
                 THEN Ctl!Up(sem, "call_usp_nl_mutex") ELSE sem
    /\ pc' = [pc EXCEPT ![p] = "kill"]
    /\ UNCHANGED <<snc, actual, allocated, computed, PID, nlFlag, skbGlobal, toDaemon, dpc>>

(***************************************************************************)
(* Consumer side: the daemon's sendmsg (through nl_data_ready) and recvmsg.*)
(***************************************************************************)

\* nl_data_ready(skb): wait_event_interruptible(nl_receive_queue,
\* nl_receive_flag==0); kfree_skb(skb_global); skb_global = skb_copy(skb);
\* nl_receive_flag = 1; wake_up_interruptible.
NlDataReady(m) ==
    /\ nlFlag = 0
    /\ skbGlobal' = m
    /\ nlFlag' = 1

\* The daemon asks for a job.
NlSendRequest ==
    /\ dpc = "nl_req"
    /\ NlDataReady([pid |-> DaemonPid, addr |-> "none"])
    /\ dpc' = "nl_recv"
    /\ UNCHANGED <<sem, pc, snc, actual, allocated, computed, PID, toDaemon>>

\* recvmsg: the daemon takes the address of the job off its socket.
NlReceiveJob ==
    /\ dpc = "nl_recv"
    /\ toDaemon # <<>>
    /\ toDaemon' = Tail(toDaemon)
    /\ dpc' = "map"
    /\ UNCHANGED <<sem, pc, snc, actual, allocated, computed, PID, nlFlag, skbGlobal>>

\* The daemon echoes the address it received: the job is done.
NlSendReply ==
    /\ dpc = "nl_reply"
    /\ NlDataReady([pid |-> DaemonPid, addr |-> "back"])
    /\ dpc' = "nl_req"
    /\ UNCHANGED <<sem, pc, snc, actual, allocated, computed, PID, toDaemon>>

\* Any other process may send to the NETLINK_RS_SERVER socket: nl_data_ready
\* checks neither the sender nor the contents.
NlForeignSend(s) ==
    /\ NlDataReady([pid |-> s, addr |-> "none"])
    /\ UNCHANGED <<sem, pc, snc, actual, allocated, computed, PID, toDaemon, dpc>>

NlProducerNext(p) == NlWaitRequest(p) \/ NlGotRequest(p) \/ NlGotReply(p)
NlConsumerNext == NlSendRequest \/ NlReceiveJob \/ NlSendReply
=============================================================================
