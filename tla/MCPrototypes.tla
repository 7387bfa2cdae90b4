---------------------------- MODULE MCPrototypes ----------------------------
(***************************************************************************)
(* Three independent programs for TLC: the ping-pong prototypes (PingPong) *)
(* and the mmap prototype (MmapExample) under src/prototypes, and the      *)
(* configuration gate conf_write of the kernel module on its own           *)
(* (ConfGate, with the writers and lines of MCConfGate).  `part` chooses   *)
(* which of them runs, so one run checks all three; each part's steps      *)
(* leave the other parts' variables alone.                                 *)
(***************************************************************************)
EXTENDS PingPong, MmapExample, MCConfGate

CONSTANTS p1, p2, p3

MCPages == {p1, p2, p3}

VARIABLE part

confVars == <<sem, PID, configured, callUsp, wpc, wline>>
allVars == <<part, ppVars, mxVars, confVars>>

MCInit == /\ part \in {"pingpong", "mmap", "conf"}
          /\ PpInit
          /\ MxInit
          /\ ConfGateInit
          \* a part's initial choices are fixed while another part runs
          /\ part # "pingpong" => proto = CHOOSE x \in Prototypes : TRUE
          /\ part # "conf" => wline = CHOOSE f \in [Writers -> Lines] : TRUE

PingPongStep(A) == part = "pingpong" /\ A /\ UNCHANGED <<part, mxVars, confVars>>
MmapStep == part = "mmap" /\ MxNext /\ UNCHANGED <<part, ppVars, confVars>>
ConfStep(A) == part = "conf" /\ A /\ UNCHANGED <<part, ppVars, mxVars>>

(* No fairness for the writers: the run states only safety of conf_write, *)
(* whose liveness (ConfWriteReturns) the conf runs check under ConfSpec.   *)
MCNext == PingPongStep(PpNext) \/ MmapStep \/ ConfStep(ConfNext)

MCSpec == /\ MCInit /\ [][MCNext]_allVars
          /\ WF_allVars(PingPongStep(ThreadNext))
          /\ WF_allVars(PingPongStep(PongNext \/ PongStart))
          /\ WF_allVars(PingPongStep(PingModExitEnd))
=============================================================================
