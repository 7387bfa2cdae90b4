----------------------------- MODULE MCSyndrome -----------------------------
(* Model-checking instance of the in-kernel test module and the SMP        *)
(* prototype.  part, chosen at the start, says which is checked: one       *)
(* KERNELMODE iteration of the test module's thread side by side with one  *)
(* call of the SMP prototype (they share no state), or the BENCHMARK       *)
(* build's lifecycle: insmod, the thread's calls, rmmod.                   *)
EXTENDS Syndrome, SmpSyndrome, TestModule

(* Two-byte words: the low lane's top bit carries into the high lane if     *)
(* SHLBYTE or MASK is wrong, and the high lane's top bit exercises MASK's   *)
(* unsigned wrap.  The lanes hold 0, 0x80, 0x8e (log 254) and 0x53:        *)
(* 0x8000, 0x808e and 0x8e53.                                               *)
MCWords == {32768, 32910, 36435}

VARIABLE part

allVars == <<part, synVars, smpVars, lcVars>>

LifecycleStep(A) == part = "lifecycle" /\ A /\ UNCHANGED <<part, synVars, smpVars>>

MCInit ==
    /\ part \in {"syndrome", "lifecycle"}
    /\ SyndromeInit /\ SmpInit /\ LifecycleInit
    \* The lifecycle never reads the generators' state: one initial state of it.
    /\ part = "lifecycle" =>
          /\ disks = CHOOSE d \in DiskCounts : TRUE
          /\ \A i \in DOMAIN dptrs : dptrs[i] = CHOOSE w \in Words : TRUE
          /\ bytes = CHOOSE b \in ByteCounts : TRUE

MCNext ==
    \/ part = "syndrome" /\ SyndromeNext /\ UNCHANGED <<part, smpVars, lcVars>>
    \/ part = "syndrome" /\ SmpNext /\ UNCHANGED <<part, synVars, lcVars>>
    \/ LifecycleStep(LifecycleNext)

MCSpec ==
    /\ MCInit /\ [][MCNext]_allVars
    /\ WF_allVars(LifecycleStep(ThreadNext))
    /\ WF_allVars(LifecycleStep(DaemonConfigure))
    /\ WF_allVars(LifecycleStep(ModExit))
=============================================================================
