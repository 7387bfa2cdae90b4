------------------------------ MODULE ConfGate ------------------------------
(***************************************************************************)
(* The configuration gate: conf_write, the write handler of               *)
(* /proc/barracuda/conf in src/barracuda_kernel_module/raid6cuda.c.        *)
(*                                                                         *)
(* The first accepted line "pid=<n>" sets PID, a later "con=<NL|PROCFS|    *)
(* IOCTL>" sets the call_usp function pointer, sets configured and runs    *)
(* up(&gen_syndrome_mutex), which barracuda_start left held so that no job *)
(* is submitted before the consumer is known.                              *)
(*                                                                         *)
(* A line is abstracted to a record: instr is the text before the first    *)
(* '=', val the text after it (NoVal when there is no '='), copy says     *)
(* whether the write fits the 40-byte buffer and copy_from_user succeeds.  *)
(*                                                                         *)
(* Writers are processes writing one line each to the file; wpc[w] is      *)
(* "idle", "write" (inside conf_write, possibly blocked in down), "done"   *)
(* or "dead" (killed by a kernel oops inside the handler).                 *)
(***************************************************************************)
EXTENDS Naturals

CONSTANTS
    Writers,   \* processes that write a line to /proc/barracuda/conf
    Lines,     \* the lines they may write
    NoVal      \* val of a line without '='

VARIABLES sem, PID, configured, callUsp, wpc, wline

\* The connection names conf_write compares with, and the call_usp_* function
\* each one selects.
ConTable == [NL |-> "nl", PROCFS |-> "proc", IOCTL |-> "ioctl"]

\* A value is a record: w is the word, "digits" for a decimal number, which
\* is then hi * 2^32 + lo with lo < 2^32.  simple_strtoul(value, .., 10)
\* returns that number (0 for a word); the assignment to the unsigned int
\* PID keeps its low 32 bits, lo.
Word(s) == [w |-> s, hi |-> 0, lo |-> 0]
Decimal(h, l) == [w |-> "digits", hi |-> h, lo |-> l]
PidOf(v) == IF v.w = "digits" THEN v.lo ELSE 0

ConfInit ==
    /\ PID = 0
    /\ configured = 0
    /\ callUsp = "none"
    /\ wpc = [w \in Writers |-> "idle"]
    /\ wline \in [Writers -> Lines]

\* The handler dereferences value = NULL: simple_strtoul(NULL, ..) in the
\* pid step, strcmp(NULL, "NL") in the con step.
ConfOops(l) ==
    /\ l.val = NoVal
    /\ \/ PID = 0 /\ l.instr = "pid"
       \/ PID # 0 /\ l.instr = "con"

\* The early returns of conf_write, all taken after down(&conf_mutex) and
\* none of them followed by up(&conf_mutex).
ConfRejected(l) ==
    \/ configured = 1            \* "Kernel Module is already configured!"
    \/ l.copy = "overflow"       \* count > length: -EOVERFLOW
    \/ l.copy = "efault"         \* copy_from_user failed: -EFAULT

\* The handler leaves without reaching up(&conf_mutex).
ConfFails(l) == ConfRejected(l) \/ ConfOops(l)

\* Faulty variant: conf_write entering without down(&conf_mutex).
ConfWriteNoLock(l) ==
    /\ \/ /\ ConfFails(l)
          /\ sem' = [sem EXCEPT !["conf_mutex"] = @ - 1]
          /\ UNCHANGED <<PID, configured, callUsp>>
       \/ /\ ~ConfFails(l)
          /\ UNCHANGED <<sem, configured, callUsp>>
          /\ PID' = IF PID = 0 /\ l.instr = "pid" THEN PidOf(l.val) ELSE PID

ConfWrite(l) ==
    /\ sem["conf_mutex"] > 0
    /\ \/ /\ ConfFails(l)
          /\ sem' = [sem EXCEPT !["conf_mutex"] = @ - 1]
          /\ UNCHANGED <<PID, configured, callUsp>>
       \/ /\ ~ConfFails(l)
          /\ PID = 0
          /\ PID' = IF l.instr = "pid" THEN PidOf(l.val) ELSE PID
          /\ UNCHANGED <<sem, configured, callUsp>>
       \/ /\ ~ConfFails(l)
          /\ PID # 0
          /\ IF l.instr = "con" /\ l.val.w \in DOMAIN ConTable
                THEN /\ callUsp' = ConTable[l.val.w]
                     /\ configured' = 1
                     /\ sem' = [sem EXCEPT !["gen_syndrome_mutex"] = @ + 1]
                ELSE UNCHANGED <<sem, configured, callUsp>>
          /\ UNCHANGED PID

\* A writer opens the file and calls write(); it enters conf_write.
BeginWrite(w) ==
    /\ wpc[w] = "idle"
    /\ wpc' = [wpc EXCEPT ![w] = "write"]
    /\ UNCHANGED <<sem, PID, configured, callUsp, wline>>

\* The writer's conf_write runs to its return, or oopses and kills it.
WriterConfWrite(w) ==
    /\ wpc[w] = "write"
    /\ ConfWrite(wline[w])
    /\ wpc' = [wpc EXCEPT ![w] = IF ~ConfRejected(wline[w]) /\ ConfOops(wline[w])
                                    THEN "dead" ELSE "done"]
    /\ UNCHANGED wline

ConfNext == \E w \in Writers : BeginWrite(w) \/ WriterConfWrite(w)

\* The gate on its own, right after barracuda_start: gen_syndrome_mutex held.
ConfSemInit == [s \in {"conf_mutex", "gen_syndrome_mutex"} |->
                  IF s = "conf_mutex" THEN 1 ELSE 0]

ConfVars == <<sem, PID, configured, callUsp, wpc, wline>>

ConfGateInit == sem = ConfSemInit /\ ConfInit

ConfSpec == /\ ConfGateInit
            /\ [][ConfNext]_ConfVars
            /\ \A w \in Writers : WF_ConfVars(BeginWrite(w))
                                 /\ SF_ConfVars(WriterConfWrite(w))
-----------------------------------------------------------------------------
ConfTypeOK ==
    /\ sem \in [{"conf_mutex", "gen_syndrome_mutex"} -> Nat]
    /\ PID \in Nat /\ configured \in {0, 1}
    /\ callUsp \in {"none", "proc", "ioctl", "nl"}
    /\ wpc \in [Writers -> {"idle", "write", "done", "dead"}]
    /\ wline \in [Writers -> Lines]

\* Every write to /proc/barracuda/conf returns (or kills its writer): the
\* handler never leaves conf_mutex held for the next writer.
ConfWriteReturns == \A w \in Writers : wpc[w] = "write" ~> wpc[w] \in {"done", "dead"}
=============================================================================
