---------------------------- MODULE OffloadChannel ----------------------------
(***************************************************************************)
(* What the offload channel promises its callers, whatever the transport:  *)
(* no job is accepted before the channel is configured, jobs are served    *)
(* one at a time, and a job is handed back to its caller only after the    *)
(* consumer has computed it.  Every accepted job is computed and handed   *)
(* back.                                                                   *)
(***************************************************************************)
CONSTANTS Producers, None

VARIABLES
    open,     \* configuration is complete; submissions are let through
    holder,   \* the producer whose job is in the channel, or None
    phase     \* "free", "pending" (not yet computed) or "computed"

chanVars == <<open, holder, phase>>

ChanInit == open = FALSE /\ holder = None /\ phase = "free"

Open == ~open /\ open' = TRUE /\ UNCHANGED <<holder, phase>>

Accept(p) ==
    /\ open /\ holder = None
    /\ holder' = p /\ phase' = "pending"
    /\ UNCHANGED open

Compute == phase = "pending" /\ phase' = "computed" /\ UNCHANGED <<open, holder>>

HandBack(p) ==
    /\ holder = p /\ phase = "computed"
    /\ holder' = None /\ phase' = "free"
    /\ UNCHANGED open

ChanNext == Open \/ Compute \/ \E p \in Producers : Accept(p) \/ HandBack(p)

ChanSpec == ChanInit /\ [][ChanNext]_chanVars
            /\ WF_chanVars(Compute) /\ \A p \in Producers : WF_chanVars(HandBack(p))
=============================================================================
