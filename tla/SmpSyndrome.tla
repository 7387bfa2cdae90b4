---------------------------- MODULE SmpSyndrome ----------------------------
(***************************************************************************)
(* raid6_smp_gen_syndrome of src/prototypes/smp_gs/raid6smp.c: the buffer  *)
(* of `bytes` bytes is split among number_of_threads pthreads, each of     *)
(* which runs the vanilla P/Q loop over its chunk a u64 word (NSIZE = 8    *)
(* bytes) at a time; the caller then joins them.  The words' values are    *)
(* those of the vanilla loop (checked in Syndrome); this module keeps the  *)
(* thread creation, its failure, the chunk arithmetic and the join.  As    *)
(* built, number_of_threads is always 1 (see NUMBER_OF_CPUS_INSTALLED).    *)
(***************************************************************************)
EXTENDS Integers, FiniteSets

CONSTANTS
    SmpNSIZE,     \* 8: the u64 word of the prototype
    ByteCounts    \* values of `begin` main passes as bytes

(* The static NUMBER_OF_CPUS_INSTALLED, initialised to 1, which            *)
(* get_number_of_phys_cpus returns.  Only set_internal_vars assigns it, and *)
(* main never calls set_internal_vars: every call runs one thread.         *)
NUMBER_OF_CPUS_INSTALLED == 1

Threads == 0..NUMBER_OF_CPUS_INSTALLED-1

VARIABLES
    nthreads,   \* number_of_threads of the current call
    bytes,      \* bytes of the current call
    mainPc,     \* "create", "join", "returned" or "exited" (exit(-1))
    created,    \* the thread ids pthread_create has started
    tpc,        \* tpc[t]: "run" until thread t has passed pthread_exit
    stored      \* stored[t]: the word offsets d at which t stored p[d], q[d]

smpVars == <<nthreads, bytes, mainPc, created, tpc, stored>>

(* proc_thread_dep_syndrome's chunk: start = (bytes/n)*id; the last thread *)
(* runs to bytes, every other one for bytes/n bytes.                       *)
SmpStart(t) == (bytes \div nthreads) * t
SmpStop(t) ==
    IF t + 1 = nthreads THEN bytes ELSE SmpStart(t) + bytes \div nthreads

(* for (d = start; d < stop; d += NSIZE): the offsets of the stored words. *)
SmpWordOffsets(t) ==
    {d \in SmpStart(t)..SmpStop(t)-1 : (d - SmpStart(t)) % SmpNSIZE = 0}

(* raid6_smp_gen_syndrome: number_of_threads = get_number_of_phys_cpus(). *)
SmpInit ==
    /\ nthreads = NUMBER_OF_CPUS_INSTALLED
    /\ bytes \in ByteCounts
    /\ mainPc = "create"
    /\ created = {}
    /\ tpc = [t \in Threads |-> "idle"]
    /\ stored = [t \in Threads |-> {}]

(* One iteration of the creation loop: thread i = |created| is started,   *)
(* or pthread_create fails and the process calls exit(-1).                 *)
SmpCreate ==
    /\ mainPc = "create"
    /\ LET i == Cardinality(created) IN
       \/ /\ created' = created \cup {i}
          /\ tpc' = [tpc EXCEPT ![i] = "run"]
          /\ mainPc' = IF i + 1 = nthreads THEN "join" ELSE "create"
       \/ /\ mainPc' = "exited"
          /\ UNCHANGED <<created, tpc>>
    /\ UNCHANGED <<nthreads, bytes, stored>>

(* Thread t runs its whole chunk: every iteration stores the P and Q word *)
(* at d.                                                                    *)
SmpThreadRun(t) ==
    /\ tpc[t] = "run"
    /\ tpc' = [tpc EXCEPT ![t] = "done"]
    /\ stored' = [stored EXCEPT ![t] = SmpWordOffsets(t)]
    /\ UNCHANGED <<nthreads, bytes, mainPc, created>>

(* The join loop returns once every created thread has exited.            *)
SmpJoin ==
    /\ mainPc = "join"
    /\ \A t \in created : tpc[t] = "done"
    /\ mainPc' = "returned"
    /\ UNCHANGED <<nthreads, bytes, created, tpc, stored>>

SmpNext == SmpCreate \/ (\E t \in Threads : SmpThreadRun(t)) \/ SmpJoin

SmpSpec == SmpInit /\ [][SmpNext]_smpVars

=============================================================================
