------------------------------ MODULE MmapExample ------------------------------
(***************************************************************************)
(* The mmap prototype, src/prototypes/mmap_example.  Its kernel module     *)
(* (ping.c) allocates `disks` buffers with __get_free_pages, packs them    *)
(* into a vmalloc'ed syndrome_container snc and registers the character    *)
(* device whose mmap_mmap maps snc at page offset 0 and snc->ptrs[i-1] at   *)
(* offset i.  The user program (pong.c) maps the container, reads disks    *)
(* and bytes, maps every buffer, and forks number_of_threads children,     *)
(* each of which writes its chunk of every buffer through the shared       *)
(* mapping; the parent waits for them, unmaps and exits.                   *)
(*                                                                         *)
(* A kernel buffer is a page of Pages; a process's mapping is the page it  *)
(* reaches.  The children's writes are kept as the buffers and the byte    *)
(* range each child wrote.                                                 *)
(***************************************************************************)
EXTENDS Naturals, FiniteSets, Functions, TLC

CONSTANTS
    Pages,         \* the pages __get_free_pages may return
    DISKS,         \* NUMBER_OF_DISK (7 in the code)
    BYTES,         \* BYTES (100)
    PAGE_SIZE,
    MX_NPAGES,     \* NPAGES, map_kmem's ceiling (16)
    NCHILD         \* get_number_of_phys_cpus(), which returns 8

Children == 0..NCHILD-1

VARIABLES
    kst,       \* the kernel module: "unloaded", "loaded" or "removed"
    snc,       \* the packed container {disks, bytes, ptrs}
    pst,       \* the user program's position in main
    pdisks,    \* disks as the program read it from the container
    pbytes,    \* bytes as the program read it
    pviews,    \* the program's dptrs: dptrs[k] is the page it maps
    mi,        \* get_act_syndrome_block's loop index i
    fi,        \* raid6_smp_gen_syndrome's fork loop index i
    cst,       \* each child's state: "none", "run" or "exited"
    written,   \* written[t]: the pages and the byte range child t wrote
    mapped     \* the pages the parent process maps

mxVars == <<kst, snc, pst, pdisks, pbytes, pviews, mi, fi, cst, written,
            mapped>>

NoWrite == [pages |-> {}, range |-> {}]

MxInit ==
    /\ kst = "unloaded"
    /\ snc = [disks |-> 0, bytes |-> 0, ptrs |-> <<>>]
    /\ pst = "open"
    /\ pdisks = 0 /\ pbytes = 0 /\ pviews = <<>>
    /\ mi = 0 /\ fi = 0
    /\ cst = [t \in Children |-> "none"]
    /\ written = [t \in Children |-> NoWrite]
    /\ mapped = {}

(* pack_smc(disks, bytes, ptrs): a vmalloc'ed container and a vmalloc'ed  *)
(* copy of the pointer array.                                              *)
PackSmc(d, b, ptrs) == [disks |-> d, bytes |-> b, ptrs |-> ptrs]

(* mod_init: a page block per disk (memset to its index), pack_smc and    *)
(* register_chrdev.  Their failures are not modelled.                      *)
ModInit ==
    /\ kst = "unloaded"
    /\ \E dptrs \in [0..DISKS-1 -> Pages] :
          /\ IsInjective(dptrs)
          /\ snc' = PackSmc(DISKS, BYTES, dptrs)
    /\ kst' = "loaded"
    /\ UNCHANGED <<pst, pdisks, pbytes, pviews, mi, fi, cst, written, mapped>>

(* mmap_mmap: offset 0 is snc, offset i > 0 is snc->ptrs[i-1].            *)
MmapTarget(i) == IF i = 0 THEN "container" ELSE snc.ptrs[i - 1]

(* map_mem: snc is vmalloc'ed and goes to map_vmem, which always maps;     *)
(* the buffers go to map_kmem, which refuses more than NPAGES pages.       *)
MapMemOk(t, len) ==
    t = "container" \/ (len + PAGE_SIZE - 1) \div PAGE_SIZE <= MX_NPAGES

(* mod_exit: unregister_chrdev, free_pages of every buffer, kill_smc.  The *)
(* module can only be removed while no process holds /dev/ping open or     *)
(* mapped (fops.owner = THIS_MODULE).                                      *)
ModExit ==
    /\ kst = "loaded"
    /\ pst \in {"open", "exited"}
    /\ kst' = "removed"
    /\ UNCHANGED <<snc, pst, pdisks, pbytes, pviews, mi, fi, cst, written,
                   mapped>>

(* main: open("/dev/ping"); on failure return -1.                          *)
PongOpen ==
    /\ pst = "open"
    /\ pst' = IF kst = "loaded" THEN "getblock" ELSE "exited"
    /\ UNCHANGED <<kst, snc, pdisks, pbytes, pviews, mi, fi, cst, written,
                   mapped>>

(* get_act_syndrome_block: mmap offset 0, read disks and bytes, munmap.    *)
GetContainer ==
    /\ pst = "getblock"
    /\ MapMemOk(MmapTarget(0), 24)
    /\ pdisks' = snc.disks /\ pbytes' = snc.bytes
    /\ mi' = 1 /\ pst' = "mapbuf"
    /\ UNCHANGED <<kst, snc, pviews, fi, cst, written, mapped>>

\* Faulty variant of MapBuffer: dptrs[i] = mmap(.., i*pagesize) for i from 0.
MapBufferFromZero ==
    /\ pst = "mapbuf"
    /\ MapMemOk(MmapTarget(mi - 1), pbytes)
    /\ pviews' = pviews @@ (mi - 1 :> MmapTarget(mi - 1))
    /\ mapped' = mapped \cup {MmapTarget(mi - 1)}
    /\ mi' = mi + 1
    /\ pst' = IF mi = pdisks THEN "fork" ELSE "mapbuf"
    /\ UNCHANGED <<kst, snc, pdisks, pbytes, fi, cst, written>>

(* for (i = 1; i <= disks; i++) dptrs[i-1] = mmap(0, bytes, .., i*pagesize); *)
MapBuffer ==
    /\ pst = "mapbuf"
    /\ MapMemOk(MmapTarget(mi), pbytes)
    /\ pviews' = pviews @@ (mi - 1 :> MmapTarget(mi))
    /\ mapped' = mapped \cup {MmapTarget(mi)}
    /\ mi' = mi + 1
    /\ pst' = IF mi = pdisks THEN "fork" ELSE "mapbuf"
    /\ UNCHANGED <<kst, snc, pdisks, pbytes, fi, cst, written>>

(* The fork loop of raid6_smp_gen_syndrome: pipe, fork, and the parent     *)
(* writes the child its index i through the pipe.  The failures of pipe    *)
(* and fork are not modelled.                                              *)
Fork ==
    /\ pst = "fork"
    /\ cst' = [cst EXCEPT ![fi] = "run"]
    /\ fi' = fi + 1
    /\ pst' = IF fi + 1 = NCHILD THEN "wait" ELSE "fork"
    /\ UNCHANGED <<kst, snc, pdisks, pbytes, pviews, mi, written, mapped>>

(* proc_thread_dep_syndrome's chunk: start = (bytes/n)*id; the last child *)
(* runs to bytes.                                                           *)
ChunkStart(t) == (pbytes \div NCHILD) * t
ChunkStop(t) ==
    IF t + 1 = NCHILD THEN pbytes ELSE ChunkStart(t) + pbytes \div NCHILD

\* Faulty variant of ChunkRange: the byte loop as "j <= stop".
ChunkRangePastStop(t) == ChunkStart(t)..ChunkStop(t)

(* for (j = start; j < stop; j++) tmp[j] = disks-1-i, for every disk i.    *)
ChunkRange(t) == ChunkStart(t)..ChunkStop(t)-1

(* A child: read its index from the pipe, write its chunk of every buffer *)
(* through the mappings it inherited, return to main, unmap its copies and *)
(* exit; none of that touches the parent's state.                          *)
ChildRun(t) ==
    /\ cst[t] = "run"
    /\ written' = [written EXCEPT ![t] =
                     [pages |-> {pviews[k] : k \in DOMAIN pviews},
                      range |-> ChunkRange(t)]]
    /\ cst' = [cst EXCEPT ![t] = "exited"]
    /\ UNCHANGED <<kst, snc, pst, pdisks, pbytes, pviews, mi, fi, mapped>>

(* for (i = 0; i < number_of_threads; i++) waitpid(child_pids[i], ..).      *)
WaitChildren ==
    /\ pst = "wait"
    /\ \A t \in Children : cst[t] = "exited"
    /\ pst' = "unget"
    /\ UNCHANGED <<kst, snc, pdisks, pbytes, pviews, mi, fi, cst, written,
                   mapped>>

(* unget_act_syndrome_block: for (i = 0; i < disks; i++) munmap(ptrs[i-1]) *)
(* unmaps dptrs[0..disks-2]; ptrs[-1] is read before the array and is no   *)
(* mapping of the process, so that munmap fails.                            *)
Unget ==
    /\ pst = "unget"
    /\ mapped' = mapped \ {pviews[i - 1] : i \in 1..pdisks-1}
    /\ pst' = "close"
    /\ UNCHANGED <<kst, snc, pdisks, pbytes, pviews, mi, fi, cst, written>>

(* close(fd); return 0: the process exits and its mappings go with it.     *)
Close ==
    /\ pst = "close"
    /\ pst' = "exited" /\ mapped' = {}
    /\ UNCHANGED <<kst, snc, pdisks, pbytes, pviews, mi, fi, cst, written>>

MxNext ==
    \/ ModInit \/ ModExit
    \/ PongOpen \/ GetContainer \/ MapBuffer \/ Fork
    \/ \E t \in Children : ChildRun(t)
    \/ WaitChildren \/ Unget \/ Close

MxSpec == MxInit /\ [][MxNext]_mxVars

-----------------------------------------------------------------------------
(* The buffer the program maps as dptrs[k] is the kernel's snc->ptrs[k],   *)
(* and disks and bytes are the container's: the offset i of pong's loop    *)
(* and the ptrs[i-1] of mmap_mmap agree, so each buffer the program        *)
(* reaches is the one the kernel packed at that index.                     *)
PongMapsPackedBuffers ==
    pst \in {"mapbuf", "fork", "wait", "unget", "close"} =>
        /\ pdisks = snc.disks /\ pbytes = snc.bytes
        /\ \A k \in DOMAIN pviews : pviews[k] = snc.ptrs[k]

(* Once the parent has reaped its children, their writes tile every       *)
(* buffer: for each of the kernel's buffers, the children that wrote it    *)
(* wrote bytes 0..bytes-1, each byte exactly once.                          *)
ChildrenTileBuffers ==
    pst \in {"unget", "close"} =>
        \A b \in Range(snc.ptrs) :
            LET ws == {t \in Children : b \in written[t].pages}
            IN  /\ UNION {written[t].range : t \in ws} = 0..snc.bytes-1
                /\ \A t1, t2 \in ws :
                      t1 # t2 => written[t1].range \cap written[t2].range = {}

=============================================================================
