------------------------------ MODULE MemoryMap ------------------------------
(***************************************************************************)
(* The memory-sharing layer of src/barracuda_kernel_module/raid6cuda.c:   *)
(* the file operations of /dev/barracuda.  mmap_mmap maps, at page offset *)
(* 0, the shared container *actual_snc and, at offset i > 0, the buffer    *)
(* actual_snc->ptrs[i-1]; map_mem sends a vmalloc'ed target to map_vmem   *)
(* (page by page, no size ceiling) and any other to map_kmem (one range,  *)
(* at most NPAGES pages).  barracuda_read and barracuda_write copy to or   *)
(* from actual_snc->ptrs[off], off being the file position.               *)
(*                                                                         *)
(* The memory an access reaches is a target: the container, buffer k of   *)
(* the reference array arr, a garbage pointer read past the end of arr,   *)
(* or a reference array that kill_smc has already vfree'd.                 *)
(***************************************************************************)
EXTENDS Naturals

CONSTANTS Arrays, NULL, Disks,
          NPAGES     \* the ceiling of map_kmem, #define NPAGES 16

VARIABLES actual, allocated,
          backing,     \* "vmalloc" or "kmem": how the callers' buffers are allocated
          lastAccess   \* the last access of a user process to /dev/barracuda

Container == [kind |-> "container"]
Buffer(arr, k) == [kind |-> "buffer", arr |-> arr, idx |-> k]
Beyond(arr) == [kind |-> "beyond", arr |-> arr]
Freed(arr) == [kind |-> "freed", arr |-> arr]
Oops == [kind |-> "oops"]
NoAccess == [op |-> "none"]

(* actual_snc->ptrs[k]: a NULL ptrs (pack_smc failed, or never set) is a  *)
(* NULL dereference in the kernel; a vfree'd array is read after free;     *)
(* past the disks entries vmalloc'ed for it the pointer is garbage.        *)
PtrsAt(k) ==
    IF actual.ptrs = NULL THEN Oops
    ELSE IF actual.ptrs \notin allocated THEN Freed(actual.ptrs)
    ELSE IF k < actual.disks THEN Buffer(actual.ptrs, k)
    ELSE Beyond(actual.ptrs)

\* Faulty variant of MmapTarget: ptrs[i] instead of ptrs[i-1].
MmapTargetNoShift(i) == IF i = 0 THEN Container ELSE PtrsAt(i)

(* mmap_mmap: i = vm_pgoff; offset 0 maps actual_snc, i > 0 maps          *)
(* ptrs[i-1]; the closing "return -EIO" is unreachable for unsigned i.     *)
MmapTarget(i) == IF i = 0 THEN Container ELSE PtrsAt(i - 1)

(* is_vmalloc_addr(data): actual_snc is vmalloc'ed, the buffers are        *)
(* allocated as backing says, a garbage pointer may lie anywhere.           *)
IsVmallocAddr(t) ==
    CASE t.kind = "container" -> {TRUE}
      [] t.kind = "buffer"    -> {backing = "vmalloc"}
      [] OTHER                -> BOOLEAN

(* map_vmem remaps every page of the request (its remap_pfn_range failing *)
(* is not modelled); map_kmem refuses more than NPAGES pages with -EIO.    *)
MapMemResult(t, pages) ==
    {IF vm \/ pages <= NPAGES THEN "view" ELSE "EIO" : vm \in IsVmallocAddr(t)}

(* An access, with the container actual_snc held when it was made.       *)
Access(op, who, off, result, t) ==
    [op |-> op, who |-> who, off |-> off, result |-> result, target |-> t,
     disks |-> actual.disks, arr |-> actual.ptrs]

(* A user process maps `pages` pages of /dev/barracuda at page offset i.   *)
MmapMmap(who, i, pages) ==
    LET t == MmapTarget(i) IN
    /\ lastAccess' \in
          IF t = Oops
          THEN {Access("mmap", who, i, "oops", t)}
          ELSE {Access("mmap", who, i, r, t) : r \in MapMemResult(t, pages)}
    /\ UNCHANGED <<actual, allocated, backing>>

(* barracuda_read at file position off: copy_to_user from ptrs[off] (not *)
(* ptrs[off-1] as for mmap), with no check of off and no lock.            *)
BarracudaRead(who, off) ==
    LET t == PtrsAt(off) IN
    /\ lastAccess' = Access("read", who, off, IF t = Oops THEN "oops" ELSE "copy", t)
    /\ UNCHANGED <<actual, allocated, backing>>

(* barracuda_write: copy_from_user into ptrs[off], likewise unchecked.    *)
BarracudaWrite(who, off) ==
    LET t == PtrsAt(off) IN
    /\ lastAccess' = Access("write", who, off, IF t = Oops THEN "oops" ELSE "copy", t)
    /\ UNCHANGED <<actual, allocated, backing>>

(* What the offset scheme of the specification promises for offset i of a *)
(* container with d buffers: 0 the container, 1..d buffer i-1, any other  *)
(* offset no mapping at all (InvalidOffset).                               *)
SchemeTarget(i, d, arr) ==
    IF i = 0 THEN Container
    ELSE IF i <= d THEN Buffer(arr, i - 1)
    ELSE [kind |-> "invalid"]
=============================================================================
