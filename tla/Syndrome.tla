------------------------------ MODULE Syndrome ------------------------------
(***************************************************************************)
(* The in-kernel RAID-6 syndrome generators of the test module             *)
(* src/barracuda_kernel_module/raid6cuda_tst.c, built with KERNELMODE:     *)
(* thread_code runs raid6_vanilla_gen_syndrome (P = XOR parity, Q = the    *)
(* Reed-Solomon syndrome over GF(2^8), computed a machine word at a time   *)
(* with the SHLBYTE and MASK lane tricks) and then                         *)
(* multi_rs_soft_gen_syndrome (CHECK_SYMBOLS rows of a Vandermonde code,   *)
(* computed a byte at a time with the log tables of mult_gf) on the same   *)
(* buffers.                                                                *)
(*                                                                         *)
(* A buffer is one machine word of NSIZE byte lanes: both generators treat *)
(* every word position alike and independently, so the loop over the      *)
(* bytes of a page is one iteration here.  The reference definitions at    *)
(* the end compute the same values byte by byte from the definition of     *)
(* GF(2^8) multiplication, so the lane arithmetic is checked, not assumed. *)
(***************************************************************************)
EXTENDS Integers, Sequences, Bitwise, Functions

CONSTANTS
    NSIZE,        \* bytes per unative_t (4 or 8 in the module; small for TLC)
    DiskCounts,   \* the values of disks thread_code passes
    Words,        \* the word values an uninitialised vmalloc'ed buffer holds
    GflogPast     \* the byte the build places right after gflog[] (see MultGf)

ASSUME NSIZE \in 1..3 /\ DiskCounts \subseteq 5..64 /\ GflogPast \in 0..255

VARIABLES
    disks,   \* the disk count of the current benchmark iteration
    dptrs,   \* dptrs[i]: the word at the current offset of buffer i
    phase    \* how far thread_code's KERNELMODE iteration has got

synVars == <<disks, dptrs, phase>>

WordMod == 2 ^ (8 * NSIZE)

XorOp(a, b) == a ^^ b

(* NBYTES(x): x replicated into every byte lane of a word. *)
NBYTES(x) == SumFunction([k \in 0..NSIZE-1 |-> x * 256 ^ k])

(* SHLBYTE: each lane shifted left by one, nothing carried between lanes. *)
SHLBYTE(v) == ((v * 2) % WordMod) & NBYTES(254)

\* Faulty variant of MASK: the "- (vv >> 7)" term dropped, so a lane with
\* its top bit set gives 0x00 and carries into the next lane.
MASKNoBorrow(v) == ((v & NBYTES(128)) * 2) % WordMod

(* MASK: 0xff in every lane whose top bit is set.  (vv << 1) - (vv >> 7)  *)
(* relies on unsigned overflow in the top lane, kept here by % WordMod.    *)
MASK(v) ==
    LET vv == v & NBYTES(128)
    IN  (((vv * 2) % WordMod) + WordMod - (vv \div 128)) % WordMod

(* One pass of the inner z loop of raid6_vanilla_gen_syndrome, from disk  *)
(* z down to 0, carrying the running P (wp) and Q (wq) words.              *)
RECURSIVE VanillaLoop(_, _, _, _)
VanillaLoop(D, z, wp, wq) ==
    IF z < 0 THEN <<wp, wq>>
    ELSE LET wd == D[z]
             w2 == MASK(wq) & NBYTES(29)
             w1 == SHLBYTE(wq) ^^ w2
         IN  VanillaLoop(D, z - 1, wp ^^ wd, w1 ^^ wd)

(* raid6_vanilla_gen_syndrome: data disks 0..z0, P at z0+1, Q at z0+2.    *)
VanillaGenSyndrome(D, n) ==
    LET z0 == n - 3
        pq == VanillaLoop(D, z0 - 1, D[z0], D[z0])
    IN  [D EXCEPT ![z0 + 1] = pq[1], ![z0 + 2] = pq[2]]

(* The log and antilog tables of raid6cuda_tst.c, as 1-indexed sequences. *)
(* gflog[] has 255 initialisers, so gflog[255] is read past the array.     *)
gflog == <<
 0, 0, 1, 25, 2, 50, 26, 198, 3, 223, 51, 238, 27, 104, 199, 75, 4, 100, 224, 14,
 52, 141, 239, 129, 28, 193, 105, 248, 200, 8, 76, 113, 5, 138, 101, 47, 225, 36,
 15, 33, 53, 147, 142, 218, 240, 18, 130, 69, 29, 181, 194, 125, 106, 39, 249, 185,
 201, 154, 9, 120, 77, 228, 114, 166, 6, 191, 139, 98, 102, 221, 48, 253, 226, 152,
 37, 179, 16, 145, 34, 136, 54, 208, 148, 206, 143, 150, 219, 189, 241, 210, 19,
 92, 131, 56, 70, 64, 30, 66, 182, 163, 195, 72, 126, 110, 107, 58, 40, 84, 250,
 133, 186, 61, 202, 94, 155, 159, 10, 21, 121, 43, 78, 212, 229, 172, 115, 243, 167,
 87, 7, 112, 192, 247, 140, 128, 99, 13, 103, 74, 222, 237, 49, 197, 254, 24, 227,
 165, 153, 119, 38, 184, 180, 124, 17, 68, 146, 217, 35, 32, 137, 46, 55, 63, 209,
 91, 149, 188, 207, 205, 144, 135, 151, 178, 220, 252, 190, 97, 242, 86, 211, 171,
 20, 42, 93, 158, 132, 60, 57, 83, 71, 109, 65, 162, 31, 45, 67, 216, 183, 123, 164,
 118, 196, 23, 73, 236, 127, 12, 111, 246, 108, 161, 59, 82, 41, 157, 85, 170, 251,
 96, 134, 177, 187, 204, 62, 90, 203, 89, 95, 176, 156, 169, 160, 81, 11, 245, 22,
 235, 122, 117, 44, 215, 79, 174, 213, 233, 230, 231, 173, 232, 116, 214, 244, 234,
 168, 80, 88 >>

gfilog == <<
 1, 2, 4, 8, 16, 32, 64, 128, 29, 58, 116, 232, 205, 135, 19, 38, 76, 152, 45, 90,
 180, 117, 234, 201, 143, 3, 6, 12, 24, 48, 96, 192, 157, 39, 78, 156, 37, 74, 148,
 53, 106, 212, 181, 119, 238, 193, 159, 35, 70, 140, 5, 10, 20, 40, 80, 160, 93,
 186, 105, 210, 185, 111, 222, 161, 95, 190, 97, 194, 153, 47, 94, 188, 101, 202,
 137, 15, 30, 60, 120, 240, 253, 231, 211, 187, 107, 214, 177, 127, 254, 225, 223,
 163, 91, 182, 113, 226, 217, 175, 67, 134, 17, 34, 68, 136, 13, 26, 52, 104, 208,
 189, 103, 206, 129, 31, 62, 124, 248, 237, 199, 147, 59, 118, 236, 197, 151, 51,
 102, 204, 133, 23, 46, 92, 184, 109, 218, 169, 79, 158, 33, 66, 132, 21, 42, 84,
 168, 77, 154, 41, 82, 164, 85, 170, 73, 146, 57, 114, 228, 213, 183, 115, 230, 209,
 191, 99, 198, 145, 63, 126, 252, 229, 215, 179, 123, 246, 241, 255, 227, 219, 171,
 75, 150, 49, 98, 196, 149, 55, 110, 220, 165, 87, 174, 65, 130, 25, 50, 100, 200,
 141, 7, 14, 28, 56, 112, 224, 221, 167, 83, 166, 81, 162, 89, 178, 121, 242, 249,
 239, 195, 155, 43, 86, 172, 69, 138, 9, 18, 36, 72, 144, 61, 122, 244, 245, 247,
 243, 251, 235, 203, 139, 11, 22, 44, 88, 176, 125, 250, 233, 207, 131, 27, 54,
 108, 216, 173, 71, 142 >>

(* gflog[a]; the out-of-bounds gflog[255] is whatever byte follows it.    *)
GfLog(a) == IF a < Len(gflog) THEN gflog[a + 1] ELSE GflogPast

(* mult_gf: sum_log is an unsigned char, so the sum of the two logs wraps *)
(* modulo 256 before the "sum_log >= NW-1" reduction is applied.           *)
MultGf(a, b) ==
    IF a = 0 \/ b = 0 THEN 0
    ELSE LET sum_log == (GfLog(a) + GfLog(b)) % 256
             reduced == IF sum_log >= 255 THEN sum_log - 255 ELSE sum_log
         IN  gfilog[reduced + 1]

(* Byte k of a word, and the word whose bytes are f[0..NSIZE-1]: the byte *)
(* addressing dptrs[j][i] of multi_rs_soft_gen_syndrome.                  *)
Lane(w, k) == (w \div 256 ^ k) % 256

\* Faulty variant of FromLanes: byte k stored one position up, as in
\* dptrs[j][i+1].
FromLanesShifted(f) == SumFunction([k \in 0..NSIZE-1 |-> f[k] * 256 ^ (k + 1)])

FromLanes(f) == SumFunction([k \in 0..NSIZE-1 |-> f[k] * 256 ^ k])

(* The d loop of one row j of multi_rs_soft_gen_syndrome for byte lane k: *)
(* dptrs[j][i] ^= mult_gf(x, dptrs[d][i]); x = mult_gf(x, y).              *)
RECURSIVE RsRow(_, _, _, _, _, _, _)
RsRow(D, k, hd, y, x, d, acc) ==
    IF d >= hd THEN acc
    ELSE RsRow(D, k, hd, y, MultGf(x, y), d + 1, acc ^^ MultGf(x, Lane(D[d], k)))

(* multi_rs_soft_gen_syndrome with CHECK_SYMBOLS = 4: rows j = disks-4 ..  *)
(* disks-1 get the row y = j - high_disk + 1 of every byte lane.  Rows are *)
(* written in order, and a row is a data disk of no later row.             *)
MultiRsGenSyndrome(D, n) ==
    LET hd == n - 4
    IN  [i \in DOMAIN D |->
            IF i < hd THEN D[i]
            ELSE FromLanes([k \in 0..NSIZE-1 |-> RsRow(D, k, hd, i - hd + 1, i - hd + 1, 0, 0)])]

-----------------------------------------------------------------------------
(* thread_code, KERNELMODE: the buffers hold whatever vmalloc returned;   *)
(* one iteration of the benchmark loop calls the two generators in turn.   *)

SyndromeInit ==
    /\ disks \in DiskCounts
    /\ dptrs \in [0..disks-1 -> Words]
    /\ phase = "filled"

RunVanilla ==
    /\ phase = "filled"
    /\ dptrs' = VanillaGenSyndrome(dptrs, disks)
    /\ phase' = "vanilla"
    /\ UNCHANGED disks

RunMultiRs ==
    /\ phase = "vanilla"
    /\ dptrs' = MultiRsGenSyndrome(dptrs, disks)
    /\ phase' = "multi_rs"
    /\ UNCHANGED disks

SyndromeNext == RunVanilla \/ RunMultiRs

SyndromeSpec == SyndromeInit /\ [][SyndromeNext]_synVars

-----------------------------------------------------------------------------
(* Reference definitions, byte by byte, independent of the code's tables. *)

Xtime(b) == IF b >= 128 THEN (b * 2 - 256) ^^ 29 ELSE b * 2

RECURSIVE GfMulRef(_, _)
GfMulRef(a, b) ==
    IF b = 0 THEN 0
    ELSE (IF b % 2 = 1 THEN a ELSE 0) ^^ GfMulRef(Xtime(a), b \div 2)

RECURSIVE GfPowRef(_, _)
GfPowRef(g, e) == IF e = 0 THEN 1 ELSE GfMulRef(g, GfPowRef(g, e - 1))

XorOver(f, S) == FoldFunctionOnSet(XorOp, 0, f, S)

(* P and Q of the data disks 0..z0 in lane k: P = sum D_z, Q = sum g^z D_z. *)
RefP(D, z0, k) == XorOver([z \in 0..z0 |-> Lane(D[z], k)], 0..z0)
RefQ(D, z0, k) == XorOver([z \in 0..z0 |-> GfMulRef(GfPowRef(2, z), Lane(D[z], k))], 0..z0)

(* Row y of the Vandermonde code over data disks 0..hd-1: sum y^(d+1) D_d. *)
RefRow(D, hd, y, k) ==
    XorOver([d \in 0..hd-1 |-> GfMulRef(GfPowRef(y, d + 1), Lane(D[d], k))], 0..hd-1)

SyndromeTypeOK ==
    /\ disks \in DiskCounts
    /\ dptrs \in [0..disks-1 -> 0..WordMod-1]
    /\ phase \in {"filled", "vanilla", "multi_rs"}

(* After raid6_vanilla_gen_syndrome every byte lane of the P word is the  *)
(* XOR of that lane of the data disks, and of the Q word the sum of        *)
(* g^z times it: the word-wide SHLBYTE/MASK steps, including MASK's wrap   *)
(* in the top lane, compute the byte-wise GF(2^8) syndrome without one     *)
(* lane leaking into another.                                              *)
VanillaMatchesReference ==
    phase = "vanilla" =>
        LET z0 == disks - 3 IN
        \A k \in 0..NSIZE-1 :
            /\ Lane(dptrs[z0 + 1], k) = RefP(dptrs, z0, k)
            /\ Lane(dptrs[z0 + 2], k) = RefQ(dptrs, z0, k)

(* After multi_rs_soft_gen_syndrome row y (disk high_disk + y - 1) holds,  *)
(* in every byte, the sum over the data disks d of y^(d+1) times their     *)
(* byte: mult_gf is multiplication in GF(2^8).                            *)
MultiRsMatchesReference ==
    phase = "multi_rs" =>
        LET hd == disks - 4 IN
        \A j \in hd..disks-1, k \in 0..NSIZE-1 :
            Lane(dptrs[j], k) = RefRow(dptrs, hd, j - hd + 1, k)

=============================================================================
