--------------------------- MODULE PhysicalMemory ---------------------------
(***************************************************************************)
(* The x86 physical block allocator of                                     *)
(* src/kernel/Arch/x86/Components/PhysicalMemory.c: the MemoryBitmap as    *)
(* MmPhyiscalInit builds it from the boot memory map, and the cores that   *)
(* call MmPhysicalAllocateBlock, MmPhysicalAllocateBlockDma and            *)
(* MmPhysicalFreeBlock.  An allocation finds its free bit under MemoryLock *)
(* and sets it after releasing the lock, so it is two steps of its core.   *)
(* Blocks are numbered as the bitmap numbers them (address / PAGE_SIZE).   *)
(* MemoryBlocksUsed is statistics nothing reads back and is left out.      *)
(***************************************************************************)
EXTENDS Naturals, Sequences, FiniteSets, FiniteSetsExt

CONSTANTS
  Cpus,       \* the cores calling the allocator
  WordBits,   \* bits of an Addr_t bitmap word (32)
  NumBlocks,  \* MemoryBlocks = MemorySize / PAGE_SIZE
  LowFirst,   \* first word MmGetFreeMapBitLow scans (1)
  HighFirst,  \* first word MmGetFreeMapBitHigh scans, end of the low scan (8)
  MemMap,     \* the multiboot memory map: records [base, size, type] in blocks
  Pinned,     \* blocks MmPhyiscalInit sets with MmMemoryMapSetBit
  Reserve,    \* the <<base, blocks>> regions it passes to MmAllocateRegion
  FreeFloor,  \* 0x200000 / PAGE_SIZE: lower blocks are never freed
  MaxHeld     \* bound on the blocks one caller holds at a time

ASSUME /\ WordBits \in Nat \ {0} /\ NumBlocks \in Nat
       /\ LowFirst <= HighFirst /\ FreeFloor \in Nat /\ MaxHeld \in Nat

NoBit == -1   \* the -1 the scans return when they find nothing

VARIABLES
  bitmap,   \* the blocks whose MemoryBitmap bit is set
  pc,       \* each core: "idle", or "set" between unlock and MmMemoryMapSetBit
  bit,      \* the bit each core's scan returned
  held,     \* the blocks each core's callers were handed and have not freed
  halted    \* an assert failed: the kernel stopped

vars == <<bitmap, pc, bit, held, halted>>

-----------------------------------------------------------------------------
(* MmPhyiscalInit                                                         *)

\* MemoryBitmapSize: (MemoryBlocks + 1) / 8 bytes, one more for a remainder.
BitmapBytes ==
  (NumBlocks + 1) \div 8 + (IF (NumBlocks + 1) % 8 # 0 THEN 1 ELSE 0)

\* The bits memset(MemoryBitmap, 0xF, MemoryBitmapSize) sets: the low four
\* bits of every byte.
Memset == {b \in 0 .. 8 * BitmapBytes - 1 : b % 8 < 4}

(***************************************************************************)
(* The memory-map entries the init loop records: MmSysMappingsContain      *)
(* skips an entry whose base and type match a recorded mapping of nonzero  *)
(* length; SysMappings[0] is the first page, type 2.                       *)
(***************************************************************************)
RECURSIVE Recorded(_, _)
Recorded(i, seen) ==
  IF i > Len(MemMap) THEN {}
  ELSE LET r == MemMap[i]
       IN IF <<r.base, r.type>> \in seen THEN Recorded(i + 1, seen)
          ELSE {i} \cup Recorded(i + 1, IF r.size = 0 THEN seen
                                        ELSE seen \cup {<<r.base, r.type>>})

\* MmFreeRegion(Base, Size): the blocks Base / PAGE_SIZE on, Size of them.
FreeRegion(r) == r.base .. r.base + r.size - 1

\* MmAllocateRegion(Base, Size): its loop runs while blocks + 1 > 0, so it
\* sets one block past the region.
AllocateRegion(r) == r[1] .. r[1] + r[2]

\* The available (type 1) regions the init loop frees.
FreedAtInit ==
  UNION {FreeRegion(MemMap[i]) : i \in {j \in Recorded(1, {<<0, 2>>}) :
                                          MemMap[j].type = 1}}

Init ==
  /\ bitmap = ((Memset \ FreedAtInit) \cup Pinned)
                \cup UNION {AllocateRegion(Reserve[i]) : i \in 1 .. Len(Reserve)}
  /\ pc = [c \in Cpus |-> "idle"]
  /\ bit = [c \in Cpus |-> NoBit]
  /\ held = [c \in Cpus |-> {}]
  /\ halted = FALSE

-----------------------------------------------------------------------------
(* Bit helpers and the scans                                              *)

SetBit(S, b) == S \cup {b}

UnsetBit(S, b) == S \ {b}
TestBit(b) == b \in bitmap

\* The words MmGetFreeMapBitLow scans: 1 up to 7.
LowWords == LowFirst .. HighFirst - 1

\* The scans' result: the first word not all ones, its first clear bit.
FirstClear(words) ==
  LET free == {w * WordBits + j : w \in words, j \in 0 .. WordBits - 1}
                \ bitmap
  IN IF free = {} THEN NoBit ELSE Min(free)

(***************************************************************************)
(* MmGetFreeMapBitHigh scans words from 8 while i < MemoryBlocks, a bound  *)
(* in blocks used as a bound in words, so once the bitmap's words are all  *)
(* ones it reads on past the bitmap.  What it finds there is whatever     *)
(* memory follows: the first clear bit of any of those words, or -1 when  *)
(* they all read as ones.                                                  *)
(***************************************************************************)
BitmapWords == (8 * BitmapBytes) \div WordBits
HighWords   == HighFirst .. BitmapWords - 1
PastWords   == BitmapWords .. NumBlocks - 1

HighScan ==
  IF FirstClear(HighWords) # NoBit THEN {FirstClear(HighWords)}
  ELSE {w * WordBits + j : w \in PastWords, j \in 0 .. WordBits - 1} \cup {NoBit}

-----------------------------------------------------------------------------
(* The allocator's entry points                                           *)

(***************************************************************************)
(* MmPhysicalAllocateBlock (dma FALSE) or MmPhysicalAllocateBlockDma (dma  *)
(* TRUE), first part: the scan under MemoryLock.  assert(bit != -1) stops  *)
(* the kernel when the zone is full.                                       *)
(***************************************************************************)
AllocateScan(c, dma) ==
  /\ pc[c] = "idle"
  /\ Cardinality(held[c]) < MaxHeld
  /\ \E b \in IF dma THEN {FirstClear(LowWords)} ELSE HighScan :
        IF b = NoBit
        THEN /\ halted' = TRUE
             /\ UNCHANGED <<bitmap, pc, bit, held>>
        ELSE /\ bit' = [bit EXCEPT ![c] = b]
             /\ pc' = [pc EXCEPT ![c] = "set"]
             /\ UNCHANGED <<bitmap, held, halted>>

\* Second part, after the lock is released: MmMemoryMapSetBit(bit) and the
\* block's address returned to the caller.
AllocateSet(c) ==
  /\ pc[c] = "set"
  /\ bitmap' = SetBit(bitmap, bit[c])
  /\ held' = [held EXCEPT ![c] = @ \cup {bit[c]}]
  /\ pc' = [pc EXCEPT ![c] = "idle"]
  /\ bit' = [bit EXCEPT ![c] = NoBit]
  /\ UNCHANGED halted

(***************************************************************************)
(* MmPhysicalFreeBlock of a block the caller holds.  Addresses above      *)
(* MemorySize or below 0x200000 return at once; otherwise, under the      *)
(* lock, assert(MmMemoryMapTestBit(bit) != 0) and MmMemoryMapUnsetBit.    *)
(***************************************************************************)
FreeBlock(c, b) ==
  /\ pc[c] = "idle"
  /\ b \in held[c]
  /\ held' = [held EXCEPT ![c] = @ \ {b}]
  /\ IF b > NumBlocks \/ b < FreeFloor
     THEN UNCHANGED <<bitmap, halted>>
     ELSE IF TestBit(b)
          THEN /\ bitmap' = UnsetBit(bitmap, b)
               /\ UNCHANGED halted
          ELSE /\ halted' = TRUE
               /\ UNCHANGED bitmap
  /\ UNCHANGED <<pc, bit>>

Next ==
  /\ ~halted
  /\ \E c \in Cpus :
       \/ \E dma \in BOOLEAN : AllocateScan(c, dma)
       \/ AllocateSet(c)
       \/ \E b \in held[c] : FreeBlock(c, b)

Spec == Init /\ [][Next]_vars

-----------------------------------------------------------------------------
(* Properties                                                             *)

\* The bits the scans can reach, the bitmap's and the memory after it.
MapBits == 0 .. NumBlocks * WordBits - 1

TypeOK ==
  /\ bitmap \subseteq MapBits
  /\ pc \in [Cpus -> {"idle", "set"}]
  /\ bit \in [Cpus -> MapBits \cup {NoBit}]
  /\ held \in [Cpus -> SUBSET MapBits]
  /\ halted \in BOOLEAN

(***************************************************************************)
(* A block an allocation handed out belongs to its caller alone: its bit  *)
(* stays set while the caller holds it, and no other caller holds it.     *)
(* The scan and the MmMemoryMapSetBit of an allocation are separated by   *)
(* the unlock; another core's scan in between finds the same clear bit.   *)
(***************************************************************************)
OwnedBlocksExclusive ==
  \A c \in Cpus :
    /\ held[c] \subseteq bitmap
    /\ \A d \in Cpus \ {c} : held[c] \cap held[d] = {}

\* The RAM the boot memory map reports: its available (type 1) regions.
Ram == UNION {FreeRegion(MemMap[i]) : i \in {j \in 1 .. Len(MemMap) :
                                               MemMap[j].type = 1}}
         \cap 0 .. NumBlocks - 1

(***************************************************************************)
(* Every block the allocator hands out is RAM the memory map reports       *)
(* available: "Set all memory in use" must leave holes, reserved regions  *)
(* and the bits past the last block set.                                   *)
(***************************************************************************)
AllocatedIsRam == \A c \in Cpus : held[c] \subseteq Ram

====
