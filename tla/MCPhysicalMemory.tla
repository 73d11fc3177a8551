-------------------------- MODULE MCPhysicalMemory --------------------------
EXTENDS PhysicalMemory, TLC
CONSTANTS p1, p2

(***************************************************************************)
(* A machine of 16 blocks with 4-bit words, laid out as a PC is: RAM      *)
(* 0-5 below a hole at 6-7 (the 0xA0000 video and ROM area), RAM 8-13 and *)
(* a reserved region 14-15 at the top, as firmware tables are.  The scans *)
(* keep the code's shape: the DMA scan covers word 1 (blocks 4-7), the    *)
(* high scan word 2 on; blocks 0 and 4 are pinned as the code pins page 0 *)
(* and the trampoline pages, and 8-9 is the kernel image MmAllocateRegion *)
(* marks (one block plus its off-by-one).  Blocks below 8 are not freed.  *)
(***************************************************************************)
MCWordBits  == 4
MCNumBlocks == 16
MCMemMap == << [base |-> 0, size |-> 6, type |-> 1],
               [base |-> 8, size |-> 6, type |-> 1],
               [base |-> 14, size |-> 2, type |-> 2] >>
MCPinned  == {0, 4}
MCReserve == << <<8, 1>> >>

\* Two cores, each caller holding one block at a time: enough for two
\* allocations to overlap between one's scan and its MmMemoryMapSetBit.
MCTwoCpus    == {p1, p2}
MCMaxHeldOne == 1
====
