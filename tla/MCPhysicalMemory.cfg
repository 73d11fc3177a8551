CONSTANTS
  p1 = p1
  p2 = p2
  Cpus <- MCTwoCpus
  WordBits <- MCWordBits
  NumBlocks <- MCNumBlocks
  LowFirst = 1
  HighFirst = 2
  MemMap <- MCMemMap
  Pinned <- MCPinned
  Reserve <- MCReserve
  FreeFloor = 8
  MaxHeld <- MCMaxHeldOne
SPECIFICATION Spec
INVARIANT OwnedBlocksExclusive
\* A full zone fails assert(bit != -1): the kernel stops there.
CHECK_DEADLOCK FALSE
