CONSTANTS
  t1 = t1
  t2 = t2
  t3 = t3
  ctl = ctl
  blk = blk
  Submitters <- MCSubmitters
  Control = ctl
  Bulk = blk
  MinAllocated <- MCMinAllocated
  MaxIoSize <- MCMaxIoSize
  PacketSizes <- MCPacketSizes
  PageSize <- MCPageSize
  MaxTds <- MCMaxTds
SPECIFICATION Spec
SYMMETRY MCSymmetry
INVARIANT TypeOK
INVARIANT TdExclusive
INVARIANT NoLeakedTd
INVARIANT BuffersInOnePage
\* kernel_panic on an exhausted pool halts the system, and OhciEndpointDestroy
\* ends the endpoint's life; both are final states.
CHECK_DEADLOCK FALSE
