CONSTANTS
  s1 = s1
  s2 = s2
  s3 = s3
  ctl = ctl
  blk = blk
  Submitters <- MCSubmitters
  NumEd <- MCNumEd
  MaxTds <- MCMaxTds
  Control = ctl
  Bulk = blk
SPECIFICATION Spec
INVARIANT PendingEdReachable
CHECK_DEADLOCK FALSE
