CONSTANTS
  s1 = s1
  s2 = s2
  s3 = s3
  ctl = ctl
  blk = blk
  Submitters <- MCSubmitters
  NumEd <- MCNumEd
  MaxTds <- MCMaxTds
  Control = ctl
  Bulk = blk
SPECIFICATION Spec
SYMMETRY MCSymmetry
INVARIANT TypeOK
INVARIANT EdPoolExclusive
INVARIANT EdListAcyclic
\* Submitters whose requests the engine loses sleep for ever; when all of
\* them do, nothing is enabled.  PendingEdReachable and CompletionDelivered
\* are the properties about that, so a stop is not reported here.
CHECK_DEADLOCK FALSE
