CONSTANTS
  r1 = r1
  r2 = r2
  Requests <- MCRequests
  NumHeapEd <- MCNumHeapEd
  Intervals <- MCIntervals
  MaxSends <- MCMaxSends
SPECIFICATION Spec
SYMMETRY MCSymmetry
INVARIANT TypeOK
PROPERTY DestroyUnlinksOnlyItsEd
\* Once MaxSends transfers have been set up and torn down the driver has
\* nothing left to do: the only terminal states are those of the bound.
CHECK_DEADLOCK FALSE
