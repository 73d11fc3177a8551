CONSTANTS
  n1 = n1
  n2 = n2
  n3 = n3
  c1 = c1
  c2 = c2
  null = null
  NoNode = null
  Nodes <- MCNodes
  Keys <- MCKeys
  Callers <- MCCallers
  ReinsertUnlinked = FALSE
  Sequential = TRUE
SPECIFICATION Spec
SYMMETRY MCSymmetry
INVARIANT TypeOK
PROPERTY ImplementsAbstractList
\* ListDestroy ends the list's life: the states after it have no successor.
CHECK_DEADLOCK FALSE
