SPECIFICATION Spec
CONSTANTS
  Key = {k1, k2, k3, k4, k5, k6}
  Ttl = {0, 1, 2}
  NoDeadline = NoDeadline
  NoPos = NoPos
  MaxNow = 1
SYMMETRY Symmetry
INVARIANTS
  IndexInverse
  HeapOrder
PROPERTY
  ImplementsDeadlines
