SPECIFICATION DispatcherSpec
CONSTANTS
  Node = {1, 2}
  Rel = {r1}
  NoRel = NoRel
  MaxEdges = 2
  MaxRemoved = 1
  IndexKey = {k1}
  Value = {1, 2}
  NoValue = NoValue
  MaxIndexedEdges = 1
INVARIANTS
  Mirror
  CountExact
  CsrFresh
PROPERTIES
  RemovedNodeGone
  RemovedNodeUnlisted
