SPECIFICATION DispatcherSpec
CONSTANTS
  Node = {1}
  Rel = {r1}
  NoRel = NoRel
  MaxEdges = 1
  MaxRemoved = 1
  IndexKey = {k1}
  Value = {1}
  NoValue = NoValue
  MaxIndexedEdges = 0
INVARIANT
  InfoCountsEdges
