SPECIFICATION Spec
CONSTANTS
  Node = {1, 2, 3, 4}
  Universe <- MCUniverse
  Query <- MCQuery
  AnyRel = ""
  None = None
INVARIANTS
  BfsExact
  DijkstraExact
  
PROPERTY
  QueriesEnd
CHECK_DEADLOCK FALSE
