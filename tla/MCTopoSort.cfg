SPECIFICATION Spec
CONSTANTS
  Node = {1, 2, 3, 4}
  Universe <- MCUniverse
  Query <- TopoQuery
  AnyRel = ""
  None = None
INVARIANT
  TopoSortEmptyOnCycle
CHECK_DEADLOCK FALSE
