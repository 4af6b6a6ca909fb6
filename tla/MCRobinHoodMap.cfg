SPECIFICATION FairSpec
CONSTANTS
  Key = {k1, k2, k3}
  Val = {v1, v2}
  NoKey = NoKey
  NoVal = NoVal
  HashCode <- MCHashCode
  InitialCapacity = 2
INVARIANTS
  ProbeOrder
  KeysUnique
  SizeExact
PROPERTIES
  ImplementsMap
  CallsReturn
