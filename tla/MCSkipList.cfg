SPECIFICATION Spec
CONSTANTS
  Member = {1, 2, 3}
  Score = {1, 2}
  Bound <- MCBound
  MaxLevel = 3
  Cell = {1, 2, 3}
  Nil = Nil
  None = None
INVARIANT
  ListSound
PROPERTY
  ImplementsSortedSet
