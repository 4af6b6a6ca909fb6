SPECIFICATION Spec
CONSTANTS
  PoolThread = {t1, t2}
  Child = {}
  Actors = {{t1, t2}}
  Inode = {i1, i2, i3, i4}
  None = None
  Hole = Hole
  MaxStamp = 1
  DiskMayFill = FALSE
INVARIANT
  PathComplete
