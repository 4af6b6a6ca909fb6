SPECIFICATION FairSpec
CONSTANTS
  PoolThread = {t1}
  Child = {c1, c2}
  Actors = {{t1}, {c1, c2}}
  Inode = {i1, i2, i3, i4, i5}
  None = None
  Hole = Hole
  MaxStamp = 2
  DiskMayFill = TRUE
INVARIANTS
  PathIsLastSave
  PointInTime
  OneChildAtATime
PROPERTY
  SavingEnds
