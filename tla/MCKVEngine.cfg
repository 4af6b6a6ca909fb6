SPECIFICATION FairSpec
CONSTANTS
  Key = {k1, k2}
  Val = {v1}
  NoVal = NoVal
  NoDeadline = NoDeadline
  Ttl <- MCTtl
  Second = 2
  StartNow = 2
  MaxNow = 5
INVARIANT
  NoOrphanDeadline
PROPERTIES
  NeverServedLate
  NoEarlyDeath
  RestartFaithful
  LapsedKeysGo
