SPECIFICATION FairSpec
CONSTANTS
  MaxCmds = 3
  OutCap = 2
INVARIANTS
  RepliesIntact
  ExecutedInOrder
  InterestExact
PROPERTIES
  CommandsAnswered
  HangupCloses
CHECK_DEADLOCK FALSE
