SPECIFICATION FairSpec
CONSTANTS
  Reader = {c1, c2}
  Skipper = {c1}
  TTL = 1
  Delay = 1
  MaxTime = 3
  MaxStates = 2
INVARIANTS
  TypeOK
  SkipNotBehind
PROPERTIES
  ReadsAreRecent
  LiveEntryKept
  GetAnswered
CHECK_DEADLOCK FALSE
