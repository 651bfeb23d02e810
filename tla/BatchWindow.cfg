SPECIFICATION FairSpec
CONSTANTS
  Request = {r1, r2}
INVARIANTS
  TypeOK
  NoRequestLost
  SendNeverBlocks
  NoInstanceDropped
PROPERTIES
  ServiceSpec
  BatchAnswered
  ArmedWindowFlushed
CHECK_DEADLOCK FALSE
