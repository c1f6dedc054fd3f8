SPECIFICATION FairSpec
CONSTANTS
  Ids = {a}
  States = {s, t}
  Casts = {x, y}
  SendQueue = 2
  MaxTick = 5
CHECK_DEADLOCK FALSE
INVARIANTS QueueReachesTracker AcksAccepted
PROPERTIES ReplicaConverges
