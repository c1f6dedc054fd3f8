SPECIFICATION Spec
CONSTANTS
  Ids = {a}
  States = {s, t}
  Casts = {x, y}
  SendQueue = 2
  MaxTick = 5
CHECK_DEADLOCK FALSE
INVARIANTS NeverRefused
