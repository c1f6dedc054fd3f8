SPECIFICATION Spec
CONSTANTS
  None = None
  c1 = c1
  c2 = c2
  Callers = {c1, c2}
  Attempts = {c1, c2}
  Servers = {s1}
  Sweepers = {}
  Sessions = {}
  Reapers = {}
  MaxFaults = 1
  Anomalies = {}
  AttemptOf <- MCFresh
CHECK_DEADLOCK FALSE
PROPERTIES HandedAllocationRetained
