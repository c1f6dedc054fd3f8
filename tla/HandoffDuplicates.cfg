SPECIFICATION Spec
CONSTANTS
  None = None
  c1 = c1
  c2 = c2
  Callers = {c1, c2}
  Attempts = {c1, c2}
  Servers = {s1, s2}
  Sweepers = {}
  Sessions = {}
  Reapers = {}
  MaxFaults = 0
  Anomalies = {"copies"}
  AttemptOf <- MCFresh
CHECK_DEADLOCK FALSE
INVARIANTS HandedObjectKept
