SPECIFICATION OverlapSpec
CONSTANTS
  None = None
  c1 = c1
  c2 = c2
  c3 = c3
  w1 = w1
  r1 = r1
  s1 = s1
  s2 = s2
  Callers = {c1, c2}
  Attempts = {c1, c2}
  Servers = {s1, s2}
  Sweepers = {w1}
  Reapers = {}
  Sessions = {}
  MaxFaults = 1
  Anomalies = {"copies"}
  AttemptOf <- MCFresh
INVARIANT OneAnswerPerAttempt
PROPERTIES LeasedObjectKept
SYMMETRY Alike
CHECK_DEADLOCK FALSE
