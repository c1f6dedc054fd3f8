SPECIFICATION Spec
CONSTANTS
  None = None
  c1 = c1
  c2 = c2
  Callers = {c1, c2}
  Attempts = {c1, c2}
  Servers = {s1, s2}
  Sweepers = {w1, w2}
  Sessions = {z1}
  Reapers = {}
  MaxFaults = 1
  Anomalies = {}
  AttemptOf <- MCFresh
CHECK_DEADLOCK FALSE
INVARIANTS TypeOK DispatchBarrier AdmittedSessionKept
PROPERTIES ImplementsLifecycle QuarantineKept RetainedUntilFault
SYMMETRY Sym
