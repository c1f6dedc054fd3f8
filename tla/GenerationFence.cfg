SPECIFICATION Spec
CONSTANTS
  Owner = g
  Recoverers = {r1, r2}
  Writers = {g, r1, r2}
  Servers = {s1, s2}
  MaxGrants = 2
  MaxTouches = 1
  MaxRestores = 1
SYMMETRY Alike
INVARIANTS ReportedIsFinal OneRecovery
PROPERTIES ImplementsAuthority
CHECK_DEADLOCK FALSE
