SPECIFICATION ServersSpec
CONSTANTS
  None = None
  k1 = k1
  k2 = k2
  o1 = o1
  Conns = {k1, k2}
  Observers = {o1}
  ObserverOf <- MCDuplicate
  Claimed = TRUE
CHECK_DEADLOCK FALSE
INVARIANTS AttachmentsAgree DrainedIsQuiet
PROPERTIES LiveConnectionKept HubLetsGo ShutdownRetires
