SPECIFICATION Spec
CONSTANTS
  None = None
  c1 = c1
  c2 = c2
  w1 = w1
  r1 = r1
  z1 = z1
  s1 = s1
  s2 = s2
PROPERTIES UnclaimedAttemptEnds CallsReturn OrphansReclaimed
INVARIANT OneObjectPerAttempt
CHECK_DEADLOCK FALSE
