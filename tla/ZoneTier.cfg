SPECIFICATION TierSpec
CONSTANTS
  CosScale = 100
  WorldExtent = 20
  MaxIntent = 100
  Handlers = {h1, h2}
  Locators = {l1, l2}
  Enrolled = l1
  Observers = {o1}
  MaxEdits = 3
  MaxPending = 2
  Zones <- MCZones
  TickHz = 4
  Passes = 8
  Slop = 1
  MaxHealth = 9
  MaxHits = 2
  ListLimit = 8
  MaxSteps = 5
  Conns = {c1, c2}
  Intents <- MCIntents
  Cap = 3500
  HoldTicks = 2
  FrameBudget = 1
  MaxFrames = 2
  MaxTick = 3
  Word = 8
  Words = {0, 1, 2, 3, 4, 6, 7}
  Messages <- MCMessages
  MaxAlterations = 2
  FrameEntities = 2
  FrameExtent = 2
  FrameScale = 3
  FrameDirection = 2
  None = None
SYMMETRY Alike
INVARIANTS CombatAccounted InputAccounted CanonicalFrames
PROPERTIES MotionKeepsItsOrder FramesEncode AdmittedUnderOneBinding OneLifetime SidecarToldOnce
CHECK_DEADLOCK FALSE
