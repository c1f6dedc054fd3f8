SPECIFICATION PlatformSpec
CONSTANTS
  None = None
  c1 = c1
  c2 = c2
  c3 = c3
  r1 = r1
  r2 = r2
  r3 = r3
  k1 = k1
  k2 = k2
  k3 = k3
  o1 = o1
  o2 = o2
  o3 = o3
  m1 = m1
  m2 = m2
  p1 = p1
  p2 = p2
  Calls = {c1, c2}
  Events <- MCEvents
  Containers <- MCContainers
  Characters <- MCCharacters
  Weapons = {"axe"}
  Bank = 100
  MaxExact = 1000
  MaxStacks = 2
  MaxStackCount = 2
  SignIns = {r1, r2, r3}
  Placements <- MCPlacements
  CredentialOf <- MCCredentialOf
  Stored <- MCStored
  MaxAccounts = 2
  MaxAdrift = 1
  MaxPolls = 1
  Members = {k1, k2}
  Actor = k1
  Strangers = {k3}
  Addresses = {1, 2, 3}
  Rank <- MCRank
  MaxPages = 3
  Budget = 3
  MaxVersion = 4
  Creators = {c1, c2, c3}
  Want <- MCWant
  Founds <- MCFounds
  Owners = {o1, o2, o3}
  Who <- MCWho
  Receipts <- MCReceipts
  MaxTries = 2
  Players = {p1, p2}
  Sessions = {c1, c2, c3}
  MaxListLimit = 2
  DefaultListLimit = 1
  Builds = {p1, p2}
  Documents = {}
  MaxWrites = 3
  Slots = {1, 2, 3, 4}
  TrustSessions = {}
  Handlers = {"rpc", "claim"}
  Claims = {"claim"}
  Settings = {}
  Workers = {"expiry", "orphans"}
SYMMETRY Alike
INVARIANTS SignInsInTurn
CHECK_DEADLOCK FALSE
