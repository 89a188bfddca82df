SPECIFICATION Spec
CONSTANTS
  None = None
  a = a  b = b  c = c
  epic = epic  one = one  two = two  fix = fix  refit = refit  other = other
  Repo = {a, b, c}
  Broken = {c}
  Bead = {one, two, other}
  Epic = {}
  DriftFix = {}
  DecompFix = {}
  Initially = {one, two, other}
  Asked = {}
  Ranges = {}
  Slot = {s1, s2}
  MaxRetries = 1
  MaxTrouble = 1
  MinChildren = 1
  MaxChildren = 3
  FleetConcurrency = 1
  RepoOrder <- MCRepoOrder
  BeadOrder <- MCWorkOrder
  RepoOf <- MCRepoOf
  Parent <- MCNoParent
  Priority <- MCPriority
  SeatsOf <- MCSeatsOf
  Plans <- MCPlans
INVARIANT FairQueue
  
