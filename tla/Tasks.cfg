SPECIFICATION Spec
CONSTANTS
  None = None
  a = a  b = b  c = c
  epic = epic  one = one  two = two  fix = fix  refit = refit  other = other
  Repo = {a}
  Broken = {}
  Bead = {epic, one, two, fix, refit}
  Epic = {epic}
  DriftFix = {fix}
  DecompFix = {refit}
  Initially = {epic}
  Asked = {fix}
  Ranges = {}
  Slot = {s1, s2}
  MaxRetries = 1
  MaxTrouble = 1
  MinChildren = 2
  MaxChildren = 3
  FleetConcurrency = 1
  RepoOrder <- MCOneRepo
  BeadOrder <- MCBeadOrder
  RepoOf <- MCRepoOf
  Parent <- MCParent
  Priority <- MCPriority
  SeatsOf <- MCSeatsOf
  Plans <- MCPlans
INVARIANTS PassedPlanRuns 
