SPECIFICATION FairSpec
CONSTANTS
  Beads <- MCBeads
  Filters <- MCFilters
  Snapshots <- MCSnapshots
  Roles <- MCRoles
  MaxTokens = 3
INVARIANTS SendsWhatItShows
PROPERTIES SelectionFollows OutcomeShown
