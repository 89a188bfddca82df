SPECIFICATION FairConsoleSpec
CONSTANTS
  Repos = {r1, r2}
  Callers = {p, o}
  Pollers = {p}
  Seats = {s1}
  Prefix <- PrefixOf
  Here = None
  MaxWrites = 1
  MaxFails = 2
  MaxAsks = 1
  MayStop = TRUE
  None = None
  ReadFailed = ReadFailed
INVARIANTS OneFlight
PROPERTIES Converges
CHECK_DEADLOCK FALSE
