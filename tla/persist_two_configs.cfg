\* A file that moves between inodes, under a configuration that changes between runs.
CONSTANTS
  notes = notes
  totals = totals
  f1 = f1
  f2 = f2
  c1 = c1
  c2 = c2
  d1 = d1
  d2 = d2
  h1 = h1
  h2 = h2
  Absent = Absent
  None = None
  Matches <- AllMatches
  PerFile = {notes}
  PerTable = {}
  Files = {f1}
  Inodes = {1, 2}
  Movable = {f1}
  Contents = {c1, c2}
  Configs <- TwoConfigs
  Lag = 0
  MaxClock = 2
SPECIFICATION Spec
SYMMETRY Interchangeable
INVARIANT RowsAreFresh
\* The clock stops at its bound, and nothing need run.
CHECK_DEADLOCK FALSE
