\* A per-file table over one file, and a per-table hook over it and another.
CONSTANTS
  notes = notes
  totals = totals
  f1 = f1
  f2 = f2
  c1 = c1
  c2 = c2
  d1 = d1
  d2 = d2
  h1 = h1
  h2 = h2
  Absent = Absent
  None = None
  Matches <- SharedFile
  PerFile = {notes}
  PerTable = {totals}
  Files = {f1, f2}
  Inodes = {1}
  Movable = {}
  Contents = {c1}
  Configs <- OneConfig
  Lag = 0
  MaxClock = 1
SPECIFICATION Spec
INVARIANT RowsAreFresh
PROPERTY QuietRunWritesNothing
\* The clock stops at its bound, and nothing need run.
CHECK_DEADLOCK FALSE
