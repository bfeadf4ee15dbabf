\* One per-table table over two files, whose hook may fail.
CONSTANTS
  notes = notes
  totals = totals
  f1 = f1
  f2 = f2
  c1 = c1
  c2 = c2
  Absent = Absent
  PerFile = {}
  PerTable = {totals}
  Fallible = {totals}
  Files = {f1, f2}
  Contents = {c1}
  Matches <- AllMatches
  SETTLE_NS = 0
  Lag = 0
  BuildTime = 0
  MaxClock = 1
SPECIFICATION Spec
SYMMETRY Interchangeable
INVARIANT TableIsWhole
\* The clock stops at its bound, and the files may stop changing.
CHECK_DEADLOCK FALSE
