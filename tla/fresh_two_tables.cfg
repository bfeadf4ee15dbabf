\* A per-file table and a per-table one over one file, sharing its stat.
CONSTANTS
  notes = notes
  totals = totals
  f1 = f1
  f2 = f2
  c1 = c1
  c2 = c2
  Absent = Absent
  PerFile = {notes}
  PerTable = {totals}
  Fallible = {}
  Files = {f1}
  Contents = {c1, c2}
  Matches <- AllMatches
  SETTLE_NS = 1
  Lag = 1
  BuildTime = 2
  MaxClock = 3
SPECIFICATION Spec
SYMMETRY Interchangeable
INVARIANT IInv
INVARIANT FreshRead
INVARIANT SkipIsSound
INVARIANT RestedIsSettled
INVARIANT BatchComplete
\* The clock stops at its bound, and the files may stop changing.
CHECK_DEADLOCK FALSE
