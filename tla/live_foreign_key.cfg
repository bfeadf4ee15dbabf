SPECIFICATION FairSpec
CHECK_DEADLOCK FALSE
CONSTANTS
  notes = notes
  totals = totals
  parents = parents
  children = children
  f1 = f1
  f2 = f2
  d1 = d1
  c1 = c1
  c2 = c2
  PerFile = {parents, children}
  PerTable = {}
  Files = {f1, f2}
  Dirs = {d1}
  Under <- InTheDirectory
  Matches <- OneEach
  Contents = {c1}
  Absent = Absent
  Consistent <- HasParent
  Overflows = FALSE
  Drains = TRUE
  MaxChanges = 4
INVARIANT InLine
INVARIANT HeldWhileOrphaned
PROPERTY CatchesUp
