SPECIFICATION Spec
CHECK_DEADLOCK FALSE
CONSTANTS
  notes = notes
  totals = totals
  parents = parents
  children = children
  f1 = f1
  f2 = f2
  d1 = d1
  c1 = c1
  c2 = c2
  PerFile = {notes}
  PerTable = {totals}
  Files = {f1, f2}
  Dirs = {d1}
  Under <- BothInDirectory
  Matches <- TwoTables
  Contents = {c1, c2}
  Absent = Absent
  Consistent <- NoForeignKey
  Overflows = TRUE
  Drains = FALSE
  MaxChanges = 3
INVARIANT InLine
