\* Two files of a table, or a per-table hook, with two unique columns.
CONSTANTS
  k = k
  u = u
  Null = Null
  Files = {f1, f2}
  Columns = {k, u}
  Values <- MCValues
  Keys <- MCKeys
  Outputs <- MCOutputs
  MaxRowid = 6
SPECIFICATION StoreSpec
INVARIANT Owned
INVARIANT AsMade
INVARIANT LandsIfSound
PROPERTY EditsInPlace
