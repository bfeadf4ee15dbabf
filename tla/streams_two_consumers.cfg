\* A file, a keyed table's file and a per-table hook's table; two consumers.
CONSTANTS
  notes = notes
  people = people
  totals = totals
  Units = {notes, people, totals}
  Tables = {totals}
  Contents <- MCContents
  Key <- MCKey
  Way <- MCWay
  Starts <- MCStarts
  Consumers = {1, 2}
  MaxChanges = 2
CHECK_DEADLOCK FALSE
SPECIFICATION FairSpec
INVARIANT TypeOK
INVARIANT EveryStreamIsTold
PROPERTY NeverOverfull
PROPERTY Broadcasts
PROPERTY StreamsCatchUp
