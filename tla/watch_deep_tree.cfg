CONSTANTS
  r = r
  a = a
  b = b
  c = c
  Dirs = {r, a, b, c}
  Root = r
  Parent <- MCParent
  QueueLimit = 2
  MaxChanges = 4
SPECIFICATION FairSpec
INVARIANT NoneUnwatched
INVARIANT NothingUnseen
PROPERTY TakenIn
