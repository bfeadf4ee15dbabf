\* A tree of six directories walked by up to three threads.
CONSTANTS
  root = root
  left1 = left1
  right1 = right1
  deep1 = deep1
  deep2 = deep2
  last1 = last1
  f1 = f1
  f2 = f2
  f3 = f3
  NoDir = NoDir
  Dirs = {root, left1, right1, deep1, deep2, last1}
  Leaves = {f1, f2, f3}
  Root = root
  Steps <- MCSteps
  Cores = 3
  PARALLEL_DIRS = 3
SPECIFICATION FairSpec
INVARIANT TypeOK
INVARIANT TakenOnce
INVARIANT NeverStranded
INVARIANT VisitsInOrder
INVARIANT SleepOverOne
PROPERTY WalkReturns
