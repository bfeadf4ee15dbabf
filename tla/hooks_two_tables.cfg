\* Two tables, three runs and two CPUs.
CONSTANTS
  Tables = 2
  Runs <- MCRuns
  Limit = 2
  RowsBound = 1
  PipeBound = 1
  Scripts <- MCScripts
SPECIFICATION FairSpec
INVARIANT RowsAreWhole
INVARIANT EarliestFailure
INVARIANT OnePerCpu
PROPERTY AllEnds
CHECK_DEADLOCK FALSE
