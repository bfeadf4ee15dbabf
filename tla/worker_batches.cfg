SPECIFICATION FairSpec
CONSTANTS
  u = u
  v = v
  w = w
  Args = {u, v, w}
  Null = Null
  Nested = Nested
  Rejected = {Null, v}
  batch = 2
  fits = 1
  Statements <- Mixed
INVARIANT TypeOK
INVARIANT AnswersAreTrue
INVARIANT FailsForCause
INVARIANT ServedOnce
PROPERTY QueryEnds
