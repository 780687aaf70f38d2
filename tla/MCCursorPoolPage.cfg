\* Does a page start at the document asked for?
SPECIFICATION Spec
CONSTANTS
  r1 = r1  r2 = r2  r3 = r3
  None = None
  Request = {r1, r2}
  Skips = {1, 4, 9}
  SliceWidth = 4
  SliceDelta = 1
  SliceHeights <- TwoOne
  RndMinWidth = 3
  RndMaxCursors = 2
  PoolSize = 3
  Sizes = {5, 8}
  MaxIssued = 3
  MaxTasks = 1
INVARIANT PageInPlace
CHECK_DEADLOCK FALSE
