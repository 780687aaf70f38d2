\* Two requests, slices of two heights, a pool smaller than they ask for.
SPECIFICATION Spec
CONSTANTS
  r1 = r1  r2 = r2  r3 = r3
  None = None
  Request = {r1, r2}
  Skips = {1, 4, 9}
  SliceWidth = 4
  SliceDelta = 1
  SliceHeights <- TwoOne
  RndMinWidth = 3
  RndMaxCursors = 2
  PoolSize = 3
  Sizes = {5, 8}
  MaxIssued = 4
  MaxTasks = 2
SYMMETRY Symmetric
INVARIANTS
  PoolInv
  HeldOnce
  HeightBound
CHECK_DEADLOCK FALSE
