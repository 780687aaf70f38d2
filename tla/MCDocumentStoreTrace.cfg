\* Two requests at a time: is anything left of a refused write?
SPECIFICATION Spec
CONSTANTS
  r1 = r1  r2 = r2  r3 = r3
  NoTag = NoTag
  Garbage = Garbage
  Request = {r1, r2}
  MaxWrites = 4
  MaxCrashes = 0
INVARIANT RefusedLeavesNoTrace
CHECK_DEADLOCK FALSE
