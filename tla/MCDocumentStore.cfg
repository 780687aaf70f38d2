\* Three requests at a time, four writes, a crash.
SPECIFICATION Spec
CONSTANTS
  r1 = r1  r2 = r2  r3 = r3
  NoTag = NoTag
  Garbage = Garbage
  Request = {r1, r2, r3}
  MaxWrites = 4
  MaxCrashes = 1
SYMMETRY Symmetric
INVARIANTS
  OneWinner
  EtagNamesVersion
CHECK_DEADLOCK FALSE
