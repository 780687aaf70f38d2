\* Two requests at a time, compatible or one after the other; documents written at any
\* time, a crash.
SPECIFICATION RegimeSpec
CONSTANTS
  r1 = r1  r2 = r2  r3 = r3
  NoTag = NoTag
  Garbage = Garbage
  NoDate = NoDate
  NotCached = NotCached
  Request = {r1, r2}
  MaxWrites = 3
  MaxCrashes = 1
SYMMETRY Symmetric
INVARIANTS
  CreatedKept
  NeverStuck
PROPERTY SerialImplementsLock
CHECK_DEADLOCK FALSE
