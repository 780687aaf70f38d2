\* Two requests at a time: does every write name the etag it replaces?
SPECIFICATION FreeSpec
CONSTANTS
  r1 = r1  r2 = r2  r3 = r3
  NoTag = NoTag
  Garbage = Garbage
  NoDate = NoDate
  NotCached = NotCached
  Request = {r1, r2}
  MaxWrites = 3
  MaxCrashes = 0

INVARIANT EtagMustMatch
CHECK_DEADLOCK FALSE
