\* Entries that live three ticks, loads that take up to two.
SPECIFICATION Spec
CONSTANTS
  TTL = 3
  MaxLoad = 2
  None = None
  Never = Never
  MaxVersion = 3
  Horizon = 9
INVARIANTS
  StaleBound
  InvalidatedForGood
CHECK_DEADLOCK FALSE
