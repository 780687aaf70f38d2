\* Fair executions, a scheduler that stays up: are failed audits replayed again?
SPECIFICATION FairSerialSpec
CONSTANTS
  b1 = b1  b2 = b2  b3 = b3  b4 = b4
  a1 = a1  a2 = a2
  w1 = w1  w2 = w2  c1 = c1
  BatchId = {b1, b2}
  Audit = {a1, a2}
  Replayable = {a1}
  Worker = {w1}
  Client = {}
  NoBatch = NoBatch
  MaxInserts = 1
  MaxArms = 1
  MaxStops = 0
  MaxFaults = 0
PROPERTY FailedAuditsReplayedNextTime
CHECK_DEADLOCK FALSE
