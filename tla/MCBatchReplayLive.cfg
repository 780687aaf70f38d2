\* Fair executions that do not overlap, one of which may be cut short; a
\* client may remove a batch or set a failed one to reprocess. One audit a
\* batch: documents of failed audits are the matter of batch_serial.
SPECIFICATION FairSerialSpec
CONSTANTS
  b1 = b1  b2 = b2  b3 = b3  b4 = b4
  a1 = a1  a2 = a2
  w1 = w1  w2 = w2  c1 = c1
  BatchId = {b1, b2}
  Audit = {a1}
  Replayable = {a1}
  Worker = {w1}
  Client = {c1}
  NoBatch = NoBatch
  MaxInserts = 2
  MaxArms = 2
  MaxStops = 1
  MaxFaults = 1
PROPERTIES
  ArmedIsTaken
  ClaimedIsSettled
CHECK_DEADLOCK FALSE
