\* Two batches in one cursor and the documents of their failures, re-armed;
\* executions do not overlap, one of them may crash.
SPECIFICATION SerialSpec
CONSTANTS
  b1 = b1  b2 = b2  b3 = b3  b4 = b4
  a1 = a1  a2 = a2
  w1 = w1  w2 = w2  c1 = c1
  BatchId = {b1, b2, b3}
  Audit = {a1, a2}
  Replayable = {a1, a2}
  Worker = {w1}
  Client = {c1}
  NoBatch = NoBatch
  MaxInserts = 2
  MaxArms = 1
  MaxStops = 1
  MaxFaults = 1
SYMMETRY Symmetric
INVARIANTS
  TypeOK
  AtMostOncePerArming
  AtMostOneChild
  NoFailureForgotten
PROPERTIES
  ProcessedIsFinal
  ImplementsLifecycle
CHECK_DEADLOCK FALSE
