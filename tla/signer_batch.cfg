SPECIFICATION Spec
CONSTANTS
  m1 = m1
  m2 = m2
  x1 = x1
  x2 = x2
  Messages = {m1, m2}
  Leaves = {x1, x2}
  Leaf <- OwnLeaf
  Supported = {m1, m2}
  Workers = {w1}
  MinBatch = 1
  MaxBatch = 2
  QueueCapacity = 1
  SweepModes = {TRUE}
  MaxEpoch = 2
  MaxCrashes = 0
INVARIANTS
  ProcessingIsCovered
  
PROPERTIES
  VerdictIsFinal
  
  MembershipSpec
  PromiseSpec
\* Everything may be signed, with nothing left to ingest.
CHECK_DEADLOCK FALSE
