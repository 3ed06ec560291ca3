SPECIFICATION Spec
CONSTANTS
  m1 = m1
  m2 = m2
  x1 = x1
  x2 = x2
  Messages = {m1}
  Leaves = {x1}
  Leaf <- OwnLeaf
  Supported = {m1}
  Workers = {w1, w2}
  MinBatch = 1
  MaxBatch = 1
  QueueCapacity = 1
  SweepModes = {TRUE, FALSE}
  MaxEpoch = 2
  MaxCrashes = 1
SYMMETRY
  Symmetry
INVARIANTS
  SignerInv
  LabelsAreGenuine
  
PROPERTIES
  AdmissionSpec
  UnconfirmedIsNeverSigned
\* Everything may be signed, with nothing left to ingest.
CHECK_DEADLOCK FALSE
