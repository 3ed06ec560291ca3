SPECIFICATION FairSpec
CONSTANTS
  m1 = m1
  m2 = m2
  m3 = m3
  Messages = {m1}
  Trees = {t1}
  Batch <- OneBatch
  Leaf <- TwinLeaf
  Ours = {m1}
  Handlers = {h1}
  Monitored = {m1}
  MaxFailures = 0
  MaxWebhooks = 2
  MaxCrashes = 0
PROPERTY
  FallbackRecords
\* Every row may be settled, with no event left to handle.
CHECK_DEADLOCK FALSE
