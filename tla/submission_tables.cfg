SPECIFICATION FairSpec
CONSTANTS
  m1 = m1
  m2 = m2
  m3 = m3
  Messages = {m1, m2, m3}
  Trees = {t1}
  Batch <- OneBatch
  Leaf <- TwinLeaf
  Ours = {m1, m2}
  Handlers = {h1, h2}
  Monitored = {m1}
  MaxFailures = 1
  MaxWebhooks = 2
  MaxCrashes = 1
INVARIANTS
  OneTransactionPerLeaf
  OutcomeIsTrue
  UnrecordedIsRetried
PROPERTIES
  
  ProvedIsSettled
\* Every row may be settled, with no event left to handle.
CHECK_DEADLOCK FALSE
