SPECIFICATION FairSpec
CONSTANTS
  Messages = {m1, m2}
  MaxBlock = 3
  StartBlock = 0
  MaxRange = 3
  SweepModes = {TRUE, FALSE}
  MaxFaults = 2
INVARIANTS
  TypeOK
  CanonicalIsFinal
  CursorSkipsNothing
  
PROPERTIES
  AttestedIsFinal
  FinalizedIsIngested
  HeldIsResolved
\* The bounded chain ends: nothing may be left to mine, deliver or decide.
CHECK_DEADLOCK FALSE
