SPECIFICATION Spec
CONSTANTS
  Messages = {m1}
  MaxBlock = 3
  StartBlock = 0
  MaxRange = 2
  SweepModes = {TRUE}
  MaxFaults = 0
PROPERTY
  AbandonedIsOffChain
\* The bounded chain ends: nothing may be left to mine, deliver or decide.
CHECK_DEADLOCK FALSE
