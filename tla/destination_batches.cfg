SPECIFICATION FairSpec
CONSTANTS
  Operators = {o1, o2}
  Quorum = 2
  Messages = {1, 2}
  Providers = {"layerzero", "ccv"}
  MinBatch = 1
  Submitters = {s1}
  Refusals = {{}, {2}}
  BatchLimit = 2
  MaxValidity = 2
  MaxTime = 4
  MaxEpoch = 2
  MaxLeaves = 7
INVARIANTS
  VerifiedIsReceivedOnce
  TreeProofsAgree
PROPERTIES
  BridgeSpec
  AcceptedInTime
  AcceptedReachQuorum
