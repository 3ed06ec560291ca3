SPECIFICATION PathSpec
CONSTANTS
  m1 = m1
  w1 = w1
  o1 = o1
  o2 = o2
  a = a
  b = b
  Messages = {m1}
  Broken = broken
  Block <- FirstBlock
  Envelopes <- SomeEnvelopes
  Webhooks = {w1}
  HookLists <- OneHookList
  MaxAttempts = 2
  MinBatch = 1
  MaxBlock = 2
  MaxDefers = 2
  MaxFaults = 1
  Worlds <- FiveWorlds
  Operators <- TwoOperators
  Ids <- TwoIds
  SourceBlock <- SentAtOne
  Page = 1
  Window = 0
  MaxHeight = 2
INVARIANTS
  AdmittedIsEntitled
  RejectedIsDeserved
  VerdictIsTrue
  KnownIsTold

  
