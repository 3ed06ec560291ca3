CONSTANTS
  lz = lz
  ccv = ccv
  LzEnv = lz
  CcvEnv = ccv
  MaxContracts = 3
  MaxAttempts = 2
  Edited = {ccv}
  MaxEdits = 1
  o1 = o1
  Operators = {o1}
  SignerCount = 2
  MaxChanges = 1
  MaxUps = 2
SPECIFICATION StackSpec
INVARIANTS
  
  
  WebhooksAuthenticate
PROPERTIES
  KeepsItsSettlement
  DefaultIsSubmitted
