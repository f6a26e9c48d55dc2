SPECIFICATION Spec
CONSTANTS
  a = a
  b = b
  page = page
  remote = remote
  Caller <- MCCaller
  BuiltIn <- MCBuiltIn
  Remote <- MCRemote
  Sizes <- MCSizes
  RequestsPerMinute = 2
  TokensPerMinute = 3
  MaxConcurrency = 1
  Window = 2
  LLMAttempts = 2
  SdkRetries = 1
  ToolAttempts = 2
  FailureThreshold = 2
  RecoveryTime = 1
SYMMETRY MCSymmetry
INVARIANTS
  RTypeOK
  Paced
PROPERTIES
  Quarantined
