SPECIFICATION FairSpec
CONSTANTS
  Callers = {c1, c2, c3}
  failure_threshold = 2
  recovery_timeout = 2
INVARIANTS
  TypeOK
  ClosedBelowThreshold
  OpenPauseIsDated
PROPERTIES
  OpenLastsRecoveryTimeout
  ClosesOnlyFromHalfOpen
  ImplementsContract
  OpenIsProbed
  RecoversWithBackend
