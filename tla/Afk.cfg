CONSTANTS
  Limits = 1
  MaxReloads = 2
  MaxSends = 1
SPECIFICATION FairAfkSpec
INVARIANTS
  AfkTypeOK
  GateHasOwner
  MarkedIdleHasNoVote
PROPERTIES
  LockClientReturns
  DisposeEndsThread
CHECK_DEADLOCK FALSE
