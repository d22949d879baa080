CONSTANTS
  Sockets = {s1, s2}
  NoSocket = none
  Senders = {"key", "afk"}
  Login = TRUE
  RECONNECT_LIMIT = 2
  MaxTasks = 1
  MaxFaults = 2
SPECIFICATION FairReloadSpec
INVARIANTS
  ClientTypeOK
  OneAtATime
  RegisterAfterInit
  OperationsAfterRegister
  KeyLockHasOwner

  
CHECK_DEADLOCK FALSE
