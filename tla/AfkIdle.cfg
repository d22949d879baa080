CONSTANTS
  Limits = 1
  MaxReloads = 1
  MaxSends = 1
SPECIFICATION FairAfkSpec
PROPERTIES
  IdleAbstains
CHECK_DEADLOCK FALSE
