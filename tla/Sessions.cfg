CONSTANTS
  Clients = {c1, c2}
  Users = {alice}
  Anon = anon
  Multipliers = {1, 2}
  FirstMult <- AllOnes
  Limit <- OneEach
  NoLimit = nolimit
  Commands = {"set", "unauthorize", "delete"}
  MaxCommands = 2
  LateAnswers = TRUE
SPECIFICATION FairSessionSpec
INVARIANTS
  SessionTypeOK
  ListedOnlyAsSelf
  ServedIsListed
PROPERTIES
  ConsoleReturns
  ClosedEventually
CHECK_DEADLOCK FALSE
