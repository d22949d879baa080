CONSTANTS
  Clients = {c1, c2}
  Users = {alice}
  Anon = anon
  Multipliers = {}
  FirstMult <- AnonOneUsersTwo
  Limit <- Unlimited
  NoLimit = nolimit
  Commands = {}
  MaxCommands = 0
  LateAnswers = FALSE
  Ops = {jump}
  Ballots = {"Support"}
SPECIFICATION FairSpec
PROPERTIES
  VoteCounted
  CleanupRuns
CHECK_DEADLOCK FALSE
