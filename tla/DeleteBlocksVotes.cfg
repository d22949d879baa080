CONSTANTS
  Clients = {c1}
  Users = {alice}
  Anon = anon
  Multipliers = {3}
  FirstMult <- AnonOneUsersTwo
  Limit <- Unlimited
  NoLimit = nolimit
  Commands = {"delete"}
  MaxCommands = 1
  LateAnswers = FALSE
  Ops = {jump}
  Ballots = {"Support"}
SPECIFICATION FairSpec
PROPERTY
  VoteCounted
CHECK_DEADLOCK FALSE
