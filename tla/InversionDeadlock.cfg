CONSTANTS
  Clients = {c1}
  Users = {alice}
  Anon = anon
  Multipliers = {3}
  FirstMult <- AnonOneUsersTwo
  Limit <- Unlimited
  NoLimit = nolimit
  Commands = {"set"}
  MaxCommands = 1
  LateAnswers = FALSE
  Ops = {jump}
  Ballots = {"Support"}
SPECIFICATION Spec
INVARIANT
  NoLockInversion
CHECK_DEADLOCK FALSE
