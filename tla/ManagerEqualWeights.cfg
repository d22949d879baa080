CONSTANTS
  Clients = {c1, c2}
  Users = {alice}
  Anon = anon
  Multipliers = {}
  FirstMult <- AllTwo
  Limit <- Unlimited
  NoLimit = nolimit
  Commands = {"unauthorize"}
  MaxCommands = 1
  LateAnswers = FALSE
  Ops = {jump}
  Ballots = {"Support", "Against"}
SPECIFICATION Spec
INVARIANTS
  EmptyRoomCountsNothing
  NoGhostSession
PROPERTY
  CountsEachBallotOnce
CHECK_DEADLOCK FALSE
