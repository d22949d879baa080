CONSTANTS
  Clients = {c1, c2}
  Users = {alice}
  Anon = anon
  Multipliers = {3}
  FirstMult <- AnonOneUsersTwo
  Limit <- Unlimited
  NoLimit = nolimit
  Commands = {"set", "unauthorize", "delete"}
  MaxCommands = 1
  LateAnswers = FALSE
  Ops = {jump}
  Ballots = {"Support", "Against"}
SYMMETRY Symmetry
SPECIFICATION Spec
INVARIANTS
  TypeOK
  WriterOwnsTally
  GoneClientHasNoVotes
  TallyExactUnlessDisturbed
CHECK_DEADLOCK FALSE
