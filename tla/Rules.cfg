CONSTANTS
  Clients = {"c1", "c2"}
  Weight <- OneAndTwo
  Ballots = {"Support", "Against"}
  Profiles = {"jump", "left"}
  VoteResults <- SampleRules
  MaxFaults = 2
SPECIFICATION RuleSpec
INVARIANTS
  RuleTypeOK
  KeysFollowTally
  PhantomsBounded
  EmptyRoomReleases
