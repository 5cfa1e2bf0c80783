SPECIFICATION MCSpec
CONSTANTS
  Urls = {u1, u2}
  Clients = {c1, c2}
  NoUrl = NoUrl
  NoOne = NoOne
  MaxTasks = 2
  MaxConns = 2
  MaxOps = 3
  Reasons = {"none", "another_server"}
  full = full
  plays = plays
  controls = controls
  Ids = {1, 2, 3, 4, 5, 6}
  Volumes = {2}
  Names = {1}
  GroupSteps = 3
  Resting = Resting
INVARIANTS RegistrySound DialsAreAccounted MembersToldTruth
PROPERTY PlaybackFollowsPlayers
CHECK_DEADLOCK FALSE
SYMMETRY Symmetry
