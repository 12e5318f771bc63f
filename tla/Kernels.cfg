SPECIFICATION FairSpec
CONSTANTS
  Launches <- SomeLaunches
  kMaxThreadsPerBlock = 4
  kMinReduceBlock = 2
  kMaxGrid = 2
  MaxGridY = 2
  kBins = 3
  kTile = 2
  kTransTile = 2
  kTransRows = 1
  Garbage = {0, 77}
INVARIANTS MatchesReference RaceFree
PROPERTY Completes
CHECK_DEADLOCK FALSE
