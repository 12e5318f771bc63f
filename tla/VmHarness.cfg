SPECIFICATION Spec
CONSTANTS
  Tests <- AllKinds
  Suite <- Suites
  Filters <- SomeFilters
  Iterations <- SomeIterations
INVARIANTS NothingLeft SharedGuestHasDisk GreenRunIsClean PassedMeansDone
CHECK_DEADLOCK FALSE
