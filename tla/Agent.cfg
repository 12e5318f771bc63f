SPECIFICATION FairSpec
CONSTANTS
  Slots = 1
  Controllers = {c1, c2}
  Believed <- Honest
  Rpcs = {r1, r2, r3}
INVARIANTS CountExact LimitHeld AttemptHonest StopLeavesNothing
PROPERTIES SlotsComeBack StopEnds
CHECK_DEADLOCK FALSE
