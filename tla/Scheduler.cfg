SPECIFICATION FairSpec
CONSTANTS
  Agents <- ThreeAgents
  AgentLabels <- KvmExceptOnC
  AgentSlots <- TwoSlotsOnA
  NumTasks = 3
  Needs <- MixedNeeds
  Retries <- RetryAll
INVARIANTS TypeOK RunningExclusive RemainingExact RetryElsewhere NoLostWakeup GivenUpJustified ReturnJustified
PROPERTIES JobRunSpec ReturnsUnlessStranded
