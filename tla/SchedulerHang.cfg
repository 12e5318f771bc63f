SPECIFICATION FairSpec
CONSTANTS
  Agents <- TwoAgents
  AgentLabels <- KvmOnA
  AgentSlots <- TwoSlotsOnA
  NumTasks = 2
  Needs <- MixedNeeds
  Retries <- RetryFirstTask
PROPERTY Termination
