SPECIFICATION Spec
CONSTANTS
  kMaxTasks = 5
  MaxTimeout = 86400
  MaxRetries = 2
  MaxRepeat = 3
  Roots <- SomeRoots
  JobRoot <- TheJob
  Agents <- SomeAgents
  Address <- Addresses
  LabelsOf <- SomeLabels
INVARIANTS ParsedAsMeant TasksUsable ExitHonest ReportHonest RunsExplained
CHECK_DEADLOCK FALSE
