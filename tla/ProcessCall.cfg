SPECIFICATION FiniteOutputSpec
CONSTANTS
  Threads = {t1}
  Pids = {p1, p2}
  Capacity = 2
  Limit = 1
  Daemons = TRUE
INVARIANTS GroupSwept OutcomeHonest OutputComplete
PROPERTY CallsReturn
