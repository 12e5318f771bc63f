SPECIFICATION Spec
CONSTANTS
  Threads = {t1, t2}
  Pids = {p1, p2}
  Capacity = 0
  Limit = 0
  Daemons = FALSE
INVARIANT TimeoutEnforced
