SPECIFICATION StatsSpec
CONSTANTS
  Threads = {t1, t2}
  Files = {f1, f2}
  BufSize = 1
  Bytes = {0}
  CounterMod = 4
  Deltas = {1}
  Counts = {1}
  Offsets = {0}
  Positions = {}
  MaxOpens = 2
  Calls <- StatsCalls
INVARIANT StatsSnapshot
CHECK_DEADLOCK FALSE
