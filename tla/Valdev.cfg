SPECIFICATION FairSpec
CONSTANTS
  Threads = {t1, t2}
  Files = {f1}
  BufSize = 2
  Bytes = {0, 7}
  CounterMod = 2
  Deltas = {1}
  Counts = {0, 2}
  Offsets <- BackAndForth
  Positions = {1, 3}
  MaxOpens = 1
  Calls <- AllCalls
INVARIANTS TypeOK ZeroBeyondLen
PROPERTIES AtomicEffect ReadsAtomic CallsReturn
CHECK_DEADLOCK FALSE
