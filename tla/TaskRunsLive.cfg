CONSTANTS
  NoTask = NoTask
  w1 = w1
  h1 = h1
  Tasks = {t1}
  Procs = {w1, h1}
  MaxRuns = 2
  MaxBlockers = 4
  Ops <- MeddlingOps
SPECIFICATION FairSpec
INVARIANTS NoOrphanRun
PROPERTIES RunEnds
CHECK_DEADLOCK FALSE
