CONSTANTS
  NoTask = NoTask
  w1 = w1
  h1 = h1
  Tasks = {t1}
  Procs = {w1, h1}
  MaxRuns = 2
  MaxBlockers = 1
  Ops <- AnyOps
SPECIFICATION Spec
INVARIANTS TypeOK
PROPERTIES LifecycleSpec OnlyContendersStart
CHECK_DEADLOCK FALSE
