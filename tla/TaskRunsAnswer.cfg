CONSTANTS
  NoTask = NoTask
  w1 = w1
  h1 = h1
  Tasks = {t1}
  Procs = {w1, h1}
  MaxRuns = 3
  MaxBlockers = 3
  Ops <- AnswerOps
SPECIFICATION Spec
INVARIANT RunAndTaskAgree
CHECK_DEADLOCK FALSE
