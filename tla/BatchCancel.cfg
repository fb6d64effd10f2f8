SPECIFICATION Spec
CONSTANTS
  t1 = t1
  t2 = t2
  t3 = t3
  e1 = e1
  e2 = e2
  Tasks <- OneTask
  DependsOn <- Independent
  Groups <- Planned
  MaxWorkers = 1
  StopOnFailure = FALSE
  MaxRetries = 0
  First = e1
  Executors <- TwoExecutors
  Ops = {"fail", "block", "supervise", "crash", "raise", "gates", "cancel", "force", "resume", "forceResume", "die", "answer"}
PROPERTIES CancelStands
CHECK_DEADLOCK FALSE
