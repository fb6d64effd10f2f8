SPECIFICATION FairSpec
CONSTANTS
  t1 = t1
  t2 = t2
  t3 = t3
  e1 = e1
  e2 = e2
  Tasks <- ThreeTasks
  DependsOn <- ShortCut
  Groups <- Planned
  MaxWorkers = 1
  StopOnFailure = TRUE
  MaxRetries = 1
  First = e1
  Executors <- OneExecutor
  Ops = {"fail", "block", "raise", "gates", "cancel", "force", "markDone"}
INVARIANTS DependenciesFirst
PROPERTIES NoLaunchOnceNoticed BatchEnds
CHECK_DEADLOCK FALSE
