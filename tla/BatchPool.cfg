SPECIFICATION Spec
CONSTANTS
  t1 = t1
  t2 = t2
  t3 = t3
  e1 = e1
  e2 = e2
  Tasks <- TwoTasks
  DependsOn <- Independent
  Groups <- Planned
  MaxWorkers = 2
  StopOnFailure = FALSE
  MaxRetries = 0
  First = e1
  Executors <- OneExecutor
  Ops = {"fail", "block", "markDone", "closeIssue", "answer"}
INVARIANTS TypeOK RowHonest
PROPERTIES CompletionStands
SYMMETRY Symmetric
CHECK_DEADLOCK FALSE
