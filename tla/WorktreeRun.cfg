SPECIFICATION FairSpec
CONSTANTS
  t1 = t1
  t2 = t2
  main = main
  topic = topic
  Nobody = Nobody
  Human = Human
  Detached = Detached
  MaxMeddling = 1
  Runs = {1, 2}
  Tasks = {t1, t2}
  Branches = {main, topic}
  Main = main
INVARIANTS TypeOK WorkIsKept CompletedIsMerged HalfMergeIsReported OneRunPerWorktree
PROPERTIES RunIsOver
CHECK_DEADLOCK FALSE
