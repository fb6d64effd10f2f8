SPECIFICATION FairSpec
CONSTANTS
  s1 = s1
  s2 = s2
  w1 = w1
  w2 = w2
  NoSocket = NoSocket
  Streams <- TwoStreams
  Sockets <- TwoSockets
  Workers = {"announcing", "quiet"}
  QueueMaxes = {2}
  MaxEvents = 1
  MaxLaunches = 2
  MaxTickets = 2
  MaxTurns = 2
  MaxCalls = 1
INVARIANTS TypeOK NothingSkipped ChatIsItsOwners CostIsKept
PROPERTIES AStreamIsOver SessionIsFreed
CHECK_DEADLOCK FALSE
