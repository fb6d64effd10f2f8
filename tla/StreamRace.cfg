SPECIFICATION Spec
CONSTANTS
  s1 = s1
  s2 = s2
  w1 = w1
  w2 = w2
  NoSocket = NoSocket
  Streams <- TwoStreams
  Sockets = {}
  Workers = {"announcing"}
  QueueMaxes = {2}
  MaxEvents = 1
  MaxLaunches = 1
  MaxTickets = 1
  MaxTurns = 0
  MaxCalls = 0
INVARIANTS NobodyLeftHanging
CHECK_DEADLOCK FALSE
