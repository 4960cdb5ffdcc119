SPECIFICATION Spec
CONSTANTS
  Cells = {c1, c2}
  Home = c1
  Procs = {p1}
  Operators = {o1}
  Attempts <- TwoAttempts
  AuthorOf <- PeerThenHome
  ClassOf <- AllSame
  NoAttempt <- None
  MinObservations = 2
  InitSwitches <- On
  InitSeen <- Earned
  InitRecorded <- OneAttempt
  MaxScore = 2
  MaxMoves = 1
  MaxCommands = 0
  MaxPasses = 1
PROPERTIES NeverSelfVerified
CHECK_DEADLOCK FALSE
