SPECIFICATION Spec
CONSTANTS
  Cells = {c1, c2}
  Home = c1
  Procs = {p1}
  Operators = {o1}
  Attempts <- TwoAttempts
  AuthorOf <- PeerThenHome
  ClassOf <- AllSame
  NoAttempt <- None
  MinObservations = 2
  InitSwitches <- EitherMode
  InitSeen <- Earned
  InitRecorded <- OneAttempt
  MaxScore = 2
  MaxMoves = 1
  MaxCommands = 1
  MaxPasses = 1
INVARIANTS TypeOK KillSwitchBites
PROPERTIES PromotionsAreLicensed
CHECK_DEADLOCK FALSE
