SPECIFICATION Spec
CONSTANTS
  Cells = {c1, c2}
  Hubs = {}
  Procs = {p1, p2, p3}
  Busy = c1
  Pair = {p1, p2}
  CellOf <- PairAtBusy
  Rendezvous <- ToBusy
  Tickets = {t1}
  Checks = {k1}
  Declares <- AllAtBusy
  Attempters = {c1}
  Verifiers = {c2}
  MaxAttempts = 2
  Yield = FALSE
  MaxFaults = 1
  NoTicket = NoTicket
  NoChange = NoChange
SYMMETRY PairSymmetry
VIEW ClaimsUnread
INVARIANTS TypeOK AttemptsAreBacked
PROPERTIES ImplementsBoard
