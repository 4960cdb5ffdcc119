SPECIFICATION FairSpec
CONSTANTS
  Cells = {c1, c2}
  Hubs = {h}
  Procs = {p1, p2}
  Busy = c1
  Pair = {p1}
  CellOf <- PairAtBusy
  Rendezvous <- ViaHub
  Tickets = {t1}
  Checks = {k1}
  Declares <- AllAtBusy
  Attempters = {c1, c2}
  Verifiers = {c1, c2}
  MaxAttempts = 1
  Yield = TRUE
  MaxFaults = 0
  NoTicket = NoTicket
  NoChange = NoChange
PROPERTIES AttemptsGetVerified ClaimsNeverBlock
