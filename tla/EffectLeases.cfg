SPECIFICATION Spec
CONSTANTS
  Cells = {c1}
  Procs = {p1}
  CellOf <- OneCell
  Tickets = {t1, t2}
  Free = {}
  Served = {}
  Connectors = {}
  Principals = {j1}
  Sweepers = {s1}
  Quotes <- OneQuote
  Actuals = {2}
  Yield = FALSE
  Nobody = Nobody
  NoTicket = NoTicket
  InitLease <- Leases3
  InitCeiling <- Roomy
  Amounts = {2}
  Ceilings <- Movable
  MaxCrashes = 1
  MaxOverseer = 1
INVARIANTS TypeOK SettledIsPaid
PROPERTY EnvelopeHonoured
CHECK_DEADLOCK FALSE
