SPECIFICATION FairSpec
CONSTANTS
  Cells = {c1}
  Procs = {p1}
  CellOf <- OneCell
  Tickets = {t1, t2, t3}
  Free = {t3}
  Served = {t1}
  Connectors = {k1}
  Principals = {}
  Sweepers = {}
  Quotes <- FreeAndOne
  Actuals = {2}
  Yield = FALSE
  Nobody = Nobody
  NoTicket = NoTicket
  InitLease <- Leases3
  InitCeiling <- Unbounded
  Amounts = {2}
  Ceilings = {}
  MaxCrashes = 0
  MaxOverseer = 1
INVARIANTS HoldsAccounted AccountsBalance 
PROPERTY ReportsSettle
CHECK_DEADLOCK FALSE
