SPECIFICATION Spec
CONSTANTS
  Cells = {c1}
  Procs = {p1, p2}
  CellOf <- OneCell
  Tickets = {t1}
  Free = {}
  Served = {}
  Connectors = {k1, k2}
  Principals = {j1}
  Sweepers = {}
  Quotes <- OneQuote
  Actuals = {0}
  Yield = TRUE
  Nobody = Nobody
  NoTicket = NoTicket
  InitLease <- Leases3
  InitCeiling <- Unbounded
  Amounts = {}
  Ceilings = {}
  MaxCrashes = 2
  MaxOverseer = 0
INVARIANTS AtMostOneOrder OutcomeIsTrue
PROPERTY ImplementsLifecycle
CHECK_DEADLOCK FALSE
SYMMETRY Interchangeable
