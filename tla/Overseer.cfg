SPECIFICATION Spec
CONSTANTS
  Cells = {c1, c2}
  Allocations <- OneOrTwo
  Timeouts = {0, 1}
  Orders <- SmallOrders
  Ceilings <- Moves
  InitCeiling <- Wide
  MaxIssues = 3
  MaxNow = 1
SYMMETRY CellSymmetry
INVARIANTS TypeOK SpendStaysAllocated VerdictStands ReportBoundsSpending
PROPERTIES SpendIsKept
CHECK_DEADLOCK FALSE
