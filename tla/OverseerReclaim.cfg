SPECIFICATION Spec
CONSTANTS
  Cells = {c1, c2}
  Allocations <- OneOrTwo
  Timeouts = {0}
  Orders <- SmallOrders
  Ceilings = {}
  InitCeiling <- Wide
  MaxIssues = 2
  MaxNow = 0
INVARIANTS NoDoubleSpend
CHECK_DEADLOCK FALSE
