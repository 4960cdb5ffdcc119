SPECIFICATION Spec
CONSTANTS
  Procs = {p1, p2}
  InferenceDaily = 2
  OfflineInferenceDaily = 1
  PerCallCost = 2
  CostPerKTokenIn = 1
  CostPerKTokenOut = 0
  Usages <- SomeUsages
  MaxDays = 2
  MaxFaults = 1
SYMMETRY ProcSymmetry
INVARIANTS TypeOK ProcessStaysCapped RestartKeepsCap
CHECK_DEADLOCK FALSE
