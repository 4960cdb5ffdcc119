SPECIFICATION FairSpec
CONSTANTS
  Procs = {p1, p2}
  big = big
  mid = mid
  Artifacts = {big, mid}
  Size <- Sizes
  Temps = {t1, t2}
  StorageBytes = 1
  PinsPerReliefPass = 1
  MaxAttempts = 2
  MaxFaults = 1
INVARIANTS TypeOK HeldIsWhole RecordedOrDropped PinsAreLastResort
PROPERTIES OverIsRelieved
