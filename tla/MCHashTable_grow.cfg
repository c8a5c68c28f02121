SPECIFICATION FairSpec
CONSTANTS
  k1 = k1
  k2 = k2
  k3 = k3
  k4 = k4
  k5 = k5
  v1 = v1
  v2 = v2
  Nil = Nil
  NotFound = NotFound
  Key <- FourKeys
  SetKey = {k1, k2, k3, k4}
  Value = {v1}
  InitSize = 3
  Hashes <- DoubleHashes
INVARIANTS GrowNeverNests CapacityBacked
PROPERTY OperationsEnd
