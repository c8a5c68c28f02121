SPECIFICATION Spec
CONSTANTS
  k1 = k1
  k2 = k2
  k3 = k3
  k4 = k4
  k5 = k5
  v1 = v1
  v2 = v2
  Nil = Nil
  NotFound = NotFound
  Key <- FiveKeys
  SetKey = {k1, k2, k3, k4, k5}
  Value = {v1}
  InitSize = 8
  Hashes <- StackedHash
INVARIANT EntriesOnTheirChains
