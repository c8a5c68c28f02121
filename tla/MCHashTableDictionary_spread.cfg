SPECIFICATION HFairSpec
CONSTANTS
  k1 = k1
  k2 = k2
  k3 = k3
  k4 = k4
  v1 = v1
  v2 = v2
  Nil = Nil
  NotFound = NotFound
  Key <- ThreeKeys
  SetKey = {k1, k2, k3}
  Value = {v1, v2}
  InitSize = 6
  Hashes <- SpreadHashes
INVARIANT Intact
PROPERTY AnswersLikeDictionary
