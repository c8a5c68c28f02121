SPECIFICATION HSpec
CONSTANTS
  k1 = k1
  k2 = k2
  k3 = k3
  k4 = k4
  v1 = v1
  v2 = v2
  Nil = Nil
  NotFound = NotFound
  Key <- FourKeys
  SetKey = {k1, k2, k3, k4, Nil}
  Value = {v1, v2}
  InitSize = 4
  Hashes <- AllHashes
SYMMETRY KeysAlike
INVARIANTS TypeOK BackwardLinks ChainsInOrder SoundFaults AnswersWereGiven
PROPERTIES LoopsAdvance LookupsKeepEntries ImplementsDictionary ImplementsTable
