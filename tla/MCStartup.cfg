SPECIFICATION StartupSpec
CONSTANTS
  p1 = p1
  p2 = p2
  p3 = p3
  Pid = {p1, p2, p3}
  First = p1
  Nil = Nil
  Text <- SomeText
  Given <- SomeNames
  MaxGenerations = 2
  MaxReplaced = 1
  Options <- SomeOptions
SYMMETRY OthersAlike
INVARIANTS StartupTypeOK ProcessesApart LogIsNamed LostNamesWereReplaced NothingLost PolicyAsAsked
