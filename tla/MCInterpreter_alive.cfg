SPECIFICATION Spec
CONSTANTS
  c1 = c1
  c2 = c2
  c3 = c3
  c4 = c4
  c5 = c5
  c6 = c6
  one = one
  Cell = {c1, c2, c3, c4, c5, c6}
  Number = {one}
  Text <- Strings
  Nil = Nil
  Dangling = Dangling
  GlobalVariables = GlobalVariables
  GlobalSize = 1
  TableSize = 1
  Lines <- SomeLines
INVARIANT TablesAlive
