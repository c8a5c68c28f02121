SPECIFICATION FairSpec
CONSTANTS
  Top = 46
  Lines <- SomeLines
  GlobalSize = 1
  TableSize = 2
  MinimumFree = 6
INVARIANTS TypeOK Walkable EdgesAreObjects
PROPERTIES CollectsAll CollectionsEnd ImplementsObjectHeap
