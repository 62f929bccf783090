SPECIFICATION FairSpec
CONSTANTS
  root = root
  branch = branch
  x = x
  y = y
  Parent <- MCParent
  Slow = {x}
  BufSize = 2
  MaxPushes = 3
INVARIANTS
  TypeOK
  AgreeOnOrder
  StaysInSubtree
  AncestorsFirst
PROPERTIES
  ImplementsLink
  SlowChildBlocksNobody
