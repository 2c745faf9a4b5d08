\* Every sequence of calls on lists of up to 3 items.
CONSTANTS
  Nodes <- MCNodes
  Data <- MCData
  n1 = n1
  n2 = n2
  n3 = n3
  n4 = n4
  x = x
  y = y
  z = z
  NULL = NULL
  Compare <- MCCompare
SYMMETRY AnyNode
SPECIFICATION Spec
INVARIANTS
  TypeOK
  ListIsLinked
  NothingLeaksOrDangles
  WalksCount
PROPERTY ImplementsList
