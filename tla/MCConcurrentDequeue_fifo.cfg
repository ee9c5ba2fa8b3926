SPECIFICATION Spec
CONSTANTS
  Thread = {t1, t2, t3}
  Data = {d1, d2}
  Node = {n1, n2, n3}
  HeadNode = HeadNode
  TailNode = TailNode
  Null = Null
  Free = Free
SYMMETRY Symmetry
INVARIANTS
  Exclusive
  NextLinks
  PrevLinks
  NodesOwned
PROPERTY ImplementsFifo
