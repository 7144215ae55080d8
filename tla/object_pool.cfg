SPECIFICATION Spec
CONSTANTS
  t1 = t1  t2 = t2  t3 = t3
  p1 = p1  p2 = p2  p3 = p3  p4 = p4
  n1 = n1  n2 = n2  n3 = n3  
  Thread = {t1, t2, t3}
  Ptr = {p1, p2, p3, p4}
  Name = {n1, n2, n3}
  OID <- ThreeRows
  FirstRows <- OneOrTwo
  MaxPool = 1
  Ops <- AllOps
  Rash = {}
  Nobody = Nobody  Null = Null  NoName = NoName
SYMMETRY MCSymmetry
INVARIANT PointersLive
PROPERTY RowsKept
