SPECIFICATION Spec
CONSTANTS
  t1 = t1
  t2 = t2
  t3 = t3
  v1 = v1
  v2 = v2
  v3 = v3
  NoValue = NoValue
  NoThread = NoThread
  Threads <- MCThreads
  Values <- MCValues
SYMMETRY MCSymmetry
INVARIANT TypeOK
INVARIANT EndsApart
PROPERTY ImplementsFifo
