SPECIFICATION Spec
CONSTANTS
  w0 = w0
  w1 = w1
  w2 = w2
  Values <- MCValues
  Zero = w0
  DEPTH = 4
INVARIANTS
  TypeOK
  PointersAgree
PROPERTY ImplementsQueue
