CONSTANTS
  a = a
  b = b
  c = c
  NULL = NULL
  Pickle <- MCPickle
  Word = 4
  HdrSize = 8
  InitSize = 16
  MaxSize = 36
  MaxGrow = 5
SPECIFICATION Spec
INVARIANTS TypeOK BlocksDisjoint HeadersIntact RoomForData
PROPERTY ImplementsStore
