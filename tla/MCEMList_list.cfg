CONSTANTS
  v = v
  w = w
  bad = bad
  NULL = NULL
  Torn = Torn
  Value = {v, w, bad}
  SetValues = {v, w, bad}
  AppendValues = {v, w, bad}
  BadValues = {bad}
  MaxLen = 3
  MaxChunks = 4
  MaxFaults = 2
SPECIFICATION Spec
CONSTRAINT NothingToLose
INVARIANTS TypeOK ChunksOwned
PROPERTIES ImplementsList OthersKeepValues
CHECK_DEADLOCK FALSE
