CONSTANTS
  v = v
  w = w
  bad = bad
  NULL = NULL
  Torn = Torn
  Value = {v, w, bad}
  SetValues = {v, w, NULL}
  AppendValues = {v, w, bad}
  BadValues = {bad}
  MaxLen = 3
  MaxChunks = 4
  MaxFaults = 0
SPECIFICATION Spec
PROPERTY OthersKeepValues
CHECK_DEADLOCK FALSE
