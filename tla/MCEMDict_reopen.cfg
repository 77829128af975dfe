CONSTANTS
  a = a
  b = b
  c = c
  v = v
  w = w
  bad = bad
  NULL = NULL
  Torn = Torn
  Key = {a, b, c}
  Value = {v, w}
  DelKeys = {c}
  BadValues = {}
  Hashes <- MCHashes
  InitEnts = 4
  MaxEnts = 8
  MaxChunks = 3
  MaxFaults = 1
  MaxShifts = 2
SPECIFICATION Spec
INVARIANT CanReopen
CHECK_DEADLOCK FALSE
