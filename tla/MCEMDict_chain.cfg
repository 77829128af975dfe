CONSTANTS
  a = a
  b = b
  c = c
  v = v
  w = w
  bad = bad
  NULL = NULL
  Torn = Torn
  Key = {a, b, c}
  Value = {v, w}
  DelKeys = {a, b, c}
  BadValues = {}
  Hashes <- MCHashes
  InitEnts = 4
  MaxEnts = 8
  MaxChunks = 3
  MaxFaults = 0
  MaxShifts = 2
SPECIFICATION Spec
INVARIANT EntriesFound
CHECK_DEADLOCK FALSE
