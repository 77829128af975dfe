CONSTANTS
  a = a
  b = b
  c = c
  v = v
  w = w
  bad = bad
  NULL = NULL
  Torn = Torn
  Key = {a, b, c}
  Value = {v, bad}
  DelKeys = {a, b, c}
  BadValues = {bad}
  Hashes <- MCHashes
  InitEnts = 4
  MaxEnts = 8
  MaxChunks = 3
  MaxFaults = 2
  MaxShifts = 2
SPECIFICATION Spec
INVARIANTS TypeOK LookupTerminates UsedCoversSlots
CHECK_DEADLOCK FALSE
