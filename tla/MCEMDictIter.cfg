CONSTANTS
  a = a
  b = b
  d = d
  v = v
  NULL = NULL
  Torn = Torn
  Key = {a, b, d}
  Value = {v}
  DelKeys = {d}
  BadValues = {}
  Hashes <- MCHashes
  InitEnts = 4
  MaxEnts = 8
  MaxChunks = 3
  MaxFaults = 0
  MaxShifts = 2
SPECIFICATION IterSpec
INVARIANTS IterComplete IterRepeats
PROPERTY IterEnds
CHECK_DEADLOCK FALSE
