CONSTANTS
  p = p
  q = q
  r = r
  v = v
  w = w
  bad = bad
  NULL = NULL
  Unset = Unset
  Thread = {p, q, r}
  Appender = {p}
  Assigned <- MCAssigned
  Value = {v, w, bad}
  BadValues = {bad}
  MaxLen = 3
  MaxChunks = 4
SPECIFICATION Spec
INVARIANT ChunksOwned
PROPERTY ImplementsShared
