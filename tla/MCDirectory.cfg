CONSTANTS
  one = one
  two = two
  Proc = {one, two}
  NFiles = 3
  MaxCrashes = 1
  MaxFailures = 1
SPECIFICATION Spec
INVARIANTS TypeOK OpenedWhole NothingLeftBehind
PROPERTIES SafeStays RetriesSucceed
