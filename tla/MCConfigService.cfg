\* Two goroutines, a cache, encoding observers that come and go, storages that fail.
SPECIFICATION Spec
CONSTANTS
  p1 = p1  p2 = p2  v1 = v1  v2 = v2
  None = None
  Procs = {p1, p2}
  Values = {v1, v2}
  HasLevel1 = TRUE
  Setups <- MCSetups
  Faults = TRUE
  MaxOps = 3
  MaxOthers = 1
SYMMETRY Symmetry
INVARIANTS NearestOfferWins StoredFirst DecodedOnce FlushedAgrees
CHECK_DEADLOCK FALSE
