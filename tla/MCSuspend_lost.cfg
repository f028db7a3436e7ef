SPECIFICATION FairSpec
CONSTANTS
  Goroutines = {g1, g2, g3}
  Keys = {k1}
  Nobody = Nobody
  MaxRuns = 2
  MaxResets = 0
PROPERTY EveryWaiterReleased
CHECK_DEADLOCK FALSE
