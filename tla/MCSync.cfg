\* Three callers, two keys, one Forget and one function that panics; three goroutines, two keys, two runs
\* and a Reset; two senders, two workers and two calls of Stop.
SPECIFICATION MCSpec
CONSTANTS
  g1 = g1  g2 = g2  g3 = g3  k1 = k1  k2 = k2
  s1 = s1  s2 = s2  w1 = w1  w2 = w2  q1 = q1  q2 = q2
  Callers = {g1, g2, g3}
  Keys = {k1, k2}
  MaxCalls = 3
  MaxOps = 1
  MaxForgets = 1
  MaxPanics = 1
  Goroutines = {g1, g2, g3}
  RunKeys = {k1, k2}
  Nobody = Nobody
  MaxRuns = 2
  MaxResets = 1
  Senders = {s1, s2}
  Workers = {w1, w2}
  Stoppers = {q1, q2}
  Capacities = {0, 1}
  MaxSends = 1
INVARIANTS OneInFlight SharedIsTrue OneWorkerFirst
PROPERTIES ForgetIsFresh EveryCallerReturns SleeperReleased MailsGoOut
CHECK_DEADLOCK FALSE
