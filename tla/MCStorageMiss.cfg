SPECIFICATION MCSpec
CONSTANTS
  Keys = {"a", "b"}
  ByteLen <- MCByteLen
  Callers = {1, 2}
  Services <- MCServices
  p1 = p1  p2 = p2
  Procs = {p1, p2}
  Closers = {c1}
  Fails = {"prepare", "read", "write"}
  MaxCalls = 3
  Backends <- TwoBackends
  Faulty = {"b1"}
  Timeouts = TRUE
  MaxSets = 2
PROPERTIES StoredIsFound
CHECK_DEADLOCK FALSE
