\* Eight combinations of cache storages; two callers, the daemon and a Close, with a server that may refuse
\* anything; two calls of Set with a backend that may fail or hang and a timeout.
SPECIFICATION MCSpec
CONSTANTS
  Keys = {"a", "b"}
  ByteLen <- MCByteLen
  Callers = {1, 2}
  Services <- MCServices
  p1 = p1  p2 = p2
  Procs = {p1, p2}
  Closers = {c1}
  Fails = {"prepare", "read", "write"}
  MaxCalls = 3
  Backends <- TwoBackends
  Faulty = {"b1"}
  Timeouts = TRUE
  MaxSets = 2
INVARIANTS LruIsTrue LevelsAgree StatementUse
PROPERTIES ReadsWhatWasSet StatementsGetClosed WrittenEverywhere
CHECK_DEADLOCK FALSE
