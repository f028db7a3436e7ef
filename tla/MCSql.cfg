\* Every form of a statement with one goroutine and up to three calls, some with a second goroutine; two workers
\* and up to four rows; two goroutines that change the tables.
SPECIFICATION MCSpec
CONSTANTS
  p1 = p1
  p2 = p2
  Procs = {p1, p2}
  Cases <- MCCases
  Workers = {w1, w2}
  MaxRows = 4
  Names = {"t1", "t2"}
  Goroutines = {1, 2}
  Scenarios <- MCScenarios
INVARIANTS HistoryDoesNotMatter ValuesArrive
PROPERTIES EveryRowOrAnError TablesAreTrue
CHECK_DEADLOCK FALSE
