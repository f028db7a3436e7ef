SPECIFICATION RunModeSpec
CONSTANTS
  Rows <- MCRows
  Reloaders = {1, 2}
  Callers = {3, 4}
  Scenarios <- MCScenarios
INVARIANTS
  CachesAreTrue
PROPERTIES
  AnswersAreTrue
  VisitorsGetTheirStore
  EveryoneReturns
CHECK_DEADLOCK FALSE
