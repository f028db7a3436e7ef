\* Five scenarios of a log and its canal; two requests for three scopes, with two options at run time.
SPECIFICATION MCSpec
CONSTANTS
  ChanCap = 1
  Tables = {"t1", "t2"}
  Include = {}
  Exclude = {}
  MaxFiles = 3
  Handlers <- MCHandlers
  Statements <- MCStatements
  Scenarios <- MCScenarios
  Default = "d"
  Parent <- MCParent
  Level <- MCLevel
  Requests = {1, 2}
  Options <- MCOptions
  Factories <- MCFactories
  MaxChanges = 2
INVARIANTS SyncedMeansHandled StructureIsRecent LoadedBefore
PROPERTIES CloseEnds StreamFollowsTheLog ResultIsEffective
CHECK_DEADLOCK FALSE
