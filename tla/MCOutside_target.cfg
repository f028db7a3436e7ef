\* An option for a store that has got the configuration of its website by fall-back.
SPECIFICATION MCSpec
CONSTANTS
  ChanCap = 1
  Tables = {"t1", "t2"}
  Include = {}
  Exclude = {}
  MaxFiles = 3
  Handlers <- MCHandlers
  Statements <- MCStatements
  Scenarios <- MCScenarios
  Default = "d"
  Parent <- MCParent
  Level <- MCLevel
  Requests = {1, 2}
  Options <- MCOptions
  Factories <- MCFactories
  MaxChanges = 2
PROPERTY OnlyTheTargetChanges
CHECK_DEADLOCK FALSE
