SPECIFICATION Spec
CHECK_DEADLOCK FALSE
CONSTANTS
  Vars = {"met", "phase"}
  IntVals = {"4"}
  OtherVals = {}
  Unset = Unset
  Uninterpreted = Uninterpreted
  Triggers <- MCTriggers
  Places <- MCPlaces
  Catalog <- MCCatalog
  Scene <- MCScene
  MaxSteps = 6
INVARIANTS
  SimulationClosedForm TotalsAccount
  EngineAgreesWithShell TimelineExplainsValues
