CONSTANTS
  x = x
  y = y
  Vars = {x, y}
  IntVals = {"42"}
  OtherVals = {"maybe"}
  Unset = Unset
  Uninterpreted = Uninterpreted
  Starts <- MCStarts
  MaxEffects = 3
SPECIFICATION LoopSpec
INVARIANTS
  LoopComputesDispatch
  MutationsExplainValues
CHECK_DEADLOCK FALSE
