SPECIFICATION Spec
CHECK_DEADLOCK FALSE
CONSTANTS
  None = None
  NotANumber = NotANumber
  Separators = {" ", "_", "-"}
  Lower <- MCLower
  NO_SEQ = 9
  ENTRY_CAP = 1
  SEQ_CAP = 2
  VIEW_CAP = 1
  RECORD_CAP = 1
  FIELD_CAP = 1
  SCRIPT_CLASSES = {"VCScene"}
  CLASS_IDS = {49, 50}
  MaxRuns = 2
  Inputs <- MCInputs
INVARIANTS
  SceneFilesTogether DatabaseIsOneRun WrittenBehindWhatItNames ScenesTellTheTables
