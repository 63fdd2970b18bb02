SPECIFICATION Spec
CHECK_DEADLOCK FALSE
CONSTANTS
  None = None
  Dll <- MCDll
  DLL_ID_MAX = 2
  NoText = ""
  IndexedAt <- MCIndexedAt
  Extended = {5, 7}
  ClassAt <- MCClassAt
  ListHeader = 16
  PairSize = 8
  Short = Short
  MaxSamples = 1
  MaxRuns = 1
  ScopeFits <- MCScopeFits
  Vars = {"met", "seen"}
  IntVals = {"4"}
  OtherVals = {}
  Unset = Unset
  Uninterpreted = Uninterpreted
  PyIntVals = {"+5"}
  TokenFits <- MCTokenFits
  Mentions <- MCMentions
  MaxRecords = 2
  MaxLines = 1
  Class31 <- MCClass31
  Payloads <- MCPayloads
  ListPayloads <- MCListPayloads
  ActionRecords <- MCActionRecords
  MaxActions = 2
  Artifacts <- MCArtifacts
  Dlls <- MCDlls
INVARIANTS
  ConversationsAccount VocabularyAccounts ReportedCountsAreFound
  PythonAgreesWithEngine TraceMatchesDispatch
