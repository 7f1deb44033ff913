SPECIFICATION BuilderSpec
CONSTANTS
  MaxSteps = 4
  NodeIds = {1, 2, 3, 4}
  Sources = {"A", "B"}
  p1 = p1
  ProcIds = {p1, gone}
  NoProc = NoProc
  Configs = {}
  Rows <- MCRows
  Keys = {"k1", "k2", "k3"}
  DataOf <- MCData
  KeyOf <- MCKey
  ValueOf <- MCValue
  Filters <- MCFilters
  Checks <- MCChecks
  Modes = {"exists"}
  Customs <- MCCustoms
  Defined <- MCDefined
INVARIANTS ChecksMatchPreview TraceMatchesRun EveryTestOnce BandsInOrder
CHECK_DEADLOCK FALSE
