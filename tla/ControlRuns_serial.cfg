SPECIFICATION Spec
CONSTANTS
  Ids = {"c"}
  Procs = {"P1", "P2"}
  Whole = Whole
  Plain = Plain
  Pipelines <- MCPipelines
  ChecksOf <- MCChecksOf
  Checks = {"k0", "k1", "k2", "k3"}
  Items = {"x", "y"}
  Limits = {0, 1}
  Inherit = Inherit
  Contents = {"v1", "v2", "v3", "bad"}
  NoData = NoData
  Found <- MCFound
  Unreadable = {"bad"}
  Failing <- MCFailing
  Rows <- AllRows
  NoControl = NoControl
  NoPaper = NoPaper
  Torn = Torn
  Mixed = Mixed
  Requests = {1, 2}
  MaxEdits = 2
  MaxCrashes = 1
  Overlap = FALSE
INVARIANTS TypeOK FanOutComplete
