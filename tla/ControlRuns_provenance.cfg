SPECIFICATION Spec
CONSTANTS
  Ids = {"c"}
  Procs = {"P1", "P2"}
  Whole = Whole
  Plain = Plain
  Pipelines <- MCPipelines
  ChecksOf <- MCChecksOf
  Checks = {"k0", "k1", "k2", "k3"}
  Items = {"x", "y"}
  Limits = {0, 1}
  Inherit = Inherit
  Contents = {"v1", "v2"}
  NoData = NoData
  Found <- MCFound
  Unreadable = {}
  Failing <- MCFailing
  Rows <- OneRow
  NoControl = NoControl
  NoPaper = NoPaper
  Torn = Torn
  Mixed = Mixed
  Requests = {1}
  MaxEdits = 1
  MaxCrashes = 0
  Overlap = FALSE
INVARIANTS ProvenanceTrue
