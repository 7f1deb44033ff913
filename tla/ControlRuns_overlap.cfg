SPECIFICATION Spec
CONSTANTS
  Ids = {"c", "d"}
  Procs = {"P1", "P2"}
  Whole = Whole
  Plain = Plain
  Pipelines <- MCPipelines
  ChecksOf <- MCChecksOf
  Checks = {"k0", "k1", "k2", "k3"}
  Items = {"x", "y"}
  Limits = {0, 1}
  Inherit = Inherit
  Contents = {"v4"}
  NoData = NoData
  Found <- MCFound
  Unreadable = {}
  Failing <- MCFailing
  Rows <- TwoAndPlain
  NoControl = NoControl
  NoPaper = NoPaper
  Torn = Torn
  Mixed = Mixed
  Requests = {r1, r2}
  MaxEdits = 2
  MaxCrashes = 1
  Overlap = TRUE
SYMMETRY AnyRequest
INVARIANTS NoOrphanRuns FanOutComplete DeliverablesBacked DeliverablesAgree
PROPERTIES RunsAreALedger
