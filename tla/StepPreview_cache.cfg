SPECIFICATION Spec
CONSTANTS
  NodeIds = {1, 2}
  Sources = {"A"}
  ProcIds = {}
  NoProc = NoProc
  Configs = {"c0", "c1"}
  Graphs <- MCGraphs
  Requests = {t1, t2}
  MaxAsked = 3
  t1 = t1
  t2 = t2
  Cap = 2
  MaxFiles = 3
  Unreadable <- MCUnreadable
  Faults <- MCFaults
SYMMETRY Threads
INVARIANTS CacheHonest PreviewHonest PreviewGiven CacheBounded
CHECK_DEADLOCK FALSE
