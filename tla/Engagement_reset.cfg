SPECIFICATION Spec
CONSTANTS
  Controls = {"demo", "mine"}
  Sources = {"shipped", "own"}
  SourceOf <- MCSourceOf
  Whole = ""
  Graphs <- MCGraphs
  Absent = Absent
  Torn = Torn
  DemoGraph <- MCDemoGraph
  DemoSources = {"shipped"}
  Keys = {"ai"}
  Values = {"v"}
  Unset = Unset
  Requests = {r1, r2}
  r1 = r1
  r2 = r2
  MaxRuns = 2
  MaxEdits = 1
  MaxLoads = 2
  MaxExports = 1
  MaxDeaths = 1
  MaxEvents = 4
SYMMETRY Threads
INVARIANT SettingsKept
PROPERTIES  BundleCurrent BundleWhole
CHECK_DEADLOCK FALSE
