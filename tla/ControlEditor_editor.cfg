SPECIFICATION Spec
CONSTANTS
  Ids = {c1, c2}
  Sources = {"s1", "s2", "gone"}
  Missing = {"gone"}
  Tests = {"t1", "t2", "unsafe"}
  Unsafe = {"unsafe"}
  Graphs <- MCGraphs
  Pure <- MCPure
  Rules <- MCRules
  Codes = {k}
  Metas = {m}
  Notes = {}
  NoNote = NoNote
  NoControl = NoControl
  NoGraph = NoGraph
  NoRule = NoRule
  NoCode = NoCode
  MaxWaiting = 1
SYMMETRY AnyId
INVARIANTS TypeOK LogicConsistent BindingsCoverLogic SavesKeepLogic
