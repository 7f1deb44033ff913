-------------------------- MODULE MCControlEditor --------------------------
(* Small instances of ControlEditor: two graphs over one source, a pure one
   whose conditions name a source without a row and one with code that names
   another source, and one that the linter refuses. *)
EXTENDS ControlEditor, TLC

MCGraph(imports, others, t) ==
  [imports |-> imports, fed |-> imports, needs |-> imports, others |-> others, test |-> t]
MCPure == {MCGraph({"s1"}, {"gone"}, "t1")}
MCGraphs == MCPure \cup
  {MCGraph({"s1"}, {"s2"}, "t2"), MCGraph({"s2"}, {}, "unsafe")}
MCRules == {[test |-> "t1", others |-> {"s2"}]}
AnyId == Permutations(Ids)
============================================================================
