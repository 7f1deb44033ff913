--------------------------- MODULE MCStepPreview ---------------------------
(* A small instance of StepPreview: a Test that the author edits, on an
   Import. *)
EXTENDS StepPreview

CONSTANTS t1, t2
Threads == Permutations(Requests)

Step(type, inputs, config) ==
  [type |-> type, source |-> "A", inputs |-> inputs, config |-> config, proc |-> NoProc]
Chain(test) == [order |-> <<1, 2>>, procs |-> <<>>,
                node |-> <<Step("import", <<>>, "c0"), Step("test", <<1>>, test)>>]
MCGraphs == {Chain("c0"), Chain("c1")}

\* The edited Test raises on the rows of the second file, the third does not load.
MCFaults == {[steps |-> Chain("c1").node, data |-> {<<"A", 2>>}]}
MCUnreadable == {<<"A", 3>>}
============================================================================
