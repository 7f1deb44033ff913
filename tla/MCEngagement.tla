---------------------------- MODULE MCEngagement ----------------------------
(* A demo of one control with two procedures, and a control of the user's own
   on a source of his. *)
EXTENDS Engagement

CONSTANTS r1, r2
Threads == Permutations(Requests)

MCSourceOf == [c \in Controls |-> IF c = "demo" THEN "shipped" ELSE "own"]
MCGraphs == [c \in Controls |-> IF c = "demo" THEN {<<"p", "q">>, <<"p">>}
                                              ELSE {<<"">>}]
MCDemoGraph == "demo" :> <<"p", "q">>
=============================================================================
