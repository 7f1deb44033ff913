--------------------------- MODULE MCControlRuns ---------------------------
(* Small instances of ControlRuns: procedures P1 (two checks) and P2 over one
   data file, and the plain control. *)
EXTENDS ControlRuns, TLC

MCPipelines == {<<"P1", "P2">>, <<"P1">>, <<>>}
MCChecksOf == [p \in Procs \cup {Whole} |->
                 CASE p = "P1" -> <<"k1", "k2">>
                   [] p = "P2" -> <<"k3">>
                   [] OTHER -> <<"k0">>]
MCFound ==
  [v \in Contents |-> [k \in Checks |->
     CASE v = "v1" -> (CASE k = "k1" -> {"x"} [] k = "k2" -> {"y"} [] OTHER -> {})
       [] v = "v2" -> (CASE k = "k3" -> {"x"} [] OTHER -> {})
       [] OTHER    -> (CASE k = "k1" -> {"x"} [] k = "k3" -> {"y"} [] OTHER -> {})]]
MCFailing == [v \in Contents |-> IF v = "v3" THEN {"k3"} ELSE {}]
Inheriting == [p \in Procs |-> Inherit]
Row(ps, n) == [procs |-> ps, limit |-> n, own |-> Inheriting]
AllRows == {Row(ps, 0) : ps \in Pipelines \cup {Plain}}
OneRow == {Row(<<"P1", "P2">>, 0)}
TwoProcRows == {Row(<<"P1", "P2">>, n) : n \in Limits}
TwoAndPlain == {Row(<<"P1", "P2">>, 0), Row(Plain, 0)}
AnyRequest == Permutations(Requests)
============================================================================
