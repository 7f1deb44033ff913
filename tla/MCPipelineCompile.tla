------------------------- MODULE MCPipelineCompile -------------------------
(* A small instance of PipelineCompile: two sources, one of them with two
   records of one key, and few configurations of each kind of step. *)
EXTENDS PipelineCompile

CONSTANT p1

MCData == [A |-> {"a1", "a2", "a3"}, B |-> {"b1", "b2"}]
MCKey == [a1 |-> "k1", a2 |-> "k2", a3 |-> "k2", b1 |-> "k2", b2 |-> "k3"]
MCValue == [a1 |-> "k1", a2 |-> "k1", a3 |-> "k2", b1 |-> "k3", b2 |-> "k3"]
MCRows == {"a1", "a2", "a3", "b1", "b2"}
Scalar(rows) == [kind |-> "scalar", holds |-> rows]
Cross(source) == [kind |-> "exists", other |-> source]
Dup == [kind |-> "duplicate"]
Blank == [kind |-> "blank"]
Config(conds, logic) == [conds |-> conds, logic |-> logic]
MCFilters == {Config(<<Scalar({"a1", "a3", "b1"})>>, "all"),
              Config(<<Blank, Scalar({"a3", "b1"})>>, "any")}
MCChecks == {Config(<<>>, "all"), Config(<<Dup, Blank>>, "all"),
             Config(<<Scalar({"a2", "b1"}), Scalar({"a3", "b2"})>>, "any"),
             Config(<<Cross("B"), Scalar({"a1", "a2", "a3"})>>, "all")}
MCCustoms == {{"a1", "a2", "b2"}}
MCDefined == <<p1>>
============================================================================
