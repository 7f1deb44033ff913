----------------------------- MODULE Pipelines -----------------------------
(***************************************************************************)
(* The pipeline graph of a control (pipeline/model.py) and its procedures  *)
(* (pipeline/procedures.py).                                               *)
(*                                                                         *)
(* A pipeline is its node ids in declared order, the nodes, and the ids of *)
(* its defined procedures in position order.  A Test node names at most    *)
(* one procedure; the name of a procedure that is gone is tolerated.       *)
(***************************************************************************)
EXTENDS Naturals, Sequences, FiniteSets, SequencesExt, Lists

CONSTANTS
  NodeIds,  \* ids of nodes
  Sources,  \* ids of sources
  ProcIds,  \* ids of procedures a Test may name
  NoProc,   \* a Test that names none
  Configs   \* what else a node is configured with; of no concern here

NodeTypes == {"import", "filter", "join", "transform", "test", "check"}
\* "transform" and "check" are the two flavors of a custom_python node.
TerminalTypes == {"test", "check"}

ASSUME IdsAssumption == NodeIds \cap ProcIds = {} /\ NoProc \notin ProcIds \cup NodeIds

Node == [type : NodeTypes, source : Sources, inputs : Seq(NodeIds),
         config : Configs, proc : ProcIds \cup {NoProc}]

\* g.order: node ids in declared order; g.node: the nodes; g.procs: procedures.
Ids(g) == DOMAIN g.node
InputsOf(g, n) == Range(g.node[n].inputs)
TypeOf(g, n) == g.node[n].type
----------------------------------------------------------------------------
(* Closures *)

\* n, its inputs, their inputs and so on, after i rounds.
Reached(g, n) ==
  LET upTo[i \in 0..Len(g.order)] ==
        IF i = 0 THEN {n}
        ELSE LET nearer == upTo[i - 1]
             IN nearer \cup UNION {InputsOf(g, m) : m \in nearer \cap Ids(g)}
  IN upTo
\* _ancestors, _ancestor_closure and the visits of the slices: all of them.
Ancestors(g, n) == Reached(g, n)[Len(g.order)]

----------------------------------------------------------------------------
(* Parsing *)

Consumed(g) == UNION {InputsOf(g, n) : n \in Ids(g)}
Sinks(g) == Ids(g) \ Consumed(g)
Terminals(g) == {n \in Sinks(g) : TypeOf(g, n) \in TerminalTypes}

\* _reject_cycles
Acyclic(g) ==
  \A n \in Ids(g) : \A m \in InputsOf(g, n) : n \notin Ancestors(g, m)

\* The list of the nodes has every id once.
Listed(g) ==
  /\ g.order \in Seq(Ids(g)) /\ Range(g.order) = Ids(g)
  /\ IsInjective(g.order)
\* parse_pipeline: _parse_node, _validate_inputs, _reject_cycles and
\* _validate_terminal, and that no id is given twice.  A Filter, Test or custom
\* node may have inputs to spare.
Arity(type, k) ==
  CASE type = "import" -> k = 0
    [] type = "join" -> k = 2
    [] OTHER -> k >= 1
Parses(g) ==
  /\ Listed(g) /\ IsInjective(g.procs)
  /\ \A n \in Ids(g) :
        /\ Arity(TypeOf(g, n), Len(g.node[n].inputs))
        /\ InputsOf(g, n) \subseteq Ids(g) \ {n}
  /\ Acyclic(g)
  /\ Sinks(g) = Terminals(g)
  /\ Terminals(g) # {}

\* Pipeline.import_source_ids: declared order, each source once.
ImportSources(g) ==
  LET imports == Only(g.order, {n \in Ids(g) : TypeOf(g, n) = "import"})
  IN Distinct([i \in DOMAIN imports |-> g.node[imports[i]].source])

\* Mutant: the nodes in declared order.
Declared(g) == g.order
\* Kahn's algorithm with a first-in first-out queue; the in-degree of c reaches
\* 0 when the last of its inputs, n, is emitted.
Freed(g, n, out) ==
  Only(g.order, {c \in Ids(g) : n \in InputsOf(g, c) /\ InputsOf(g, c) \subseteq Range(out)})
Kahn(g) ==
  LET kahn[i \in 0..Len(g.order)] ==
        IF i = 0 THEN [ready |-> Only(g.order, {n \in Ids(g) : InputsOf(g, n) = {}}), out |-> <<>>]
        ELSE LET before == kahn[i - 1]
                 n == Head(before.ready)
                 out == Append(before.out, n)
             IN IF before.ready = <<>> THEN before
                ELSE [ready |-> Tail(before.ready) \o Freed(g, n, out), out |-> out]
  IN kahn
\* Pipeline.topological
Topological(g) == Kahn(g)[Len(g.order)].out
----------------------------------------------------------------------------
(* Procedures *)

\* Mutant: a Test whose procedure is gone is no orphan.
Unassigned(g, t) == g.node[t].proc = NoProc
\* effective_procedures: no procedure, or one that is not defined any more.
Orphan(g, t) == g.node[t].proc \notin Range(g.procs)

\* effective_procedures: the defined ones by position, then one for every
\* orphan, in declared order, under the id of the Test.
EffectiveProcs(g) ==
  g.procs \o Only(g.order, {t \in Terminals(g) : Orphan(g, t)})

\* tests_for_procedure
TestsFor(g, p) ==
  IF p \in Range(g.procs) THEN {t \in Terminals(g) : g.node[t].proc = p}
                          ELSE {t \in Terminals(g) : t = p}

\* derived_membership: a node belongs to the procedures of the Tests it feeds.
Membership(g) ==
  LET closure == [t \in Terminals(g) |-> Ancestors(g, t)]
      tests == [p \in Range(EffectiveProcs(g)) |-> TestsFor(g, p)]
  IN [n \in Ids(g) |-> {p \in DOMAIN tests : \E t \in tests[p] : n \in closure[t]}]

\* group_nodes_by_band: the procedure whose band shows n, or NoProc for the
\* shared one, which also holds all Imports.
BandOf(g, member, n) ==
  IF TypeOf(g, n) # "import" /\ Cardinality(member[n]) = 1
  THEN CHOOSE p \in member[n] : TRUE ELSE NoProc

\* The flattened order: the shared band, then the procedures by position.
BandOrder(g) ==
  LET member == Membership(g)
      band == [n \in Ids(g) |-> BandOf(g, member, n)]
      topological == Topological(g)
      procs == <<NoProc>> \o EffectiveProcs(g)
  IN FlattenSeq([i \in DOMAIN procs |->
                   Only(topological, {n \in Ids(g) : band[n] = procs[i]})])
============================================================================
