-------------------------- MODULE PipelineCompile --------------------------
(***************************************************************************)
(* What a pipeline flags, by each of the four ways the code computes it:   *)
(* the compiled artifact of a check (pipeline/compile.py, rules/, run by   *)
(* runner/execute.py), the preview of every step (pipeline/materialize.py  *)
(* and rowcounts.py) and the trace of one record (pipeline/trace.py).      *)
(* An author builds the graph step by step in the Builder.                 *)
(*                                                                         *)
(* A frame is a set of rows.  Of a row the model keeps its key, the value  *)
(* of one more column, and which single-column conditions hold for it;     *)
(* columns that a join or custom code adds are left out.                   *)
(***************************************************************************)
EXTENDS Pipelines

CONSTANTS
  Rows,       \* the rows of all sources
  Keys,       \* what is in a row's key column
  DataOf,     \* the rows of each source
  KeyOf,      \* the key of each row
  ValueOf,    \* the value in a column that is_duplicate may look at
  Filters,    \* configurations a Filter may get
  Checks,     \* configurations a Test may get
  Modes,      \* modes a Join may get
  Customs,    \* rows a Custom Python node may keep
  Defined,    \* the procedures the author has defined, by position
  MaxSteps    \* bound on the nodes of a graph

\* Single-column operators, is_duplicate, the cross-source ones, and a row of
\* the Builder that is not filled in yet.
Conds == [kind : {"scalar"}, holds : SUBSET Rows]
           \cup [kind : {"duplicate", "blank"}]
           \cup [kind : {"exists", "not_exists"}, other : Sources]
JoinModes == {"exists", "not_exists", "inner", "left"}

ASSUME DataAssumption ==
  /\ DataOf \in [Sources -> SUBSET Rows]
  /\ KeyOf \in [Rows -> Keys]
  /\ ValueOf \in [Rows -> Keys]
  /\ Modes \subseteq JoinModes
  /\ \A c \in Filters \cup Checks :
       /\ c.logic \in {"all", "any"}
       /\ c.conds \in Seq(Conds)
  /\ Defined \in Seq(ProcIds)
  /\ MaxSteps \in Nat
  /\ NodeIds = 1..MaxSteps

VARIABLE graph  \* what the Builder's form would post
----------------------------------------------------------------------------
(* Conditions *)

\* _usable_conditions
Usable(conds) == Only(conds, {c \in Range(conds) : c.kind # "blank"})
CrossSource(c) == c.kind \in {"exists", "not_exists"}
KeysOf(rows) == {KeyOf[r] : r \in rows}

\* is_duplicate: Series.duplicated(keep=False), relative to the frame.
Duplicate(r, frame) == \E q \in frame \ {r} : ValueOf[q] = ValueOf[r]

\* _condition_mask, and _mask_expr, which mirrors it.
Passes(c, r, frame) ==
  CASE c.kind = "scalar" -> r \in c.holds
    [] c.kind = "duplicate" -> Duplicate(r, frame)
    [] c.kind = "exists" -> KeyOf[r] \in KeysOf(DataOf[c.other])
    [] c.kind = "not_exists" -> KeyOf[r] \notin KeysOf(DataOf[c.other])

\* The combined mask of evaluate_rule, _emit_filter and _emit_terminal_rule.
Select(conds, logic, frame) ==
  {r \in frame : IF logic = "all"
                 THEN \A i \in DOMAIN conds : Passes(conds[i], r, frame)
                 ELSE \E i \in DOMAIN conds : Passes(conds[i], r, frame)}

\* A rule without conditions flags nothing: evaluate_rule and the terminals.
Flagged(conds, logic, frame) ==
  IF conds = <<>> THEN {} ELSE Select(conds, logic, frame)
----------------------------------------------------------------------------
(* The node semantics that _emit_node_lines, _emit_terminal and            *)
(* _emit_terminal_frame share                                              *)

\* _emit_join: a merge keeps the left rows it finds a partner for, or all;
\* drop_duplicates leaves one partner for each.
Join(mode, left, right) ==
  CASE mode \in {"exists", "inner"} -> {r \in left : KeyOf[r] \in KeysOf(right)}
    [] mode = "not_exists" -> {r \in left : KeyOf[r] \notin KeysOf(right)}
    [] mode = "left" -> left

\* _emit_filter: without conditions the rows pass through.
Narrowed(config, frame) ==
  IF Usable(config.conds) = <<>> THEN frame
  ELSE Select(Usable(config.conds), config.logic, frame)

\* The frame at a node over the frames of its inputs; an Import of source s
\* reads data[s].
Stream(node, data, out) ==
  LET rows == out[node.inputs[1]]
  IN CASE node.type = "import" -> data[node.source]
       [] node.type = "filter" -> Narrowed(node.config, rows)
       [] node.type = "join" -> Join(node.config.mode, rows, out[node.inputs[2]])
       [] node.type \in {"transform", "check"} -> rows \cap node.config.keep
       [] node.type = "test" ->
            Flagged(Usable(node.config.conds), node.config.logic, rows)
\* The frame at every node.
Streams(g, data) ==
  LET out[n \in Ids(g)] == Stream(g.node[n], data, out)
  IN out

\* A Test that feeds a node: neither emitter assigns its frame, and what a
\* custom check returns is a list, so the code that reads it raises.
Evaluates(g) == \A n \in Consumed(g) : TypeOf(g, n) \notin TerminalTypes
----------------------------------------------------------------------------
(* Compiling *)

\* _subpipeline_for_terminals
Slice(g, tests) ==
  LET keep == UNION {Ancestors(g, t) : t \in tests}
  IN [order |-> Only(g.order, keep),
      node |-> [n \in keep |-> g.node[n]], procs |-> <<>>]

Terminal(g) == CHOOSE t \in Terminals(g) : TRUE
FiltersOf(g) == Only(Topological(g), {n \in Ids(g) : TypeOf(g, n) = "filter"})

\* _is_pure_single_source
PureSingleSource(g) ==
  /\ Cardinality(Terminals(g)) = 1
  /\ Len(ImportSources(g)) = 1
  /\ \A n \in Ids(g) : TypeOf(g, n) \in {"import", "filter", "test"}

\* _walk_linear_filter_chain: no fan-in, no Test on the way, one logic.
LinearChain(g) ==
  \A n \in Ids(g) :
    \/ TypeOf(g, n) = "import"
    \/ /\ Len(g.node[n].inputs) = 1
       /\ n # Terminal(g) =>
            /\ TypeOf(g, n) = "filter"
            /\ g.node[n].config.logic = g.node[Terminal(g)].config.logic

\* _build_flat_spec: the conditions of the Filters, then those of the Test.
FlatConds(g) ==
  FlattenSeq([i \in DOMAIN FiltersOf(g) |-> Usable(g.node[FiltersOf(g)[i]].config.conds)])
    \o Usable(g.node[Terminal(g)].config.conds)

\* Mutant: Filters are flattened into a Test of any logic.
FlatAnyway(g) == PureSingleSource(g) /\ LinearChain(g) /\ FlatConds(g) # <<>>
\* _try_pure_rule_spec gives a rule.
Flattens(g) ==
  /\ PureSingleSource(g)
  /\ LinearChain(g)
  /\ FiltersOf(g) # <<>> => g.node[Terminal(g)].config.logic = "all"
  /\ FlatConds(g) # <<>>

\* _save_pipeline_graph: Import sources first, then those of the conditions.
\* The other sources are appended one by one; only the first counts here.
PrimaryOf(g) == Head(ImportSources(g))

\* _emit_node_lines: an Import of the first source of the compiled graph reads
\* pop.df, the others read sources[...].df.
TestData(g, pop) == [s \in Sources |-> IF s = PrimaryOf(g) THEN pop ELSE DataOf[s]]

\* What compile_pipeline(g) flags when it runs with population pop: the rule
\* over pop, or the union of what test(pop, sources) collects.
CompiledFlags(g, pop) ==
  IF Flattens(g)
  THEN Select(FlatConds(g), g.node[Terminal(g)].config.logic, pop)
  ELSE LET frames == Streams(g, TestData(g, pop)) IN UNION {frames[t] : t \in Terminals(g)}

\* _run_procedure_checks: each Test of a graph is compiled from its own slice,
\* and run_control hands it the first source the control is bound to.
CheckFlags(g, t) == CompiledFlags(Slice(g, {t}), DataOf[PrimaryOf(g)])
\* The artifact that is stored with the control.
TestFlags(g) == CompiledFlags(g, DataOf[PrimaryOf(g)])
----------------------------------------------------------------------------
(* Preview and trace *)

CondsOf(g, n) == Range(Usable(g.node[n].config.conds))
\* materialize_steps: sources is not in scope there, so that a cross-source
\* condition raises and the preview of the whole graph is empty.
Previewed(g) ==
  /\ Evaluates(g)
  /\ \A n \in Ids(g) : TypeOf(g, n) \in {"filter", "test"} =>
       \A c \in CondsOf(g, n) : ~CrossSource(c)
PreviewFrames(g) == Streams(g, DataOf)

\* trace_record can follow the records of its first Import, by their keys.
TracedKeys(g) ==
  LET first == CHOOSE n \in Ids(g) : /\ TypeOf(g, n) = "import"
                                     /\ g.node[n].source = PrimaryOf(g)
  IN KeysOf(DataOf[g.node[first].source])

\* _trace_frames: the preview, or the raw frames of the Imports without one.
FrameKnown(g, n) == Previewed(g) \/ TypeOf(g, n) = "import"
\* Without a preview _build_test_step still judges a Test that reads an Import,
\* unless a blank condition makes parse_rule_spec raise.
JudgedByConditions(g, t) ==
  /\ ~Previewed(g) /\ TypeOf(g, t) = "test"
  /\ g.node[t].config.conds # <<>>
  /\ Usable(g.node[t].config.conds) = g.node[t].config.conds
  /\ TypeOf(g, g.node[t].inputs[1]) = "import"
InputRows(g, t, k) == {r \in DataOf[g.node[g.node[t].inputs[1]].source] : KeyOf[r] = k}
Judged(g, t, k) == FrameKnown(g, t) \/ (JudgedByConditions(g, t) /\ InputRows(g, t, k) # {})

\* Mutant: any condition that holds is taken for a verdict.
AnyPasses(g, t, r) ==
  \E c \in CondsOf(g, t) : Passes(c, r, DataOf[g.node[g.node[t].inputs[1]].source])
\* _condition_rows and the all(passes) or any(passes) over them.
RowFails(g, t, r) ==
  r \in Select(g.node[t].config.conds, g.node[t].config.logic,
               DataOf[g.node[g.node[t].inputs[1]].source])
\* The flagged field of _build_test_step; of several records with one key only
\* the first is judged by conditions (here: any of them may be that one).
TraceFlagged(g, t, k) ==
  IF FrameKnown(g, t) THEN k \in KeysOf(PreviewFrames(g)[t])
  ELSE \E r \in InputRows(g, t, k) : RowFails(g, t, r)
----------------------------------------------------------------------------
(* The Builder *)

BuilderInit == graph = [order |-> <<>>, node |-> <<>>, procs |-> Defined]

NoSource == CHOOSE s \in Sources : TRUE
NoConfig == [conds |-> <<>>, logic |-> "all"]
Steps == Ids(graph)
New == Len(graph.order) + 1
Room == New <= MaxSteps

Repointed(inputs, up) == [i \in DOMAIN inputs |-> IF inputs[i] = up THEN New ELSE inputs[i]]
\* insertStep: the new step is declared last and reads up; a step down that
\* read up reads the new step instead.
Insert(type, source, inputs, down, config, proc) ==
  LET node == [type |-> type, source |-> source, inputs |-> inputs,
               config |-> config, proc |-> proc]
  IN graph' = [order |-> Append(graph.order, New),
               node |-> Append([m \in Steps |->
                                  IF m \in down
                                  THEN [graph.node[m] EXCEPT !.inputs = Repointed(@, inputs[1])]
                                  ELSE graph.node[m]],
                               node),
               procs |-> graph.procs]
\* The step that the gap below up leads to, if any.
Below(up) == {{}} \cup {{m} : m \in {m \in Steps : up \in InputsOf(graph, m)}}

AddImport ==
  /\ Room
  /\ \E s \in Sources : Insert("import", s, <<>>, {}, NoConfig, NoProc)
AddFilter ==
  /\ Room
  /\ \E up \in Steps, f \in Filters : \E down \in Below(up) :
       Insert("filter", NoSource, <<up>>, down, f, NoProc)
AddJoin ==
  /\ Room
  /\ \E up, right \in Steps, m \in Modes : \E down \in Below(up) :
       Insert("join", NoSource, <<up, right>>, down, [mode |-> m], NoProc)
AddTransform ==
  /\ Room
  /\ \E up \in Steps, rows \in Customs : \E down \in Below(up) :
       Insert("transform", NoSource, <<up>>, down, [keep |-> rows], NoProc)
AddTest ==
  /\ Room
  /\ \E up \in Steps, c \in Checks, p \in ProcIds \cup {NoProc} : \E down \in Below(up) :
       Insert("test", NoSource, <<up>>, down, c, p)
AddCheck ==
  /\ Room
  /\ \E up \in Steps, rows \in Customs, p \in ProcIds \cup {NoProc} : \E down \in Below(up) :
       Insert("check", NoSource, <<up>>, down, [keep |-> rows], p)

BuilderNext == AddImport \/ AddFilter \/ AddJoin \/ AddTransform \/ AddTest \/ AddCheck
BuilderSpec == BuilderInit /\ [][BuilderNext]_graph
----------------------------------------------------------------------------
(* Properties *)

\* Three ways in which a check leaves the semantics of its steps.
\* A rule evaluates is_duplicate over the whole source, a step over its input.
DuplicateBehindFilter(g) ==
  /\ Flattens(g)
  /\ \E i \in DOMAIN FlatConds(g) : FlatConds(g)[i].kind = "duplicate"
  /\ \E n \in Range(FiltersOf(g)) : CondsOf(g, n) # {}
\* A Test without conditions flags nothing, but its Filters become its rule.
EmptyTestBehindFilter(g) ==
  Flattens(g) /\ CondsOf(g, Terminal(g)) = {}
\* A check whose first Import is not the first of the whole graph is run over
\* the first source of the control.
OtherPopulation(g, s) == PrimaryOf(s) # PrimaryOf(g)

Faithful(g, s) ==
  ~DuplicateBehindFilter(s) /\ ~EmptyTestBehindFilter(s) /\ ~OtherPopulation(g, s)

\* What the compiled tests flag, per check and for the whole graph, is what the
\* preview shows at the Tests, except in the three cases above.
ChecksMatchPreview ==
  Parses(graph) /\ Previewed(graph) =>
    /\ \A t \in Terminals(graph) :
         Faithful(graph, Slice(graph, {t})) => CheckFlags(graph, t) = PreviewFrames(graph)[t]
    /\ Faithful(graph, graph) =>
         TestFlags(graph) = UNION {PreviewFrames(graph)[t] : t \in Terminals(graph)}

\* pipeline/trace.py: a verdict on a record that the trace gives is that of the
\* check, unless several records share its key; in the same three cases not.
TraceMatchesRun ==
  Parses(graph) /\ Evaluates(graph) =>
    \A t \in Terminals(graph) : Faithful(graph, Slice(graph, {t})) =>
      LET failed == KeysOf(CheckFlags(graph, t)) IN
      \A k \in TracedKeys(graph) :
        /\ Judged(graph, t, k)
        /\ FrameKnown(graph, t) \/ Cardinality(InputRows(graph, t, k)) = 1
        => TraceFlagged(graph, t, k) = (k \in failed)

\* pipeline/procedures.py, "never drop a test": every Test is run by exactly
\* one effective procedure, whatever procedure it names.
EveryTestOnce ==
  Parses(graph) =>
    \A t \in Terminals(graph) :
      Cardinality({i \in DOMAIN EffectiveProcs(graph) :
                     t \in TestsFor(graph, EffectiveProcs(graph)[i])}) = 1

\* group_nodes_by_band: the shared band and then the bands of the procedures
\* list every step once, and after the steps it is computed from.
BandsInOrder ==
  Parses(graph) =>
    LET order == BandOrder(graph) IN
    /\ Len(order) = Len(graph.order) /\ Range(order) = Ids(graph)
    /\ \A i \in DOMAIN order : InputsOf(graph, order[i]) \subseteq Range(SubSeq(order, 1, i - 1))
============================================================================
