--------------------------- MODULE ControlEditor ---------------------------
(***************************************************************************)
(* Editing a control: the Definition form, title, rename and source        *)
(* bindings of plane/routes/controls.py, and the Builder, Python and       *)
(* Convert handlers of plane/routes/pipeline.py, over the tables controls  *)
(* and control_sources (store/repo.py).                                    *)
(*                                                                         *)
(* All of them are coroutines of the event loop but update_control_sources,*)
(* which runs in the thread pool, between any two writes of the others.    *)
(* Each repo call commits itself.  Every coroutine awaits its form before  *)
(* it reads the store, except _save_python_impl: it reads and checks the   *)
(* control first, and such requests wait in awaiting with what they will   *)
(* save of the row they read.                                              *)
(*                                                                         *)
(* Of a pipeline graph the model keeps which sources its Import nodes bind,*)
(* which of these feed another node, which ones a node cannot do without   *)
(* (a Filter or Test with that one input, a Join), which other sources its *)
(* conditions name, and what its nodes test.                               *)
(***************************************************************************)
EXTENDS Naturals, FiniteSets

CONSTANTS
  Ids,        \* control ids
  Sources,    \* source ids a graph or a form may name
  Missing,    \* those of them that have no row
  Tests,      \* what the nodes of a graph, or the conditions of a rule, test
  Unsafe,     \* tests with custom code the linter refuses
  Graphs,     \* the graphs a Builder page may post
  Pure,       \* those that compile to a rule
  Rules,      \* rules that come with an imported control
  Codes,      \* hand-written test code
  Metas,      \* title, objective, narrative, references, threshold bounds
  Notes,      \* rationales of a threshold
  NoNote, NoControl, NoGraph, NoRule, NoCode,
  MaxWaiting  \* bound on Python saves that wait for their form

Graph == [imports : SUBSET Sources, fed : SUBSET Sources,
          needs : SUBSET Sources, others : SUBSET Sources, test : Tests]
Rule == [test : Tests, others : SUBSET Sources]
\* What _generated_python and the stitched test() of compile_pipeline contain.
Generated == [test : Tests, others : SUBSET Sources]

ASSUME GraphAssumption == Graphs \subseteq Graph /\ Pure \subseteq Graphs
ASSUME RuleAssumption ==
  Rules \subseteq Rule /\ \A r \in Rules : r.others \cap Missing = {}
ASSUME MarkAssumption ==
  /\ NoGraph \notin Graph /\ NoRule \notin Rule
  /\ NoCode \notin Codes \cup Generated /\ Codes \cap Generated = {}
ASSUME BoundAssumption == MaxWaiting \in Nat

VARIABLES
  controls,  \* table controls: id -> row, NoControl where there is none
  bindings,  \* table control_sources: id -> the sources bound to it
  job,       \* the save that is between two writes
  awaiting,  \* Python saves that have read their control and await the form
  toggle,    \* the thread that changes one binding
  unsettled, \* history: controls whose last save of logic or bindings failed,
             \* or was overwritten by the thread for the logic before it
  authored   \* history: the logic that each control was last given
vars == <<controls, bindings, job, awaiting, toggle, unsettled, authored>>

Kinds == {"rule", "python", "pipeline"}
Control == [kind : Kinds, meta : Metas, note : Notes \cup {NoNote},
            graph : Graph \cup {NoGraph}, rule : Rule \cup {NoRule},
            code : Codes \cup Generated \cup {NoCode}]
ASSUME RowAssumption == NoControl \notin Control
----------------------------------------------------------------------------
(* Graphs *)

\* parse_pipeline: every sink is a Test, every node but an Import has inputs,
\* a Join has two, and there is at least one terminal.
Parses(g) == g.imports # {} /\ g.fed = g.imports /\ g.needs \subseteq g.imports

\* parse, validate_sources and lint_pipeline; other_source is not validated.
Accepted(g) == Parses(g) /\ g.imports \cap Missing = {} /\ g.test \notin Unsafe

\* Mutant: a graph with code nodes gets a rule as well.
AlwaysRule(g) == [test |-> g.test, others |-> g.others]
\* compile_pipeline: a rule for a pure graph, test code for any other.
CompiledRule(g) == IF g \in Pure THEN [test |-> g.test, others |-> g.others] ELSE NoRule
CompiledCode(g) == IF g \in Pure THEN NoCode ELSE [test |-> g.test, others |-> g.others]

\* Mutant: every selected source gets a new node, with nothing behind it.
ReconcileAnew(g, selected) == [g EXCEPT !.imports = selected, !.fed = {}]
\* _reconcile_pipeline_imports: an Import node per selected source, the new
\* ones with nothing behind them; inputs from removed ones are dropped.
ReconcileImports(g, selected) ==
  [g EXCEPT !.imports = selected, !.fed = g.fed \cap selected]

\* Mutant: only the Import nodes count.
ImportsOnly(row) ==
  IF row.graph # NoGraph /\ Parses(row.graph) THEN row.graph.imports ELSE {}
\* _required_source_ids: a graph that does not parse requires nothing.
RequiredSources(row) ==
  CASE row.graph # NoGraph ->
         IF Parses(row.graph) THEN row.graph.imports \cup row.graph.others ELSE {}
    [] row.graph = NoGraph /\ row.rule # NoRule -> row.rule.others
    [] OTHER -> {}
----------------------------------------------------------------------------
(* Jobs *)

Forms == [meta : Metas, note : Notes \cup {NoNote}, sources : SUBSET (Sources \ Missing)]
\* A form with a threshold that float() or int() refuses; the rest is not read.
BadForm == [refused |-> TRUE]
NoJob == [at |-> "idle"]
FormJobs == [at : {"form"}, id : Ids, form : Forms \cup {BadForm}]
\* settles: do the bindings to be written cover the logic by construction?
BindJobs == [at : {"bind"}, id : Ids, sources : SUBSET Sources, settles : BOOLEAN]
NoToggle == [at |-> "idle"]
\* required (history): the sources that the logic the thread has read requires.
Toggles == [at : {"write"}, id : Ids, sources : SUBSET Sources,
            required : SUBSET Sources]
Waiting == [id : Ids, meta : Metas]

Exists(c) == controls[c] # NoControl
\* No coroutine is between two of its writes: the next may start.
Idle == job = NoJob

Wired(row) == IF row.graph = NoGraph THEN {} ELSE row.graph.fed
\* The logic of a row that a logic tab, an import or a new control has saved;
\* kept: the sources feeding its nodes that every form since has left selected.
AsSaved(row) == [kind |-> row.kind, rule |-> row.rule, code |-> row.code,
                 graph |-> row.graph, kept |-> Wired(row)]
Narrowed(given, selected) == [given EXCEPT !.kept = @ \cap selected]
Authored == [kind : Kinds, rule : Rule \cup {NoRule},
             code : Codes \cup Generated \cup {NoCode},
             graph : Graph \cup {NoGraph}, kept : SUBSET Sources]

\* A store that import_project may have filled: controls with a rule.yaml,
\* bound to the sources of their control.yaml.
Imported == [kind : {"rule"}, meta : Metas, note : Notes \cup {NoNote},
             graph : {NoGraph}, rule : Rules, code : {NoCode}]

Init ==
  /\ controls \in [Ids -> Imported \cup {NoControl}]
  /\ bindings = [c \in Ids |-> IF controls[c] = NoControl THEN {}
                                                        ELSE controls[c].rule.others]
  /\ job = NoJob /\ awaiting = {} /\ toggle = NoToggle
  /\ unsettled = {}
  /\ authored = [c \in Ids |-> IF Exists(c) THEN AsSaved(controls[c]) ELSE NoControl]

Upsert(c, row) == controls' = [controls EXCEPT ![c] = row]
\* A save of the logic tabs.
Author(c, row) ==
  Upsert(c, row) /\ authored' = [authored EXCEPT ![c] = AsSaved(row)]
\* set_control_sources is the write that comes next.
ThenBind(c, srcs, settles) ==
  /\ job' = [at |-> "bind", id |-> c, sources |-> srcs, settles |-> settles]
  /\ unsettled' = IF settles THEN unsettled \cup {c} ELSE unsettled
----------------------------------------------------------------------------
(* The Definition form: create_control and update_control *)

\* POST /controls: an id that is taken is saved over, as update_control does.
CreateControl(c, f) ==
  /\ Idle
  /\ job' = [at |-> "form", id |-> c, form |-> f]
  /\ UNCHANGED <<controls, bindings, awaiting, toggle, unsettled, authored>>

\* Mutant: rename_control_id forgets the table.
KeepBindings(c, d) == UNCHANGED bindings
\* rename_control_id points the rows of control_sources to the new id.
MoveBindings(c, d) == bindings' = [bindings EXCEPT ![d] = bindings[c], ![c] = {}]

\* _resolve_control_id: rename_control_id moves row and bindings (and runs) in
\* one transaction, before anything else of the form is looked at.
UpdateControl(c, d, f) ==
  /\ Idle
  /\ d # c => Exists(c) /\ ~Exists(d)
  /\ job' = [at |-> "form", id |-> d, form |-> f]
  /\ IF d = c THEN UNCHANGED <<controls, bindings, unsettled, authored>>
     ELSE /\ controls' = [controls EXCEPT ![d] = controls[c], ![c] = NoControl]
          /\ authored' = [authored EXCEPT ![d] = authored[c], ![c] = NoControl]
          /\ MoveBindings(c, d)
          /\ unsettled' = IF c \in unsettled THEN (unsettled \ {c}) \cup {d}
                                             ELSE unsettled \ {d}
  /\ UNCHANGED <<awaiting, toggle>>

EmptyLogic(f) == [kind |-> "pipeline", meta |-> f.meta, note |-> f.note,
                  graph |-> NoGraph, rule |-> NoRule, code |-> NoCode]
\* The row the form saves over row: metadata from the form, logic from row.
FormRow(row, f) ==
  IF row = NoControl THEN EmptyLogic(f)
  ELSE [row EXCEPT !.meta = f.meta, !.note = f.note,
                   !.graph = IF @ = NoGraph THEN @ ELSE ReconcileImports(@, f.sources)]

\* A number that does not parse ends the save: the rename stays done.
RejectForm ==
  /\ job.at = "form" /\ job.form = BadForm
  /\ job' = NoJob
  /\ UNCHANGED <<controls, bindings, awaiting, toggle, unsettled, authored>>

SaveForm ==
  /\ job.at = "form" /\ job.form # BadForm
  /\ LET row == FormRow(controls[job.id], job.form)
     IN /\ Upsert(job.id, row)
        /\ authored' = [authored EXCEPT ![job.id] =
             IF Exists(job.id) THEN Narrowed(@, job.form.sources) ELSE AsSaved(row)]
        /\ ThenBind(job.id, job.form.sources \cup RequiredSources(row), TRUE)
  /\ UNCHANGED <<bindings, awaiting, toggle>>

\* set_control_sources: a source without a row fails the foreign key, and the
\* DELETE of the old bindings is rolled back with it.
BindSources ==
  /\ job.at = "bind"
  /\ job' = NoJob
  /\ IF job.sources \cap Missing # {}
       THEN UNCHANGED <<bindings, unsettled>>
       ELSE /\ bindings' = [bindings EXCEPT ![job.id] = job.sources]
            /\ unsettled' = IF job.settles THEN unsettled \ {job.id} ELSE unsettled
  /\ UNCHANGED <<controls, awaiting, toggle, authored>>

\* _update_title_or_rerender: the bindings are written back as they were read.
UpdateTitle(c, m) ==
  /\ Idle /\ Exists(c)
  /\ Upsert(c, [controls[c] EXCEPT !.meta = m])
  /\ ThenBind(c, bindings[c], FALSE)
  /\ UNCHANGED <<bindings, awaiting, toggle, authored>>
----------------------------------------------------------------------------
(* One binding, in the thread pool: update_control_sources *)

ReadBindings(c, s, add) ==
  /\ toggle = NoToggle /\ Exists(c)
  /\ LET current == IF add THEN bindings[c] \cup {s} ELSE bindings[c] \ {s}
     IN toggle' = [at |-> "write", id |-> c,
                   sources |-> current \cup RequiredSources(controls[c]),
                   required |-> RequiredSources(controls[c])]
  /\ UNCHANGED <<controls, bindings, job, awaiting, unsettled, authored>>

\* set_control_sources again.  Since the read, the control may have been given
\* other logic, other bindings or another id, and its old id another control.
Overtaken ==
  Exists(toggle.id) /\ ~(RequiredSources(controls[toggle.id]) \subseteq toggle.required)
WriteBindings ==
  /\ toggle.at = "write"
  /\ toggle' = NoToggle
  /\ IF toggle.sources = {} \/ (Exists(toggle.id) /\ toggle.sources \cap Missing = {})
       THEN /\ bindings' = [bindings EXCEPT ![toggle.id] = toggle.sources]
            /\ unsettled' = IF Overtaken THEN unsettled \cup {toggle.id} ELSE unsettled
       ELSE UNCHANGED <<bindings, unsettled>>
  /\ UNCHANGED <<controls, job, awaiting, authored>>
----------------------------------------------------------------------------
(* The logic tabs: _save_pipeline_impl, _convert_to_python_impl,            *)
(* _save_python_impl                                                       *)

\* _save_pipeline_graph; errors re-render the page and persist nothing.
SavePipeline(c, g) ==
  /\ Idle /\ Exists(c) /\ Accepted(g)
  /\ Author(c, [controls[c] EXCEPT
       !.kind = "pipeline", !.graph = g,
       !.rule = CompiledRule(g), !.code = CompiledCode(g)])
  /\ ThenBind(c, g.imports \cup g.others, TRUE)
  /\ UNCHANGED <<bindings, awaiting, toggle>>

\* The row both Python handlers write: failure_threshold_rationale is not
\* passed on, so the upsert sets it to NULL.
PythonRow(m, k) == [kind |-> "python", meta |-> m, note |-> NoNote,
                    graph |-> NoGraph, rule |-> NoRule, code |-> k]

ConvertToPython(c) ==
  /\ Idle /\ Exists(c)
  /\ controls[c].graph # NoGraph /\ Parses(controls[c].graph)
  /\ Author(c, PythonRow(controls[c].meta, [test |-> controls[c].graph.test,
                                            others |-> controls[c].graph.others]))
  /\ UNCHANGED <<bindings, job, awaiting, toggle, unsettled>>

\* get_control and the guard, then "await request.form()".
SavePython(c) ==
  /\ Idle /\ Exists(c)
  /\ controls[c].graph = NoGraph /\ controls[c].rule = NoRule
  /\ Cardinality(awaiting) < MaxWaiting
  /\ awaiting' = awaiting \cup {[id |-> c, meta |-> controls[c].meta]}
  /\ UNCHANGED <<controls, bindings, job, toggle, unsettled, authored>>

\* The form has arrived: the row that was read is saved under its old id.
PythonArrives(w, k) ==
  /\ Idle /\ w \in awaiting
  /\ awaiting' = awaiting \ {w}
  /\ Author(w.id, PythonRow(w.meta, k))
  /\ UNCHANGED <<bindings, job, toggle, unsettled>>

\* The process dies: every suspended or half-done handler is gone.
Crash ==
  /\ ~Idle \/ awaiting # {} \/ toggle # NoToggle
  /\ job' = NoJob /\ awaiting' = {} /\ toggle' = NoToggle
  /\ UNCHANGED <<controls, bindings, unsettled, authored>>
----------------------------------------------------------------------------
Definition(c) ==
  \/ \E f \in Forms \cup {BadForm} : CreateControl(c, f) \/ \E d \in Ids : UpdateControl(c, d, f)
  \/ \E m \in Metas : UpdateTitle(c, m)

Logic(c) ==
  \/ \E g \in Graphs : SavePipeline(c, g)
  \/ ConvertToPython(c) \/ SavePython(c)

Next ==
  \/ \E c \in Ids : Definition(c) \/ Logic(c)
  \/ RejectForm \/ SaveForm \/ BindSources
  \/ \E c \in Ids, s \in Sources \ Missing, add \in BOOLEAN : ReadBindings(c, s, add)
  \/ WriteBindings
  \/ \E w \in awaiting, k \in Codes : PythonArrives(w, k)
  \/ Crash

Spec == Init /\ [][Next]_vars
----------------------------------------------------------------------------
(* Properties *)

\* Every variable stays in its set, and only a control has bindings.
TypeOK ==
  /\ controls \in [Ids -> Control \cup {NoControl}]
  /\ bindings \in [Ids -> SUBSET Sources]
  /\ \A c \in Ids : bindings[c] # {} => Exists(c)
  /\ job \in {NoJob} \cup FormJobs \cup BindJobs
  /\ awaiting \subseteq Waiting
  /\ toggle \in {NoToggle} \cup Toggles
  /\ unsettled \subseteq Ids
  /\ authored \in [Ids -> Authored \cup {NoControl}]
  /\ \A c \in Ids : Exists(c) => authored[c] \in Authored

\* What a run and the bundle execute is compiled from the graph the Builder
\* shows, up to its Import nodes, through every order of form, Builder and
\* Python saves; a Python control has neither graph nor rule.
LogicConsistent ==
  \A c \in Ids : Exists(c) =>
    LET row == controls[c]
        artifact == IF row.rule # NoRule THEN row.rule ELSE row.code
    IN /\ row.rule # NoRule => row.code = NoCode
       /\ row.kind = "python" => row.graph = NoGraph /\ row.rule = NoRule
       /\ row.graph # NoGraph => row.kind = "pipeline" /\ artifact =
            [test |-> row.graph.test, others |-> row.graph.others]

\* "A needed binding is never dropped" (controls.py:436): once its last save
\* has run to the end, a control is bound to every source that a graph which
\* still parses imports or compares with, or that its rule compares with,
\* although the thread that changes one binding runs between the writes of
\* forms, titles, renames and logic saves.  A binding is only lost where logic
\* that requires more was saved between that thread's read and its write.
LogicReads(logic, s) ==
  \/ /\ logic.graph # NoGraph /\ Parses(logic.graph)
     /\ s \in logic.graph.imports \/ s \in logic.graph.others
  \/ logic.graph = NoGraph /\ logic.rule # NoRule /\ s \in logic.rule.others
BindingsCoverLogic ==
  \A c \in Ids, s \in Sources :
    Exists(c) /\ c \notin unsettled /\ LogicReads(controls[c], s) => s \in bindings[c]

\* "Editing metadata never clobbers logic authored on the Logic tab"
\* (controls.py:447): through any sequence of forms, titles, source changes and
\* renames, one whose form is refused or whose process dies after the rename
\* and a create over a taken id included, a control has the kind, rule, code
\* and graph it was last given, under whatever id it has now.  Only the Import
\* nodes follow the form, and a source feeds the nodes it was wired to as long
\* as every form has left it selected.
SavesKeepLogic ==
  \A c \in Ids : Exists(c) =>
    LET row == controls[c]  given == authored[c]
    IN /\ row.kind = given.kind /\ row.rule = given.rule /\ row.code = given.code
       /\ (row.graph = NoGraph) = (given.graph = NoGraph)
       /\ row.graph # NoGraph =>
            /\ row.graph.test = given.graph.test
            /\ row.graph.needs = given.graph.needs
            /\ row.graph.others = given.graph.others
            /\ row.graph.fed = given.kept
============================================================================
