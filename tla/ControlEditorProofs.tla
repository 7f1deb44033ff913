------------------------ MODULE ControlEditorProofs ------------------------
(* Theorems of ControlEditor, for every set of controls, sources, graphs,
   rules and codes, any number of waiting saves and of deaths. *)
EXTENDS ControlEditor, TLAPS

USE GraphAssumption, RuleAssumption, MarkAssumption, BoundAssumption, RowAssumption

----------------------------------------------------------------------------
(* The rows the handlers write. *)

\* The rows both Python handlers write are rows, without graph and rule.
LEMMA PythonRowIsRow ==
  ASSUME NEW m \in Metas, NEW k \in Codes \cup Generated
  PROVE  /\ PythonRow(m, k) \in Control /\ PythonRow(m, k) # NoControl
         /\ PythonRow(m, k).kind = "python"
         /\ PythonRow(m, k).graph = NoGraph /\ PythonRow(m, k).rule = NoRule
  BY DEF PythonRow, Control, Kinds

\* What a graph compiles to: a rule or test code, and never both.
LEMMA CompiledIsArtifact ==
  ASSUME NEW g \in Graph
  PROVE  /\ CompiledRule(g) \in Rule \cup {NoRule}
         /\ CompiledCode(g) \in Generated \cup {NoCode}
         /\ g \in Pure => CompiledRule(g) # NoRule /\ CompiledCode(g) = NoCode
         /\ g \notin Pure => CompiledRule(g) = NoRule
         /\ g \in Pure => CompiledRule(g) = [test |-> g.test, others |-> g.others]
         /\ g \notin Pure => CompiledCode(g) = [test |-> g.test, others |-> g.others]
  BY DEF CompiledRule, CompiledCode, Graph, Rule, Generated

\* Reconciling changes the Import nodes and what they feed, nothing else.
LEMMA ReconcileKeeps ==
  ASSUME NEW g \in Graph, NEW S \in SUBSET Sources
  PROVE  /\ ReconcileImports(g, S) \in Graph
         /\ ReconcileImports(g, S).test = g.test
         /\ ReconcileImports(g, S).needs = g.needs
         /\ ReconcileImports(g, S).others = g.others
         /\ ReconcileImports(g, S).fed = g.fed \cap S
  BY DEF ReconcileImports, Graph

\* A row saved by the form keeps the logic of the row it replaces.
LEMMA FormRowKeeps ==
  ASSUME NEW row \in Control, NEW f \in Forms
  PROVE  /\ FormRow(row, f) \in Control
         /\ FormRow(row, f).kind = row.kind /\ FormRow(row, f).rule = row.rule
         /\ FormRow(row, f).code = row.code
         /\ row.graph = NoGraph => FormRow(row, f).graph = NoGraph
         /\ row.graph # NoGraph =>
              /\ FormRow(row, f).graph # NoGraph
              /\ FormRow(row, f).graph = ReconcileImports(row.graph, f.sources)
<1>1. row # NoControl
  OBVIOUS
<1> DEFINE g == IF row.graph = NoGraph THEN row.graph
                ELSE ReconcileImports(row.graph, f.sources)
<1>2. FormRow(row, f) = [row EXCEPT !.meta = f.meta, !.note = f.note, !.graph = g]
  BY <1>1 DEF FormRow
<1>3. g \in Graph \cup {NoGraph} /\ (row.graph # NoGraph => g \in Graph)
  BY ReconcileKeeps DEF Control, Forms
<1>4. f.meta \in Metas /\ f.note \in Notes \cup {NoNote}
  BY DEF Forms
<1>5. FormRow(row, f) =
        [kind |-> row.kind, meta |-> f.meta, note |-> f.note,
         graph |-> g, rule |-> row.rule, code |-> row.code]
  <2> HIDE DEF g
  <2> QED
    BY <1>2 DEF Control
<1> HIDE DEF g
<1>6. /\ FormRow(row, f) \in Control
      /\ FormRow(row, f).kind = row.kind /\ FormRow(row, f).rule = row.rule
      /\ FormRow(row, f).code = row.code /\ FormRow(row, f).graph = g
  BY <1>3, <1>4, <1>5 DEF Control
<1> QED
  BY <1>3, <1>6 DEF g

\* A new control starts without logic.
LEMMA EmptyLogicIsRow ==
  ASSUME NEW f \in Forms
  PROVE  /\ EmptyLogic(f) \in Control /\ EmptyLogic(f).kind = "pipeline"
         /\ EmptyLogic(f).graph = NoGraph /\ EmptyLogic(f).rule = NoRule
         /\ EmptyLogic(f).code = NoCode
  BY DEF EmptyLogic, Control, Kinds, Forms

\* What the history keeps of a row.
LEMMA AsSavedIsAuthored ==
  ASSUME NEW row \in Control
  PROVE  AsSaved(row) \in Authored
<1>1. Wired(row) \in SUBSET Sources
  BY DEF Wired, Control, Graph
<1> QED
  BY <1>1 DEF AsSaved, Authored, Control

\* The required sources are sources, and cover everything the logic reads.
LEMMA RequiredCovers ==
  ASSUME NEW row \in Control
  PROVE  /\ RequiredSources(row) \in SUBSET Sources
         /\ \A s \in Sources : LogicReads(row, s) => s \in RequiredSources(row)
<1>1. CASE row.graph # NoGraph
  <2>1. row.graph \in Graph
    BY <1>1 DEF Control
  <2>2. RequiredSources(row) =
          IF Parses(row.graph) THEN row.graph.imports \cup row.graph.others ELSE {}
    BY <1>1 DEF RequiredSources
  <2> QED
    BY <1>1, <2>1, <2>2 DEF LogicReads, Graph
<1>2. CASE row.graph = NoGraph /\ row.rule # NoRule
  <2>1. row.rule \in Rule
    BY <1>2 DEF Control
  <2>2. RequiredSources(row) = row.rule.others
    BY <1>2 DEF RequiredSources
  <2> QED
    BY <1>2, <2>1, <2>2 DEF LogicReads, Rule
<1>3. CASE row.graph = NoGraph /\ row.rule = NoRule
  BY <1>3 DEF RequiredSources, LogicReads
<1> QED
  BY <1>1, <1>2, <1>3
----------------------------------------------------------------------------
(* Types. *)

\* Bindings are written for a control that has a row: nothing deletes one.
BindsExisting == job.at = "bind" => Exists(job.id)

\* The kinds of job tell themselves apart.
LEMMA JobKinds ==
  ASSUME TypeOK
  PROVE  /\ job.at = "form" => job \in FormJobs
         /\ job.at = "bind" => job \in BindJobs
         /\ job.at = "idle" => job = NoJob
  BY DEF TypeOK, FormJobs, BindJobs, NoJob

LEMMA ToggleKinds ==
  ASSUME TypeOK
  PROVE  /\ toggle.at = "write" => toggle \in Toggles
         /\ toggle.at = "idle" => toggle = NoToggle
  BY DEF TypeOK, Toggles, NoToggle

\* What every save does to the types: a row, and bindings to be written.
LEMMA SaveTypes ==
  ASSUME TypeOK, BindsExisting,
         NEW c \in Ids, NEW row \in Control, NEW S \in SUBSET Sources,
         NEW settles \in BOOLEAN, NEW a \in Authored,
         Upsert(c, row), authored' = [authored EXCEPT ![c] = a],
         ThenBind(c, S, settles), UNCHANGED <<bindings, awaiting, toggle>>
  PROVE  TypeOK' /\ BindsExisting'
<1>1. controls' \in [Ids -> Control \cup {NoControl}] /\ controls'[c] = row
  BY DEF TypeOK, Upsert
<1>2. \A d \in Ids : Exists(d) => controls'[d] # NoControl
  BY <1>1 DEF TypeOK, Upsert, Exists
<1>3. /\ job' \in BindJobs /\ job'.id = c /\ unsettled' \subseteq Ids
  BY DEF TypeOK, ThenBind, BindJobs
<1>4. /\ authored' \in [Ids -> Authored \cup {NoControl}]
      /\ \A d \in Ids : controls'[d] # NoControl => authored'[d] \in Authored
  BY <1>1 DEF TypeOK, Upsert, Exists
<1> QED
  BY <1>1, <1>2, <1>3, <1>4 DEF TypeOK, BindsExisting, Exists

\* A Python row is written, and the bindings stay.
LEMMA PythonTypes ==
  ASSUME TypeOK, Idle, NEW c \in Ids, NEW row \in Control, Author(c, row),
         awaiting' \subseteq awaiting, UNCHANGED <<bindings, job, toggle, unsettled>>
  PROVE  TypeOK' /\ BindsExisting'
<1>1. controls' \in [Ids -> Control \cup {NoControl}]
  BY DEF TypeOK, Author, Upsert
<1>2. \A d \in Ids : Exists(d) => controls'[d] # NoControl
  BY DEF TypeOK, Author, Upsert, Exists
<1>3. job' = NoJob
  BY DEF Idle
<1>4. /\ authored' \in [Ids -> Authored \cup {NoControl}]
      /\ \A d \in Ids : controls'[d] # NoControl => authored'[d] \in Authored
  BY AsSavedIsAuthored DEF TypeOK, Author, Upsert, Exists
<1> QED
  BY <1>1, <1>2, <1>3, <1>4 DEF TypeOK, BindsExisting, Exists, NoJob

LEMMA TypesInit == Init => TypeOK /\ BindsExisting
<1> SUFFICES ASSUME Init PROVE TypeOK /\ BindsExisting
  OBVIOUS
<1>1. Imported \subseteq Control
  BY DEF Imported, Control, Kinds
<1>2. controls \in [Ids -> Control \cup {NoControl}]
  BY <1>1 DEF Init
<1>3. \A c \in Ids : controls[c] # NoControl => controls[c].rule.others \subseteq Sources
  <2>1. \A c \in Ids : controls[c] # NoControl => controls[c].rule \in Rule
    BY DEF Init, Imported
  <2> QED
    BY <2>1 DEF Rule
<1>4. /\ bindings \in [Ids -> SUBSET Sources]
      /\ \A c \in Ids : bindings[c] # {} => Exists(c)
  BY <1>3 DEF Init, Exists
<1>5. /\ authored \in [Ids -> Authored \cup {NoControl}]
      /\ \A c \in Ids : Exists(c) => authored[c] \in Authored
  BY <1>2, AsSavedIsAuthored DEF Init, Exists
<1> QED
  BY <1>2, <1>4, <1>5 DEF Init, TypeOK, BindsExisting, NoJob

LEMMA TypesNext == TypeOK /\ BindsExisting /\ [Next]_vars => TypeOK' /\ BindsExisting'
<1> SUFFICES ASSUME TypeOK, BindsExisting, [Next]_vars PROVE TypeOK' /\ BindsExisting'
  OBVIOUS
<1>1. ASSUME NEW c \in Ids, NEW f \in Forms \cup {BadForm}, CreateControl(c, f)
      PROVE TypeOK' /\ BindsExisting'
  BY <1>1 DEF CreateControl, TypeOK, BindsExisting, FormJobs, Exists
<1>2. ASSUME NEW c \in Ids, NEW d \in Ids, NEW f \in Forms \cup {BadForm},
             UpdateControl(c, d, f)
      PROVE TypeOK' /\ BindsExisting'
  <2>1. job' \in FormJobs /\ job'.at = "form"
    BY <1>2 DEF UpdateControl, FormJobs
  <2>2. CASE d = c
    BY <1>2, <2>1, <2>2 DEF UpdateControl, TypeOK, BindsExisting, Exists
  <2>3. CASE d # c
    <3>1. /\ controls' = [controls EXCEPT ![d] = controls[c], ![c] = NoControl]
          /\ bindings' = [bindings EXCEPT ![d] = bindings[c], ![c] = {}]
          /\ UNCHANGED <<awaiting, toggle>>
          /\ unsettled' \subseteq Ids /\ Exists(c)
          /\ authored' = [authored EXCEPT ![d] = authored[c], ![c] = NoControl]
      BY <1>2, <2>3 DEF UpdateControl, MoveBindings, TypeOK
    <3>2. controls' \in [Ids -> Control \cup {NoControl}] /\ bindings' \in [Ids -> SUBSET Sources]
      BY <3>1 DEF TypeOK
    <3>3. \A x \in Ids : bindings'[x] # {} => controls'[x] # NoControl
      BY <3>1, <2>3 DEF TypeOK, Exists
    <3>4. /\ authored' \in [Ids -> Authored \cup {NoControl}]
          /\ \A x \in Ids : controls'[x] # NoControl => authored'[x] \in Authored
      BY <3>1, <2>3 DEF TypeOK, Exists
    <3> QED
      BY <2>1, <3>1, <3>2, <3>3, <3>4 DEF TypeOK, BindsExisting, Exists
  <2> QED
    BY <2>2, <2>3
<1>3. ASSUME NEW c \in Ids, NEW m \in Metas, UpdateTitle(c, m)
      PROVE TypeOK' /\ BindsExisting'
  <2>1. controls[c] \in Control
    BY <1>3 DEF UpdateTitle, Exists, TypeOK
  <2>2. [controls[c] EXCEPT !.meta = m] \in Control
    BY <2>1 DEF Control
  <2>3. bindings[c] \in SUBSET Sources /\ authored[c] \in Authored
    BY <1>3 DEF UpdateTitle, TypeOK
  <2>4. authored' = [authored EXCEPT ![c] = authored[c]]
    BY <1>3 DEF UpdateTitle, TypeOK
  <2> QED
    BY <1>3, <2>2, <2>3, <2>4, SaveTypes DEF UpdateTitle
<1>4. ASSUME NEW c \in Ids, NEW g \in Graphs, SavePipeline(c, g)
      PROVE TypeOK' /\ BindsExisting'
  <2>1. controls[c] \in Control /\ g \in Graph
    BY <1>4 DEF SavePipeline, Exists, TypeOK
  <2> DEFINE row == [controls[c] EXCEPT !.kind = "pipeline", !.graph = g,
                                        !.rule = CompiledRule(g), !.code = CompiledCode(g)]
  <2>2. row \in Control
    BY <2>1, CompiledIsArtifact DEF Control, Kinds
  <2>3. g.imports \cup g.others \in SUBSET Sources
    BY <2>1 DEF Graph
  <2>4. /\ Upsert(c, row) /\ ThenBind(c, g.imports \cup g.others, TRUE)
        /\ authored' = [authored EXCEPT ![c] = AsSaved(row)]
    BY <1>4 DEF SavePipeline, Author
  <2> HIDE DEF row
  <2> QED
    BY <1>4, <2>2, <2>3, <2>4, AsSavedIsAuthored, SaveTypes DEF SavePipeline
<1>5. ASSUME NEW c \in Ids, ConvertToPython(c)
      PROVE TypeOK' /\ BindsExisting'
  <2>1. controls[c] \in Control /\ controls[c].graph \in Graph
    BY <1>5 DEF ConvertToPython, Exists, TypeOK, Control
  <2> DEFINE k == [test |-> controls[c].graph.test, others |-> controls[c].graph.others]
  <2>2. controls[c].meta \in Metas /\ k \in Generated
    BY <2>1 DEF Control, Graph, Generated
  <2>3. Author(c, PythonRow(controls[c].meta, k))
    BY <1>5 DEF ConvertToPython
  <2> HIDE DEF k
  <2>4. PythonRow(controls[c].meta, k) \in Control
    BY <2>2, PythonRowIsRow
  <2>5. Idle /\ awaiting' \subseteq awaiting /\ UNCHANGED <<bindings, job, toggle, unsettled>>
    BY <1>5 DEF ConvertToPython
  <2> QED
    BY <2>3, <2>4, <2>5, PythonTypes
<1>6. ASSUME NEW c \in Ids, SavePython(c)
      PROVE TypeOK' /\ BindsExisting'
  <2>1. controls[c].meta \in Metas
    BY <1>6 DEF SavePython, Exists, TypeOK, Control
  <2> QED
    BY <1>6, <2>1 DEF SavePython, TypeOK, BindsExisting, Waiting, Exists
<1>7. CASE RejectForm
  BY <1>7 DEF RejectForm, TypeOK, BindsExisting, Exists, NoJob
<1>8. CASE SaveForm
  <2>1. job \in FormJobs /\ job.id \in Ids /\ job.form \in Forms
    BY <1>8, JobKinds DEF SaveForm, FormJobs
  <2> DEFINE row == FormRow(controls[job.id], job.form)
             S == job.form.sources \cup RequiredSources(row)
  <2>2. row \in Control
    <3>1. CASE controls[job.id] = NoControl
      BY <2>1, <3>1, EmptyLogicIsRow DEF FormRow
    <3>2. CASE controls[job.id] \in Control
      BY <2>1, <3>2, FormRowKeeps
    <3> QED
      BY <2>1, <3>1, <3>2 DEF TypeOK
  <2>3. S \in SUBSET Sources
    BY <2>1, <2>2, RequiredCovers DEF Forms
  <2> DEFINE a == IF Exists(job.id) THEN Narrowed(authored[job.id], job.form.sources)
                                    ELSE AsSaved(row)
  <2>4. /\ Upsert(job.id, row) /\ ThenBind(job.id, S, TRUE) /\ UNCHANGED <<bindings, awaiting, toggle>>
        /\ authored' = [authored EXCEPT ![job.id] = a]
    BY <1>8, <2>1 DEF SaveForm, TypeOK
  <2>5. a \in Authored
    <3> HIDE DEF row
    <3>1. CASE Exists(job.id)
      BY <2>1, <3>1 DEF TypeOK, Authored, Narrowed
    <3>2. CASE ~Exists(job.id)
      BY <2>2, <3>2, AsSavedIsAuthored
    <3> QED
      BY <3>1, <3>2
  <2> HIDE DEF row, S, a
  <2> QED
    BY <2>1, <2>2, <2>3, <2>4, <2>5, SaveTypes
<1>9. CASE BindSources
  <2>1. job \in BindJobs /\ job.id \in Ids /\ job.sources \in SUBSET Sources
    BY <1>9, JobKinds DEF BindSources, BindJobs
  <2>2. Exists(job.id)
    BY <1>9 DEF BindSources, BindsExisting
  <2>3. /\ bindings' \in [Ids -> SUBSET Sources] /\ unsettled' \subseteq Ids
        /\ \A x \in Ids : bindings'[x] # {} => Exists(x)
    BY <1>9, <2>1, <2>2 DEF BindSources, TypeOK
  <2> QED
    BY <1>9, <2>3 DEF BindSources, TypeOK, BindsExisting, Exists, NoJob
<1>10. ASSUME NEW c \in Ids, NEW s \in Sources \ Missing, NEW add \in BOOLEAN,
              ReadBindings(c, s, add)
       PROVE TypeOK' /\ BindsExisting'
  <2>1. controls[c] \in Control /\ bindings[c] \in SUBSET Sources
    BY <1>10 DEF ReadBindings, Exists, TypeOK
  <2>2. RequiredSources(controls[c]) \in SUBSET Sources
    BY <2>1, RequiredCovers
  <2>3. toggle' \in Toggles
    BY <1>10, <2>1, <2>2 DEF ReadBindings, Toggles
  <2> QED
    BY <1>10, <2>3 DEF ReadBindings, TypeOK, BindsExisting, Exists
<1>11. CASE WriteBindings
  <2>1. toggle \in Toggles /\ toggle.id \in Ids /\ toggle.sources \in SUBSET Sources
    BY <1>11, ToggleKinds DEF WriteBindings, Toggles
  <2>2. /\ bindings' \in [Ids -> SUBSET Sources] /\ unsettled' \subseteq Ids
        /\ \A x \in Ids : bindings'[x] # {} => Exists(x)
    BY <1>11, <2>1 DEF WriteBindings, TypeOK
  <2> QED
    BY <1>11, <2>2 DEF WriteBindings, TypeOK, BindsExisting, Exists
<1>12. ASSUME NEW w \in awaiting, NEW k \in Codes, PythonArrives(w, k)
       PROVE TypeOK' /\ BindsExisting'
  <2>1. w.id \in Ids /\ w.meta \in Metas
    BY DEF TypeOK, Waiting
  <2>2. PythonRow(w.meta, k) \in Control
    BY <2>1, PythonRowIsRow
  <2>3. /\ Idle /\ awaiting' \subseteq awaiting /\ Author(w.id, PythonRow(w.meta, k))
        /\ UNCHANGED <<bindings, job, toggle, unsettled>>
    BY <1>12 DEF PythonArrives
  <2> QED
    BY <2>1, <2>2, <2>3, PythonTypes
<1>13. CASE Crash
  BY <1>13 DEF Crash, TypeOK, BindsExisting, Exists, NoJob
<1>14. CASE UNCHANGED vars
  BY <1>14 DEF vars, TypeOK, BindsExisting, Exists
<1> QED
  BY <1>1, <1>2, <1>3, <1>4, <1>5, <1>6, <1>7, <1>8, <1>9, <1>10, <1>11, <1>12, <1>13, <1>14
  DEF Next, Definition, Logic

\* Every step of every handler keeps the tables in their sets, and no control
\* without a row has bindings: a rename takes them along.
THEOREM EditorTypes == Spec => []TypeOK
<1>1. Spec => [](TypeOK /\ BindsExisting)
  BY TypesInit, TypesNext, PTL DEF Spec
<1> QED
  BY <1>1, PTL
----------------------------------------------------------------------------
(* The stored test is the graph's. *)

\* LogicConsistent of one row.
Consistent(row) ==
  LET artifact == IF row.rule # NoRule THEN row.rule ELSE row.code
  IN /\ row.rule # NoRule => row.code = NoCode
     /\ row.kind = "python" => row.graph = NoGraph /\ row.rule = NoRule
     /\ row.graph # NoGraph => row.kind = "pipeline" /\ artifact =
          [test |-> row.graph.test, others |-> row.graph.others]

LEMMA ConsistentRows == LogicConsistent <=> \A c \in Ids : Exists(c) => Consistent(controls[c])
  BY DEF LogicConsistent, Consistent

\* Writing one consistent row keeps the table consistent.
LEMMA UpsertConsistent ==
  ASSUME TypeOK, LogicConsistent, NEW c \in Ids, NEW row \in Control, Consistent(row),
         Upsert(c, row)
  PROVE  LogicConsistent'
<1>1. \A d \in Ids : controls'[d] # NoControl => Consistent(controls'[d])
  BY ConsistentRows DEF TypeOK, Upsert, Exists
<1> QED
  BY <1>1 DEF LogicConsistent, Consistent, Exists

\* The compiled row a Builder save writes.
LEMMA PipelineRowConsistent ==
  ASSUME NEW old \in Control, NEW g \in Graph
  PROVE  LET row == [old EXCEPT !.kind = "pipeline", !.graph = g,
                                !.rule = CompiledRule(g), !.code = CompiledCode(g)]
         IN row \in Control /\ Consistent(row)
<1> DEFINE row == [old EXCEPT !.kind = "pipeline", !.graph = g,
                              !.rule = CompiledRule(g), !.code = CompiledCode(g)]
<1>1. row \in Control
  BY CompiledIsArtifact DEF Control, Kinds
<1>2. /\ row.kind = "pipeline" /\ row.graph = g
      /\ row.rule = CompiledRule(g) /\ row.code = CompiledCode(g)
  BY DEF Control
<1> HIDE DEF row
<1>3. Consistent(row)
  BY <1>2, CompiledIsArtifact DEF Consistent
<1> QED
  BY <1>1, <1>3 DEF row

LEMMA FormRowConsistent ==
  ASSUME NEW row \in Control, Consistent(row), NEW f \in Forms
  PROVE  Consistent(FormRow(row, f))
<1> DEFINE new == FormRow(row, f)
<1>1. /\ new.kind = row.kind /\ new.rule = row.rule /\ new.code = row.code
      /\ row.graph = NoGraph => new.graph = NoGraph
      /\ row.graph # NoGraph =>
           /\ new.graph # NoGraph
           /\ new.graph.test = row.graph.test /\ new.graph.others = row.graph.others
  BY FormRowKeeps, ReconcileKeeps DEF Control, Forms
<1> HIDE DEF new
<1>2. Consistent(new)
  BY <1>1 DEF Consistent
<1> QED
  BY <1>2 DEF new

LEMMA ConsistentNext ==
  TypeOK /\ LogicConsistent /\ [Next]_vars => LogicConsistent'
<1> SUFFICES ASSUME TypeOK, LogicConsistent, [Next]_vars PROVE LogicConsistent'
  OBVIOUS
<1>1. CASE UNCHANGED controls
  BY <1>1 DEF LogicConsistent, Exists
<1>2. ASSUME NEW c \in Ids, NEW d \in Ids, NEW f \in Forms \cup {BadForm},
             UpdateControl(c, d, f)
      PROVE LogicConsistent'
  <2>1. CASE d = c
    BY <1>1, <1>2, <2>1 DEF UpdateControl
  <2>2. CASE d # c
    <3>1. controls' = [controls EXCEPT ![d] = controls[c], ![c] = NoControl]
      BY <1>2, <2>2 DEF UpdateControl
    <3>2. \A x \in Ids : controls'[x] # NoControl => Consistent(controls'[x])
      BY <1>2, <2>2, <3>1, ConsistentRows DEF UpdateControl, TypeOK, Exists
    <3> QED
      BY <3>2 DEF LogicConsistent, Consistent, Exists
  <2> QED
    BY <2>1, <2>2
<1>3. ASSUME NEW c \in Ids, NEW m \in Metas, UpdateTitle(c, m)
      PROVE LogicConsistent'
  <2>1. controls[c] \in Control /\ Consistent(controls[c])
    BY <1>3, ConsistentRows DEF UpdateTitle, Exists, TypeOK
  <2> DEFINE row == [controls[c] EXCEPT !.meta = m]
  <2>2. row \in Control
    BY <2>1 DEF Control
  <2>3. /\ row.kind = controls[c].kind /\ row.graph = controls[c].graph
        /\ row.rule = controls[c].rule /\ row.code = controls[c].code
    BY <2>1 DEF Control
  <2>4. Upsert(c, row)
    BY <1>3 DEF UpdateTitle
  <2> HIDE DEF row
  <2>5. Consistent(row)
    BY <2>1, <2>3 DEF Consistent
  <2> QED
    BY <2>2, <2>4, <2>5, UpsertConsistent
<1>4. ASSUME NEW c \in Ids, NEW g \in Graphs, SavePipeline(c, g)
      PROVE LogicConsistent'
  <2>1. controls[c] \in Control /\ g \in Graph
    BY <1>4 DEF SavePipeline, Exists, TypeOK
  <2> DEFINE row == [controls[c] EXCEPT !.kind = "pipeline", !.graph = g,
                                        !.rule = CompiledRule(g), !.code = CompiledCode(g)]
  <2>2. row \in Control /\ Consistent(row)
    BY <2>1, PipelineRowConsistent
  <2>3. Upsert(c, row)
    BY <1>4 DEF SavePipeline, Author
  <2> HIDE DEF row
  <2> QED
    BY <2>2, <2>3, UpsertConsistent
<1>5. ASSUME NEW c \in Ids, NEW m \in Metas, NEW k \in Codes \cup Generated,
             Upsert(c, PythonRow(m, k))
      PROVE LogicConsistent'
  <2>1. PythonRow(m, k) \in Control /\ Consistent(PythonRow(m, k))
    BY PythonRowIsRow DEF Consistent
  <2> QED
    BY <1>5, <2>1, UpsertConsistent
<1>6. ASSUME NEW c \in Ids, ConvertToPython(c)
      PROVE LogicConsistent'
  <2>1. controls[c] \in Control /\ controls[c].graph \in Graph
    BY <1>6 DEF ConvertToPython, Exists, TypeOK, Control
  <2>2. /\ controls[c].meta \in Metas
        /\ [test |-> controls[c].graph.test, others |-> controls[c].graph.others] \in Generated
    BY <2>1 DEF Control, Graph, Generated
  <2> QED
    BY <1>5, <1>6, <2>2 DEF ConvertToPython, Author
<1>7. ASSUME NEW w \in awaiting, NEW k \in Codes, PythonArrives(w, k)
      PROVE LogicConsistent'
  <2>1. w.id \in Ids /\ w.meta \in Metas
    BY DEF TypeOK, Waiting
  <2> QED
    BY <1>5, <1>7, <2>1 DEF PythonArrives, Author
<1>8. CASE SaveForm
  <2>1. job.id \in Ids /\ job.form \in Forms
    BY <1>8, JobKinds DEF SaveForm, FormJobs
  <2> DEFINE row == FormRow(controls[job.id], job.form)
  <2>2. row \in Control /\ Consistent(row)
    <3>1. CASE controls[job.id] = NoControl
      BY <2>1, <3>1, EmptyLogicIsRow DEF FormRow, Consistent
    <3>2. CASE controls[job.id] # NoControl
      BY <2>1, <3>2, FormRowKeeps, FormRowConsistent, ConsistentRows DEF TypeOK, Exists
    <3> QED
      BY <3>1, <3>2
  <2>3. Upsert(job.id, row)
    BY <1>8 DEF SaveForm
  <2> HIDE DEF row
  <2> QED
    BY <2>1, <2>2, <2>3, UpsertConsistent
<1>9. ASSUME NEW c \in Ids,
             \/ \E f \in Forms \cup {BadForm} : CreateControl(c, f)
             \/ SavePython(c)
             \/ \E s \in Sources \ Missing, add \in BOOLEAN : ReadBindings(c, s, add)
      PROVE UNCHANGED controls
  BY <1>9 DEF CreateControl, SavePython, ReadBindings
<1>10. ASSUME RejectForm \/ BindSources \/ WriteBindings \/ Crash \/ UNCHANGED vars
       PROVE UNCHANGED controls
  BY <1>10 DEF RejectForm, BindSources, WriteBindings, Crash, vars
<1> QED
  BY <1>1, <1>2, <1>3, <1>4, <1>6, <1>7, <1>8, <1>9, <1>10 DEF Next, Definition, Logic

\* Whatever the order of form, title, Builder, Python and Convert saves, and
\* wherever one of them is cut off: the compiled test of a control with a graph
\* tests what that graph tests, and no row holds a rule beside code.
THEOREM StoredTestIsTheGraphs == Spec => []LogicConsistent
<1>1. Init => LogicConsistent
  BY DEF Init, Imported, LogicConsistent, Exists
<1>2. Spec => [](TypeOK /\ BindsExisting)
  BY TypesInit, TypesNext, PTL DEF Spec
<1> QED
  BY <1>1, <1>2, ConsistentNext, PTL DEF Spec
----------------------------------------------------------------------------
(* Logic stays as it was given. *)

\* SavesKeepLogic of one row and what the history holds of it.
Keeps(row, given) ==
  /\ row.kind = given.kind /\ row.rule = given.rule /\ row.code = given.code
  /\ (row.graph = NoGraph) = (given.graph = NoGraph)
  /\ row.graph # NoGraph =>
       /\ row.graph.test = given.graph.test
       /\ row.graph.needs = given.graph.needs
       /\ row.graph.others = given.graph.others
       /\ row.graph.fed = given.kept

LEMMA KeptRows ==
  SavesKeepLogic <=> \A c \in Ids : Exists(c) => Keeps(controls[c], authored[c])
  BY DEF SavesKeepLogic, Keeps

LEMMA AsSavedKeeps ==
  ASSUME NEW row \in Control
  PROVE  Keeps(row, AsSaved(row))
  BY DEF Keeps, AsSaved, Wired

\* The form keeps the logic, and the wires of what it left selected.
LEMMA FormKeeps ==
  ASSUME NEW row \in Control, NEW given \in Authored, Keeps(row, given), NEW f \in Forms
  PROVE  Keeps(FormRow(row, f), Narrowed(given, f.sources))
<1> DEFINE new == FormRow(row, f)
           now == Narrowed(given, f.sources)
<1>1. /\ new.kind = row.kind /\ new.rule = row.rule /\ new.code = row.code
      /\ row.graph = NoGraph => new.graph = NoGraph
      /\ row.graph # NoGraph => new.graph # NoGraph /\ new.graph = ReconcileImports(row.graph, f.sources)
  BY FormRowKeeps
<1>2. row.graph # NoGraph =>
        /\ new.graph.test = row.graph.test /\ new.graph.needs = row.graph.needs
        /\ new.graph.others = row.graph.others
        /\ new.graph.fed = row.graph.fed \cap f.sources
  BY <1>1, ReconcileKeeps DEF Control, Forms
<1>3. /\ now.kind = given.kind /\ now.rule = given.rule /\ now.code = given.code
      /\ now.graph = given.graph /\ now.kept = given.kept \cap f.sources
  BY DEF Authored, Narrowed
<1> HIDE DEF new, now
<1>4. Keeps(new, now)
  BY <1>1, <1>2, <1>3 DEF Keeps
<1> QED
  BY <1>4 DEF new, now

LEMMA TitleKeeps ==
  ASSUME NEW row \in Control, NEW given, NEW m \in Metas, Keeps(row, given)
  PROVE  Keeps([row EXCEPT !.meta = m], given)
<1> DEFINE new == [row EXCEPT !.meta = m]
<1>1. /\ new.kind = row.kind /\ new.graph = row.graph
      /\ new.rule = row.rule /\ new.code = row.code
  BY DEF Control
<1> HIDE DEF new
<1>2. Keeps(new, given)
  BY <1>1 DEF Keeps
<1> QED
  BY <1>2 DEF new

\* A row written with a history it agrees with.
LEMMA UpsertKeeps ==
  ASSUME TypeOK, SavesKeepLogic, NEW c \in Ids, NEW row, NEW given, Keeps(row, given),
         Upsert(c, row), authored' = [authored EXCEPT ![c] = given]
  PROVE  SavesKeepLogic'
<1>1. \A x \in Ids : controls'[x] # NoControl => Keeps(controls'[x], authored'[x])
  BY KeptRows DEF TypeOK, Upsert, Exists
<1> QED
  BY <1>1 DEF SavesKeepLogic, Keeps, Exists

LEMMA KeepsNext ==
  TypeOK /\ SavesKeepLogic /\ [Next]_vars => SavesKeepLogic'
<1> SUFFICES ASSUME TypeOK, SavesKeepLogic, [Next]_vars PROVE SavesKeepLogic'
  OBVIOUS
<1>1. CASE UNCHANGED <<controls, authored>>
  BY <1>1 DEF SavesKeepLogic, Exists
<1>2. ASSUME NEW c \in Ids, NEW d \in Ids, NEW f \in Forms \cup {BadForm},
             UpdateControl(c, d, f)
      PROVE SavesKeepLogic'
  <2>1. CASE d = c
    BY <1>1, <1>2, <2>1 DEF UpdateControl
  <2>2. CASE d # c
    <3>1. /\ controls' = [controls EXCEPT ![d] = controls[c], ![c] = NoControl]
          /\ authored' = [authored EXCEPT ![d] = authored[c], ![c] = NoControl]
      BY <1>2, <2>2 DEF UpdateControl
    <3>2. \A x \in Ids : controls'[x] # NoControl => Keeps(controls'[x], authored'[x])
      BY <1>2, <2>2, <3>1, KeptRows DEF UpdateControl, TypeOK, Exists
    <3> QED
      BY <3>2 DEF SavesKeepLogic, Keeps, Exists
  <2> QED
    BY <2>1, <2>2
<1>3. ASSUME NEW c \in Ids, NEW m \in Metas, UpdateTitle(c, m)
      PROVE SavesKeepLogic'
  <2>1. controls[c] \in Control /\ Keeps(controls[c], authored[c])
    BY <1>3, KeptRows DEF UpdateTitle, Exists, TypeOK
  <2>2. Keeps([controls[c] EXCEPT !.meta = m], authored[c])
    BY <2>1, TitleKeeps
  <2>3. /\ Upsert(c, [controls[c] EXCEPT !.meta = m])
        /\ authored' = [authored EXCEPT ![c] = authored[c]]
    BY <1>3 DEF UpdateTitle, TypeOK
  <2> QED
    BY <2>2, <2>3, UpsertKeeps
<1>4. ASSUME NEW c \in Ids, NEW row \in Control, Author(c, row)
      PROVE SavesKeepLogic'
  BY <1>4, AsSavedKeeps, UpsertKeeps DEF Author
<1>5. ASSUME NEW c \in Ids, NEW g \in Graphs, SavePipeline(c, g)
      PROVE SavesKeepLogic'
  <2>1. controls[c] \in Control /\ g \in Graph
    BY <1>5 DEF SavePipeline, Exists, TypeOK
  <2> QED
    BY <1>4, <1>5, <2>1, PipelineRowConsistent DEF SavePipeline
<1>6. ASSUME NEW c \in Ids, ConvertToPython(c)
      PROVE SavesKeepLogic'
  <2>1. controls[c] \in Control /\ controls[c].graph \in Graph
    BY <1>6 DEF ConvertToPython, Exists, TypeOK, Control
  <2>2. /\ controls[c].meta \in Metas
        /\ [test |-> controls[c].graph.test, others |-> controls[c].graph.others] \in Generated
    BY <2>1 DEF Control, Graph, Generated
  <2> QED
    BY <1>4, <1>6, <2>2, PythonRowIsRow DEF ConvertToPython
<1>7. ASSUME NEW w \in awaiting, NEW k \in Codes, PythonArrives(w, k)
      PROVE SavesKeepLogic'
  <2>1. w.id \in Ids /\ w.meta \in Metas
    BY DEF TypeOK, Waiting
  <2> QED
    BY <1>4, <1>7, <2>1, PythonRowIsRow DEF PythonArrives
<1>8. CASE SaveForm
  <2>1. job.id \in Ids /\ job.form \in Forms
    BY <1>8, JobKinds DEF SaveForm, FormJobs
  <2>2. CASE Exists(job.id)
    <3>1. /\ controls[job.id] \in Control /\ authored[job.id] \in Authored
          /\ Keeps(controls[job.id], authored[job.id])
      BY <2>1, <2>2, KeptRows DEF TypeOK, Exists
    <3>2. Keeps(FormRow(controls[job.id], job.form),
                Narrowed(authored[job.id], job.form.sources))
      BY <2>1, <3>1, FormKeeps
    <3>3. /\ Upsert(job.id, FormRow(controls[job.id], job.form))
          /\ authored' = [authored EXCEPT ![job.id] =
                           Narrowed(authored[job.id], job.form.sources)]
      BY <1>8, <2>1, <2>2 DEF SaveForm, TypeOK
    <3> QED
      BY <2>1, <3>2, <3>3, UpsertKeeps
  <2>3. CASE ~Exists(job.id)
    <3>1. Author(job.id, EmptyLogic(job.form))
      BY <1>8, <2>3 DEF SaveForm, FormRow, Author, Exists
    <3> QED
      BY <1>4, <2>1, <3>1, EmptyLogicIsRow
  <2> QED
    BY <2>2, <2>3
<1>9. ASSUME NEW c \in Ids,
             \/ \E f \in Forms \cup {BadForm} : CreateControl(c, f)
             \/ SavePython(c)
             \/ \E s \in Sources \ Missing, add \in BOOLEAN : ReadBindings(c, s, add)
      PROVE UNCHANGED <<controls, authored>>
  BY <1>9 DEF CreateControl, SavePython, ReadBindings
<1>10. ASSUME RejectForm \/ BindSources \/ WriteBindings \/ Crash \/ UNCHANGED vars
       PROVE UNCHANGED <<controls, authored>>
  BY <1>10 DEF RejectForm, BindSources, WriteBindings, Crash, vars
<1> QED
  BY <1>1, <1>2, <1>3, <1>5, <1>6, <1>7, <1>8, <1>9, <1>10 DEF Next, Definition, Logic

\* "Editing metadata never clobbers logic": whatever forms, titles, bindings
\* and renames came since, finished or cut off, a control under whatever id has
\* the logic it was last given, and the wires of the sources left selected.
THEOREM DefinitionKeepsLogic == Spec => []SavesKeepLogic
<1>1. Init => SavesKeepLogic
  <2> SUFFICES ASSUME Init PROVE SavesKeepLogic
    OBVIOUS
  <2>1. \A c \in Ids : Exists(c) => controls[c] \in Control /\ authored[c] = AsSaved(controls[c])
    BY DEF Init, Imported, Control, Kinds, Exists
  <2> QED
    BY <2>1, AsSavedKeeps, KeptRows
<1>2. Spec => [](TypeOK /\ BindsExisting)
  BY TypesInit, TypesNext, PTL DEF Spec
<1> QED
  BY <1>1, <1>2, KeepsNext, PTL DEF Spec
----------------------------------------------------------------------------
(* Bindings. *)

\* S holds every source that a logic reads.
Suffices(logic, S) == \A s \in Sources : LogicReads(logic, s) => s \in S
Covers(c, S) == Suffices(controls[c], S)

\* What BindingsCoverLogic rests on: what a half-done save is about to write
\* covers what the logic reads, a title save writes back bindings that do, and
\* the thread binds at least what the logic that it has read requires.
JobCovers ==
  job.at = "bind" /\ (job.settles \/ job.id \notin unsettled)
    => Covers(job.id, job.sources)
ToggleCovers == toggle.at = "write" => toggle.required \subseteq toggle.sources
SettledCover == \A c \in Ids : Exists(c) /\ c \notin unsettled => Covers(c, bindings[c])
CoverInv == SettledCover /\ JobCovers /\ ToggleCovers
Types == TypeOK /\ BindsExisting

\* Two rows with the same logic read the same sources.
LEMMA TitleReads ==
  ASSUME NEW row \in Control, NEW m, NEW s
  PROVE  LogicReads([row EXCEPT !.meta = m], s) <=> LogicReads(row, s)
<1> DEFINE new == [row EXCEPT !.meta = m]
<1>1. new.graph = row.graph /\ new.rule = row.rule
  BY DEF Control
<1> HIDE DEF new
<1>2. LogicReads(new, s) <=> LogicReads(row, s)
  BY <1>1 DEF LogicReads
<1> QED
  BY <1>2 DEF new

\* A save that writes a row and then bindings that cover it.
LEMMA SaveCovers ==
  ASSUME Types, CoverInv, NEW c \in Ids, NEW row \in Control,
         NEW S \in SUBSET Sources, Suffices(row, S),
         Upsert(c, row), ThenBind(c, S, TRUE), UNCHANGED <<bindings, toggle>>
  PROVE  CoverInv'
<1>1. /\ controls' = [controls EXCEPT ![c] = row] /\ unsettled' = unsettled \cup {c}
      /\ job' = [at |-> "bind", id |-> c, sources |-> S, settles |-> TRUE]
      /\ bindings' = bindings /\ toggle' = toggle
  BY DEF Upsert, ThenBind
<1>2. SettledCover'
  BY <1>1 DEF SettledCover, CoverInv, Covers, Types, TypeOK, Exists
<1>3. JobCovers'
  BY <1>1 DEF JobCovers, Covers, Types, TypeOK
<1>4. ToggleCovers'
  BY <1>1 DEF ToggleCovers, CoverInv
<1> QED
  BY <1>2, <1>3, <1>4 DEF CoverInv

\* A Python row reads nothing by itself.
LEMMA PythonCovers ==
  ASSUME Types, CoverInv, Idle,
         NEW c \in Ids, NEW m \in Metas, NEW k \in Codes \cup Generated,
         Author(c, PythonRow(m, k)), UNCHANGED <<bindings, job, toggle, unsettled>>
  PROVE  CoverInv'
<1>1. controls' = [controls EXCEPT ![c] = PythonRow(m, k)] /\ job = NoJob
  BY DEF Author, Upsert, Idle
<1>2. \A s : ~LogicReads(PythonRow(m, k), s)
  BY PythonRowIsRow DEF LogicReads
<1>3. SettledCover'
  BY <1>1, <1>2 DEF SettledCover, CoverInv, Covers, Suffices, Types, TypeOK, Exists
<1> QED
  BY <1>1, <1>3 DEF CoverInv, JobCovers, ToggleCovers, NoJob

LEMMA RenameCovers ==
  ASSUME Types, CoverInv, NEW c \in Ids, NEW d \in Ids, NEW f \in Forms \cup {BadForm},
         UpdateControl(c, d, f)
  PROVE  CoverInv'
<1>1. /\ job' = [at |-> "form", id |-> d, form |-> f] /\ toggle' = toggle
  BY DEF UpdateControl
<1>2. CASE d = c
  BY <1>1, <1>2 DEF UpdateControl, CoverInv, SettledCover, Covers, Exists,
                    JobCovers, ToggleCovers
<1>3. CASE d # c
  <2>1. /\ controls' = [controls EXCEPT ![d] = controls[c], ![c] = NoControl]
        /\ bindings' = [bindings EXCEPT ![d] = bindings[c], ![c] = {}]
        /\ unsettled' = IF c \in unsettled THEN (unsettled \ {c}) \cup {d}
                                           ELSE unsettled \ {d}
        /\ Exists(c)
    BY <1>3 DEF UpdateControl, MoveBindings
  <2>2. ASSUME NEW x \in Ids, Exists(x)', x \notin unsettled'
        PROVE  Covers(x, bindings[x])'
    <3>1. CASE x = d
      <4>1. c \notin unsettled /\ controls'[x] = controls[c] /\ bindings'[x] = bindings[c]
        BY <1>3, <2>1, <2>2, <3>1 DEF Types, TypeOK
      <4> QED
        BY <2>1, <4>1 DEF CoverInv, SettledCover, Covers
    <3>2. CASE x # d
      <4>1. x # c /\ x \notin unsettled /\ controls'[x] = controls[x] /\ bindings'[x] = bindings[x]
        BY <1>3, <2>1, <2>2, <3>2 DEF Types, TypeOK, Exists
      <4> QED
        BY <2>2, <4>1 DEF CoverInv, SettledCover, Covers, Exists
    <3> QED
      BY <3>1, <3>2
  <2>3. SettledCover'
    BY <2>2 DEF SettledCover
  <2> QED
    BY <1>1, <2>3 DEF CoverInv, JobCovers, ToggleCovers
<1> QED
  BY <1>2, <1>3

LEMMA TitleCovers ==
  ASSUME Types, CoverInv, NEW c \in Ids, NEW m \in Metas, UpdateTitle(c, m)
  PROVE  CoverInv'
<1> DEFINE row == [controls[c] EXCEPT !.meta = m]
<1>1. /\ controls' = [controls EXCEPT ![c] = row] /\ unsettled' = unsettled
      /\ job' = [at |-> "bind", id |-> c, sources |-> bindings[c], settles |-> FALSE]
      /\ bindings' = bindings /\ toggle' = toggle
      /\ Exists(c) /\ controls[c] \in Control
  BY DEF UpdateTitle, Upsert, ThenBind, Types, TypeOK, Exists
<1>2. \A s : LogicReads(row, s) <=> LogicReads(controls[c], s)
  BY <1>1, TitleReads
<1> HIDE DEF row
<1>3. SettledCover'
  BY <1>1, <1>2 DEF SettledCover, CoverInv, Covers, Suffices, Types, TypeOK, Exists
<1>4. c \notin unsettled => Suffices(row, bindings[c])
  BY <1>1, <1>2 DEF CoverInv, SettledCover, Covers, Suffices
<1>5. JobCovers'
  BY <1>1, <1>4 DEF JobCovers, Covers, Types, TypeOK
<1> QED
  BY <1>1, <1>3, <1>5 DEF CoverInv, ToggleCovers

LEMMA BindCovers ==
  ASSUME Types, CoverInv, BindSources
  PROVE  CoverInv'
<1>1. /\ job \in BindJobs /\ job.id \in Ids /\ job.at = "bind"
      /\ controls' = controls /\ toggle' = toggle /\ job' = NoJob
  BY JobKinds DEF BindSources, BindJobs, Types
<1>2. SettledCover'
  <2>1. CASE job.sources \cap Missing # {}
    BY <1>1, <2>1 DEF BindSources, SettledCover, CoverInv, Covers, Exists
  <2>2. CASE job.sources \cap Missing = {} /\ job.settles
    BY <1>1, <2>2 DEF BindSources, SettledCover, CoverInv, JobCovers, Covers, Exists, Types, TypeOK
  <2>3. CASE job.sources \cap Missing = {} /\ ~job.settles
    <3>1. bindings' = [bindings EXCEPT ![job.id] = job.sources] /\ unsettled' = unsettled
      BY <1>1, <2>3 DEF BindSources
    <3> QED
      BY <1>1, <2>3, <3>1 DEF SettledCover, CoverInv, JobCovers, Covers, Exists, Types, TypeOK
  <2> QED
    BY <2>1, <2>2, <2>3
<1> QED
  BY <1>1, <1>2 DEF CoverInv, JobCovers, ToggleCovers, NoJob

LEMMA ToggleReadCovers ==
  ASSUME Types, CoverInv, NEW c \in Ids, NEW s \in Sources \ Missing,
         NEW add \in BOOLEAN, ReadBindings(c, s, add)
  PROVE  CoverInv'
<1>1. toggle'.required \subseteq toggle'.sources
  BY DEF ReadBindings
<1> QED
  BY <1>1 DEF ReadBindings, CoverInv, SettledCover, Covers, Exists, JobCovers, ToggleCovers

LEMMA ToggleWriteCovers ==
  ASSUME Types, CoverInv, WriteBindings
  PROVE  CoverInv'
<1>1. /\ toggle \in Toggles /\ toggle.id \in Ids /\ toggle.at = "write"
      /\ toggle' = NoToggle /\ UNCHANGED <<controls, job>>
  BY ToggleKinds DEF WriteBindings, Toggles, Types
<1>2. ToggleCovers'
  BY <1>1 DEF ToggleCovers, NoToggle
<1>3. CASE UNCHANGED <<bindings, unsettled>>
  BY <1>1, <1>2, <1>3 DEF CoverInv, SettledCover, JobCovers, Covers, Exists
<1>4. CASE /\ bindings' = [bindings EXCEPT ![toggle.id] = toggle.sources]
           /\ unsettled' = IF Overtaken THEN unsettled \cup {toggle.id} ELSE unsettled
  <2>1. unsettled \subseteq unsettled'
    BY <1>4
  <2>2. JobCovers'
    BY <1>1, <2>1 DEF CoverInv, JobCovers, Covers
  <2>3. ASSUME NEW c \in Ids, Exists(c), c \notin unsettled'
        PROVE  Suffices(controls[c], bindings'[c])
    <3>1. CASE c # toggle.id
      <4>1. bindings'[c] = bindings[c] /\ c \notin unsettled
        BY <1>4, <2>1, <2>3, <3>1 DEF Types, TypeOK
      <4> QED
        BY <2>3, <4>1 DEF CoverInv, SettledCover, Covers
    <3>2. CASE c = toggle.id
      <4>1. bindings'[c] = toggle.sources /\ ~Overtaken
        BY <1>4, <2>3, <3>2 DEF Types, TypeOK
      <4>2. RequiredSources(controls[c]) \subseteq toggle.sources
        BY <1>1, <2>3, <3>2, <4>1 DEF Overtaken, CoverInv, ToggleCovers
      <4>3. controls[c] \in Control
        BY <2>3 DEF Types, TypeOK, Exists
      <4> QED
        BY <4>1, <4>2, <4>3, RequiredCovers DEF Suffices
    <3> QED
      BY <3>1, <3>2
  <2>4. SettledCover'
    BY <1>1, <2>3 DEF SettledCover, Covers, Exists
  <2> QED
    BY <1>2, <2>2, <2>4 DEF CoverInv
<1> QED
  BY <1>3, <1>4 DEF WriteBindings

LEMMA CoverStep ==
  ASSUME Types, CoverInv, [Next]_vars
  PROVE  CoverInv'
<1> USE DEF Types
<1>1. ASSUME NEW c \in Ids, NEW f \in Forms \cup {BadForm}, CreateControl(c, f)
      PROVE CoverInv'
  BY <1>1 DEF CreateControl, CoverInv, SettledCover, Covers, Exists, JobCovers, ToggleCovers
<1>2. ASSUME NEW c \in Ids, NEW g \in Graphs, SavePipeline(c, g)
      PROVE CoverInv'
  <2>1. controls[c] \in Control /\ g \in Graph
    BY <1>2 DEF SavePipeline, Exists, TypeOK
  <2> DEFINE row == [controls[c] EXCEPT !.kind = "pipeline", !.graph = g,
                                        !.rule = CompiledRule(g), !.code = CompiledCode(g)]
  <2>2. row \in Control /\ row.graph = g
    BY <2>1, PipelineRowConsistent DEF Control
  <2>3. /\ Upsert(c, row) /\ ThenBind(c, g.imports \cup g.others, TRUE)
        /\ UNCHANGED <<bindings, toggle>>
    BY <1>2 DEF SavePipeline, Author
  <2> HIDE DEF row
  <2>4. Suffices(row, g.imports \cup g.others)
    BY <2>1, <2>2 DEF LogicReads, Suffices
  <2>5. g.imports \cup g.others \in SUBSET Sources
    BY <2>1 DEF Graph
  <2> QED
    BY <2>2, <2>3, <2>4, <2>5, SaveCovers
<1>3. CASE SaveForm
  <2>1. job.id \in Ids /\ job.form \in Forms
    BY <1>3, JobKinds DEF SaveForm, FormJobs
  <2> DEFINE row == FormRow(controls[job.id], job.form)
             S == job.form.sources \cup RequiredSources(row)
  <2>2. row \in Control
    <3>1. CASE controls[job.id] = NoControl
      BY <2>1, <3>1, EmptyLogicIsRow DEF FormRow
    <3>2. CASE controls[job.id] \in Control
      BY <2>1, <3>2, FormRowKeeps
    <3> QED
      BY <2>1, <3>1, <3>2 DEF TypeOK
  <2>3. S \in SUBSET Sources /\ Suffices(row, S)
    BY <2>1, <2>2, RequiredCovers DEF Forms, Suffices
  <2>4. Upsert(job.id, row) /\ ThenBind(job.id, S, TRUE) /\ UNCHANGED <<bindings, toggle>>
    BY <1>3 DEF SaveForm
  <2> HIDE DEF row, S
  <2> QED
    BY <2>1, <2>2, <2>3, <2>4, SaveCovers
<1>4. ASSUME NEW c \in Ids, ConvertToPython(c)
      PROVE CoverInv'
  <2>1. controls[c] \in Control /\ controls[c].graph \in Graph
    BY <1>4 DEF ConvertToPython, Exists, TypeOK, Control
  <2>2. /\ controls[c].meta \in Metas
        /\ [test |-> controls[c].graph.test, others |-> controls[c].graph.others] \in Generated
    BY <2>1 DEF Control, Graph, Generated
  <2> QED
    BY <1>4, <2>2, PythonCovers DEF ConvertToPython
<1>5. ASSUME NEW w \in awaiting, NEW k \in Codes, PythonArrives(w, k)
      PROVE CoverInv'
  <2>1. w.id \in Ids /\ w.meta \in Metas
    BY DEF TypeOK, Waiting
  <2> QED
    BY <1>5, <2>1, PythonCovers DEF PythonArrives
<1>6. ASSUME \/ \E c \in Ids : SavePython(c)
             \/ UNCHANGED vars
      PROVE CoverInv'
  BY <1>6 DEF SavePython, vars, CoverInv, SettledCover, Covers, Exists, JobCovers, ToggleCovers
<1>7. CASE RejectForm \/ Crash
  <2>1. /\ UNCHANGED <<controls, bindings, unsettled>> /\ job' = NoJob
        /\ toggle' \in {toggle, NoToggle}
    BY <1>7 DEF RejectForm, Crash
  <2> QED
    BY <2>1 DEF CoverInv, SettledCover, Covers, Exists, JobCovers, ToggleCovers, NoJob, NoToggle
<1> QED
  BY <1>1, <1>2, <1>3, <1>4, <1>5, <1>6, <1>7, RenameCovers, TitleCovers, BindCovers,
     ToggleReadCovers, ToggleWriteCovers
  DEF Next, Definition, Logic

LEMMA CoverInit == Init => CoverInv
<1> SUFFICES ASSUME Init PROVE CoverInv
  OBVIOUS
<1>1. SettledCover
  <2>1. ASSUME NEW c \in Ids, Exists(c) PROVE Covers(c, bindings[c])
    <3>1. controls[c].graph = NoGraph /\ bindings[c] = controls[c].rule.others
      BY <2>1 DEF Init, Imported, Exists
    <3> QED
      BY <3>1 DEF Covers, Suffices, LogicReads
  <2> QED
    BY <2>1 DEF SettledCover
<1> QED
  BY <1>1 DEF Init, CoverInv, JobCovers, ToggleCovers, NoJob, NoToggle

\* Although the thread that changes a single binding runs between the writes
\* of forms, titles, renames and logic saves, a control whose last save ran to
\* its end is bound to every source its logic reads, unless that thread wrote
\* over it for logic that required less: through failed foreign keys, deaths
\* and waiting saves.
THEOREM BindingsKept == Spec => []BindingsCoverLogic
<1>1. CoverInv => BindingsCoverLogic
  BY DEF CoverInv, SettledCover, Covers, Suffices, BindingsCoverLogic
<1>2. Spec => []Types
  BY TypesInit, TypesNext, PTL DEF Spec, Types
<1>3. Types /\ CoverInv /\ [Next]_vars => CoverInv'
  BY CoverStep
<1> QED
  BY <1>1, <1>2, <1>3, CoverInit, PTL DEF Spec
============================================================================
