----------------------------- MODULE Engagement -----------------------------
(***************************************************************************)
(* The engagement as a whole: its project row with the settings of the     *)
(* install, the demo that first-run setup loads and "Reset to demo"        *)
(* restores (store/import_service.py), and the export of a bundle          *)
(* (store/export_service.py, bundle/assemble.py, bundle/archive.py) while  *)
(* controls are run.                                                       *)
(*                                                                         *)
(* Setup, the settings, the demo reset and the editors are coroutines that *)
(* do not await between their first read and their last write: they never  *)
(* interleave with each other.  Runs and exports are threads of the pool:  *)
(* each of their store accesses and files is a step, and they interleave   *)
(* with each other and with a reset.  The process may die between any two  *)
(* steps.  A file is opened, which truncates it, and written in a later    *)
(* step: of two writers of one file, or of a writer and a reader, either   *)
(* may come in between.                                                    *)
(*                                                                         *)
(* The workpaper and the evidence of a control in target/ are one paper    *)
(* (their own order is that of ControlRuns).                               *)
(*                                                                         *)
(* A control imports one source.  What a run computes is left out          *)
(* (ControlRuns): a row is known by its control, procedure and time.       *)
(***************************************************************************)
EXTENDS Naturals, FiniteSets, SequencesExt, Lists

CONSTANTS
  Controls,   \* control ids
  Sources,    \* source ids, each with the one data file of that name
  SourceOf,   \* [Controls -> Sources]: what a control imports
  Whole,      \* procedure_id "": a control run as a whole
  Graphs,     \* [Controls -> sets of procedure sequences it may have]
  Absent,     \* no such control; no paper; no bundle; no project
  Torn,       \* an archive that is opened and not closed
  DemoGraph,  \* [the controls of the demo -> their procedures]
  DemoSources,\* the sources of the demo
  Keys,       \* the settings a reset preserves
  Values, Unset,
  Requests,   \* threads that run controls
  MaxRuns, MaxEdits, MaxLoads, MaxExports, MaxDeaths,  \* bounds, on each
  MaxEvents                                            \* and on all of them

Demo == DOMAIN DemoGraph

ASSUME DemoAssumption ==
  /\ Demo \subseteq Controls /\ DemoSources \subseteq Sources
  /\ \A c \in Demo : DemoGraph[c] \in Graphs[c] /\ SourceOf[c] \in DemoSources
\* A row, or a graph, is never mistaken for none.
ASSUME AbsentAssumption ==
  /\ Absent \notin [named : BOOLEAN, system : [Keys -> Values \cup {Unset}]]
  /\ \A c \in Controls : Absent \notin Graphs[c]
ASSUME GraphAssumption ==
  \A c \in Controls : \A g \in Graphs[c] :
    /\ g \in Seq(Range(g)) /\ Len(g) > 0 /\ IsInjective(g)
    /\ g = <<Whole>> \/ Whole \notin Range(g)
\* There are finitely many controls, and a bound is a number.
ASSUME BoundAssumption == IsFiniteSet(Controls) /\ MaxRuns \in Nat

VARIABLES
  project,   \* the row of table project: is it named, and its settings
  sources,   \* ids in table sources
  columns,   \* sources with rows in source_columns
  current,   \* sources with a current row in source_files
  controls,  \* table controls: the procedures of each; <<Whole>>: no graph
  bound,     \* controls bound to their source (control_sources)
  files,     \* data/: the sources whose file is there
  runs,      \* table runs, in rowid order
  papers,    \* target/: per control the run whose paper is there, if whole
  bundle,    \* target/bundle.zip: per control the results and the papers
  req,       \* run requests
  export,    \* the export request
  load,      \* the demo reset or load
  chosen,    \* history: the settings last chosen
  done,      \* history: the newest run of each control that completed
  count      \* what the bounds count

store == <<project, sources, columns, current, controls, bound>>
disk == <<files, papers, bundle>>
vars == <<store, runs, disk, req, export, load, chosen, done, count>>
----------------------------------------------------------------------------
NoSettings == [k \in Keys |-> Unset]
Nothing == [c \in Controls |-> Absent]
Idle == [step |-> "idle"]

\* A new store, or an engagement with the demo in which the user has authored
\* controls of his own on sources of his own and run nothing yet.
Init ==
  /\ \/ /\ project = Absent /\ sources = {} /\ controls = Nothing
     \/ /\ project = [named |-> TRUE, system |-> NoSettings]
        /\ sources = Sources
        /\ controls \in [Controls -> UNION {Graphs[c] : c \in Controls}]
        /\ \A c \in Controls : controls[c] \in IF c \in Demo THEN {DemoGraph[c]} ELSE Graphs[c]
  /\ columns = sources /\ current = sources /\ files = sources
  /\ bound = {c \in Controls : controls[c] # Absent}
  /\ runs = <<>> /\ papers = Nothing /\ bundle = Absent
  /\ req = [r \in Requests |-> Idle] /\ export = Idle /\ load = Idle
  /\ chosen = NoSettings /\ done = Nothing
  /\ count = [runs |-> 0, edits |-> 0, loads |-> 0, exports |-> 0, deaths |-> 0]

Bump(what) ==
  /\ count.runs + count.edits + count.loads + count.exports + count.deaths < MaxEvents
  /\ count' = [count EXCEPT ![what] = @ + 1]
\* repo.get_project(conn) or {}
SystemOf(p) == IF p = Absent THEN NoSettings ELSE p.system
Named == project # Absent /\ project.named
\* The event loop is free: no reset or load is at work.
Loop == load = Idle
Active == {r \in Requests : req[r] # Idle}
----------------------------------------------------------------------------
(* Settings, setup and authoring *)

\* save_ai_settings, set_check_updates_on_launch: one key of project.system.
Choose(k, v) ==
  /\ Loop /\ SystemOf(project)[k] # v /\ count.edits < MaxEdits /\ Bump("edits")
  /\ project' = [named |-> Named, system |-> [SystemOf(project) EXCEPT ![k] = v]]
  /\ chosen' = [chosen EXCEPT ![k] = v]
  /\ UNCHANGED <<sources, columns, current, controls, bound, runs, disk, req, export, load, done>>

\* setup_name: the row is upserted without a system, which drops settings
\* chosen before.  The page offers it for an engagement without a name; the
\* handler does not ask.
Setup ==
  /\ Loop
  /\ project' = [named |-> TRUE, system |-> NoSettings]
  /\ chosen' = NoSettings
  /\ UNCHANGED <<sources, columns, current, controls, bound, runs, disk, req, export, load, done,
                 count>>

\* A source is uploaded; its rows and its file (SourceFiles).
Upload(s) ==
  /\ Loop /\ Named /\ s \notin sources /\ count.edits < MaxEdits /\ Bump("edits")
  /\ sources' = sources \cup {s} /\ columns' = columns \cup {s} /\ current' = current \cup {s}
  /\ files' = files \cup {s}
  /\ UNCHANGED <<project, controls, bound, runs, papers, bundle, req, export, load, chosen, done>>

\* A control is saved with another graph, or created.
Author(c, g) ==
  /\ Loop /\ Named /\ SourceOf[c] \in sources /\ controls[c] # g
  /\ count.edits < MaxEdits /\ Bump("edits")
  /\ controls' = [controls EXCEPT ![c] = g] /\ bound' = bound \cup {c}
  /\ UNCHANGED <<project, sources, columns, current, runs, disk, req, export, load, chosen, done>>
----------------------------------------------------------------------------
(* Loading the demo, and resetting to it *)

Loading(step) == load # Idle /\ load.step = step
Begin(step, kept) ==
  load' = [step |-> step, kept |-> kept, todo |-> {}, at |-> Absent,
           resets |-> step = "files", raced |-> Active # {} \/ export # Idle]
Goto(step, todo) == load' = [load EXCEPT !.step = step, !.todo = todo]
\* One of the things to do, then on to the step and the things after them.
Each(x, step, todo) ==
  IF load.todo = {x} THEN Goto(step, todo) ELSE Goto(load.step, load.todo \ {x})

\* setup_demo: load_demo, over whatever is there (the page offers it for an
\* engagement without a name; the handler does not ask).
LoadDemo ==
  /\ Loop /\ count.loads < MaxLoads /\ Bump("loads")
  /\ Begin("project", NoSettings)
  /\ UNCHANGED <<store, runs, disk, req, export, chosen, done>>

\* reset_to_demo: the settings are read, and every table is emptied in one
\* transaction, rows of runs under way included.
Reset ==
  /\ Loop /\ count.loads < MaxLoads /\ Bump("loads")
  /\ Begin("files", SystemOf(project))
  /\ project' = Absent /\ sources' = {} /\ columns' = {} /\ current' = {}
  /\ controls' = Nothing /\ bound' = {}
  /\ runs' = <<>> /\ done' = Nothing
  /\ req' = [r \in Requests |-> IF r \in Active THEN [req[r] EXCEPT !.torn = TRUE] ELSE Idle]
  /\ UNCHANGED <<disk, export, chosen>>

\* Mutant: the data directory is emptied of the demo's files only.
StaleIn(dir) == dir \cap DemoSources
\* _clear_stale_files: data/ file by file, ...
Stale(dir) == dir
ClearFile(s) ==
  /\ Loading("files") /\ s \in Stale(files)
  /\ files' = files \ {s}
  /\ UNCHANGED <<store, runs, papers, bundle, req, export, load, chosen, done, count>>

\* ... then target/.
ClearTarget ==
  /\ Loading("files") /\ Stale(files) = {}
  /\ papers' = Nothing /\ bundle' = Absent
  /\ Goto("project", {})
  /\ UNCHANGED <<store, runs, files, req, export, chosen, done, count>>

\* import_project: the row of the project has the system of the demo's yaml,
\* in which the settings of the install do not occur.
ImportProject ==
  /\ Loading("project")
  /\ project' = [named |-> TRUE, system |-> NoSettings]
  /\ chosen' = IF load.resets THEN chosen ELSE NoSettings
  /\ Goto("sources", DemoSources)
  /\ UNCHANGED <<sources, columns, current, controls, bound, runs, disk, req, export, done, count>>

\* upsert_source, ...
ImportSource(s) ==
  /\ Loading("sources") /\ s \in load.todo
  /\ sources' = sources \cup {s}
  /\ load' = [load EXCEPT !.step = "columns", !.at = s]
  /\ UNCHANGED <<project, columns, current, controls, bound, runs, disk, req, export, chosen, done,
                 count>>

\* ... set_columns, ...
ImportColumns ==
  /\ Loading("columns")
  /\ columns' = columns \cup {load.at} /\ Goto("initial", load.todo)
  /\ UNCHANGED <<project, sources, current, controls, bound, runs, disk, req, export, chosen, done,
                 count>>

\* ... set_initial_file: three commits.
ImportFile ==
  /\ Loading("initial")
  /\ current' = current \cup {load.at}
  /\ IF load.todo = {load.at} THEN Goto("controls", Demo)
                              ELSE Goto("sources", load.todo \ {load.at})
  /\ UNCHANGED <<project, sources, columns, controls, bound, runs, disk, req, export, chosen, done,
                 count>>

\* upsert_control with what _resolve_authoring finds
ImportControl(c) ==
  /\ Loading("controls") /\ c \in load.todo
  /\ controls' = [controls EXCEPT ![c] = DemoGraph[c]]
  /\ load' = [load EXCEPT !.step = "bind", !.at = c]
  /\ UNCHANGED <<project, sources, columns, current, bound, runs, disk, req, export, chosen, done,
                 count>>

\* set_control_sources; after the last control the project gets its display
\* name.
Bind ==
  /\ Loading("bind")
  /\ bound' = bound \cup {load.at}
  /\ IF load.todo = {load.at} THEN Goto("copy", DemoSources)
                              ELSE Goto("controls", load.todo \ {load.at})
  /\ UNCHANGED <<project, sources, columns, current, controls, runs, disk, req, export, chosen, done,
                 count>>

\* shutil.copy2 of each csv of the demo
Copy(s) ==
  /\ Loading("copy") /\ s \in load.todo
  /\ files' = files \cup {s} /\ Each(s, "restore", {})
  /\ UNCHANGED <<store, runs, papers, bundle, req, export, chosen, done, count>>

\* Mutant: the settings are not restored.
Demoted(system, kept) == system
\* system.update(preserved)
Restored(system, kept) == [k \in Keys |-> IF kept[k] = Unset THEN system[k] ELSE kept[k]]
FinishLoad ==
  /\ Loading("restore")
  /\ project' = IF load.resets
                THEN [project EXCEPT !.system = Restored(@, load.kept)] ELSE project
  /\ load' = Idle
  /\ UNCHANGED <<sources, columns, current, controls, bound, runs, disk, req, export, chosen, done,
                 count>>
----------------------------------------------------------------------------
(* Runs *)

\* A run or an export that overlaps a load is noted on it.
Overlap == load' = IF Loop THEN load ELSE [load EXCEPT !.raced = TRUE]

\* POST /controls/<id>/run: the time is read, then project and control.
\* torn (history): a reset wiped rows of the run; alone (history): no other run
\* was writing the paper when this one opened it.
StartRun(r, c) ==
  /\ req[r] = Idle /\ count.runs < MaxRuns /\ Bump("runs")
  /\ controls[c] # Absent /\ c \in bound /\ SourceOf[c] \in current
  /\ req' = [req EXCEPT ![r] = [step |-> "proc", control |-> c, at |-> count.runs + 1,
                               graph |-> controls[c], n |-> 1, torn |-> FALSE,
                               alone |-> TRUE]]
  /\ Overlap
  /\ UNCHANGED <<store, runs, disk, export, chosen, done>>

RowOf(q, p) == [control |-> q.control, proc |-> p, at |-> q.at]
Runnable(q) == SourceOf[q.control] \in files /\ controls[q.control] # Absent

\* _run_one_procedure: the source is loaded and one row inserted.
RunProc(r) == LET q == req[r] IN
  /\ q.step = "proc" /\ Runnable(q)
  /\ runs' = Append(runs, RowOf(q, q.graph[q.n]))
  /\ req' = [req EXCEPT ![r] = IF q.n < Len(q.graph) THEN [q EXCEPT !.n = @ + 1]
                                                     ELSE [q EXCEPT !.step = "paper"]]
  /\ UNCHANGED <<store, disk, export, load, chosen, done, count>>

\* Whatever is raised, the page says that the control is not ready: the file
\* is gone, a row violates the foreign key, target/ goes under the writer.
RunFails(r) == LET q == req[r] IN
  /\ \/ q.step = "proc" /\ ~Runnable(q)
     \/ q.step \in {"paper", "write"} /\ Loading("files") /\ Stale(files) = {}
     \/ q.step = "write" /\ papers[q.control] = Absent
     \/ q.step = "aggregate" /\ controls[q.control] = Absent
  /\ req' = [req EXCEPT ![r] = Idle]
  /\ UNCHANGED <<store, runs, disk, export, load, chosen, done, count>>

Completes(q) ==
  done' = IF q.torn \/ (done[q.control] # Absent /\ done[q.control].at > q.at) THEN done
          ELSE [done EXCEPT ![q.control] = [at |-> q.at, graph |-> q.graph]]

\* Mutant: the files do not have the control in their name.
OneForAll(q) == Controls
\* target/: <control id>.html, .md and -violations.json
PapersOf(q) == {q.control}
\* A paper is known by the run that opened it last.
Paper(at) == [at |-> at, whole |-> TRUE]
Opened(at) == [at |-> at, whole |-> FALSE]
\* _write_procedure_outputs opens the first of the files, ...
OpenPaper(r) == LET q == req[r] IN
  /\ q.step = "paper"
  /\ papers' = [c \in Controls |-> IF c \in PapersOf(q) THEN Opened(q.at) ELSE papers[c]]
  /\ req' = [req EXCEPT ![r].step = "write",
       ![r].alone = \A s \in Active : req[s].step = "write" => req[s].control # q.control]
  /\ UNCHANGED <<store, runs, files, bundle, export, load, chosen, done, count>>

\* ... and has written the last.  Beside another run of the control the files
\* may be a mixture; if target/ is dropped meanwhile, some of them may be back.
Outcomes(q, c) ==
  IF papers[c] = Absent THEN {Absent, Opened(q.at)}
  ELSE IF q.alone /\ papers[c] = Opened(q.at) THEN {Paper(q.at)}
  ELSE {Paper(q.at), Opened(q.at)}
\* A run of one procedure is over.
WritePaper(r) == LET q == req[r] IN
  /\ q.step = "write"
  /\ \E paper \in Outcomes(q, q.control) :
       papers' = [c \in Controls |-> IF c \in PapersOf(q) THEN paper ELSE papers[c]]
  /\ IF Len(q.graph) > 1
     THEN req' = [req EXCEPT ![r].step = "aggregate"] /\ UNCHANGED done
     ELSE req' = [req EXCEPT ![r] = Idle] /\ Completes(q)
  /\ UNCHANGED <<store, runs, files, bundle, export, load, chosen, count>>

\* _aggregate_run: the row of the control as a whole.
Aggregate(r) == LET q == req[r] IN
  /\ q.step = "aggregate" /\ controls[q.control] # Absent
  /\ runs' = Append(runs, RowOf(q, Whole))
  /\ req' = [req EXCEPT ![r] = Idle] /\ Completes(q)
  /\ UNCHANGED <<store, disk, export, load, chosen, count>>
----------------------------------------------------------------------------
(* Export *)

\* The control's newest run completed, on the graph it still has.
Settled(c) ==
  /\ done[c] # Absent /\ done[c].graph = controls[c]
  /\ \A i \in DOMAIN runs : runs[i].control = c => runs[i].at <= done[c].at
Intact == {c \in Controls : /\ Settled(c) /\ papers[c] = Paper(done[c].at)
                            /\ \A r \in Active : req[r].control # c}

\* POST /export: the gate and load_project_from_store read the controls.
\* began (history): the rows there were, what else could change, and the
\* controls whose paper is of their newest run, with no run under way.
StartExport ==
  /\ export = Idle /\ count.exports < MaxExports /\ Bump("exports")
  /\ Overlap
  /\ export' = [step |-> "rows",
                todo |-> SetToSeq({c \in Controls : controls[c] # Absent}),
                rows |-> <<>>, info |-> Nothing, workpapers |-> Nothing,
                began |-> [rows |-> Len(runs), edits |-> count.edits, loads |-> count.loads,
                           loop |-> Loop, intact |-> Intact]]
  /\ UNCHANGED <<store, runs, disk, req, chosen, done>>

Exporting(step) == export # Idle /\ export.step = step

RowsOf(c) == Only(runs, {row \in Range(runs) : row.control = c})
\* list_runs_for: ORDER BY executed_at DESC, in rowid order within one time.
Newest(rows) ==
  LET at(t) == Only(rows, {row \in Range(rows) : row.at = t})
  IN FlattenSeq([i \in 1 .. MaxRuns |-> at(MaxRuns + 1 - i)])
\* Mutant: the rows are taken as the store lists them.
AsListed(c) == Newest(RowsOf(c))
\* _to_run_dicts: oldest first.
Chronological(c) == Reverse(Newest(RowsOf(c)))
ReadRuns ==
  /\ Exporting("rows") /\ export.todo # <<>>
  /\ LET c == Head(export.todo)
     IN export' = [export EXCEPT !.rows = Put(@, c, Chronological(c)), !.todo = Tail(@)]
  /\ UNCHANGED <<store, runs, disk, req, load, chosen, done, count>>

\* "no runs to export", a page with status 400
NoRuns ==
  /\ Exporting("rows") /\ export.todo = <<>>
  /\ \A c \in DOMAIN export.rows : export.rows[c] = <<>>
  /\ export' = Idle
  /\ UNCHANGED <<store, runs, disk, req, load, chosen, done, count>>

\* _procedure_info_by_control: the controls are read again; one with less than
\* two procedures has no info.
ReadInfo ==
  /\ Exporting("rows") /\ export.todo = <<>>
  /\ \E c \in DOMAIN export.rows : export.rows[c] # <<>>
  /\ export' = [export EXCEPT !.step = "write",
       !.info = [c \in Controls |-> IF controls[c] # Absent /\ Len(controls[c]) > 1
                                    THEN controls[c] ELSE Absent]]
  /\ UNCHANGED <<store, runs, disk, req, load, chosen, done, count>>

\* proc_latest: a later row of the procedure overwrites an earlier one.
LatestOf(rows, p) == Last(Only(rows, {row \in Range(rows) : row.proc = p}))
HasRun(rows, p) == \E i \in DOMAIN rows : rows[i].proc = p
\* _build_workpaper: the procedures that have a run, each with its latest; or
\* the last run as the only one.
Workpaper(rows, info) ==
  IF info # Absent /\ \E i \in DOMAIN rows : rows[i].proc # Whole
  THEN LET shown == Only(info, {p \in Range(info) : HasRun(rows, p)})
       IN [i \in DOMAIN shown |-> LatestOf(rows, shown[i])]
  ELSE IF rows = <<>> THEN <<>> ELSE <<Last(rows)>>

HasTarget == papers # Nothing
\* assemble_bundle, and write_bundle opens the archive in its place: what an
\* earlier export wrote is gone.  The manifest is the first member.
OpenBundle ==
  /\ Exporting("write") /\ HasTarget
  /\ bundle' = Torn /\ export' = [export EXCEPT !.step = "workpapers"]
  /\ UNCHANGED <<store, runs, files, papers, req, load, chosen, done, count>>

\* The files of target/workpapers as they are by now, ...
CopyWorkpapers ==
  /\ Exporting("workpapers")
  /\ export' = [export EXCEPT !.step = "evidence", !.workpapers = papers]
  /\ UNCHANGED <<store, runs, disk, req, load, chosen, done, count>>

\* ... those of target/evidence, and the archive is closed, unless a reset has
\* dropped it.
CloseBundle ==
  /\ Exporting("evidence")
  /\ bundle' = IF bundle = Absent THEN Absent ELSE
       [results |-> [c \in DOMAIN export.rows |-> Workpaper(export.rows[c], export.info[c])],
        workpapers |-> export.workpapers, evidence |-> papers]
  /\ export' = Idle
  /\ UNCHANGED <<store, runs, files, papers, req, load, chosen, done, count>>

\* There is no target/ to write into: no run has written a paper since it was
\* dropped.  An error page; nothing of the store changes.
ExportFails ==
  /\ Exporting("write") /\ ~HasTarget
  /\ export' = Idle
  /\ UNCHANGED <<store, runs, disk, req, load, chosen, done, count>>
----------------------------------------------------------------------------
\* The process dies in a load or an export (what a death in a run alone leaves
\* is the matter of ControlRuns).  A reset it dies in takes with it the settings
\* that it had wiped and not yet restored.
Die ==
  /\ count.deaths < MaxDeaths /\ Bump("deaths")
  /\ export # Idle \/ ~Loop
  /\ req' = [r \in Requests |-> Idle] /\ export' = Idle /\ load' = Idle
  /\ chosen' = IF ~Loop /\ load.resets THEN SystemOf(project) ELSE chosen
  /\ UNCHANGED <<store, runs, disk, done>>

Next ==
  \/ \E k \in Keys, v \in Values \cup {Unset} : Choose(k, v)
  \/ Setup \/ LoadDemo \/ Reset
  \/ \E s \in Sources : Upload(s) \/ ClearFile(s) \/ ImportSource(s) \/ Copy(s)
  \/ \E c \in Controls : \E g \in Graphs[c] : Author(c, g)
  \/ \E c \in Controls : ImportControl(c)
  \/ ClearTarget \/ ImportProject \/ ImportColumns \/ ImportFile \/ Bind \/ FinishLoad
  \/ \E r \in Requests : \/ \E c \in Controls : StartRun(r, c)
                         \/ RunProc(r) \/ RunFails(r) \/ OpenPaper(r) \/ WritePaper(r)
                         \/ Aggregate(r)
  \/ StartExport \/ ReadRuns \/ NoRuns \/ ReadInfo
  \/ OpenBundle \/ CopyWorkpapers \/ CloseBundle \/ ExportFails
  \/ Die

Spec == Init /\ [][Next]_vars
----------------------------------------------------------------------------
(* Properties *)

\* The settings of the install outlive the engagement: whenever no load is
\* under way they are the ones last chosen, through resets too (the promise of
\* reset_to_demo); setup and a load on its page start from none, and a process
\* that dies within a reset loses them.
SettingsKept == Loop => SystemOf(project) = chosen

DemoLoaded ==
  /\ Named /\ DemoSources \subseteq sources \cap columns \cap current \cap files
  /\ \A c \in Demo : controls[c] = DemoGraph[c] /\ c \in bound
OnlyDemo ==
  /\ sources = DemoSources /\ columns = DemoSources /\ current = DemoSources
  /\ files = DemoSources /\ bound = Demo
  /\ \A c \in Controls \ Demo : controls[c] = Absent
  /\ runs = <<>> /\ papers = Nothing /\ bundle = Absent

\* A load that comes to its end leaves every control of the demo as shipped,
\* bound, and with its data file, in whatever state an earlier death left the
\* engagement; a reset that no run or export overlapped leaves nothing else
\* ("leftover junk cannot survive the reset", import_service.py:287).
ResetRestores ==
  [][~Loop /\ Loop' /\ count' = count
     => DemoLoaded' /\ (load.resets /\ ~load.raced => OnlyDemo')]_vars

\* Neither a row nor an edit nor a load since the export began.
Undisturbed ==
  /\ export.began.loop /\ Len(runs) = export.began.rows
  /\ count.edits = export.began.edits /\ count.loads = export.began.loads
\* An export has closed its archive.
Closed == bundle' # bundle /\ bundle' \notin {Absent, Torn}

\* The results in the manifest of an archive are current.  Unless a reset came
\* in between, none is older than one that its procedure had when the export
\* began; and if nothing changed meanwhile, the results of a control whose
\* newest run completed on its present graph are those of that run, one per
\* procedure, in the order of the graph.
BundleCurrent ==
  [][Closed =>
     \A c \in DOMAIN bundle'.results : LET shown == bundle'.results[c] IN
       /\ count.loads = export.began.loads /\ Loop =>
            \A i \in DOMAIN shown, j \in 1 .. export.began.rows :
              LET old == runs[j]
              IN old.control = c /\ old.proc = shown[i].proc => old.at <= shown[i].at
       /\ Undisturbed /\ Settled(c) =>
            shown = [i \in DOMAIN controls[c] |->
                      [control |-> c, proc |-> controls[c][i], at |-> done[c].at]]]_vars

\* An archive hangs together: of a control that no run was under way of when the
\* export began, and whose paper was that of its newest run, it holds the
\* workpaper and the evidence of the very run that its results are of, whatever
\* other controls' runs write meanwhile, unless a row came in, or an edit or a
\* load.
BundleWhole ==
  [][Closed /\ Undisturbed =>
     \A c \in export.began.intact : LET at == done[c].at IN
       /\ bundle'.workpapers[c] = Paper(at) /\ bundle'.evidence[c] = Paper(at)
       /\ c \in DOMAIN bundle'.results
            => \A i \in DOMAIN bundle'.results[c] : bundle'.results[c][i].at = at]_vars
=============================================================================
