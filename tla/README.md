# uticen-lite control plane: TLA+ models, TLC checks and TLAPS proofs

This directory models the parts of `uticen_lite` (the local control plane and its
command line) whose correctness depends on the *order* of things: files and
database rows written one after the other, handlers that share a process, runs
that take a while, schema migrations, and a program that replaces itself.
Each component has a module, a TLC configuration per question asked of it, and
where it pays, a module of theorems checked by TLAPS. `PROJECT.json` ties every
definition to the source lines it stands for.

    tlc -workers 2 -config ControlRuns_overlap.cfg MCControlRuns   # a run
    tlapm SourceFilesProofs.tla                                    # the proofs

## 1. The system

One process serves a FastAPI application (`plane/`) over one SQLite database,
`controlplane.db`, and over plain files next to it (`data/`, `data/.pending/`,
`data/.versions/`, `target/`). The command line (`cli/`) opens the same store
from processes of its own.

Three facts about scheduling shape all models:

- **Handlers that change sources and controls are `async def`.** They are
  coroutines of one event loop: between two `await`s they are atomic with
  respect to each other, though not with respect to a dying process.
- **Run, export, update and all GET handlers are plain `def`.** They run in the
  server's thread pool and interleave with everything, between any two
  statements.
- **Every write commits itself.** A function of `store/repo.py` is one
  transaction; a handler is a sequence of them, mixed with file writes. Nothing
  undoes the first half of a handler whose second half fails.

### Components

| Component | State | Operations | What makes it correct |
|---|---|---|---|
| Data sources and their files (`plane/routes/sources.py`, `store/repo.py`) | tables `sources`, `columns`, `source_files`, `source_fetch`; files under `data/` | add (upload, URL), refresh, re-fetch, confirm, cancel, save, as-of date | no uploaded version is ever lost; the rows describe the file that runs read; what the editor set survives refreshes |
| Control runs (`store/run_service.py`, `runner/execute.py`, `plane/routes/runs.py`) | tables `runs`, `violations`; files under `target/` | run: load, test each procedure, store, write html, md and evidence, aggregate | the run history is a ledger; files show stored results; a fan-out is complete or the request failed |
| Run page, badge, history (`plane/routes/runs.py`, `plane/routes/dashboard.py`) | none of their own | read | the verdict shown is the workpaper's |
| Store schema (`store/migrations.py`, `store/db.py`) | `user_version`, tables, columns | `migrate`, from the server and from `import` | a store of any release opens, and once open has the whole schema |
| One-click upgrade (`upgrade/spawn.py`, `plane/routes/updates.py`, `plane/__main__.py`) | processes, the status file, the reconnecting page | POST, wait, install, restart, report | the helper ends and a server answers again; the report is true and shown once at most |
| Control editors (`plane/routes/controls.py`, `plane/routes/pipeline.py`) | tables `controls`, `control_sources` | save, rename, pipeline edits, convert, bind | the stored test is the one the graph shows; bindings stay a superset of what the logic needs; no metadata save touches logic |
| Pipeline graph, compile, trace, procedures (`pipeline/`) | none (pure) | parse, topological order, procedures, compile, count, trace | the compiled test flags what the preview and the trace show; every Test runs once |
| Preview and step cache (`pipeline/materialize.py`) | an LRU of 64 frames | plan, execute, update | a preview never shows rows of an older file |
| Rules (`rules/`) | none (pure) | parse, evaluate, render | a rule flags what the steps it was made from flag |
| Export bundle (`store/export_service.py`, `bundle/`) | one archive | read runs, choose, assemble, write | a workpaper shows the newest result of each procedure |
| Setup, import and demo reset (`store/import_service.py`, `plane/routes/settings.py`, `plane/routes/setup.py`) | the whole store | name, load the demo, reset | a reset that ends leaves the demo and the settings; one that fails can be repeated |
| Update check, adapters, fetch, AI drafting, rendering, CLI | small or none | I/O and formatting | out of scope or abstracted, see section 6 |

### How they interact

A confirmed refresh rewrites `data/<name>`, which runs read by path without
asking the database (`execute.py`); the columns it reconciles are those the
editors offer. A run reads the control's row twice, then stores rows with a
foreign key to it; a rename moves row and runs together. The dashboard reads
runs and the upgrade's status file. All previews share one step cache. A reset
empties tables and directories under runs and exports that are under way.
Everybody first goes through `migrate`.

### What is hard

Half-finished handlers after a death (sources, runs, migrations, reset); threads
that act on a file or a row read earlier (run against confirm, against rename,
against reset; preview against confirm); two processes in `migrate`; a cache
without a lock; a one-shot file with two readers and several writers (upgrade
status); a deadline that passes while a request lingers (upgrade); four
implementations of what a step flags (compiler, rule, preview, trace).
`PROJECT.json` lists the hazards at their lines, with the properties that watch
them, or the gap of the code that a property has to leave out.

## 2. Modules

| Module | Models | Theorems in |
|---|---|---|
| `SourceVault` | abstract: the recoverable contents of a source only grow | |
| `SourceFiles` | the source handlers, one step per file write or repo call | `SourceFilesProofs` |
| `RunLedger` | abstract: run entries are added once and never change; only their owner may | |
| `ControlRuns` | the run request, the editors' writes it meets, the files under `target/` | `ControlRunsProofs` |
| `ControlEditor` | every handler that writes a control or its bindings | `ControlEditorProofs` |
| `Migrations` | `migrate`, one step per statement, several processes | `MigrationsProofs` |
| `Upgrade` | servers, helpers, installer outcome, status file, browser page | `UpgradeProofs` |
| `Lists` | pure: the list comprehensions and dict assignments of the code | `ListProofs` |
| `Pipelines` | pure: the graph of a control, its order, its procedures and bands | `PipelineProofs` |
| `PipelineCompile` | what a graph flags, as compiled, previewed and traced, for a graph built step by step | `PipelineProofs` |
| `StepPreview` | previews in several threads over one step cache, while files are replaced | `PipelineProofs` |
| `Engagement` | setup, settings, demo load and reset, exports, with runs under way | `EngagementProofs` |

`MCSourceFiles`, `MCControlRuns`, `MCControlEditor`, `MCPipelineCompile`,
`MCStepPreview` and `MCEngagement` are the instances for TLC; `Migrations` and
`Upgrade` need none. `PipelineCompile` and `StepPreview` extend `Pipelines`, which
with `Engagement` extends `Lists`; `SourceFiles` and `ControlRuns` instantiate their
abstract specifications.

### SourceFiles

`disk` maps paths to contents. A path is a record (directory, source, file name,
stamp), a content a model value with a header (`Header`), the formats it can be
read in (`ParsesAs`) and perhaps a repeated column name (`Ragged`); `Torn` is a
file cut short. `sources`, `columns`, `files` and `fetched` are the four tables;
the rows of a source in `files` are in id order. `job` is the handler body on
the event loop: its step, and the locals it read at its start. As the loop runs
one body at a time there is one job; only `_refresh_source` reads the store
*before* its `await file.read()`, and such requests wait in `awaiting` and go on
with the format they read then. `Crash` drops job and waiting requests, and may
leave the file that was being written torn.

Each handler is an action that checks the early returns and starts a job, then
one action per write, in the code's order: `ConfirmRefresh`, `ConfirmCopy`
(archive copy), `ConfirmArchive` (`archive_current_file`), `ConfirmWrite`,
`ConfirmUnlink`, `ConfirmColumns` (header read again, outside any `try`),
`ConfirmRecord`, `ConfirmRow`. History variables: `unsettled` (sources whose
last create or confirm did not finish), `raised`, `crashes`.

### ControlRuns

Each request is a record with a step and the locals of `run_control_in_store`:
the control read first by `load_project_from_store` and then, for the graph,
again by `get_control`. A check is two steps, `LoadCheck` and `HashCheck`,
because `run_control` reads the file to test it and once more to hash it.
`InsertProcRun` fails without the control's row (`foreign_keys = ON`).
`papers` holds, per control id, what html, md and evidence show. `Path.write_text`
truncates and then writes in place, so each file is two steps: `OpenFile` leaves it
`Torn`, and `WriteHtml`, `WriteMarkdown` and `WriteEvidence` put the whole text there,
or, when another request has the file open or has written into it since, perhaps
parts of two (`Mixed`). A death can leave either. History variables: `shared`, the ids
whose last writers wrote at the same time, and `unsettled`, those whose three files
no one request has yet written alone, from the first truncation to the last write. The editors
appear as `SaveControl` and `RenameControl`, a confirmed refresh as
`ReplaceData`. Exceptions are sets of item keys; of a threshold, the count.

### ControlEditor

`controls` and `bindings` are the tables `controls` and `control_sources`. A row
keeps its kind, one value for all plain metadata (`meta`), the threshold's
rationale (`note`, because the Python handlers lose it), the graph, the compiled
rule and the code. A graph is a record: the sources its Import nodes bind
(`imports`), those of them that another node reads (`fed`), those a node cannot do
without (`needs`), the sources its conditions compare with (`others`), and what
its nodes test (`test`); `Parses`, `Accepted` and `CompiledRule` say what
`parse_pipeline`, the lint and `compile_pipeline` do with it.

A save is `upsert_control` and then `set_control_sources`, two commits, so every
save is an action that ends in `ThenBind`, followed by `BindSources`, which fails
when a source has no row. The form save has a step before these two: the rename
(`UpdateControl`) is committed before the form's numbers are parsed
(`RejectForm`, `SaveForm`). Coroutines exclude each other (`Idle`).
`_save_python_impl` is split at its `await request.form()` (`SavePython`,
`PythonArrives`), and `update_control_sources`, in the thread pool, between its
read and its write (`ReadBindings`, `WriteBindings`); its two steps fall between
any two writes of the coroutines. History variables: `unsettled`, the controls
whose last save of logic or bindings did not finish, or was overwritten by that
thread for logic that required less; `authored`, the logic each control was last
given by a logic tab, an import or its creation, under the id it has now, and
which of its wired sources every form since has left selected.

### Migrations

`Script` is a sequence of steps of statements, `StoreSteps` the seven of
`_STEPS`. `executescript` autocommits and the PRAGMA is a write of its own, so
every statement is an action (`ChangeSchema`, `FillHistory`, `StatementFails`)
and `SetVersion` another. A CREATE that exists is a no-op; an ALTER that exists
raises, which ends that opening in "failed". The tables of the first step that
no later step touches are all listed; columns of a table that are created with
it are not modelled one by one.

### Upgrade

`app` gives the state of each server process; the first one runs the old
release. `helper` maps each detached script of `_HELPER_SOURCE` to where it
stands, the server it waits for, the outcome of its installer, and whether it
was `linked` to its parent. `status` is the one file that all helpers write and
the dashboard reads and unlinks: a helper opens it (`"torn"`), dumps into it in
place, and a short text over a longer one leaves the end of the longer one
(`Overwritten`). A `POST /upgrade` before the server stops starts another helper,
so two installers can run at once, one of them under a server that the other
has just restarted: the code does not prevent it, and no property speaks of it.
`told` counts the pages on which the user was told of an outcome. `gets` are the dashboard requests of two clients: the user, and
the script of the "Upgrading..." page, which fetches `/` as well. `ForceExit` is
uvicorn's answer to the second signal that a second POST sends. `Spare`,
`Restarting`, `NewApp` and `NewHelper` are bounds: every helper finds an unused
server to restart.

### Pipelines and PipelineCompile

A graph is its node ids in declared order, its nodes and its defined procedures.
`Parses` refuses a graph that lists an id twice, as `model.py` does for nodes (168-173)
and for procedures (182-186). Ids of nodes and of procedures never meet: the Builder
gives procedures ids that begin with `p_` (`logic_builder.html:411`).
`Pipelines` has the ancestors, `parse_pipeline`, the topological order that the
emitters share, the effective procedures with their Tests (`procedures.py`), and the
bands of the Builder.

A frame in `PipelineCompile` is a set of rows; a row has a key, one more value, and
satisfies an arbitrary set of single-column conditions. `Streams` is the node
semantics of `_emit_node_lines` and the terminal emitters. `CompiledFlags` is what
`runner/execute.py` gets from an artifact: a rule when `Flattens`
(`_try_pure_rule_spec`), the streams otherwise, with the population the run puts
in the place of the first Import. `Preview`, `TraceFlagged` and `Judged` follow
`materialize.py`, `rowcounts.py` and `trace.py`. The actions are the insertions
of the Builder (`insertStep` in `logic_builder.html`): an Import, or a step in any
gap below an existing step.

### StepPreview

`cache` is `_STEP_CACHE`, least recently used entry first; `req` the preview each
thread of the pool is at. A frame is abstracted to the steps and the files it
was computed from, so that a wrong frame can be told from a right one. Every read
is a step of its own: the source's row, its file, the row once more and the
file's time (the version), each look-up of `plan_materialize`, each `get` and
`move_to_end` of the reuse, the execution, each store, the size and the eviction. A
confirm is three writes (row archived, file written, row recorded). A file may be
one that does not load (`Unreadable`), and a step one whose code raises on the
frames it is given (`Faults`; a condition on another source always does), and
either leaves the preview empty. The history variable `raced` has the versions
that were read before the file they name; `lacks`, `raised` and `alone` of a
request say why a preview may be empty.

### Engagement

`project` is the one row with the engagement's name and the install's settings.
A load of the demo is a job of the event loop: it clears `data/` file by file
and `target/`, imports project, sources and controls row by row, binds, copies the
files, and puts back the settings it read first. The rows of a source are three
commits (`ImportSource`, `ImportColumns`, `ImportFile`). Neither setup nor load nor
reset asks whether the engagement has a name. Runs (`RunProc`, `OpenPaper`,
`WritePaper`, `Aggregate`) and the export (`ReadRuns`, `ReadInfo`, `OpenBundle`,
`CopyWorkpapers`, `CloseBundle`) are threads of the pool and go on under it. A row of
`runs` is known by its control, procedure and time; what it found is the matter of
`ControlRuns`. `papers` has per control the run whose workpaper and evidence are
under `target/`, and whether they are whole: a run opens them, which truncates, and
has written them in a later step; when another run of the control wrote in between, or
a reset dropped the directory, they may or may not be whole. `bundle` is the
archive, `Torn` from the step that opens it in its place to the one that closes it; in
between the workpapers are copied and then the evidence, each as it is by then.
History: `chosen` (settings last chosen), `done` (the newest completed run), `raced` in
the load (something else was under way), `alone` in a run (it was the only one to
write its papers), `began` in the export (what there was when it began).

## 3. The runs

| Run | Instance | Shows |
|---|---|---|
| `sources_crash` | one source, 3 contents (one ragged), a date, 3 confirms, 2 deaths | `HistoryIntact`, `SettledSourceDescribed`, and `KeepsEveryVersion` (refinement of `SourceVault`): nothing that was live is lost, and the next confirm to finish repairs the rows |
| `sources_calm` | one source that may be added again over its rows, as CSV or as a workbook, 3 contents, a column that one of them has, 2 confirms, no deaths | `OneCurrentFile`, `SettledSourceDescribed`, `KeysAreColumns`, `EditsSurviveRefresh` |
| `runs_overlap` | 2 control ids, 2 requests that may write one file at once, 2 edits, 1 death | `NoOrphanRuns`, `FanOutComplete`, `DeliverablesBacked`, `DeliverablesAgree`, and `RunsAreALedger` (refinement of `RunLedger`) |
| `runs_serial` | 1 id, all kinds of control, 4 contents, 2 requests in turn, 2 edits, 1 death | `FanOutComplete` |
| `editor` | 2 control ids, 3 sources one of which has no row, 3 graphs (a pure one that names the source without a row, one with code, one refused by the lint), 1 waiting Python save, 1 thread at a time that changes a binding, any deaths | `LogicConsistent`, `BindingsCoverLogic`, `SavesKeepLogic` |
| `migrations_openers` | the real script from each of releases 0 to 7, 2 processes, 2 deaths | `VersionBacked`, `OpenIsMigrated`, `UndisturbedOpens` |
| `upgrade` | 3 servers, 2 helpers, servers that may linger, a user who may start one | `NoticeIsTrue`, `NoticeOnce`, and the liveness `UpgradeEnds`, `ServesAgain` |
| `builder` | every graph of at most 4 steps over 2 sources with a shared key, 1 procedure and a name of none | `ChecksMatchPreview`, `TraceMatchesRun`, `EveryTestOnce`, `BandsInOrder` |
| `cache` | 2 threads, 3 previews of 2 graphs, 3 files (one graph raises on the second, the third does not load), a bound of 2 entries | `CacheHonest`, `PreviewHonest`, `PreviewGiven`, `CacheBounded` |
| `reset` | a demo with two procedures and a control of the user's, any 4 of: 2 runs, 1 edit, 2 loads, 1 export, 1 death | `SettingsKept`, and the action properties `ResetRestores`, `BundleCurrent`, `BundleWhole` |

Two more runs find the property they check **violated**; each quotes, in
`PROJECT.json` under `findings`, the line that promises it:

- `provenance` (`ProvenanceTrue`): a confirm between load and hash stores the
  hash of a file the test never saw.
- `verdicts` (`VerdictsAgree`): with two procedures, badge and run page judge
  by the control's threshold alone; the workpaper by each procedure.

### Met while modelling

What the models show of the code beside the properties that hold. Where a
property would fail by one of these, it names the case as a condition or the
model has a constant for it.

*Sources.* A confirm with a blank as-of date records NULL for the file but leaves
the old `extract_date` that the bundle reads. A workbook fetched for a CSV source
is staged as it is, and the confirm reads it as CSV outside any `try` after it
has replaced the live file.

*Editors.* `SavePython` checks that the control has no graph, waits for its form, and
wipes a graph the Builder saved meanwhile (`pipeline.py:1393`). Python and
Convert saves drop the threshold's rationale. A thread that changes one binding,
overtaken by a Builder save of the same control, drops a binding that this save
made necessary, although `controls.py:436` says that a needed binding is never
dropped: `BindingsCoverLogic` exempts the control until its next save
(`Overtaken`), and fails without that exemption. Deselecting a source on the form
and selecting it again leaves its Import node without wires (`kept`).

*Compiler.* `rowcounts.py:13` says that counts and verdicts "can never drift". They
do in the three cases that `ChecksMatchPreview` exempts by name:
`OtherPopulation` (a check's slice takes its own first Import for the population,
`compile.py:342`, but the run passes the first source of the control),
`EmptyTestBehindFilter` (a Test without conditions flags nothing, but flattened
with the Filter above it flags all filtered rows, `compile.py:222`), and
`DuplicateBehindFilter` (a flattened `is_duplicate` looks at the whole source, not
at its input). Of several records with one key the trace judges the first only,
where no frame is known. A preview of a graph with a cross-source condition is
always empty (the generated name `sources` is not defined there; in
`StepPreview` such a step is one of `Faults`).

*Cache.* The key of a step does not show a change of a column's type, of its
inclusion or of the worksheet, and custom code may change a cached frame in
place: both are outside the model. What a preview stores when a file is
replaced under it is found under the version it read (`raced`).

*Engagement.* A run that is under way when a reset begins may store its row and
write its paper into the fresh demo; of a fan-out, even the aggregate row
alone. `ResetRestores` therefore promises `OnlyDemo` to a reset that nothing
overlapped. A death between wipe and restore loses the settings. `setup_name`
upserts the project without its system (`setup.py:36`), so settings chosen before the
engagement has a name are dropped. The export gives the results of one fan-out
ids made without the procedure, shows the first procedure's row when a graph
has shrunk to one procedure, fails when no run has made `target/` yet, and
writes its archive in place. It copies the papers after it has read the results: when a run
of the control is under way, or stores a row meanwhile, the archive may hold results of one
run beside papers of another, or a paper that is half written; `BundleWhole` is
asked of controls at rest.

*Migrations, upgrade.* A death between an `ALTER TABLE` and its PRAGMA leaves a
store that no process opens again (`migrations.py:162`), one between the backfill
and its PRAGMA a store whose sources get two current rows; `UndisturbedOpens`
exempts exactly these deaths (`Unrepeatable`) and migrations that meet. Two POSTs run two installers at once
(`updates.py:58`). The script of the "Upgrading..." page consumes the one-shot
status and throws it away.

Further hazards, without a row in `PROJECT.json`: a source's date kept twice
(`sources.py:496`); a control run without procedures is stored before its paper
is written (`run_service.py:439`); `_store_guard` accepts a store that has only the
first step's tables; a Builder page open over a control converted meanwhile; a
graph that no longer parses once a form has removed a source.

### Bounds and why they are enough

- *Contents.* Two contents with different headers tell apart old and new in every
  comparison the handlers make; the third of `sources_crash` makes `set_columns`
  raise, that of `sources_calm` is a workbook, which a CSV source cannot read: a
  refresh may go on with the format of a source that has since been created anew.
  Dates are checked in `sources_crash` and columns in `sources_calm`, to keep both
  small; `HandlersRepair` has both. The contents of `MCControlRuns` differ in which check finds what,
  one makes a check raise and one the adapter.
- *Confirms and deaths.* The repair argument needs a confirm that dies, one that
  dies while repairing, and one that finishes: three stamps and two deaths.
  The number of requests waiting for an upload is not bounded by a constant: a
  waiting request is known by its source and format, so the set is finite.
- *Two requests, two edits.* A rename plus the reuse of the old id are two
  edits. Requests are symmetric in `runs_overlap` (no operator tells them
  apart); they take no part in a liveness property.
- *Two openers.* A third process adds no new kind of overlap to `migrate`; the
  theorems cover any number.
- *Two control ids* are what a rename needs; the ids are symmetric. Of the graphs, one
  compiles to a rule, one can lose an Import and still parse, one names a source
  without a row, one is refused. The number of deaths is not bounded.
- *Three servers, two helpers.* The old server and one for each helper to
  restart, one of which the user may start by hand; two helpers are the first
  number at which installers overlap and the status file has two writers.
- *Four steps, two sources.* A join of two Imports with a Test; a Filter in any gap of
  a chain; two Tests that share a step; a Test that feeds a step. One
  source has two records with one key, and three rows of it two values, so that
  `is_duplicate` differs between a source and a filtered frame.
- *Cap 2, two threads.* One preview of the chain fills the cache, so the other thread
  evicts what the first has planned to reuse; the second graph shares the Import
  with the first. The threads are symmetric. The second file is one that only one of
  the two Tests can be run on, the third one that no preview can load.
- *Two loads, one death* in `reset`: a reset that dies and the one that repairs it.
  `MaxEvents` bounds what happens in one behaviour in all, beside the bounds on each
  kind: two runs, an edit and an export, or two loads, a run and a death. The two
  request threads are symmetric; the four runs with symmetry
  (`runs_overlap`, `editor`, `cache`, `reset`) check no liveness.

### Assumptions made by constants

`SameSecond = FALSE`: the archive stamp counts whole seconds, and two confirms
within one would share a path; TLC shows a lost version with `TRUE`.
`OwnNames`: no two sources share a name in `data/`; the code does not see to
it, and with a shared name a refresh of one replaces the data of the other.
Both are gaps of the code that the properties leave out, not hazards they cover.
`FreeKeys = FALSE` only in `sources_calm`: the key field of the editor is free
text, so `KeysAreColumns` is asked of forms that post real columns. After a
death between `set_columns` and `upsert_source` a key may name a lost column
for good, which is why that property also asks for `crashes = 0`.
`Overlap = FALSE` in `runs_serial` only keeps that run small; no property of
`ControlRuns` depends on it. Two overlapping runs of a control may leave files of
two runs side by side, or one with parts of two, until a run writes them alone;
`DeliverablesAgree` exempts exactly these (`unsettled`).

### Deadlock and fairness

Deadlock is checked in `SourceFiles`, `ControlRuns`, `ControlEditor` and
`Migrations`. In `ControlRuns` the action `Quiet` is the server waiting after all
requests of the bounded behaviour were answered. A failed upgrade leaves no
server running, and then the system rests until the user acts; in `builder`,
`cache` and `reset` a behaviour ends when its bounds are used up (a graph of
`MaxSteps` nodes; all previews asked for; all edits, loads and exports done).

Only `Upgrade` states fairness. The timer of `schedule_shutdown` fires; the
helper's loop has a deadline; the installer commands end; threads that serve a
page run on; a booting server gets to its socket. The user owes nothing, nor
does the script of a page that may be closed, and a server whose
open requests linger need never exit (`Lingering`).

## 4. What is proved

All theorems hold for every value of the constants that satisfies the named
assumptions; TLC evaluates these on every run.

- **`SourceFilesProofs`.** `TypeCorrect` (`TypeOK`), with the strengthening that a
  job past its `upsert_source` works on a source that has a row.
  `OneLiveFile` (`OneCurrentFile`): every repo function on `source_files`
  returns at most one current row when given at most one.
  `HistoryKept` (`HistoryIntact`), under `Careful` (an id is added once, confirms
  fall in different seconds, sources own their names): the invariant adds that archived rows sit at
  stamps not later than the clock, that the stamp of the running job is newer than
  those of all archived rows until it archives, and that the live row and the
  live file agree except in the window the job's step tells.
  `HandlersRepair` (`SettledSourceDescribed`), when sources own their names: what
  each step of a create or a confirm has made of the description so far, and that
  its source is unsettled meanwhile, so that a death never leaves a settled source
  undescribed (`RepairInv`).
  `EditsKept` (`EditsSurviveRefresh`): the columns and the row a handler writes
  back are still those that are stored (`JobReads`), because no other handler runs
  between its read and its write.
  `KeysKept` (`KeysAreColumns`), for `~FreeKeys`.
  `EveryVersionKept` (`KeepsEveryVersion`), under `Careful`: the refinement of
  `SourceVault`. Version files are older than any version still to be taken, so a
  copy goes to a path without a file, and a live file is overwritten only when its
  content is in a version (`VaultInv`).
- **`ControlEditorProofs`.** `EditorTypes` (`TypeOK`), with the strengthening that
  bindings are only written for a control that has a row. `StoredTestIsTheGraphs`
  (`LogicConsistent`): every row a handler writes is consistent when the row it
  read is. `DefinitionKeepsLogic` (`SavesKeepLogic`): a rename moves row and history
  together, and a form narrows both alike. `BindingsKept` (`BindingsCoverLogic`),
  for any overlap: the invariant adds that what a half-done save is about to write
  covers what the logic reads, a title's bindings unless the control is unsettled,
  and that the thread writes at least what the logic it has read requires.
- **`MigrationsProofs`.** `MigrationTypes`, `NeverAhead` (`VersionBacked`),
  `OpenMeansMigrated` (`OpenIsMigrated`) and `StoresOpen` (`UndisturbedOpens`), for
  any processes and any script (`StoresOpen`: any that adds a column once and fills
  the history table once, in the step that makes it: `CarefulAssumption`,
  `FillAssumption`). The
  inductive invariant says what the steps an opener has skipped or done have
  made (`Progress`): the version alone is not inductive, because another
  process may write an *older* version at any time.
- **`UpgradeProofs`.** `UpgradeTypes` (`TypeOK`, with one server on the port) and
  `NoticesOnce` (`NoticeOnce`), whose inductive invariant `CountInv` adds to the
  notices shown the ones on their way: in the file, unless the user's request is
  about to unlink it, and in that request. `NoticesAreTrue` (`NoticeIsTrue`): what is in the file, what a
  request has read of it and what a page shows is backed by a helper that has
  that outcome (`NoticeInv`), and an outcome never changes again (`BackedStays`). All
  for any number of servers and helpers.
- **`ControlRunsProofs`.** `RunTypes` (`TypeOK`), `RunsHaveControls` (`NoOrphanRuns`)
  and `HistoryIsALedger`: `ControlRuns` implements `RunLedger`. The invariant adds
  that no run time is ahead of the clock and every request has a time of its own
  (`Timed`), and that where a request stands agrees with the rows it has stored
  (`Fits`), so that `INSERT OR REPLACE` finds no row to replace.
  On top of these, `FanOutsComplete` (`FanOutComplete`): the
  sections a request has made are as many as its step tells, each is stored, every
  row of its time is one of them or the aggregate (`Fanned`), and ids are unique.
  `FilesAreBacked` (`DeliverablesBacked`): a whole file keeps the rows it shows, because
  no step changes a row's id or items, and evidence is of a request that stores no
  further part (`FilesBacked`). `FilesAgree` (`DeliverablesAgree`): where no two
  requests write at once there is one writer, which has written what its step tells
  and finds the file it has open still empty (`Writers`).
- **`EngagementProofs`.** `SettingsSurvive` (`SettingsKept`): while a load is
  under way, the project row or what the load has kept is the last choice
  (`SettingsSafe`). `ResetLeavesTheDemo` (`ResetRestores`): what each step of a
  load has already made, none of the later ones and no thread undoes (`Progress`),
  and without an overlap nothing is added (`Clean`).
  `BundlesAreCurrent` (`BundleCurrent`), for any runs, edits, loads and exports. The
  invariant (`BundleInv`) says whose every row is: the rows of a time are of one run
  (`RowsOnly`), a run that no reset has torn has stored the rows its step tells
  (`Under`), a run that completed has them all and no other run is of its time
  (`Complete`), and what the export has read is every row of the control that there was when
  it began, oldest first (`Listing`, `Fresh`), as long as no reset came between. It holds
  through a demo load because a control that such a load finds is one it has
  imported itself (`Authored`). `BundlesAreWhole` (`BundleWhole`): as long as nothing
  disturbs an export, a control that was at rest when it began keeps the paper of its
  newest run, since a run of it that begins meanwhile stores a row before it opens the
  paper (`IntactKnown`). That sorting by time returns each row once is
  `ChronologicalIs`; that the last of a procedure is then its newest,
  `LatestIsNewest`.
- **`PipelineProofs`**, of graphs: `TopologicalOrder` (every node once, after all it
  reads): after a round of Kahn's algorithm the nodes listed or ready are those
  whose inputs are listed (`Rounds`), so when none is ready all are listed, as a
  graph that parses has no cycle. `TestsRunOnce`
  (`EveryTestOnce`) and `BandsAreInOrder` (`BandsInOrder`, by what the first bands have listed,
  `BandsSoFar`), for whatever the Builder can make (`BuilderInv`).
  `ChecksMatch` (`ChecksMatchPreview`) and `TracesMatch` (`TraceMatchesRun`), for any rows,
  conditions, keys and graphs: (1) the recursion that
  gives each step its frame from those of its inputs has a solution (`StreamsDef`); (2) the slice of a Test, with
  what it is computed from, is a pipeline of its own (`SliceParses`) with the same
  frames (`SliceStreams`); (3) in a chain the frame of a step is the source narrowed
  by every condition above it, each judged over the whole population
  (`ChainFrames`), which is what the flattened rule computes (`FlatRule`); (4) so each
  check is the stream at its Test (`CheckIsStream`), which the trace reads too. The exceptions
  are those `Faithful` names, each one a case where the code differs ("Met while
  modelling" in section 3).
- **`PipelineProofs`**, of previews. `CacheKeepsItsBound` (`CacheBounded`), for any
  graphs, threads and bound: while the cache is too large some thread is still to
  look at its size (`Attended`), and while threads are about to evict there are
  enough entries for all of them (`Enough`), as no more than `Cap` threads run.
  `CacheIsHonest` (`CacheHonest`) and `PreviewsAreHonest` (`PreviewHonest`) from one
  invariant (`HonestInv`): what a thread has read of row, file and version is of one moment
  or noted in `raced` (`Reading`), what it has found or computed is what the key
  names (`Planning`, `Showing`), step by step along the order; so what it stores is.
  `PreviewIsGiven` (`PreviewGiven`), for any faults and unreadable files: the keys that an undisturbed plan has found are still in
  the cache at each step of its reuse (`GivenInv`: `CachedKeys`, `Supplied`).
- **`ListProofs`** has what these need of lists: what `Only`, `Distinct`, `Put`,
  `FlattenSeq` and `Reverse` return, preserve and order.

The proofs about graphs and lists are inductions. The library's induction
theorems take an operator as parameter, which the provers cannot instantiate;
`ListProofs` has them with a set in the place of the predicate, and so what a
recursive function computes can be proved for every input. The models write
recursion as functions for that reason, and a list comprehension as `Only`, a
dict assignment as `Put`, instead of `SelectSeq`, `:>` and `@@`, of which the provers
know no definition they could unfold.

Assumptions the proofs rest on, beside those named above: ids of nodes and
procedures differ (`IdsAssumption`); conditions and defined procedures are finite
lists, and the Builder numbers its steps (`DataAssumption`); a preview is asked for a
graph that parses, and the cache may have an entry for every thread
(`CacheAssumption`: 64 entries, and 40 threads in the server's pool); a graph of an engagement lists each procedure once, and none is called
as the control as a whole is (`GraphAssumption`).

Only model-checked: the liveness properties `UpgradeEnds` and `ServesAgain`. Liveness
under fairness, and `ENABLED`, are out of the prover's reach. Every invariant and
action property of the passing runs, and both refinements, are proved. `ProvenanceTrue` and
`VerdictsAgree` are false of the code.

## 5. Plan

Done, in this order: `SourceFiles`, `ControlRuns`, `Migrations`, `Upgrade`,
`ControlEditor`; then `Pipelines`, `PipelineCompile`, `StepPreview`, `Engagement`,
several helpers in `Upgrade`; then the proofs of every safety property: about
`SourceFiles`, `ControlRuns`, `Engagement` (settings and reset), `Pipelines` and
`StepPreview`, `PipelineCompile`, and last the current and the whole bundle. What would come
next:

1. `StepPreview` with columns as part of what a frame is computed from, and a key
   that shows them.
2. Two exports at a time.
3. The CLI `import` into another store, and rename of an engagement.

## 6. Not modelled, and why

HTTP, templates and static files, page wording, workpaper formatting (`render/`)
and CLI printing have no state. The adapters' parsing is pandas' (its outcomes, "loads"
and "raises", are modelled). AI drafting and the update check are network calls that
store at most two settings; the settings are those of `Engagement`. The text of generated
code is not modelled, what it computes is. The single-column operators are an
arbitrary set of rows, as the compiler, the preview and the trace share one
implementation of them. Reading the project's YAML has no state of its own.
Percentage thresholds, severities and the de-duplicated count the aggregate
shows are abstracted to a count of items. SQLite's locking (`busy_timeout`) is
not modelled: a statement that waits is one that happens later.
