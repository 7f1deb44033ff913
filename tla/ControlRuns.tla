---------------------------- MODULE ControlRuns ----------------------------
(***************************************************************************)
(* Running a control: POST /controls/<id>/run (plane/routes/runs.py), the  *)
(* fan-out of run_control_in_store (store/run_service.py), the tables      *)
(* controls and runs (store/repo.py), and the deliverables under target/.  *)
(*                                                                         *)
(* Run requests are threads of the server's pool.  Each store access is a  *)
(* transaction of its own, and each file is truncated and then written, in *)
(* place, so requests interleave with each other and with the editors      *)
(* (coroutines of the event loop) between any two steps: a control may be  *)
(* edited or renamed, its data file replaced, and its files written by     *)
(* another request, in the middle of a run of it.                          *)
(*                                                                         *)
(* A run's exceptions are a set of item keys.  Of a threshold only the     *)
(* count bound is modelled (no bound is 0), not the percentage.            *)
(***************************************************************************)
EXTENDS Naturals, SequencesExt, FiniteSets

CONSTANTS
  Ids,        \* control ids
  Procs,      \* procedure ids of pipelines
  Whole,      \* procedure_id "": the run of a control as a whole
  Plain,      \* the pipeline column of a rule or python control: NULL
  Pipelines,  \* the procedure sequences a stored pipeline may have
  ChecksOf,   \* [Procs \cup {Whole} -> Seq(Checks)]: the tests of a procedure
  Checks,     \* terminal test nodes, and the sole test of a plain control
  Items,      \* item keys
  Limits,     \* exception counts a threshold may allow
  Inherit,    \* a procedure without a threshold of its own
  Contents,   \* what the data file of the controls may hold
  NoData,     \* the provenance of a run that loaded nothing
  Found,      \* [Contents -> [Checks -> SUBSET Items]]: what a check reports
  Unreadable, \* contents the source adapter raises on
  Failing,    \* [Contents -> SUBSET Checks]: checks that raise on a content
  Rows,       \* the control rows the editors save
  NoControl, NoPaper,
  Torn,       \* a file that is empty or cut short
  Mixed,      \* a file with parts of two writes
  Requests,   \* the run requests of a behaviour
  MaxEdits,   \* bound on saves, renames and data refreshes
  MaxCrashes, \* bound on process deaths
  Overlap     \* may a control be run while another request is running?

ASSUME KindAssumption == Whole \notin Procs /\ Plain \notin Pipelines
ASSUME PipelineAssumption ==
  /\ Pipelines \subseteq Seq(Procs)
  /\ \A p \in Pipelines : \A i, j \in 1 .. Len(p) : p[i] = p[j] => i = j
ASSUME CheckAssumption ==
  /\ ChecksOf \in [Procs \cup {Whole} -> Seq(Checks)]
  /\ \A p \in Procs \cup {Whole} : Len(ChecksOf[p]) > 0
ASSUME ResultAssumption ==
  /\ Found \in [Contents -> [Checks -> SUBSET Items]]
  /\ Failing \in [Contents -> SUBSET Checks]
  /\ Unreadable \subseteq Contents /\ NoData \notin Contents
ASSUME BoundAssumption ==
  /\ Limits \subseteq Nat /\ Inherit \notin Nat
  /\ MaxEdits \in Nat /\ MaxCrashes \in Nat /\ Overlap \in BOOLEAN

VARIABLES
  controls,  \* table controls: id -> row, NoControl where there is none
  live,      \* the content of the data file the controls are bound to
  runs,      \* table runs, in rowid order
  papers,    \* target/: per id the html and md workpaper and the evidence file
  req,       \* the run requests and where they stand
  clock,     \* executed_at, in ticks; no two requests read the same time
  edits, crashes,
  unsettled, \* history: ids with files that no one request wrote, alone, to
             \* the end since another one began
  shared     \* history: ids whose last writers wrote at the same time

vars == <<controls, live, runs, papers, req, clock, edits, crashes, unsettled, shared>>
----------------------------------------------------------------------------
(* Rows *)

Control == [procs : Pipelines \cup {Plain}, limit : Limits,
            own : [Procs -> Limits \cup {Inherit}]]
ASSUME RowAssumption == Rows \subseteq Control /\ NoControl \notin Control

Snapshots == Contents \cup {NoData}
RunIds == [control : Ids, at : Nat, prov : Snapshots, proc : Procs \cup {Whole}]
\* A row of table runs with its violations: failed is Cardinality(items).
Run == [id : RunIds, owner : Ids, items : SUBSET Items]
\* A procedure of a workpaper: the result it shows and the threshold it is
\* judged by.
Section == [id : RunIds, items : SUBSET Items, limit : Limits]

\* Mutant: the procedure is not part of the id.
PlainRunId(c, t, prov, p) == [control |-> c, at |-> t, prov |-> prov, proc |-> Whole]
\* _derive_run_id and _procedure_run_id
RunId(c, t, prov, p) == [control |-> c, at |-> t, prov |-> prov, proc |-> p]

\* insert_run: INSERT OR REPLACE; a replaced row gets a new rowid.
InsertRun(rows, r) ==
  LET old == {i \in DOMAIN rows : rows[i].id = r.id}
  IN Append(IF old = {} THEN rows ELSE RemoveAt(rows, CHOOSE i \in old : TRUE), r)

\* Mutant: the runs stay with the old id.
KeepOwner(rows, c, d) == rows
MoveRuns(rows, c, d) ==
  [i \in DOMAIN rows |-> IF rows[i].owner = c THEN [rows[i] EXCEPT !.owner = d]
                                              ELSE rows[i]]

\* Mutant: a blank threshold of the procedure is taken as it is.
RawLimit(ctl, p) == IF p \in Procs THEN ctl.own[p] ELSE ctl.limit
\* _per_procedure_threshold: the control's threshold unless it has its own.
LimitOf(ctl, p) == IF p \in Procs /\ ctl.own[p] # Inherit THEN ctl.own[p]
                                                          ELSE ctl.limit
UnionOf(sections) == UNION {sections[i].items : i \in DOMAIN sections}
----------------------------------------------------------------------------
(* Requests *)

Steps == {"project", "pipeline", "samples", "load", "hash", "insert",
          "html", "md", "evidence", "aggregate"}
Ended == {"done", "failed", "dead"}

NoRequest == [step |-> "idle"]
\* ctl: the control as read; n, k: the procedure and check the fan-out is at;
\* seen, prov: what the check read and what was hashed; items: merged so far;
\* out: the sections made; open: is the file of this step open, truncated?
RequestRec ==
  [step : Steps \cup Ended, id : Ids, at : Nat,
   ctl : Control \cup {NoControl}, n : Nat, k : Nat, seen : Snapshots,
   prov : Snapshots, items : SUBSET Items, out : Seq(Section), open : BOOLEAN]

Files == {"html", "md", "evidence"}
NotWhole == {NoPaper, Torn, Mixed}
WholePaper == [at : Nat, sections : Seq(Section), limit : Limits]
WholeEvidence == [at : Nat, items : SUBSET Items]
Papers == NotWhole \cup WholePaper
Evidence == NotWhole \cup WholeEvidence
ASSUME PaperAssumption == NotWhole \cap (WholePaper \cup WholeEvidence) = {}
ASSUME FileAssumption == NoPaper # Torn /\ NoPaper # Mixed /\ Torn # Mixed

Init ==
  /\ controls \in [Ids -> Rows \cup {NoControl}]
  /\ live \in Contents
  /\ runs = <<>>
  /\ papers = [c \in Ids |-> [html |-> NoPaper, md |-> NoPaper,
                              evidence |-> NoPaper]]
  /\ req = [r \in Requests |-> NoRequest]
  /\ clock = 0 /\ edits = 0 /\ crashes = 0 /\ unsettled = {}
  /\ shared = {}

At(r, l) == req[r].step = l
Running(r) == req[r].step \in Steps
Goto(r, l) == req' = [req EXCEPT ![r].step = l]
\* The handler renders the "not ready" page, whatever was raised.
Fail(r) == Goto(r, "failed")

IsPipeline(q) == q.ctl.procs # Plain
ProcsOf(q) == IF IsPipeline(q) THEN q.ctl.procs ELSE <<Whole>>
ProcAt(q) == ProcsOf(q)[q.n]
CheckAt(q) == ChecksOf[ProcAt(q)][q.k]
LastCheck(q) == q.k = Len(ChecksOf[ProcAt(q)])
LastProc(q) == q.n = Len(ProcsOf(q))
----------------------------------------------------------------------------
(* The run handler *)

StartRun(r, c) ==
  /\ req[r] = NoRequest
  /\ Overlap \/ \A x \in Requests : ~Running(x)
  /\ clock' = clock + 1
  /\ req' = [req EXCEPT ![r] =
       [step |-> "project", id |-> c, at |-> clock', ctl |-> NoControl,
        n |-> 1, k |-> 1, seen |-> NoData, prov |-> NoData, items |-> {},
        out |-> <<>>, open |-> FALSE]]
  /\ UNCHANGED <<controls, live, runs, papers, edits, crashes, unsettled, shared>>

\* load_project_from_store; a control that is not there raises KeyError.
LoadProject(r) ==
  /\ At(r, "project")
  /\ IF controls[req[r].id] = NoControl
       THEN Fail(r)
       ELSE req' = [req EXCEPT ![r].step = "pipeline",
                               ![r].ctl = controls[req[r].id]]
  /\ UNCHANGED <<controls, live, runs, papers, clock, edits, crashes, unsettled, shared>>

\* The graph is read again, by get_control: title and control threshold stay
\* those of the first read.  A row that has gone leaves no graph.
LoadPipeline(r) ==
  /\ At(r, "pipeline")
  /\ LET raw == controls[req[r].id]
         ctl == IF raw = NoControl
                  THEN [req[r].ctl EXCEPT !.procs = Plain]
                  ELSE [req[r].ctl EXCEPT !.procs = raw.procs, !.own = raw.own]
     IN req' = [req EXCEPT ![r].ctl = ctl,
                  ![r].step = IF ctl.procs = Plain THEN "load" ELSE "samples"]
  /\ UNCHANGED <<controls, live, runs, papers, clock, edits, crashes, unsettled, shared>>

\* collect_data_samples: before the fan-out of a pipeline, after the insert of
\* a plain run.  It raises when the source cannot be read.
CollectSamples(r) ==
  /\ At(r, "samples")
  /\ CASE live \in Unreadable -> Fail(r)
       [] live \notin Unreadable /\ IsPipeline(req[r]) /\ ProcsOf(req[r]) # <<>>
            -> Goto(r, "load")
       [] OTHER -> Goto(r, "html")
  /\ UNCHANGED <<controls, live, runs, papers, clock, edits, crashes, unsettled, shared>>

\* run_control: adapter.load() reads the file ...
LoadCheck(r) ==
  /\ At(r, "load")
  /\ IF live \in Unreadable
       THEN Fail(r)
       ELSE req' = [req EXCEPT ![r].step = "hash", ![r].seen = live]
  /\ UNCHANGED <<controls, live, runs, papers, clock, edits, crashes, unsettled, shared>>

\* _merge_violations: one exception per item, of all checks.
MergeItems(old, new) == old \cup new

\* ... and adapter.provenance() reads it again to hash it; then the test runs
\* over what was loaded.  A procedure's provenance is that of its last check.
HashCheck(r) ==
  /\ At(r, "hash")
  /\ IF CheckAt(req[r]) \in Failing[req[r].seen]
       THEN Fail(r)
       ELSE req' = [req EXCEPT
              ![r].prov = live,
              ![r].items = MergeItems(@, Found[req[r].seen][CheckAt(req[r])]),
              ![r].k = IF LastCheck(req[r]) THEN 1 ELSE @ + 1,
              ![r].step = IF LastCheck(req[r]) THEN "insert" ELSE "load"]
  /\ UNCHANGED <<controls, live, runs, papers, clock, edits, crashes, unsettled, shared>>

\* PRAGMA foreign_keys = ON: a run row needs its control row.
HasControl(c) == controls[c] # NoControl

InsertProcRun(r) ==
  /\ At(r, "insert")
  /\ IF ~HasControl(req[r].id)
       THEN Fail(r) /\ UNCHANGED runs
       ELSE LET q == req[r]
                id == RunId(q.id, q.at, q.prov, ProcAt(q))
                sec == [id |-> id, items |-> q.items,
                        limit |-> LimitOf(q.ctl, ProcAt(q))]
            IN /\ runs' = InsertRun(runs, [id |-> id, owner |-> q.id,
                                           items |-> q.items])
               /\ req' = [req EXCEPT
                    ![r].out = Append(@, sec), ![r].items = {},
                    ![r].n = IF LastProc(q) THEN @ ELSE @ + 1,
                    ![r].step = CASE ~IsPipeline(q) -> "samples"
                                  [] IsPipeline(q) /\ LastProc(q) -> "html"
                                  [] OTHER -> "load"]
  /\ UNCHANGED <<controls, live, papers, clock, edits, crashes, unsettled, shared>>

\* The Workpaper that render_html and render_markdown both write out.
Workpaper(q) == [at |-> q.at, sections |-> q.out, limit |-> q.ctl.limit]

\* From the truncation of the first file to the write of the last.
Writing(q) == q.step \in {"md", "evidence"} \/ (q.step = "html" /\ q.open)
Others(r) == {x \in Requests \ {r} : req[x].step # "idle" /\ req[x].id = req[r].id}

\* Path.write_text renders first, then opens with truncation ...
OpenFile(r) ==
  /\ req[r].step \in Files /\ ~req[r].open
  /\ papers' = [papers EXCEPT ![req[r].id][req[r].step] = Torn]
  /\ req' = [req EXCEPT ![r].open = TRUE]
  /\ unsettled' = unsettled \cup {req[r].id}
  /\ shared' = CASE ~At(r, "html") -> shared
                 [] \E x \in Others(r) : Writing(req[x]) -> shared \cup {req[r].id}
                 [] OTHER -> shared \ {req[r].id}
  /\ UNCHANGED <<controls, live, runs, clock, edits, crashes>>

\* ... and writes from the start of the file, over whatever another request
\* has written there since; one that has it open too may write over this.
Result(r, new) ==
  IF /\ papers[req[r].id][req[r].step] = Torn
     /\ \A x \in Others(r) : ~(req[x].step = req[r].step /\ req[x].open)
    THEN {new} ELSE {new, Mixed}
WriteFile(r, new, next) ==
  /\ req[r].open
  /\ \E f \in Result(r, new) :
       papers' = [papers EXCEPT ![req[r].id][req[r].step] = f]
  /\ req' = [req EXCEPT ![r].step = next, ![r].open = FALSE]
  /\ UNCHANGED <<controls, live, runs, clock, edits, crashes, shared>>

WriteHtml(r) ==
  At(r, "html") /\ WriteFile(r, Workpaper(req[r]), "md") /\ UNCHANGED unsettled

\* Mutant: the Markdown is made of the first procedure only.
WriteMarkdownFirst(r) ==
  /\ At(r, "md") /\ UNCHANGED unsettled
  /\ WriteFile(r, [Workpaper(req[r]) EXCEPT !.sections = SubSeq(@, 1, 1)], "evidence")
WriteMarkdown(r) ==
  At(r, "md") /\ WriteFile(r, Workpaper(req[r]), "evidence") /\ UNCHANGED unsettled

\* Mutant: the evidence is that of the first procedure only.
FirstOnly(out) == IF out = <<>> THEN {} ELSE out[1].items
EvidenceItems(out) == UnionOf(out)

EvidenceOf(q) == [at |-> q.at, items |-> EvidenceItems(q.out)]

WriteEvidence(r) ==
  /\ At(r, "evidence")
  /\ WriteFile(r, EvidenceOf(req[r]),
               IF IsPipeline(req[r]) THEN "aggregate" ELSE "done")
  /\ unsettled' = IF req[r].id \in shared THEN unsettled
                                          ELSE unsettled \ {req[r].id}

\* Mutant: every pipeline control gets an aggregate row.
AlwaysAggregate(q) == TRUE
\* One procedure: its own run is the control's run.  None: an empty run.
NeedsAggregate(q) == Len(q.out) # 1

AggregateId(q) == RunId(q.id, q.at, IF q.out = <<>> THEN NoData
                                                    ELSE q.out[1].id.prov, Whole)
AggregateRun(r) ==
  /\ At(r, "aggregate")
  /\ LET q == req[r]
     IN CASE ~NeedsAggregate(q) -> Goto(r, "done") /\ UNCHANGED runs
          [] NeedsAggregate(q) /\ ~HasControl(q.id) -> Fail(r) /\ UNCHANGED runs
          [] OTHER ->
               /\ runs' = InsertRun(runs, [id |-> AggregateId(q), owner |-> q.id,
                                           items |-> UnionOf(q.out)])
               /\ Goto(r, "done")
  /\ UNCHANGED <<controls, live, papers, clock, edits, crashes, unsettled, shared>>
----------------------------------------------------------------------------
(* The editors, the data refresh, the process *)

Edit == edits < MaxEdits /\ edits' = edits + 1

\* upsert_control, from any of the control editors or from "New control".
SaveControl(c, row) ==
  /\ Edit
  /\ controls' = [controls EXCEPT ![c] = row]
  /\ controls' # controls
  /\ UNCHANGED <<live, runs, papers, req, clock, crashes, unsettled, shared>>

\* rename_control_id: one transaction moves the row, its bindings, its runs.
RenameControl(c, d) ==
  /\ Edit
  /\ controls[c] # NoControl /\ controls[d] = NoControl
  /\ controls' = [controls EXCEPT ![d] = controls[c], ![c] = NoControl]
  /\ runs' = MoveRuns(runs, c, d)
  /\ UNCHANGED <<live, papers, req, clock, crashes, unsettled, shared>>

\* live_abs.write_bytes of _confirm_refresh, seen from the pool's threads.
ReplaceData(v) ==
  /\ Edit
  /\ v # live /\ live' = v
  /\ UNCHANGED <<controls, runs, papers, req, clock, crashes, unsettled, shared>>

\* A death in the middle of the write of a file: what it leaves of one that is
\* still empty counts as Torn already.
TornWrite(r) ==
  /\ req[r].step \in Files /\ req[r].open
  /\ papers[req[r].id][req[r].step] # Torn
  /\ papers' = [papers EXCEPT ![req[r].id][req[r].step] = Mixed]

Crash ==
  /\ crashes < MaxCrashes
  /\ \E r \in Requests : Running(r)
  /\ \/ UNCHANGED papers
     \/ \E r \in Requests : TornWrite(r)
  /\ req' = [r \in Requests |-> IF Running(r) THEN [req[r] EXCEPT !.step = "dead"]
                                              ELSE req[r]]
  /\ crashes' = crashes + 1
  /\ UNCHANGED <<controls, live, runs, clock, edits, unsettled, shared>>
----------------------------------------------------------------------------
RunStep(r) ==
  \/ LoadProject(r) \/ LoadPipeline(r) \/ CollectSamples(r)
  \/ LoadCheck(r) \/ HashCheck(r) \/ InsertProcRun(r)
  \/ OpenFile(r) \/ WriteHtml(r) \/ WriteMarkdown(r) \/ WriteEvidence(r) \/ AggregateRun(r)

Editor ==
  \/ \E c \in Ids, row \in Rows : SaveControl(c, row)
  \/ \E c, d \in Ids : RenameControl(c, d)
  \/ \E v \in Contents : ReplaceData(v)

\* All requests of the behaviour are answered: the server waits.
Quiet == (\A r \in Requests : req[r].step \in Ended) /\ UNCHANGED vars

Next ==
  \/ \E r \in Requests : RunStep(r) \/ \E c \in Ids : StartRun(r, c)
  \/ Editor
  \/ Crash
  \/ Quiet

Spec == Init /\ [][Next]_vars
----------------------------------------------------------------------------
(* Properties *)

\* Every variable stays in its set.
TypeOK ==
  /\ controls \in [Ids -> Control \cup {NoControl}]
  /\ live \in Contents
  /\ runs \in Seq(Run)
  /\ papers \in [Ids -> [html : Papers, md : Papers, evidence : Evidence]]
  /\ req \in [Requests -> RequestRec \cup {NoRequest}]
  /\ clock \in Nat /\ edits \in Nat /\ crashes \in Nat
  /\ unsettled \subseteq Ids /\ shared \subseteq Ids

RunSet == {runs[i] : i \in DOMAIN runs}
RunsAt(t) == {x \in RunSet : x.id.at = t}
\* The rows a request has stored by procedure, without an aggregate of them.
PartsAt(t) ==
  LET parts == {x \in RunsAt(t) : x.id.proc # Whole}
  IN IF parts = {} THEN RunsAt(t) ELSE parts

\* No run row is left without the control it is filed under, although runs
\* are stored while controls are renamed and their old ids reused.
NoOrphanRuns == \A x \in RunSet : controls[x.owner] # NoControl

\* A request that answered with a run has stored one row per procedure it
\* found, and the row of the whole control unless there is only one; the
\* answer's row holds the exceptions of all of them.
FanOutComplete ==
  \A r \in Requests : At(r, "done") =>
    LET q == req[r]
        rows == RunsAt(q.at)
        procs == {ProcsOf(q)[n] : n \in DOMAIN ProcsOf(q)}
    IN /\ {x.id.proc : x \in rows} =
            procs \cup (IF Cardinality(procs) = 1 THEN {} ELSE {Whole})
       /\ Cardinality(rows) = Cardinality({x.id.proc : x \in rows})
       /\ \A x \in rows : x.id.proc = Whole =>
            x.items = UNION {y.items : y \in PartsAt(q.at)}

\* Whatever wrote at the same time, failed or died, a file under target/ that is
\* whole shows stored results only: every section of a workpaper is a row of
\* table runs, and the evidence is the union of the rows of one request.
DeliverablesBacked ==
  \A c \in Ids :
    /\ \A f \in {papers[c].html, papers[c].md} \ NotWhole :
         \A i \in DOMAIN f.sections : \E x \in RunSet :
           x.id = f.sections[i].id /\ x.items = f.sections[i].items
    /\ papers[c].evidence \notin NotWhole =>
         papers[c].evidence.items =
           UNION {x.items : x \in PartsAt(papers[c].evidence.at)}

\* As soon as one request has written the files of a control with no other one
\* writing them at the same time, workpaper, Markdown and evidence are whole
\* and of that one run, whatever mix, tear or older run was there before.
DeliverablesAgree ==
  \A c \in Ids \ unsettled :
    LET p == papers[c] IN
    /\ p.html = p.md
    /\ p.html = NoPaper <=> p.evidence = NoPaper
    /\ p.html # NoPaper =>
         /\ p.html \notin NotWhole /\ p.evidence \notin NotWhole
         /\ p.html.at = p.evidence.at

\* A run's provenance is the "record of a data source snapshot used in a run"
\* (model/run.py:12): the items stored are those of the content hashed.
ProvenanceTrue ==
  \A x \in RunSet : x.id.proc # Whole =>
    x.items = UNION {Found[x.id.prov][ChecksOf[x.id.proc][k]] :
                       k \in DOMAIN ChecksOf[x.id.proc]}

\* Threshold.passes for a count bound.
Passes(n, limit) == n <= limit
\* Workpaper.determination: with more than one procedure, all must pass.
PaperPasses(f) ==
  IF Len(f.sections) > 1
    THEN \A i \in DOMAIN f.sections :
           Passes(Cardinality(f.sections[i].items), f.sections[i].limit)
    ELSE Passes(Cardinality(UnionOf(f.sections)), f.limit)
\* The row a finished request redirects to: run_view judges it by the control.
AnswerId(q) == IF Len(q.out) = 1 THEN q.out[1].id ELSE AggregateId(q)
\* list_runs_for sorts by executed_at, newest first; rows of one request tie
\* and keep their rowid order, so latest_run is the first of them.
IsLatest(i) ==
  \A j \in DOMAIN runs : runs[j].owner = runs[i].owner =>
    \/ runs[j].id.at < runs[i].id.at
    \/ runs[j].id.at = runs[i].id.at /\ i <= j

\* The run page derives its verdict as the workpaper embedded in it does
\* (runs.py:88), and the badge of the dashboard "passes/fails by ... the same
\* determination the workpaper uses" (dashboard.py:34): for a request that is
\* the last of its control, when nothing was edited since.
VerdictsAgree ==
  \A r \in Requests : At(r, "done") =>
    LET q == req[r] IN \A i \in DOMAIN runs :
      /\ runs[i].id = AnswerId(q) \/ (IsLatest(i) /\ runs[i].id.at = q.at)
      /\ runs[i].owner = q.id /\ controls[q.id] = q.ctl
      /\ papers[q.id].html = Workpaper(q)
      => (Passes(Cardinality(runs[i].items), controls[q.id].limit)
            <=> PaperPasses(papers[q.id].html))

Ledger == INSTANCE RunLedger
            WITH Owners <- Ids, Contents <- SUBSET Items,
                 ledger <- RunSet
\* ControlRuns implements RunLedger: no thread, edit, rename, refresh or crash
\* replaces, changes or loses a stored run.
RunsAreALedger == Ledger!LedgerSpec
============================================================================
