---------------------------- MODULE SourceFiles ----------------------------
(***************************************************************************)
(* The data sources of an engagement: rows of the tables sources, columns, *)
(* source_files and source_fetch (store/repo.py), and the files under      *)
(* data/, data/.pending/ and data/.versions/ that the handlers of          *)
(* plane/routes/sources.py write.                                          *)
(*                                                                         *)
(* The handlers that change a source are coroutines of one event loop: the *)
(* body between two awaits is never interleaved with another of them, so   *)
(* one "job" runs at a time.  Each file write and each repo call (a        *)
(* transaction that commits itself) is a step of the job, because the      *)
(* process can die between any two of them, and can die inside a file      *)
(* write, which leaves that file truncated.  Only _refresh_source reads    *)
(* the store before it awaits the upload: such requests wait in awaiting.  *)
(***************************************************************************)
EXTENDS Naturals, Sequences

CONSTANTS
  Sources, Names, Bytes, Columns, Dates, Formats,
  NoDate, NoSource, NoFile, Torn, Root,
  FormatOf,    \* [Names -> Formats]: the format a file name's suffix stands for
  ParsesAs,    \* [Bytes -> SUBSET Formats]: the formats a content can be read in
  Header,      \* [Bytes -> SUBSET Columns]: the column names of a content
  Ragged,      \* contents whose header repeats a name
  OwnNames,    \* [Sources -> SUBSET Names]: data/ names used for a source
  MaxStamp,    \* bound on the upload clock, one tick of which is a second
  MaxCrashes,  \* bound on process deaths
  Recreate,    \* may "Add source" be posted with an id that is taken?
  SameSecond,  \* may two confirms fall in one second?
  FreeKeys     \* may the editor post key columns the source does not have?

ASSUME BoundsAssumption ==
  /\ MaxStamp \in Nat /\ MaxCrashes \in Nat
  /\ Recreate \in BOOLEAN /\ SameSecond \in BOOLEAN /\ FreeKeys \in BOOLEAN
ASSUME DataAssumption ==
  /\ FormatOf \in [Names -> Formats]
  /\ ParsesAs \in [Bytes -> SUBSET Formats]
  /\ Header \in [Bytes -> SUBSET Columns]
  /\ OwnNames \in [Sources -> SUBSET Names]
ASSUME MarkAssumption ==
  /\ NoFile \notin Bytes /\ Torn \notin Bytes /\ NoFile # Torn
  /\ NoDate \notin Dates /\ Root \notin Sources

VARIABLES
  disk,      \* the files: path -> content, NoFile where there is none
  sources,   \* table sources (NoSource: no row)
  columns,   \* table columns: per source, column -> its mapping
  files,     \* table source_files: per source, its rows in id order
  fetched,   \* sources with a source_fetch row (created from a URL)
  awaiting,  \* refresh requests suspended in "await file.read()"
  job,       \* the handler body that is running
  now,       \* the clock _stamp() reads
  unsettled, \* history: sources whose last create or confirm did not finish
  crashes    \* history: process deaths so far

store == <<sources, columns, files, fetched>>
ghosts == <<unsettled, crashes>>
vars == <<disk, store, awaiting, job, now, ghosts>>
----------------------------------------------------------------------------
(* Paths, rows and contents *)

Data(n)          == [dir |-> "data", src |-> Root, name |-> n, stamp |-> 0]
Pending(s, n)    == [dir |-> "pending", src |-> s, name |-> n, stamp |-> 0]
Version(s, t, n) == [dir |-> "versions", src |-> s, name |-> n, stamp |-> t]

Stamps == 0 .. MaxStamp
Paths == {Data(n) : n \in Names}
           \cup {Pending(s, n) : s \in Sources, n \in Names}
           \cup {Version(s, t, n) : s \in Sources, t \in Stamps, n \in Names}

\* A file cut short by a crash is a content too: it is read back as no columns.
Contents == Bytes \cup {Torn}
AsOf == Dates \cup {NoDate}
Mapping == {"default", "custom"}
ColumnMaps == UNION {[C -> Mapping] : C \in SUBSET Columns}
SourceRow == [format : Formats, name : Names, keys : SUBSET Columns,
              extract : AsOf, sheet : BOOLEAN]   \* sheet: was one chosen?
NoColumns == [k \in {} |-> "default"]
ASSUME RowAssumption == NoSource \notin SourceRow
\* bytes is the content the row's original_name and row_count were taken from.
FileRow == [stored : Paths, bytes : Contents, asof : AsOf, current : BOOLEAN]

\* extract_table: does a content read in a format, and to which columns?
Parses(c, f) == IF c = Torn THEN f = "csv" ELSE f \in ParsesAs[c]
HeaderOf(c)  == IF c = Torn THEN {} ELSE Header[c]

\* Mutant: every column of the new file starts from the default mapping.
ResetColumns(old, new) == [k \in new |-> "default"]

\* _reconcile_columns: surviving columns keep their mapping, new ones get the
\* default, columns missing from the new header go.
ReconcileColumns(old, new) ==
  [k \in new |-> IF k \in DOMAIN old THEN old[k] ELSE "default"]

Demote(rows) == [i \in DOMAIN rows |-> [rows[i] EXCEPT !.current = FALSE]]

\* Mutant: the rows an earlier upload left are not deleted first.
AddInitialFile(rows, r) == Append(rows, r)
\* Mutant: the current row is updated in place, if there is one.
UpdateCurrentFile(rows, r) ==
  [i \in DOMAIN rows |-> IF rows[i].current THEN r ELSE rows[i]]
\* Mutant: the archived row is not repointed to the copy.
ArchiveInPlace(rows, p) == Demote(rows)

\* repo.set_initial_file: replace all rows of the source with one current row.
SetInitialFile(rows, r) == <<r>>
\* repo.record_current_file: demote any current row, then add a new one.
RecordCurrentFile(rows, r) == Append(Demote(rows), r)
\* repo.archive_current_file: the current row becomes an archived one.
ArchiveCurrentFile(rows, p) ==
  [i \in DOMAIN rows |-> IF rows[i].current
                           THEN [rows[i] EXCEPT !.current = FALSE, !.stored = p]
                           ELSE rows[i]]
\* repo.set_current_file_asof, the part on source_files.
SetCurrentAsOf(rows, d) ==
  [i \in DOMAIN rows |-> IF rows[i].current THEN [rows[i] EXCEPT !.asof = d]
                                            ELSE rows[i]]
----------------------------------------------------------------------------
(* Jobs: the handler body on the event loop, and where it stands *)

Steps == {"create_write", "create_row", "create_columns", "create_file",
          "create_fetch", "create_date", "stage_write", "stage_parse",
          "confirm_copy", "confirm_archive", "confirm_write",
          "confirm_unlink", "confirm_columns", "confirm_record",
          "confirm_row", "save_columns", "save_row"}

NoJob == [at |-> "idle"]
\* was: the source row the handler read (confirm), or the one it will write.
Jobs == [at : Steps, src : Sources, name : Names, bytes : Contents,
         asof : AsOf, stamp : Stamps, url : BOOLEAN, was : SourceRow,
         cols : ColumnMaps]

Init ==
  /\ disk = [p \in Paths |-> NoFile]
  /\ sources = [s \in Sources |-> NoSource]
  /\ columns = [s \in Sources |-> NoColumns]
  /\ files = [s \in Sources |-> <<>>]
  /\ fetched = {}
  /\ awaiting = {}
  /\ job = NoJob
  /\ now = 0
  /\ unsettled = {} /\ crashes = 0

Exists(s) == sources[s] # NoSource
Idle == job = NoJob
At(l) == job.at = l
Goto(l) == job' = [job EXCEPT !.at = l]
\* The handler returns its response.
Return == job' = NoJob
\* The handler ends with an exception nothing catches; a transaction that is
\* open is rolled back when the connection closes.
Raise == job' = NoJob /\ UNCHANGED ghosts
Begin(l, s, n, c, d, url, was, cols) ==
  job' = [at |-> l, src |-> s, name |-> n, bytes |-> c, asof |-> d,
          stamp |-> now, url |-> url, was |-> was, cols |-> cols]

WriteFile(p, c) == disk' = [disk EXCEPT ![p] = c]
Unlink(p) == WriteFile(p, NoFile)

LivePath(s) == Data(sources[s].name)
JobLive == Data(job.was.name)                     \* current_path
JobVersion == Version(job.src, job.stamp, job.was.name)   \* archive_rel
\* Mutant: a column the new file lost stays in the key config.
KeepKeys == job.was.keys
NewKeys == job.was.keys \ (DOMAIN job.cols \ HeaderOf(job.bytes))
----------------------------------------------------------------------------
(* Add source: _create_source and _create_source_from_url *)

\* Unsupported or unreadable uploads re-render the form and change nothing.
CreateSource(s, n, c, d, url, sheet) ==
  /\ Idle
  /\ Recreate \/ ~Exists(s)
  /\ n \in OwnNames[s] /\ Parses(c, FormatOf[n])
  /\ url => ~sheet
  /\ Begin("create_write", s, n, c, d, url,
           [format |-> FormatOf[n], name |-> n, keys |-> {},
            extract |-> NoDate, sheet |-> sheet], NoColumns)
  /\ unsettled' = unsettled \cup {s}
  /\ UNCHANGED <<disk, store, awaiting, now, crashes>>

CreateWrite ==
  /\ At("create_write")
  /\ WriteFile(JobLive, job.bytes)
  /\ Goto("create_row")
  /\ UNCHANGED <<store, awaiting, now, ghosts>>

\* upsert_source: an existing row is overwritten, extract_date included.
CreateRow ==
  /\ At("create_row")
  /\ sources' = [sources EXCEPT ![job.src] = job.was]
  /\ Goto("create_columns")
  /\ UNCHANGED <<disk, columns, files, fetched, awaiting, now, ghosts>>

\* set_columns inserts one row per header cell; (source_id, original_name) is
\* the primary key, so a repeated name raises IntegrityError.
CreateColumns ==
  /\ At("create_columns")
  /\ \/ /\ job.bytes \in Ragged
        /\ Raise
        /\ UNCHANGED columns
     \/ /\ job.bytes \notin Ragged
        /\ columns' = [columns EXCEPT ![job.src] =
                         ReconcileColumns(NoColumns, HeaderOf(job.bytes))]
        /\ Goto("create_file")
        /\ UNCHANGED ghosts
  /\ UNCHANGED <<disk, sources, files, fetched, awaiting, now>>

\* Mutant: the staged file is looked at after it was unlinked.
LateRow == [stored |-> JobLive, bytes |-> disk[Pending(job.src, job.name)],
            asof |-> job.asof, current |-> TRUE]
NewRow == [stored |-> JobLive, bytes |-> job.bytes, asof |-> job.asof,
           current |-> TRUE]

CreateFile ==
  /\ At("create_file")
  /\ files' = [files EXCEPT ![job.src] = SetInitialFile(@, NewRow)]
  /\ Goto(IF job.url THEN "create_fetch" ELSE "create_date")
  /\ UNCHANGED <<disk, sources, columns, fetched, awaiting, now, ghosts>>

CreateFetch ==
  /\ At("create_fetch")
  /\ fetched' = fetched \cup {job.src}
  /\ Goto("create_date")
  /\ UNCHANGED <<disk, sources, columns, files, awaiting, now, ghosts>>

\* _set_extract_date: no-op when the posted date is blank.
CreateDate ==
  /\ At("create_date")
  /\ sources' = IF job.asof = NoDate THEN sources
                ELSE [sources EXCEPT ![job.src].extract = job.asof]
  /\ Return
  /\ unsettled' = unsettled \ {job.src}
  /\ UNCHANGED <<disk, columns, files, fetched, awaiting, now, crashes>>
----------------------------------------------------------------------------
(* Stage a new data file: _refresh_source, _refetch_source, _cancel_refresh *)

\* get_source, then "await file.read()": other handlers may run meanwhile.
RefreshSource(s) ==
  /\ Idle /\ Exists(s)
  /\ awaiting' = awaiting \cup {[src |-> s, format |-> sources[s].format]}
  /\ awaiting' # awaiting
  /\ UNCHANGED <<disk, store, job, now, ghosts>>

\* The upload has arrived; the handler goes on with the format it read before.
RefreshResume(r, n, c) ==
  /\ Idle /\ r \in awaiting
  /\ awaiting' = awaiting \ {r}
  /\ Begin("stage_write", r.src, n, c, NoDate, FALSE,
           [sources[r.src] EXCEPT !.format = r.format], NoColumns)
  /\ UNCHANGED <<disk, store, now, ghosts>>

\* The snapshot is parsed in its own format, not in the source's.  (When it
\* was last fetched, which the job also records, is not modelled.)
RefetchSource(s, n, c) ==
  /\ Idle /\ Exists(s) /\ s \in fetched
  /\ Parses(c, FormatOf[n])
  /\ Begin("stage_write", s, n, c, NoDate, TRUE, sources[s], NoColumns)
  /\ UNCHANGED <<disk, store, awaiting, now, ghosts>>

StageWrite ==
  /\ At("stage_write")
  /\ WriteFile(Pending(job.src, job.name), job.bytes)
  /\ IF job.url THEN Return ELSE Goto("stage_parse")
  /\ UNCHANGED <<store, awaiting, now, ghosts>>

\* An unreadable upload is unlinked and the editor shows the parser's message.
StageParse ==
  /\ At("stage_parse")
  /\ IF Parses(job.bytes, job.was.format)
       THEN UNCHANGED disk
       ELSE Unlink(Pending(job.src, job.name))
  /\ Return
  /\ UNCHANGED <<store, awaiting, now, ghosts>>

CancelRefresh(s, n) ==
  /\ Idle /\ disk[Pending(s, n)] # NoFile
  /\ Unlink(Pending(s, n))
  /\ UNCHANGED <<store, awaiting, job, now, ghosts>>
----------------------------------------------------------------------------
(* Confirm a staged file: _confirm_refresh *)

ConfirmRefresh(s, n, d) ==
  /\ Idle /\ Exists(s) /\ disk[Pending(s, n)] # NoFile
  /\ now < MaxStamp
  /\ now' \in IF SameSecond THEN {now, now + 1} ELSE {now + 1}
  /\ Begin(IF disk[LivePath(s)] # NoFile THEN "confirm_copy"
                                         ELSE "confirm_write",
           s, n, disk[Pending(s, n)], d, FALSE, sources[s], columns[s])
  /\ unsettled' = unsettled \cup {s}
  /\ UNCHANGED <<disk, store, awaiting, crashes>>

\* Mutant: the archive receives the new bytes.
ConfirmCopyNew ==
  /\ At("confirm_copy")
  /\ WriteFile(JobVersion, job.bytes)
  /\ Goto("confirm_archive")
  /\ UNCHANGED <<store, awaiting, now, ghosts>>

\* "never overwrite without keeping the old file"
ConfirmCopy ==
  /\ At("confirm_copy")
  /\ WriteFile(JobVersion, disk[JobLive])
  /\ Goto("confirm_archive")
  /\ UNCHANGED <<store, awaiting, now, ghosts>>

ConfirmArchive ==
  /\ At("confirm_archive")
  /\ files' = [files EXCEPT ![job.src] = ArchiveCurrentFile(@, JobVersion)]
  /\ Goto("confirm_write")
  /\ UNCHANGED <<disk, sources, columns, fetched, awaiting, now, ghosts>>

ConfirmWrite ==
  /\ At("confirm_write")
  /\ WriteFile(JobLive, job.bytes)
  /\ Goto("confirm_unlink")
  /\ UNCHANGED <<store, awaiting, now, ghosts>>

ConfirmUnlink ==
  /\ At("confirm_unlink")
  /\ Unlink(Pending(job.src, job.name))
  /\ Goto("confirm_columns")
  /\ UNCHANGED <<store, awaiting, now, ghosts>>

\* The header is read again, in the source's format and outside any try; then
\* set_columns, as in CreateColumns.
ConfirmColumns ==
  /\ At("confirm_columns")
  /\ \/ /\ ~Parses(job.bytes, job.was.format) \/ job.bytes \in Ragged
        /\ Raise
        /\ UNCHANGED columns
     \/ /\ Parses(job.bytes, job.was.format) /\ job.bytes \notin Ragged
        /\ columns' = [columns EXCEPT ![job.src] =
                         ReconcileColumns(job.cols, HeaderOf(job.bytes))]
        /\ Goto("confirm_record")
        /\ UNCHANGED ghosts
  /\ UNCHANGED <<disk, sources, files, fetched, awaiting, now>>

ConfirmRecord ==
  /\ At("confirm_record")
  /\ files' = [files EXCEPT ![job.src] = RecordCurrentFile(@, NewRow)]
  /\ Goto("confirm_row")
  /\ UNCHANGED <<disk, sources, columns, fetched, awaiting, now, ghosts>>

\* Mutant: the posted date is recorded for the file only.
ConfirmRowNoDate ==
  /\ At("confirm_row")
  /\ sources' = [sources EXCEPT ![job.src] = [job.was EXCEPT !.keys = NewKeys]]
  /\ Return
  /\ unsettled' = unsettled \ {job.src}
  /\ UNCHANGED <<disk, columns, files, fetched, awaiting, now, crashes>>

\* A blank as-of date leaves extract_date as it was; columns that went are
\* dropped from the key config.
ConfirmRow ==
  /\ At("confirm_row")
  /\ sources' = [sources EXCEPT ![job.src] =
       [job.was EXCEPT
          !.keys = NewKeys,
          !.extract = IF job.asof = NoDate THEN @ ELSE job.asof]]
  /\ Return
  /\ unsettled' = unsettled \ {job.src}
  /\ UNCHANGED <<disk, columns, files, fetched, awaiting, now, crashes>>
----------------------------------------------------------------------------
(* Metadata edits: _save_source and _update_asof *)

\* The form posts a mapping per existing column and the key columns as text.
SaveSource(s, custom, keys) ==
  /\ Idle /\ Exists(s)
  /\ FreeKeys \/ keys \subseteq DOMAIN columns[s]
  /\ custom \subseteq DOMAIN columns[s]
  /\ Begin("save_columns", s, sources[s].name, Torn, NoDate, FALSE,
           [sources[s] EXCEPT !.keys = keys],
           [k \in DOMAIN columns[s] |->
              IF k \in custom THEN "custom" ELSE "default"])
  /\ UNCHANGED <<disk, store, awaiting, now, ghosts>>

SaveColumns ==
  /\ At("save_columns")
  /\ columns' = [columns EXCEPT ![job.src] = job.cols]
  /\ Goto("save_row")
  /\ UNCHANGED <<disk, sources, files, fetched, awaiting, now, ghosts>>

SaveRow ==
  /\ At("save_row")
  /\ sources' = [sources EXCEPT ![job.src] = job.was]
  /\ Return
  /\ UNCHANGED <<disk, columns, files, fetched, awaiting, now, ghosts>>

\* set_current_file_asof: both updates in one transaction.
UpdateAsOf(s, d) ==
  /\ Idle /\ Exists(s)
  /\ files' = [files EXCEPT ![s] = SetCurrentAsOf(@, d)]
  /\ sources' = [sources EXCEPT ![s].extract = d]
  /\ UNCHANGED <<disk, columns, fetched, awaiting, job, now, ghosts>>
----------------------------------------------------------------------------
(* The process dies, and is started again over the same files and rows *)

\* The file the next step of the job writes, if it writes one.
WriteTarget ==
  CASE job.at \in {"create_write", "confirm_write"} -> {JobLive}
    [] job.at = "stage_write" -> {Pending(job.src, job.name)}
    [] job.at = "confirm_copy" -> {JobVersion}
    [] OTHER -> {}

Crash ==
  /\ ~Idle /\ crashes < MaxCrashes
  /\ \/ UNCHANGED disk
     \/ \E p \in WriteTarget : WriteFile(p, Torn)
  /\ job' = NoJob /\ awaiting' = {}
  /\ crashes' = crashes + 1
  /\ UNCHANGED <<store, now, unsettled>>
----------------------------------------------------------------------------
Request(s) ==
  \/ \E n \in Names, c \in Bytes, d \in AsOf, url, sheet \in BOOLEAN :
       CreateSource(s, n, c, d, url, sheet)
  \/ RefreshSource(s)
  \/ \E n \in Names, c \in Bytes : RefetchSource(s, n, c)
  \/ \E n \in Names : CancelRefresh(s, n)
  \/ \E n \in Names, d \in AsOf : ConfirmRefresh(s, n, d)
  \/ \E custom, keys \in SUBSET Columns : SaveSource(s, custom, keys)
  \/ \E d \in AsOf : UpdateAsOf(s, d)

Continue ==
  \/ CreateWrite \/ CreateRow \/ CreateColumns \/ CreateFile
  \/ CreateFetch \/ CreateDate
  \/ StageWrite \/ StageParse
  \/ ConfirmCopy \/ ConfirmArchive \/ ConfirmWrite \/ ConfirmUnlink
  \/ ConfirmColumns \/ ConfirmRecord \/ ConfirmRow
  \/ SaveColumns \/ SaveRow

Next ==
  \/ \E s \in Sources : Request(s)
  \/ \E r \in awaiting, n \in Names, c \in Bytes : RefreshResume(r, n, c)
  \/ Continue
  \/ Crash

Spec == Init /\ [][Next]_vars
----------------------------------------------------------------------------
(* Properties *)

\* Every variable stays in its set: jobs stand at a known step, paths hold
\* known contents, rows have the columns migrations.py gives their tables.
TypeOK ==
  /\ disk \in [Paths -> Contents \cup {NoFile}]
  /\ sources \in [Sources -> SourceRow \cup {NoSource}]
  /\ columns \in [Sources -> ColumnMaps]
  /\ files \in [Sources -> Seq(FileRow)]
  /\ fetched \subseteq Sources
  /\ awaiting \subseteq [src : Sources, format : Formats]
  /\ \A r \in awaiting : Exists(r.src)
  /\ job \in Jobs \cup {NoJob}
  /\ now \in Stamps
  /\ unsettled \subseteq Sources /\ crashes \in Nat

\* No history of creates, confirms and crashes gives a source two live files:
\* get_current_file takes the first is_current row it finds.
OneCurrentFile ==
  \A s \in Sources : \A i, j \in DOMAIN files[s] :
    files[s][i].current /\ files[s][j].current => i = j

\* An archived row of the History tab still names a file that holds the bytes
\* it was recorded for, whatever was uploaded, confirmed or cut short since.
HistoryIntact ==
  \A s \in Sources : \A i \in DOMAIN files[s] :
    ~files[s][i].current => disk[files[s][i].stored] = files[s][i].bytes

\* The live row describes the file a run will read: its path, its bytes, its
\* columns, and its as-of date whenever it has one.
Described(s) ==
  \E i \in DOMAIN files[s] :
    /\ files[s][i].current
    /\ files[s][i].stored = LivePath(s)
    /\ files[s][i].bytes = disk[LivePath(s)]
    /\ DOMAIN columns[s] = HeaderOf(files[s][i].bytes)
    /\ files[s][i].asof # NoDate => sources[s].extract = files[s][i].asof

\* Once a create or a confirm has run to its end, the source is described by
\* its rows again, even when an earlier one of them died half way: the
\* handlers are their own recovery.
SettledSourceDescribed ==
  \A s \in Sources : Exists(s) /\ s \notin unsettled => Described(s)

\* A key column is a column: only a process that dies between set_columns and
\* upsert_source leaves a key config that names a column the file lost.
KeysAreColumns ==
  \A s \in Sources : Exists(s) /\ crashes = 0 /\ s \notin unsettled =>
    sources[s].keys \subseteq DOMAIN columns[s]

\* What was set for a source survives every refresh of its data: only Save and a
\* new Add source change the mapping of a column that stays, and only the latter
\* the worksheet (learning 0023: an upsert nulls every column a writer does not
\* pass).
EditsSurviveRefresh ==
  [][\A s \in Sources :
       /\ \A k \in DOMAIN columns[s] \cap DOMAIN columns'[s] :
            columns'[s][k] # columns[s][k] => job.at \in {"save_columns", "create_columns"}
       /\ Exists(s) /\ sources'[s] # NoSource /\ sources'[s].sheet # sources[s].sheet
            => job.at = "create_row"]_vars

\* The contents that can be read back for a source, live or archived.
Kept == [s \in Sources |->
           IF Exists(s)
             THEN {disk[p] : p \in {LivePath(s)} \cup
                     {Version(s, t, n) : t \in Stamps, n \in Names}}
                  \ {NoFile, Torn}
             ELSE {}]
Vault == INSTANCE SourceVault WITH kept <- Kept

\* SourceFiles implements SourceVault: no step of a refresh, and no crash
\* inside one, loses bytes that were once live.
KeepsEveryVersion == Vault!VaultSpec
============================================================================
