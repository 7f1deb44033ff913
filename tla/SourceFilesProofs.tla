------------------------- MODULE SourceFilesProofs -------------------------
(***************************************************************************)
(* Theorems about SourceFiles, for any number of sources, names, contents, *)
(* crashes and seconds.                                                    *)
(***************************************************************************)
EXTENDS SourceFiles, SequenceTheorems, TLAPS

----------------------------------------------------------------------------
(* Lemmas about paths and rows *)

LEMMA PathsTyped ==
  /\ \A n \in Names : Data(n) \in Paths
  /\ \A s \in Sources, n \in Names : Pending(s, n) \in Paths
  /\ \A s \in Sources, t \in Stamps, n \in Names : Version(s, t, n) \in Paths
BY DEF Paths

LEMMA HeaderTyped ==
  ASSUME NEW c \in Contents
  PROVE  HeaderOf(c) \subseteq Columns
BY DataAssumption DEF HeaderOf, Contents

LEMMA MapTyped ==
  ASSUME NEW C \in SUBSET Columns, NEW f \in [C -> Mapping]
  PROVE  f \in ColumnMaps
BY DEF ColumnMaps

LEMMA MapDomain ==
  ASSUME NEW f \in ColumnMaps
  PROVE  DOMAIN f \subseteq Columns /\ f \in [DOMAIN f -> Mapping]
BY DEF ColumnMaps

LEMMA NoColumnsTyped == NoColumns \in ColumnMaps
<1>1. NoColumns \in [{} -> Mapping]
  BY DEF NoColumns
<1> QED
  BY <1>1, MapTyped

LEMMA ReconcileTyped ==
  ASSUME NEW old \in ColumnMaps, NEW new \in SUBSET Columns
  PROVE  ReconcileColumns(old, new) \in ColumnMaps
<1>1. ReconcileColumns(old, new) \in [new -> Mapping]
  BY MapDomain DEF ReconcileColumns, Mapping
<1> QED
  BY <1>1, MapTyped

\* What the repo functions on source_files return.
LEMMA RowsTyped ==
  ASSUME NEW rows \in Seq(FileRow), NEW r \in FileRow, NEW p \in Paths,
         NEW d \in AsOf
  PROVE  /\ SetInitialFile(rows, r) \in Seq(FileRow)
         /\ RecordCurrentFile(rows, r) \in Seq(FileRow)
         /\ ArchiveCurrentFile(rows, p) \in Seq(FileRow)
         /\ SetCurrentAsOf(rows, d) \in Seq(FileRow)
<1>0. /\ Len(rows) \in Nat /\ DOMAIN rows = 1 .. Len(rows)
      /\ \A i \in 1 .. Len(rows) : rows[i] \in FileRow
  BY LenProperties, ElementOfSeq
<1>1. SetInitialFile(rows, r) \in Seq(FileRow)
  BY DEF SetInitialFile
<1>2. Demote(rows) \in Seq(FileRow)
  <2>1. Demote(rows) \in [1 .. Len(rows) -> FileRow]
    BY <1>0 DEF Demote, FileRow
  <2> QED
    BY <2>1, <1>0, SeqDef
<1>3. RecordCurrentFile(rows, r) \in Seq(FileRow)
  BY <1>2 DEF RecordCurrentFile
<1>4. ArchiveCurrentFile(rows, p) \in Seq(FileRow)
  <2>1. ArchiveCurrentFile(rows, p) \in [1 .. Len(rows) -> FileRow]
    BY <1>0 DEF ArchiveCurrentFile, FileRow
  <2> QED
    BY <2>1, <1>0, SeqDef
<1>5. SetCurrentAsOf(rows, d) \in Seq(FileRow)
  <2>1. SetCurrentAsOf(rows, d) \in [1 .. Len(rows) -> FileRow]
    BY <1>0 DEF SetCurrentAsOf, FileRow
  <2> QED
    BY <2>1, <1>0, SeqDef
<1> QED
  BY <1>1, <1>3, <1>4, <1>5
----------------------------------------------------------------------------
(* Type correctness *)

\* Past its upsert_source a job works on a source that has a row: the foreign
\* keys of columns and source_fetch, and the UPDATE of extract_date, rely on it.
JobHasSource ==
  job.at \notin {"idle", "create_write", "create_row"} => Exists(job.src)

TypeInv == TypeOK /\ JobHasSource

LEMMA JobTyped ==
  ASSUME TypeOK, job.at # "idle"
  PROVE  /\ job \in Jobs
         /\ JobLive \in Paths /\ JobVersion \in Paths
         /\ Pending(job.src, job.name) \in Paths
         /\ NewRow \in FileRow
<1>1. job \in Jobs
  BY DEF TypeOK, NoJob
<1>2. JobLive \in Paths /\ JobVersion \in Paths
      /\ Pending(job.src, job.name) \in Paths
  BY <1>1, PathsTyped DEF Jobs, SourceRow, JobLive, JobVersion
<1>3. NewRow \in FileRow
  BY <1>1, <1>2 DEF Jobs, NewRow, FileRow
<1> QED
  BY <1>1, <1>2, <1>3

\* Moving a job on keeps it a job.
LEMMA GotoTyped ==
  ASSUME job \in Jobs, NEW l \in Steps, Goto(l)
  PROVE  /\ job' \in Jobs /\ job'.at = l /\ job'.src = job.src
         /\ job'.was = job.was /\ job'.bytes = job.bytes
         /\ job'.stamp = job.stamp /\ job'.name = job.name
BY DEF Goto, Jobs

LEMMA BeginTyped ==
  ASSUME NEW l \in Steps, NEW s \in Sources, NEW n \in Names,
         NEW c \in Contents, NEW d \in AsOf, NEW u \in BOOLEAN,
         NEW w \in SourceRow, NEW m \in ColumnMaps, now \in Stamps,
         Begin(l, s, n, c, d, u, w, m)
  PROVE  /\ job' \in Jobs /\ job'.at = l /\ job'.src = s
         /\ job'.was = w /\ job'.bytes = c
         /\ job'.stamp = now /\ job'.name = n
BY DEF Begin, Jobs

LEMMA InitTyped == Init => TypeInv
<1> SUFFICES ASSUME Init PROVE TypeInv
  OBVIOUS
<1>1. files \in [Sources -> Seq(FileRow)]
  BY EmptySeq DEF Init
<1>2. columns \in [Sources -> ColumnMaps]
  BY NoColumnsTyped DEF Init
<1>3. now \in Stamps
  BY BoundsAssumption DEF Init, Stamps
<1> QED
  BY <1>1, <1>2, <1>3 DEF Init, TypeInv, TypeOK, JobHasSource, NoJob

LEMMA StepTyped == TypeInv /\ [Next]_vars => TypeInv'
<1> SUFFICES ASSUME TypeInv, [Next]_vars PROVE TypeInv'
  OBVIOUS
<1> USE DEF TypeInv
<1>1. ASSUME NEW s \in Sources, NEW n \in Names, NEW c \in Bytes,
             NEW d \in AsOf, NEW url \in BOOLEAN, NEW sheet \in BOOLEAN,
             CreateSource(s, n, c, d, url, sheet)
      PROVE  TypeInv'
  <2>1. [format |-> FormatOf[n], name |-> n, keys |-> {},
         extract |-> NoDate, sheet |-> sheet] \in SourceRow
    BY DataAssumption DEF SourceRow, AsOf
  <2>2. job' \in Jobs /\ job'.at = "create_write"
    BY <1>1, <2>1, NoColumnsTyped, BeginTyped
       DEF CreateSource, Contents, Steps, TypeOK
  <2> QED
    BY <1>1, <2>2 DEF CreateSource, TypeOK, JobHasSource, NoJob, store, Exists
<1>2. ASSUME NEW s \in Sources, RefreshSource(s)
      PROVE  TypeInv'
  BY <1>2 DEF RefreshSource, TypeOK, JobHasSource, NoJob, store, ghosts, Exists,
              SourceRow
<1>3. ASSUME NEW s \in Sources, NEW n \in Names, NEW c \in Bytes,
             RefetchSource(s, n, c)
      PROVE  TypeInv'
  <2>1. job' \in Jobs /\ job'.at = "stage_write" /\ job'.src = s
    BY <1>3, NoColumnsTyped, BeginTyped
       DEF RefetchSource, Contents, Steps, TypeOK, AsOf, Exists
  <2> QED
    BY <1>3, <2>1 DEF RefetchSource, TypeOK, JobHasSource, NoJob, store, ghosts, Exists
<1>4. ASSUME NEW s \in Sources, NEW n \in Names, CancelRefresh(s, n)
      PROVE  TypeInv'
  BY <1>4, PathsTyped
     DEF CancelRefresh, Unlink, WriteFile, TypeOK, JobHasSource, NoJob, store, ghosts,
         Exists
<1>5. ASSUME NEW s \in Sources, NEW n \in Names, NEW d \in AsOf,
             ConfirmRefresh(s, n, d)
      PROVE  TypeInv'
  <2>1. disk[Pending(s, n)] \in Contents
    BY <1>5, PathsTyped DEF ConfirmRefresh, TypeOK
  <2>2. /\ job' \in Jobs /\ job'.src = s
    <3> DEFINE l == IF disk[LivePath(s)] # NoFile THEN "confirm_copy"
                                                  ELSE "confirm_write"
    <3>1. /\ l \in Steps /\ FALSE \in BOOLEAN
          /\ sources[s] \in SourceRow /\ columns[s] \in ColumnMaps
          /\ now \in Stamps
      BY <1>5 DEF ConfirmRefresh, Steps, TypeOK, Exists
    <3>2. Begin(l, s, n, disk[Pending(s, n)], d, FALSE, sources[s], columns[s])
      BY <1>5 DEF ConfirmRefresh
    <3> HIDE DEF l
    <3> QED
      BY <2>1, <3>1, <3>2, BeginTyped
  <2>3. now' \in Stamps
    BY <1>5, BoundsAssumption DEF ConfirmRefresh, Stamps, TypeOK
  <2> QED
    BY <1>5, <2>2, <2>3
       DEF ConfirmRefresh, TypeOK, JobHasSource, NoJob, store, Exists
<1>6. ASSUME NEW s \in Sources, NEW custom \in SUBSET Columns,
             NEW keys \in SUBSET Columns, SaveSource(s, custom, keys)
      PROVE  TypeInv'
  <2> DEFINE w == [sources[s] EXCEPT !.keys = keys]
             m == [k \in DOMAIN columns[s] |->
                     IF k \in custom THEN "custom" ELSE "default"]
  <2>1. w \in SourceRow /\ sources[s].name \in Names
    BY <1>6 DEF SaveSource, TypeOK, Exists, SourceRow
  <2>2. m \in ColumnMaps
    BY MapDomain, MapTyped DEF TypeOK, Mapping
  <2>3. job' \in Jobs /\ job'.src = s
    BY <1>6, <2>1, <2>2, BeginTyped DEF SaveSource, Steps, TypeOK, Contents, AsOf
  <2> QED
    BY <1>6, <2>3 DEF SaveSource, TypeOK, JobHasSource, NoJob, store, ghosts, Exists
<1>7. ASSUME NEW s \in Sources, NEW d \in AsOf, UpdateAsOf(s, d)
      PROVE  TypeInv'
  <2>1. [sources[s] EXCEPT !.extract = d] \in SourceRow
    BY <1>7 DEF UpdateAsOf, TypeOK, Exists, SourceRow
  <2>2. SetCurrentAsOf(files[s], d) \in Seq(FileRow)
    <3>1. files[s] \in Seq(FileRow)
      BY DEF TypeOK
    <3>2. \A rows \in Seq(FileRow) : SetCurrentAsOf(rows, d) \in Seq(FileRow)
      <4> SUFFICES ASSUME NEW rows \in Seq(FileRow)
                   PROVE  SetCurrentAsOf(rows, d) \in Seq(FileRow)
        OBVIOUS
      <4>1. /\ Len(rows) \in Nat /\ DOMAIN rows = 1 .. Len(rows)
            /\ \A i \in 1 .. Len(rows) : rows[i] \in FileRow
        BY LenProperties, ElementOfSeq
      <4>2. SetCurrentAsOf(rows, d) \in [1 .. Len(rows) -> FileRow]
        BY <4>1 DEF SetCurrentAsOf, FileRow
      <4> QED
        BY <4>1, <4>2, SeqDef
    <3> QED
      BY <3>1, <3>2
  <2> QED
    <3>1. sources' \in [Sources -> SourceRow \cup {NoSource}]
      BY <1>7, <2>1 DEF UpdateAsOf, TypeOK
    <3>2. files' \in [Sources -> Seq(FileRow)]
      BY <1>7, <2>2 DEF UpdateAsOf, TypeOK
    <3>3. \A r \in Sources : Exists(r) => Exists(r)'
      BY <1>7, <2>1, RowAssumption DEF UpdateAsOf, TypeOK, Exists
    <3>4. job \in Jobs => job.src \in Sources
      BY DEF Jobs
    <3> QED
      BY <1>7, <3>1, <3>2, <3>3, <3>4
         DEF UpdateAsOf, TypeOK, JobHasSource, NoJob, ghosts
<1>8. ASSUME NEW r \in awaiting, NEW n \in Names, NEW c \in Bytes,
             RefreshResume(r, n, c)
      PROVE  TypeInv'
  <2>1. /\ r.src \in Sources /\ Exists(r.src)
        /\ [sources[r.src] EXCEPT !.format = r.format] \in SourceRow
    BY DEF TypeOK, Exists, SourceRow
  <2>2. job' \in Jobs /\ job'.src = r.src
    <3>1. /\ "stage_write" \in Steps /\ c \in Contents /\ NoDate \in AsOf
          /\ FALSE \in BOOLEAN /\ now \in Stamps
      BY DEF Steps, Contents, AsOf, TypeOK
    <3>2. Begin("stage_write", r.src, n, c, NoDate, FALSE,
                [sources[r.src] EXCEPT !.format = r.format], NoColumns)
      BY <1>8 DEF RefreshResume
    <3> QED
      BY <2>1, <3>1, <3>2, NoColumnsTyped, BeginTyped
  <2> QED
    BY <1>8, <2>1, <2>2
       DEF RefreshResume, TypeOK, JobHasSource, NoJob, store, ghosts, Exists
<1>9. CASE CreateWrite
  <2>1. job \in Jobs /\ JobLive \in Paths /\ job.bytes \in Contents
    BY <1>9, JobTyped DEF CreateWrite, At, Jobs
  <2>2. job' \in Jobs /\ job'.at = "create_row"
    BY <1>9, <2>1, GotoTyped DEF CreateWrite, Steps
  <2> QED
    BY <1>9, <2>1, <2>2
       DEF CreateWrite, WriteFile, TypeOK, JobHasSource, store, ghosts, Exists
<1>10. CASE CreateRow
  BY <1>10, JobTyped, GotoTyped, RowAssumption
     DEF CreateRow, At, TypeOK, JobHasSource, NoJob, ghosts, Jobs, Steps, Exists
<1>11. CASE CreateColumns
  <2>1. ReconcileColumns(NoColumns, HeaderOf(job.bytes)) \in ColumnMaps
    BY <1>11, JobTyped, HeaderTyped, NoColumnsTyped, ReconcileTyped
       DEF CreateColumns, At, Jobs
  <2> QED
    <3>1. job \in Jobs /\ job.src \in Sources /\ Exists(job.src)
      BY <1>11, JobTyped DEF CreateColumns, At, Jobs, JobHasSource
    <3>2. CASE Raise /\ UNCHANGED columns
      BY <1>11, <3>2
         DEF CreateColumns, Raise, TypeOK, JobHasSource, NoJob, ghosts, Exists
    <3>3. CASE ~(Raise /\ UNCHANGED columns)
      <4>1. Goto("create_file") /\ UNCHANGED ghosts
        BY <1>11, <3>3 DEF CreateColumns
      <4>2. job' \in Jobs /\ job'.src = job.src
        BY <3>1, <4>1, GotoTyped DEF Steps
      <4>3. columns' \in [Sources -> ColumnMaps]
        BY <1>11, <2>1, <3>1, <3>3 DEF CreateColumns, TypeOK
      <4> QED
        BY <1>11, <3>1, <4>1, <4>2, <4>3
           DEF CreateColumns, TypeOK, JobHasSource, ghosts, Exists
    <3> QED
      BY <3>2, <3>3
<1>12. CASE CreateFile
  <2>1. SetInitialFile(files[job.src], NewRow) \in Seq(FileRow)
    BY <1>12, JobTyped DEF CreateFile, At, SetInitialFile
  <2> QED
    BY <1>12, <2>1, JobTyped, GotoTyped
       DEF CreateFile, At, TypeOK, JobHasSource, NoJob, ghosts, Jobs, Steps, Exists
<1>13. CASE CreateFetch
  BY <1>13, JobTyped, GotoTyped
     DEF CreateFetch, At, TypeOK, JobHasSource, NoJob, ghosts, Jobs, Steps, Exists
<1>14. CASE CreateDate
  BY <1>14, JobTyped, RowAssumption
     DEF CreateDate, At, Return, TypeOK, JobHasSource, NoJob, Jobs, Exists, SourceRow
<1>15. CASE StageWrite
  BY <1>15, JobTyped, GotoTyped
     DEF StageWrite, At, Return, WriteFile, TypeOK, JobHasSource, NoJob, store, ghosts,
         Jobs, Steps, Exists
<1>16. CASE StageParse
  BY <1>16, JobTyped
     DEF StageParse, At, Return, Unlink, WriteFile, TypeOK, JobHasSource, NoJob, store,
         ghosts, Exists
<1>17. CASE ConfirmCopy
  BY <1>17, JobTyped, GotoTyped
     DEF ConfirmCopy, At, WriteFile, TypeOK, JobHasSource, NoJob, store, ghosts, Jobs,
         Steps, Exists
<1>18. CASE ConfirmArchive
  <2>1. ArchiveCurrentFile(files[job.src], JobVersion) \in Seq(FileRow)
    <3>1. NewRow \in FileRow /\ NoDate \in AsOf
      BY <1>18, JobTyped DEF ConfirmArchive, At, AsOf
    <3> QED
      BY <1>18, <3>1, JobTyped, RowsTyped DEF ConfirmArchive, At, TypeOK, Jobs
  <2> QED
    BY <1>18, <2>1, JobTyped, GotoTyped
       DEF ConfirmArchive, At, TypeOK, JobHasSource, NoJob, ghosts, Jobs, Steps, Exists
<1>19. CASE ConfirmWrite
  BY <1>19, JobTyped, GotoTyped
     DEF ConfirmWrite, At, WriteFile, TypeOK, JobHasSource, NoJob, store, ghosts, Jobs,
         Steps, Exists
<1>20. CASE ConfirmUnlink
  BY <1>20, JobTyped, GotoTyped
     DEF ConfirmUnlink, At, Unlink, WriteFile, TypeOK, JobHasSource, NoJob, store,
         ghosts, Jobs, Steps, Exists
<1>21. CASE ConfirmColumns
  <2>1. ReconcileColumns(job.cols, HeaderOf(job.bytes)) \in ColumnMaps
    BY <1>21, JobTyped, HeaderTyped, ReconcileTyped DEF ConfirmColumns, At, Jobs
  <2> QED
    <3>1. job \in Jobs /\ job.src \in Sources /\ Exists(job.src)
      BY <1>21, JobTyped DEF ConfirmColumns, At, Jobs, JobHasSource
    <3>2. CASE Raise /\ UNCHANGED columns
      BY <1>21, <3>2
         DEF ConfirmColumns, Raise, TypeOK, JobHasSource, NoJob, ghosts, Exists
    <3>3. CASE ~(Raise /\ UNCHANGED columns)
      <4>1. Goto("confirm_record") /\ UNCHANGED ghosts
        BY <1>21, <3>3 DEF ConfirmColumns
      <4>2. job' \in Jobs /\ job'.src = job.src
        BY <3>1, <4>1, GotoTyped DEF Steps
      <4>3. columns' \in [Sources -> ColumnMaps]
        BY <1>21, <2>1, <3>1, <3>3 DEF ConfirmColumns, TypeOK
      <4> QED
        BY <1>21, <3>1, <4>1, <4>2, <4>3
           DEF ConfirmColumns, TypeOK, JobHasSource, ghosts, Exists
    <3> QED
      BY <3>2, <3>3
<1>22. CASE ConfirmRecord
  <2>1. RecordCurrentFile(files[job.src], NewRow) \in Seq(FileRow)
    <3>1. NewRow \in FileRow /\ NoDate \in AsOf
      BY <1>22, JobTyped DEF ConfirmRecord, At, AsOf
    <3> QED
      BY <1>22, <3>1, JobTyped, RowsTyped DEF ConfirmRecord, At, TypeOK, Jobs
  <2> QED
    BY <1>22, <2>1, JobTyped, GotoTyped
       DEF ConfirmRecord, At, TypeOK, JobHasSource, NoJob, ghosts, Jobs, Steps, Exists
<1>23. CASE ConfirmRow
  <2>1. NewKeys \subseteq Columns
    BY <1>23, JobTyped DEF ConfirmRow, At, NewKeys, Jobs, SourceRow
  <2> QED
    BY <1>23, <2>1, JobTyped, RowAssumption
       DEF ConfirmRow, At, Return, TypeOK, JobHasSource, NoJob, Jobs, Exists, SourceRow
<1>24. CASE SaveColumns
  BY <1>24, JobTyped, GotoTyped
     DEF SaveColumns, At, TypeOK, JobHasSource, NoJob, ghosts, Jobs, Steps, Exists
<1>25. CASE SaveRow
  BY <1>25, JobTyped, RowAssumption
     DEF SaveRow, At, Return, TypeOK, JobHasSource, NoJob, ghosts, Jobs, Exists
<1>26. CASE Crash
  <2>1. WriteTarget \subseteq Paths
    BY <1>26, JobTyped DEF Crash, Idle, WriteTarget, TypeOK, Jobs
  <2> QED
    BY <1>26, <2>1
       DEF Crash, WriteFile, TypeOK, JobHasSource, NoJob, store, Contents, Exists
<1>27. CASE UNCHANGED vars
  BY <1>27 DEF vars, store, ghosts, TypeOK, JobHasSource, NoJob, Exists
<1> QED
  BY <1>1, <1>2, <1>3, <1>4, <1>5, <1>6, <1>7, <1>8, <1>9, <1>10, <1>11,
     <1>12, <1>13, <1>14, <1>15, <1>16, <1>17, <1>18, <1>19, <1>20, <1>21,
     <1>22, <1>23, <1>24, <1>25, <1>26, <1>27 DEF Next, Request, Continue

\* Every reachable state of the source store is well typed, and a job past its
\* upsert works on a source that exists.
THEOREM TypeInvariant == Spec => []TypeInv
BY InitTyped, StepTyped, PTL DEF Spec

\* Every reachable state of the source store is well typed: rows, paths,
\* contents and jobs stay in the sets migrations.py and the handlers give them.
THEOREM TypeCorrect == Spec => []TypeOK
<1>1. TypeInv => TypeOK
  BY DEF TypeInv
<1> QED
  BY <1>1, TypeInvariant, PTL
----------------------------------------------------------------------------
(* One live file per source *)

AtMostOneCurrent(rows) ==
  \A i, j \in DOMAIN rows : rows[i].current /\ rows[j].current => i = j

\* The repo functions on source_files keep at most one current row; two of
\* them establish it whatever the rows were.
LEMMA RowsOneCurrent ==
  ASSUME NEW rows \in Seq(FileRow), NEW r \in FileRow, NEW p \in Paths,
         NEW d \in AsOf
  PROVE  /\ AtMostOneCurrent(SetInitialFile(rows, r))
         /\ AtMostOneCurrent(RecordCurrentFile(rows, r))
         /\ AtMostOneCurrent(ArchiveCurrentFile(rows, p))
         /\ AtMostOneCurrent(rows) => AtMostOneCurrent(SetCurrentAsOf(rows, d))
<1>0. /\ Len(rows) \in Nat /\ DOMAIN rows = 1 .. Len(rows)
      /\ \A i \in 1 .. Len(rows) : rows[i] \in FileRow
  BY LenProperties, ElementOfSeq
<1>1. AtMostOneCurrent(SetInitialFile(rows, r))
  BY DEF AtMostOneCurrent, SetInitialFile
<1>2. /\ Demote(rows) \in Seq(FileRow)
      /\ DOMAIN Demote(rows) = DOMAIN rows /\ Len(Demote(rows)) = Len(rows)
      /\ \A i \in DOMAIN rows : ~Demote(rows)[i].current
  <2>1. Demote(rows) \in [1 .. Len(rows) -> FileRow]
    BY <1>0 DEF Demote, FileRow
  <2>2. Demote(rows) \in Seq(FileRow)
    BY <2>1, <1>0, SeqDef
  <2>3. \A i \in DOMAIN rows : ~Demote(rows)[i].current
    BY <1>0 DEF Demote, FileRow
  <2>4. DOMAIN Demote(rows) = DOMAIN rows
    BY DEF Demote
  <2> QED
    BY <2>2, <2>3, <2>4, <1>0, LenProperties
<1>3. AtMostOneCurrent(RecordCurrentFile(rows, r))
  <2> DEFINE new == Append(Demote(rows), r)
  <2>1. /\ DOMAIN new = 1 .. Len(rows) + 1
        /\ \A i \in 1 .. Len(rows) : new[i] = Demote(rows)[i]
    BY <1>0, <1>2, AppendProperties
  <2>2. \A i \in 1 .. Len(rows) : ~new[i].current
    BY <1>0, <1>2, <2>1
  <2> HIDE DEF new
  <2>3. \A i \in DOMAIN new : new[i].current => i = Len(rows) + 1
    BY <1>0, <2>1, <2>2
  <2>4. AtMostOneCurrent(new)
    BY <2>3 DEF AtMostOneCurrent
  <2> QED
    BY <2>4 DEF RecordCurrentFile, new
<1>4. AtMostOneCurrent(ArchiveCurrentFile(rows, p))
  BY <1>0 DEF AtMostOneCurrent, ArchiveCurrentFile, FileRow
<1>5. AtMostOneCurrent(rows) => AtMostOneCurrent(SetCurrentAsOf(rows, d))
  BY <1>0 DEF AtMostOneCurrent, SetCurrentAsOf, FileRow
<1> QED
  BY <1>1, <1>3, <1>4, <1>5

\* Only five actions write source_files, each through one of those functions.
LEMMA FilesStep ==
  ASSUME TypeInv, [Next]_vars
  PROVE  \/ UNCHANGED files
         \/ \E s \in Sources, r \in FileRow, p \in Paths, d \in AsOf :
              \E rows \in {SetInitialFile(files[s], r),
                           RecordCurrentFile(files[s], r),
                           ArchiveCurrentFile(files[s], p),
                           SetCurrentAsOf(files[s], d)} :
                files' = [files EXCEPT ![s] = rows]
<1>1. CASE CreateFile \/ ConfirmArchive \/ ConfirmRecord
  <2>1. /\ job \in Jobs /\ job.src \in Sources /\ NewRow \in FileRow
        /\ JobVersion \in Paths /\ NoDate \in AsOf
    BY <1>1, JobTyped
       DEF CreateFile, ConfirmArchive, ConfirmRecord, At, TypeInv, Jobs, AsOf
  <2> QED
    BY <1>1, <2>1 DEF CreateFile, ConfirmArchive, ConfirmRecord
<1>2. CASE \E s \in Sources, d \in AsOf : UpdateAsOf(s, d)
  <2>1. PICK s \in Sources, d \in AsOf : UpdateAsOf(s, d)
    BY <1>2
  <2>2. LivePath(s) \in Paths
    BY <2>1, PathsTyped DEF UpdateAsOf, LivePath, TypeInv, TypeOK, Exists, SourceRow
  <2>3. [stored |-> LivePath(s), bytes |-> Torn, asof |-> d, current |-> TRUE]
          \in FileRow
    BY <2>2 DEF FileRow, Contents
  <2> QED
    BY <2>1, <2>2, <2>3 DEF UpdateAsOf
<1>3. ASSUME NEW s \in Sources, Request(s), ~\E d \in AsOf : UpdateAsOf(s, d)
      PROVE  UNCHANGED files
  BY <1>3 DEF Request, CreateSource, RefreshSource, RefetchSource, CancelRefresh,
              ConfirmRefresh, SaveSource, store
<1>4. ASSUME Continue, ~(CreateFile \/ ConfirmArchive \/ ConfirmRecord)
      PROVE  UNCHANGED files
  BY <1>4 DEF Continue, CreateWrite, CreateRow, CreateColumns, CreateFetch,
              CreateDate, StageWrite, StageParse, ConfirmCopy, ConfirmWrite,
              ConfirmUnlink, ConfirmColumns, ConfirmRow, SaveColumns, SaveRow, store
<1>5. ASSUME \/ \E r \in awaiting, n \in Names, c \in Bytes : RefreshResume(r, n, c)
             \/ Crash
             \/ UNCHANGED vars
      PROVE  UNCHANGED files
  BY <1>5 DEF RefreshResume, Crash, vars, store
<1> QED
  BY <1>1, <1>2, <1>3, <1>4, <1>5 DEF Next

LEMMA StepOneCurrent == TypeInv /\ OneCurrentFile /\ [Next]_vars => OneCurrentFile'
<1> SUFFICES ASSUME TypeInv, OneCurrentFile, [Next]_vars
             PROVE  OneCurrentFile'
  OBVIOUS
<1>1. CASE UNCHANGED files
  BY <1>1 DEF OneCurrentFile
<1>2. ASSUME NEW s \in Sources, NEW r \in FileRow, NEW p \in Paths, NEW d \in AsOf,
             NEW rows \in {SetInitialFile(files[s], r),
                          RecordCurrentFile(files[s], r),
                          ArchiveCurrentFile(files[s], p),
                          SetCurrentAsOf(files[s], d)},
             files' = [files EXCEPT ![s] = rows]
      PROVE  OneCurrentFile'
  <2>1. files[s] \in Seq(FileRow) /\ AtMostOneCurrent(files[s])
    BY DEF TypeInv, TypeOK, OneCurrentFile, AtMostOneCurrent
  <2>2. AtMostOneCurrent(rows)
    BY <2>1, RowsOneCurrent
  <2>3. \A q \in Sources : files'[q] = IF q = s THEN rows ELSE files[q]
    BY <1>2 DEF TypeInv, TypeOK
  <2> QED
    BY <2>2, <2>3 DEF OneCurrentFile, AtMostOneCurrent
<1> QED
  BY <1>1, <1>2, FilesStep

\* However creates, confirms and crashes are interleaved, and whether or not
\* two files share a path or a second, a source has at most one live file.
THEOREM OneLiveFile == Spec => []OneCurrentFile
<1>1. Init => OneCurrentFile
  BY DEF Init, OneCurrentFile
<1> QED
  BY <1>1, StepOneCurrent, TypeInvariant, PTL DEF Spec
----------------------------------------------------------------------------
(* The History tab: archived rows keep naming their bytes *)

\* The conditions under which it holds: "Add source" is not posted with an id
\* that is taken, no two confirms fall in one second, and no two sources were
\* added with files of the same name.
NamesApart ==
  \A s, q \in Sources : s # q => OwnNames[s] \cap OwnNames[q] = {}
Careful == ~Recreate /\ ~SameSecond /\ NamesApart

\* An archived row names a version taken at an earlier second than any confirm
\* that may still take one.
RowsDated ==
  /\ \A s \in Sources : \A i \in DOMAIN files[s] :
       ~files[s][i].current =>
         /\ files[s][i].stored.dir = "versions" /\ files[s][i].stored.src = s
         /\ files[s][i].stored.stamp < now
         /\ job.at \in {"confirm_copy", "confirm_archive"} /\ job.src = s =>
              files[s][i].stored.stamp < job.stamp
  /\ job.at \in {"confirm_copy", "confirm_archive"} => job.stamp < now

\* A live row is right about the file the source reads.
LiveRowRight ==
  \A s \in Sources : \A i \in DOMAIN files[s] :
    files[s][i].current => Exists(s) /\ disk[LivePath(s)] = files[s][i].bytes

\* While a handler changes the live file there is no row to be wrong about it.
NoRowWhileWritten ==
  /\ job.at \in {"create_write", "create_row", "create_columns", "create_file"} =>
       files[job.src] = <<>>
  /\ job.at \in {"confirm_write", "confirm_unlink", "confirm_columns",
                  "confirm_record"} =>
       \A i \in DOMAIN files[job.src] : ~files[job.src][i].current
  /\ \A s \in Sources : ~Exists(s) => files[s] = <<>>

\* What the job has put on disk is what its row will say.
JobOnDisk ==
  /\ job.at \in {"create_row", "create_columns", "create_file", "confirm_unlink",
                  "confirm_columns", "confirm_record"} =>
       disk[JobLive] = job.bytes
  /\ job.at = "confirm_archive" => disk[JobVersion] = disk[JobLive]

\* Sources and jobs stay with the file names of their source.
NamesOwned ==
  /\ \A s \in Sources : Exists(s) => sources[s].name \in OwnNames[s]
  /\ job.at # "idle" => job.was.name \in OwnNames[job.src]
  /\ job.at \notin {"idle", "create_write", "create_row"} =>
       job.was.name = sources[job.src].name

HistoryInv ==
  /\ TypeInv /\ HistoryIntact /\ RowsDated /\ LiveRowRight
  /\ NoRowWhileWritten /\ JobOnDisk /\ NamesOwned

LEMMA HistoryInit == Init => HistoryInv
<1> SUFFICES ASSUME Init PROVE HistoryInv
  OBVIOUS
<1>1. TypeInv
  BY InitTyped
<1>2. /\ \A s \in Sources : files[s] = <<>> /\ DOMAIN files[s] = {} /\ ~Exists(s)
      /\ job.at = "idle"
  BY DEF Init, Exists, NoJob
<1> QED
  BY <1>1, <1>2 DEF HistoryInv, HistoryIntact, RowsDated, LiveRowRight,
                    NoRowWhileWritten, JobOnDisk, NamesOwned

LEMMA RowTyped ==
  ASSUME TypeOK, NEW s \in Sources, NEW i \in DOMAIN files[s]
  PROVE  files[s][i] \in FileRow
<1>1. files[s] \in Seq(FileRow)
  BY DEF TypeOK
<1> QED
  BY <1>1, ElementOfSeq, LenProperties

\* archive_current_file: the current row is repointed, nothing else changes.
LEMMA ArchivedRows ==
  ASSUME NEW rows, NEW p \in Paths, \A i \in DOMAIN rows : rows[i] \in FileRow
  PROVE  LET new == ArchiveCurrentFile(rows, p) IN
         /\ DOMAIN new = DOMAIN rows
         /\ \A i \in DOMAIN rows :
              /\ ~new[i].current
              /\ new[i].bytes = rows[i].bytes
              /\ new[i].stored = IF rows[i].current THEN p ELSE rows[i].stored
<1> DEFINE new == ArchiveCurrentFile(rows, p)
<1>1. DOMAIN new = DOMAIN rows
  BY DEF ArchiveCurrentFile
<1>2. ASSUME NEW i \in DOMAIN rows
      PROVE  /\ ~new[i].current
             /\ new[i].bytes = rows[i].bytes
             /\ new[i].stored = IF rows[i].current THEN p ELSE rows[i].stored
  <2>1. /\ rows[i].current =>
             new[i] = [rows[i] EXCEPT !.current = FALSE, !.stored = p]
        /\ ~rows[i].current => new[i] = rows[i]
    BY DEF ArchiveCurrentFile
  <2>2. rows[i] \in FileRow
    OBVIOUS
  <2> QED
    BY <2>1, <2>2 DEF FileRow
<1> QED
  BY <1>1, <1>2

\* Steps that touch no file but staged ones and no row of source_files, and
\* leave every source row its existence and its name.
LEMMA QuietStep ==
  ASSUME HistoryInv, TypeInv', UNCHANGED files, now' \in {now, now + 1},
         \A p \in Paths : p.dir # "pending" => disk'[p] = disk[p],
         \A s \in Sources : /\ Exists(s)' <=> Exists(s)
                            /\ sources'[s].name = sources[s].name
  PROVE  /\ HistoryIntact' /\ LiveRowRight'
         /\ \A s \in Sources : ~Exists(s)' => files'[s] = <<>>
         /\ \A s \in Sources : Exists(s)' => sources'[s].name \in OwnNames[s]
         /\ \A s \in Sources : \A i \in DOMAIN files'[s] :
              ~files'[s][i].current =>
                /\ files'[s][i].stored.dir = "versions"
                /\ files'[s][i].stored.src = s /\ files'[s][i].stored.stamp < now'
<1>0. \A s \in Sources : \A i \in DOMAIN files[s] : files[s][i].stored \in Paths
  BY RowTyped DEF HistoryInv, TypeInv, FileRow
<1>1. now \in Nat
  BY BoundsAssumption DEF HistoryInv, TypeInv, TypeOK, Stamps
<1>2. HistoryIntact'
  BY <1>0 DEF HistoryInv, HistoryIntact, RowsDated
<1>3. LiveRowRight'
  <2>1. \A s \in Sources : Exists(s) => /\ LivePath(s) \in Paths
                                      /\ LivePath(s).dir = "data"
    BY DEF HistoryInv, TypeInv, TypeOK, Exists, SourceRow, LivePath, Data, Paths
  <2> QED
    BY <2>1 DEF HistoryInv, LiveRowRight, LivePath
<1>4. \A s \in Sources : ~Exists(s)' => files'[s] = <<>>
  BY DEF HistoryInv, NoRowWhileWritten
<1>5. \A s \in Sources : Exists(s)' => sources'[s].name \in OwnNames[s]
  BY DEF HistoryInv, NamesOwned
<1>6. \A s \in Sources : \A i \in DOMAIN files'[s] :
        ~files'[s][i].current =>
          /\ files'[s][i].stored.dir = "versions"
          /\ files'[s][i].stored.src = s /\ files'[s][i].stored.stamp < now'
  <2> SUFFICES ASSUME NEW s \in Sources, NEW i \in DOMAIN files[s],
                      ~files[s][i].current
               PROVE  /\ files[s][i].stored.dir = "versions"
                      /\ files[s][i].stored.src = s
                      /\ files[s][i].stored.stamp < now'
    OBVIOUS
  <2>1. /\ files[s][i].stored.dir = "versions" /\ files[s][i].stored.src = s
        /\ files[s][i].stored.stamp < now
    BY DEF HistoryInv, RowsDated
  <2>2. files[s][i].stored.stamp \in Nat
    BY <1>0 DEF Paths, Data, Pending, Version, Stamps
  <2> QED
    BY <1>1, <2>1, <2>2
<1> QED
  BY <1>2, <1>3, <1>4, <1>5, <1>6

\* After a quiet step that ends the job, or leaves it waiting, nothing remains
\* to be shown.
LEMMA QuietEnd ==
  ASSUME HistoryInv, TypeInv', UNCHANGED files, now' \in {now, now + 1},
         \A p \in Paths : p.dir # "pending" => disk'[p] = disk[p],
         \A s \in Sources : /\ Exists(s)' <=> Exists(s)
                            /\ sources'[s].name = sources[s].name,
         job' = NoJob
  PROVE  HistoryInv'
<1>1. /\ HistoryIntact' /\ LiveRowRight'
      /\ \A s \in Sources : ~Exists(s)' => files'[s] = <<>>
      /\ \A s \in Sources : Exists(s)' => sources'[s].name \in OwnNames[s]
      /\ \A s \in Sources : \A i \in DOMAIN files'[s] :
           ~files'[s][i].current =>
             /\ files'[s][i].stored.dir = "versions"
             /\ files'[s][i].stored.src = s /\ files'[s][i].stored.stamp < now'
  BY QuietStep
<1>2. job'.at = "idle"
  BY DEF NoJob
<1> QED
  BY <1>1, <1>2 DEF HistoryInv, RowsDated, NoRowWhileWritten, JobOnDisk, NamesOwned

\* A quiet step that begins a job of the given source.
LEMMA QuietBegin ==
  ASSUME HistoryInv, TypeInv', UNCHANGED <<files, disk, sources>>,
         now' \in {now, now + 1}, job' \in Jobs, Exists(job'.src),
         job'.at \in {"stage_write", "save_columns"},
         job'.was.name = sources[job'.src].name
  PROVE  HistoryInv'
<1>1. /\ HistoryIntact' /\ LiveRowRight'
      /\ \A s \in Sources : ~Exists(s)' => files'[s] = <<>>
      /\ \A s \in Sources : Exists(s)' => sources'[s].name \in OwnNames[s]
      /\ \A s \in Sources : \A i \in DOMAIN files'[s] :
           ~files'[s][i].current =>
             /\ files'[s][i].stored.dir = "versions"
             /\ files'[s][i].stored.src = s /\ files'[s][i].stored.stamp < now'
  BY QuietStep DEF Exists
<1>2. job'.src \in Sources
  BY DEF Jobs
<1> QED
  BY <1>1, <1>2
     DEF HistoryInv, RowsDated, NoRowWhileWritten, JobOnDisk, NamesOwned, Exists

\* A quiet step of a job that goes on at l.
LEMMA QuietGoto ==
  ASSUME HistoryInv, TypeInv', UNCHANGED <<files, now>>, job \in Jobs,
         NEW l \in Steps, Goto(l), Exists(job.src), job.at # "create_row",
         \A p \in Paths : p.dir # "pending" => disk'[p] = disk[p],
         \A s \in Sources : /\ Exists(s)' <=> Exists(s)
                            /\ sources'[s].name = sources[s].name,
         <<job.at, l>> \in {<<"create_columns", "create_file">>,
                           <<"create_fetch", "create_date">>,
                           <<"stage_write", "stage_parse">>,
                           <<"confirm_unlink", "confirm_columns">>,
                           <<"confirm_columns", "confirm_record">>,
                           <<"save_columns", "save_row">>}
  PROVE  HistoryInv'
<1>1. /\ HistoryIntact' /\ LiveRowRight'
      /\ \A s \in Sources : ~Exists(s)' => files'[s] = <<>>
      /\ \A s \in Sources : Exists(s)' => sources'[s].name \in OwnNames[s]
      /\ \A s \in Sources : \A i \in DOMAIN files'[s] :
           ~files'[s][i].current =>
             /\ files'[s][i].stored.dir = "versions"
             /\ files'[s][i].stored.src = s /\ files'[s][i].stored.stamp < now'
  BY QuietStep
<1>2. /\ job.src \in Sources /\ job'.at = l /\ job'.src = job.src
      /\ job'.was = job.was /\ job'.bytes = job.bytes
  BY GotoTyped DEF Jobs
<1>3. disk'[JobLive] = disk[JobLive] /\ JobLive' = JobLive
  BY <1>2, JobTyped DEF HistoryInv, TypeInv, TypeOK, JobLive, Data, NoJob, Jobs
<1>4. NoRowWhileWritten'
  BY <1>1, <1>2 DEF HistoryInv, NoRowWhileWritten
<1>5. JobOnDisk'
  BY <1>2, <1>3 DEF HistoryInv, JobOnDisk
<1>6. NamesOwned'
  BY <1>1, <1>2 DEF HistoryInv, NamesOwned
<1>7. RowsDated'
  BY <1>1, <1>2 DEF RowsDated
<1> QED
  BY <1>1, <1>4, <1>5, <1>6, <1>7 DEF HistoryInv

LEMMA HistoryRequest ==
  ASSUME HistoryInv, TypeInv', Careful, NEW s \in Sources, Request(s)
  PROVE  HistoryInv'
<1>0. /\ TypeOK /\ TypeOK' /\ now \in Stamps /\ now \in Nat
  BY BoundsAssumption DEF HistoryInv, TypeInv, TypeOK, Stamps
<1>1. ASSUME NEW n \in Names, NEW c \in Bytes, NEW d \in AsOf,
             NEW url \in BOOLEAN, NEW sheet \in BOOLEAN,
             CreateSource(s, n, c, d, url, sheet)
      PROVE  HistoryInv'
  <2>1. /\ job'.at = "create_write" /\ job'.src = s /\ job'.was.name = n
    BY <1>1 DEF CreateSource, Begin
  <2>2. /\ HistoryIntact' /\ LiveRowRight'
        /\ \A q \in Sources : ~Exists(q)' => files'[q] = <<>>
        /\ \A q \in Sources : Exists(q)' => sources'[q].name \in OwnNames[q]
        /\ \A q \in Sources : \A i \in DOMAIN files'[q] :
             ~files'[q][i].current =>
               /\ files'[q][i].stored.dir = "versions"
               /\ files'[q][i].stored.src = q /\ files'[q][i].stored.stamp < now'
    <3>1. /\ UNCHANGED <<files, disk, sources>> /\ now' = now
      BY <1>1 DEF CreateSource, store
    <3> QED
      BY <3>1, QuietStep DEF Exists
  <2>3. ~Exists(s)' /\ files'[s] = <<>> /\ n \in OwnNames[s]
    BY <1>1, <2>2 DEF CreateSource, Careful, Exists, store
  <2> QED
    BY <2>1, <2>2, <2>3
       DEF HistoryInv, RowsDated, NoRowWhileWritten, JobOnDisk, NamesOwned
<1>2. CASE RefreshSource(s)
  <2>1. /\ UNCHANGED <<disk, files, sources, job, now>> /\ job = NoJob
    BY <1>2 DEF RefreshSource, store, Idle
  <2> QED
    BY <2>1, QuietEnd DEF Exists
<1>3. ASSUME NEW n \in Names, NEW c \in Bytes, RefetchSource(s, n, c)
      PROVE  HistoryInv'
  <2>1. /\ UNCHANGED <<disk, files, sources, now>> /\ Exists(s)
        /\ job'.at = "stage_write" /\ job'.src = s
        /\ job'.was.name = sources'[s].name
    BY <1>3 DEF RefetchSource, store, Begin
  <2>2. job' \in Jobs
    BY <1>0, <2>1 DEF TypeOK, NoJob
  <2> QED
    BY <2>1, <2>2, QuietBegin
<1>4. ASSUME NEW n \in Names, CancelRefresh(s, n)
      PROVE  HistoryInv'
  <2>1. /\ UNCHANGED <<files, sources, job, now>> /\ job = NoJob
        /\ disk' = [disk EXCEPT ![Pending(s, n)] = NoFile]
    BY <1>4 DEF CancelRefresh, store, Idle, Unlink, WriteFile
  <2>2. \A p \in Paths : p.dir # "pending" => disk'[p] = disk[p]
    BY <1>0, <2>1 DEF Pending, TypeOK
  <2> QED
    BY <2>1, <2>2, QuietEnd DEF Exists
<1>5. ASSUME NEW n \in Names, NEW d \in AsOf, ConfirmRefresh(s, n, d)
      PROVE  HistoryInv'
  <2>1. /\ UNCHANGED <<disk, files, sources>> /\ now' = now + 1 /\ Exists(s)
        /\ job'.src = s /\ job'.was = sources[s] /\ job'.stamp = now
        /\ \/ disk[LivePath(s)] # NoFile /\ job'.at = "confirm_copy"
           \/ disk[LivePath(s)] = NoFile /\ job'.at = "confirm_write"
    BY <1>5 DEF ConfirmRefresh, Begin, store, Careful
  <2>2. /\ HistoryIntact' /\ LiveRowRight'
        /\ \A q \in Sources : ~Exists(q)' => files'[q] = <<>>
        /\ \A q \in Sources : Exists(q)' => sources'[q].name \in OwnNames[q]
        /\ \A q \in Sources : \A i \in DOMAIN files'[q] :
             ~files'[q][i].current =>
               /\ files'[q][i].stored.dir = "versions"
               /\ files'[q][i].stored.src = q /\ files'[q][i].stored.stamp < now'
    BY <2>1, QuietStep DEF Exists
  <2>3. job'.at = "confirm_write" =>
          \A i \in DOMAIN files'[s] : ~files'[s][i].current
    <3>1. \A i \in DOMAIN files[s] : files[s][i].bytes # NoFile
      BY <1>0, RowTyped, MarkAssumption DEF FileRow, Contents
    <3> QED
      BY <2>1, <3>1 DEF HistoryInv, LiveRowRight
  <2>4. RowsDated'
    BY <1>0, <2>1, <2>2 DEF HistoryInv, RowsDated
  <2>5. NamesOwned'
    BY <2>1, <2>2 DEF HistoryInv, NamesOwned, Exists
  <2> QED
    BY <2>1, <2>2, <2>3, <2>4, <2>5 DEF HistoryInv, NoRowWhileWritten, JobOnDisk
<1>6. ASSUME NEW custom \in SUBSET Columns, NEW keys \in SUBSET Columns,
             SaveSource(s, custom, keys)
      PROVE  HistoryInv'
  <2>1. /\ UNCHANGED <<disk, files, sources, now>> /\ Exists(s)
        /\ job'.at = "save_columns" /\ job'.src = s
        /\ job'.was = [sources[s] EXCEPT !.keys = keys]
    BY <1>6 DEF SaveSource, store, Begin
  <2>2. job' \in Jobs
    BY <1>0, <2>1 DEF TypeOK, NoJob
  <2>3. job'.was.name = sources'[s].name
    BY <1>0, <2>1 DEF TypeOK, Exists, SourceRow
  <2> QED
    BY <2>1, <2>2, <2>3, QuietBegin
<1>7. ASSUME NEW d \in AsOf, UpdateAsOf(s, d)
      PROVE  HistoryInv'
  <2>1. /\ UNCHANGED <<disk, now, job>> /\ job.at = "idle" /\ Exists(s)
        /\ files' = [files EXCEPT ![s] = SetCurrentAsOf(files[s], d)]
        /\ sources' = [sources EXCEPT ![s].extract = d]
    BY <1>7 DEF UpdateAsOf, Idle, NoJob
  <2>2. \A q \in Sources : /\ Exists(q)' <=> Exists(q)
                          /\ sources'[q].name = sources[q].name
    <3>1. /\ sources[s] \in SourceRow
          /\ sources' = [sources EXCEPT ![s] = [sources[s] EXCEPT !.extract = d]]
      BY <1>0, <2>1 DEF TypeOK, Exists
    <3>2. /\ [sources[s] EXCEPT !.extract = d] \in SourceRow
          /\ [sources[s] EXCEPT !.extract = d].name = sources[s].name
      BY <3>1 DEF SourceRow
    <3> QED
      BY <1>0, <3>1, <3>2, RowAssumption DEF TypeOK, Exists
  <2>3. \A q \in Sources :
          /\ DOMAIN files'[q] = DOMAIN files[q]
          /\ files[q] = <<>> => files'[q] = <<>>
          /\ \A i \in DOMAIN files[q] :
               /\ files'[q][i].stored = files[q][i].stored
               /\ files'[q][i].bytes = files[q][i].bytes
               /\ files'[q][i].current = files[q][i].current
    <3>1. /\ files \in [Sources -> Seq(FileRow)]
          /\ \A i \in DOMAIN files[s] : files[s][i] \in FileRow
      BY <1>0, RowTyped DEF TypeOK
    <3>2. /\ DOMAIN SetCurrentAsOf(files[s], d) = DOMAIN files[s]
          /\ \A i \in DOMAIN files[s] :
               /\ SetCurrentAsOf(files[s], d)[i].stored = files[s][i].stored
               /\ SetCurrentAsOf(files[s], d)[i].bytes = files[s][i].bytes
               /\ SetCurrentAsOf(files[s], d)[i].current = files[s][i].current
      BY <3>1 DEF SetCurrentAsOf, FileRow
    <3>3. files[s] = <<>> => SetCurrentAsOf(files[s], d) = <<>>
      BY DEF SetCurrentAsOf
    <3> QED
      BY <2>1, <3>1, <3>2, <3>3
  <2>4. HistoryIntact' /\ RowsDated'
    BY <2>1, <2>3 DEF HistoryInv, HistoryIntact, RowsDated
  <2>5. LiveRowRight'
    BY <2>1, <2>2, <2>3 DEF HistoryInv, LiveRowRight, LivePath
  <2> QED
    BY <2>1, <2>2, <2>3, <2>4, <2>5
       DEF HistoryInv, NoRowWhileWritten, JobOnDisk, NamesOwned
<1> QED
  BY <1>1, <1>2, <1>3, <1>4, <1>5, <1>6, <1>7 DEF Request

LEMMA HistoryContinue ==
  ASSUME HistoryInv, TypeInv', Careful, Continue
  PROVE  HistoryInv'
<1>0. /\ TypeOK /\ TypeOK' /\ job \in Jobs /\ job.src \in Sources
      /\ job.was \in SourceRow /\ job.was.name \in Names
      /\ job.was.name \in OwnNames[job.src]
      /\ JobLive \in Paths /\ JobVersion \in Paths
      /\ JobLive.dir = "data" /\ JobVersion.dir = "versions"
      /\ disk \in [Paths -> Contents \cup {NoFile}]
      /\ NewRow \in FileRow
  <2>1. job.at # "idle"
    BY DEF Continue, At, CreateWrite, CreateRow, CreateColumns, CreateFile,
           CreateFetch, CreateDate, StageWrite, StageParse, ConfirmCopy,
           ConfirmArchive, ConfirmWrite, ConfirmUnlink, ConfirmColumns,
           ConfirmRecord, ConfirmRow, SaveColumns, SaveRow
  <2>2. TypeOK /\ TypeOK' /\ job \in Jobs /\ JobLive \in Paths /\ JobVersion \in Paths
        /\ NewRow \in FileRow
    BY <2>1, JobTyped DEF HistoryInv, TypeInv
  <2>3. /\ job.src \in Sources /\ job.was \in SourceRow /\ job.was.name \in Names
        /\ job.was.name \in OwnNames[job.src]
    BY <2>1, <2>2 DEF Jobs, SourceRow, HistoryInv, NamesOwned
  <2> QED
    BY <2>2, <2>3 DEF TypeOK, JobLive, JobVersion, Data, Version
\* Another source has another live file.
<1>a. \A s \in Sources : Exists(s) /\ s # job.src => LivePath(s) # JobLive
  BY <1>0 DEF Careful, NamesApart, HistoryInv, NamesOwned, LivePath, JobLive, Data
<1>b. \A s \in Sources : \A i \in DOMAIN files[s] :
        ~files[s][i].current => files[s][i].stored.dir = "versions"
  BY DEF HistoryInv, RowsDated
<1>c. \A s \in Sources : Exists(s) => LivePath(s).dir = "data" /\ LivePath(s) \in Paths
  BY <1>0, PathsTyped DEF LivePath, Data, TypeOK, Exists, SourceRow
<1>d. job.at \notin {"create_write", "create_row"} =>
        Exists(job.src) /\ LivePath(job.src) = JobLive
  BY <1>0 DEF HistoryInv, TypeInv, JobHasSource, NamesOwned, LivePath, JobLive, Jobs,
              Steps
<1>1. CASE CreateWrite
  <2>1. /\ UNCHANGED <<files, sources, now>> /\ job.at = "create_write"
        /\ disk' = [disk EXCEPT ![JobLive] = job.bytes]
    BY <1>1 DEF CreateWrite, store, At, WriteFile
  <2>2. /\ job'.at = "create_row" /\ job'.src = job.src /\ job'.was = job.was
        /\ job'.bytes = job.bytes
    BY <1>0, <1>1, GotoTyped DEF CreateWrite, Steps
  <2>3. files[job.src] = <<>>
    BY <2>1 DEF HistoryInv, NoRowWhileWritten
  <2>4. \A p \in Paths : p # JobLive => disk'[p] = disk[p]
    BY <1>0, <2>1
  <2>5. HistoryIntact'
    BY <1>0, <1>b, <2>1, <2>4, RowTyped DEF HistoryInv, HistoryIntact, FileRow
  <2>6. LiveRowRight'
    BY <1>a, <1>c, <2>1, <2>3, <2>4
       DEF HistoryInv, LiveRowRight, LivePath, Exists
  <2>7. JobOnDisk'
    BY <1>0, <2>1, <2>2 DEF JobOnDisk, JobLive
  <2> QED
    BY <2>1, <2>2, <2>3, <2>5, <2>6, <2>7
       DEF HistoryInv, RowsDated, NoRowWhileWritten, NamesOwned, Exists
<1>2. CASE CreateRow
  <2>1. /\ UNCHANGED <<disk, files, now>> /\ job.at = "create_row"
        /\ sources' = [sources EXCEPT ![job.src] = job.was]
    BY <1>2 DEF CreateRow, At
  <2>2. /\ job'.at = "create_columns" /\ job'.src = job.src /\ job'.was = job.was
        /\ job'.bytes = job.bytes
    BY <1>0, <1>2, GotoTyped DEF CreateRow, Steps
  <2>3. files[job.src] = <<>>
    BY <2>1 DEF HistoryInv, NoRowWhileWritten
  <2>4. \A s \in Sources : s # job.src =>
          (Exists(s)' <=> Exists(s)) /\ sources'[s] = sources[s]
    BY <1>0, <2>1 DEF TypeOK, Exists
  <2>5. Exists(job.src)' /\ sources'[job.src] = job.was
    BY <1>0, <2>1, <2>2, RowAssumption DEF TypeOK, Exists
  <2>6. LiveRowRight'
    BY <2>1, <2>3, <2>4 DEF HistoryInv, LiveRowRight, LivePath
  <2>7. NamesOwned'
    BY <1>0, <2>2, <2>4, <2>5 DEF HistoryInv, NamesOwned
  <2>8. JobOnDisk'
    BY <2>1, <2>2 DEF HistoryInv, JobOnDisk, JobLive
  <2>9. NoRowWhileWritten'
    BY <2>1, <2>2, <2>3, <2>4, <2>5 DEF HistoryInv, NoRowWhileWritten
  <2> QED
    BY <2>1, <2>2, <2>6, <2>7, <2>8, <2>9 DEF HistoryInv, HistoryIntact, RowsDated
<1>3. CASE CreateFile
  <2>1. /\ UNCHANGED <<disk, sources, now>> /\ job.at = "create_file"
        /\ files' = [files EXCEPT ![job.src] = <<NewRow>>]
        /\ NewRow.current /\ NewRow.bytes = job.bytes
    BY <1>3 DEF CreateFile, At, SetInitialFile, NewRow
  <2>2. /\ job'.at \in {"create_fetch", "create_date"} /\ job'.src = job.src
        /\ job'.was = job.was
    BY <1>0, <1>3, GotoTyped DEF CreateFile, Steps
  <2>3. /\ files'[job.src] = <<NewRow>>
        /\ \A s \in Sources : s # job.src => files'[s] = files[s]
    BY <1>0, <2>1 DEF TypeOK
  <2>4. \A i \in DOMAIN files'[job.src] : files'[job.src][i] = NewRow
    BY <2>3
  <2>5. HistoryIntact' /\ RowsDated'
    BY <2>1, <2>2, <2>3, <2>4 DEF HistoryInv, HistoryIntact, RowsDated
  <2>6. LiveRowRight'
    BY <1>d, <2>1, <2>3, <2>4
       DEF HistoryInv, LiveRowRight, JobOnDisk, LivePath, Exists
  <2>7. NoRowWhileWritten' /\ JobOnDisk' /\ NamesOwned'
    BY <1>d, <2>1, <2>2, <2>3
       DEF HistoryInv, NoRowWhileWritten, JobOnDisk, NamesOwned, Exists
  <2> QED
    BY <2>5, <2>6, <2>7 DEF HistoryInv
<1>4. CASE ConfirmCopy
  <2>1. /\ UNCHANGED <<files, sources, now>> /\ job.at = "confirm_copy"
        /\ disk' = [disk EXCEPT ![JobVersion] = disk[JobLive]]
    BY <1>4 DEF ConfirmCopy, store, At, WriteFile
  <2>2. /\ job'.at = "confirm_archive" /\ job'.src = job.src /\ job'.was = job.was
        /\ job'.stamp = job.stamp
    BY <1>0, <1>4, GotoTyped DEF ConfirmCopy, Steps
  <2>3. \A p \in Paths : p # JobVersion => disk'[p] = disk[p]
    BY <1>0, <2>1
  <2>4. disk'[JobVersion] = disk[JobLive] /\ disk'[JobLive] = disk[JobLive]
    BY <1>0, <2>1, <2>3
  <2>5. HistoryIntact'
    <3> SUFFICES ASSUME NEW s \in Sources, NEW i \in DOMAIN files[s],
                        ~files[s][i].current
                 PROVE  disk'[files[s][i].stored] = files[s][i].bytes
      BY <2>1 DEF HistoryIntact
    <3>1. files[s][i].stored \in Paths
      BY <1>0, RowTyped DEF FileRow
    <3>2. /\ files[s][i].stored.src = s
          /\ s = job.src => files[s][i].stored.stamp < job.stamp
      BY <2>1 DEF HistoryInv, RowsDated
    <3>3. JobVersion.src = job.src /\ JobVersion.stamp = job.stamp
          /\ job.stamp \in Nat
      BY <1>0 DEF JobVersion, Version, Jobs, Stamps
    <3>4. files[s][i].stored # JobVersion
      BY <3>2, <3>3
    <3> QED
      BY <2>3, <3>1, <3>4 DEF HistoryInv, HistoryIntact
  <2>6. LiveRowRight'
    BY <1>0, <1>c, <2>1, <2>3 DEF HistoryInv, LiveRowRight, LivePath, Exists
  <2>7. JobOnDisk'
    BY <2>2, <2>4 DEF JobOnDisk, JobLive, JobVersion
  <2>8. RowsDated' /\ NoRowWhileWritten' /\ NamesOwned'
    BY <2>1, <2>2 DEF HistoryInv, RowsDated, NoRowWhileWritten, NamesOwned, Exists
  <2> QED
    BY <2>5, <2>6, <2>7, <2>8 DEF HistoryInv
<1>5. CASE ConfirmArchive
  <2>1. /\ UNCHANGED <<disk, sources, now>> /\ job.at = "confirm_archive"
        /\ files' = [files EXCEPT ![job.src] =
                       ArchiveCurrentFile(files[job.src], JobVersion)]
    BY <1>5 DEF ConfirmArchive, At
  <2>2. /\ job'.at = "confirm_write" /\ job'.src = job.src /\ job'.was = job.was
    BY <1>0, <1>5, GotoTyped DEF ConfirmArchive, Steps
  <2>3. \A s \in Sources : s # job.src => files'[s] = files[s]
    BY <1>0, <2>1 DEF TypeOK
  <2>4. /\ DOMAIN files'[job.src] = DOMAIN files[job.src]
        /\ \A i \in DOMAIN files[job.src] :
             /\ ~files'[job.src][i].current
             /\ files'[job.src][i].bytes = files[job.src][i].bytes
             /\ files'[job.src][i].stored = IF files[job.src][i].current
                                              THEN JobVersion
                                              ELSE files[job.src][i].stored
    <3>1. /\ files'[job.src] = ArchiveCurrentFile(files[job.src], JobVersion)
          /\ \A i \in DOMAIN files[job.src] : files[job.src][i] \in FileRow
      BY <1>0, <2>1, RowTyped DEF TypeOK
    <3> QED
      BY <1>0, <3>1, ArchivedRows
  <2>5. HistoryIntact'
    <3>1. \A s \in Sources : s # job.src => \A i \in DOMAIN files'[s] :
            ~files'[s][i].current => disk'[files'[s][i].stored] = files'[s][i].bytes
      BY <2>1, <2>3 DEF HistoryInv, HistoryIntact
    <3>2. \A i \in DOMAIN files[job.src] :
            files[job.src][i].current => disk[JobVersion] = files[job.src][i].bytes
      BY <1>0, <1>d, <2>1 DEF HistoryInv, LiveRowRight, JobOnDisk
    <3>3. \A i \in DOMAIN files[job.src] :
            ~files[job.src][i].current =>
              disk[files[job.src][i].stored] = files[job.src][i].bytes
      BY <1>0 DEF HistoryInv, HistoryIntact
    <3>4. \A i \in DOMAIN files'[job.src] :
            disk'[files'[job.src][i].stored] = files'[job.src][i].bytes
      BY <2>1, <2>4, <3>2, <3>3
    <3> QED
      BY <3>1, <3>4 DEF HistoryIntact
  <2>6. RowsDated'
    <3>1. /\ JobVersion.src = job.src /\ JobVersion.stamp = job.stamp
          /\ job.stamp < now
      BY <2>1 DEF JobVersion, Version, HistoryInv, RowsDated
    <3>2. \A i \in DOMAIN files'[job.src] :
            /\ files'[job.src][i].stored.dir = "versions"
            /\ files'[job.src][i].stored.src = job.src
            /\ files'[job.src][i].stored.stamp < now
      BY <1>0, <2>4, <3>1 DEF HistoryInv, RowsDated
    <3>3. \A s \in Sources : s # job.src => \A i \in DOMAIN files'[s] :
            ~files'[s][i].current =>
              /\ files'[s][i].stored.dir = "versions"
              /\ files'[s][i].stored.src = s /\ files'[s][i].stored.stamp < now
      BY <2>3 DEF HistoryInv, RowsDated
    <3> QED
      BY <2>1, <2>2, <3>2, <3>3 DEF RowsDated
  <2>7. LiveRowRight'
    BY <2>1, <2>3, <2>4 DEF HistoryInv, LiveRowRight, LivePath, Exists
  <2>8. NoRowWhileWritten'
    BY <1>d, <2>1, <2>2, <2>3, <2>4 DEF HistoryInv, NoRowWhileWritten, Exists
  <2>9. JobOnDisk' /\ NamesOwned'
    BY <2>1, <2>2 DEF HistoryInv, JobOnDisk, NamesOwned, Exists
  <2> QED
    BY <2>5, <2>6, <2>7, <2>8, <2>9 DEF HistoryInv
<1>6. CASE ConfirmWrite
  <2>1. /\ UNCHANGED <<files, sources, now>> /\ job.at = "confirm_write"
        /\ disk' = [disk EXCEPT ![JobLive] = job.bytes]
    BY <1>6 DEF ConfirmWrite, store, At, WriteFile
  <2>2. /\ job'.at = "confirm_unlink" /\ job'.src = job.src /\ job'.was = job.was
        /\ job'.bytes = job.bytes
    BY <1>0, <1>6, GotoTyped DEF ConfirmWrite, Steps
  <2>3. \A p \in Paths : p # JobLive => disk'[p] = disk[p]
    BY <1>0, <2>1
  <2>4. HistoryIntact'
    BY <1>0, <1>b, <2>1, <2>3, RowTyped DEF HistoryInv, HistoryIntact, FileRow
  <2>5. LiveRowRight'
    BY <1>a, <1>c, <2>1, <2>3
       DEF HistoryInv, LiveRowRight, NoRowWhileWritten, LivePath, Exists
  <2>6. JobOnDisk'
    BY <1>0, <2>1, <2>2 DEF JobOnDisk, JobLive
  <2> QED
    BY <2>1, <2>2, <2>4, <2>5, <2>6
       DEF HistoryInv, RowsDated, NoRowWhileWritten, NamesOwned, Exists
<1>7. CASE ConfirmRecord
  <2>1. /\ UNCHANGED <<disk, sources, now>> /\ job.at = "confirm_record"
        /\ files' = [files EXCEPT ![job.src] =
                       Append(Demote(files[job.src]), NewRow)]
        /\ NewRow.current /\ NewRow.bytes = job.bytes
    BY <1>7 DEF ConfirmRecord, At, RecordCurrentFile, NewRow
  <2>2. /\ job'.at = "confirm_row" /\ job'.src = job.src /\ job'.was = job.was
    BY <1>0, <1>7, GotoTyped DEF ConfirmRecord, Steps
  <2>3. \A s \in Sources : s # job.src => files'[s] = files[s]
    BY <1>0, <2>1 DEF TypeOK
  <2>4. \A i \in DOMAIN files[job.src] : ~files[job.src][i].current
    BY <2>1 DEF HistoryInv, NoRowWhileWritten
  <2>5. \A i \in DOMAIN files'[job.src] :
          \/ files'[job.src][i] = NewRow
          \/ /\ i \in DOMAIN files[job.src]
             /\ files'[job.src][i] = files[job.src][i]
    <3>1. /\ files[job.src] \in Seq(FileRow)
          /\ \A i \in DOMAIN files[job.src] : files[job.src][i] \in FileRow
      BY <1>0, RowTyped DEF TypeOK
    <3>2. Demote(files[job.src]) = files[job.src]
      <4>1. \A i \in DOMAIN files[job.src] :
              [files[job.src][i] EXCEPT !.current = FALSE] = files[job.src][i]
        BY <2>4, <3>1 DEF FileRow
      <4>2. files[job.src] = [i \in DOMAIN files[job.src] |-> files[job.src][i]]
        BY <3>1, SeqDef
      <4> QED
        BY <4>1, <4>2 DEF Demote
    <3>3. files'[job.src] = Append(files[job.src], NewRow)
      BY <1>0, <2>1, <3>2 DEF TypeOK
    <3> QED
      BY <1>0, <3>1, <3>3, AppendProperties, LenProperties
  <2>6. HistoryIntact' /\ RowsDated'
    BY <2>1, <2>2, <2>3, <2>5 DEF HistoryInv, HistoryIntact, RowsDated
  <2>7. LiveRowRight'
    BY <1>d, <2>1, <2>3, <2>4, <2>5
       DEF HistoryInv, LiveRowRight, JobOnDisk, LivePath, Exists
  <2>8. NoRowWhileWritten' /\ JobOnDisk' /\ NamesOwned'
    BY <1>d, <2>1, <2>2, <2>3
       DEF HistoryInv, NoRowWhileWritten, JobOnDisk, NamesOwned, Exists
  <2> QED
    BY <2>6, <2>7, <2>8 DEF HistoryInv
<1>8. CASE CreateColumns \/ ConfirmColumns
  <2>1. UNCHANGED <<disk, files, sources, now>> /\ Exists(job.src)
    BY <1>d, <1>8 DEF CreateColumns, ConfirmColumns, At
  <2>2. CASE Raise
    BY <2>1, <2>2, QuietEnd DEF Raise, Exists
  <2>3. CASE ~Raise
    <3>1. \/ Goto("create_file") /\ job.at = "create_columns"
          \/ Goto("confirm_record") /\ job.at = "confirm_columns"
      BY <1>8, <2>3 DEF CreateColumns, ConfirmColumns, At
    <3> QED
      BY <1>0, <2>1, <3>1, QuietGoto DEF Steps, Exists
  <2> QED
    BY <2>2, <2>3
<1>9. CASE CreateFetch \/ SaveColumns
  <2>1. UNCHANGED <<disk, files, sources, now>> /\ Exists(job.src)
    BY <1>d, <1>9 DEF CreateFetch, SaveColumns, At
  <2>2. \/ Goto("create_date") /\ job.at = "create_fetch"
        \/ Goto("save_row") /\ job.at = "save_columns"
    BY <1>9 DEF CreateFetch, SaveColumns, At
  <2> QED
    BY <1>0, <2>1, <2>2, QuietGoto DEF Steps, Exists
<1>10. CASE CreateDate \/ ConfirmRow \/ SaveRow
  <2>1. /\ UNCHANGED <<disk, files, now>> /\ job' = NoJob /\ Exists(job.src)
    BY <1>d, <1>10 DEF CreateDate, ConfirmRow, SaveRow, At, Return
  <2>2. /\ sources[job.src] \in SourceRow /\ job.was.name = sources[job.src].name
    BY <1>0, <1>10, <2>1
       DEF CreateDate, ConfirmRow, SaveRow, At, Exists, TypeOK, HistoryInv, NamesOwned
  <2>3. \/ UNCHANGED sources
        \/ \E row \in SourceRow : /\ row.name = job.was.name
                                 /\ sources' = [sources EXCEPT ![job.src] = row]
    <3>1. CASE CreateDate
      BY <1>0, <2>2, <3>1 DEF CreateDate, SourceRow, Jobs, AsOf
    <3>2. CASE ConfirmRow
      <4>1. NewKeys \subseteq Columns
        BY <1>0 DEF NewKeys, SourceRow
      <4> QED
        BY <1>0, <4>1, <3>2 DEF ConfirmRow, SourceRow, Jobs, AsOf
    <3>3. CASE SaveRow
      BY <1>0, <3>3 DEF SaveRow
    <3> QED
      BY <1>10, <3>1, <3>2, <3>3
  <2>4. \A s \in Sources : /\ Exists(s)' <=> Exists(s)
                          /\ sources'[s].name = sources[s].name
    BY <1>0, <2>1, <2>2, <2>3, RowAssumption DEF Exists, TypeOK
  <2> QED
    BY <2>1, <2>4, QuietEnd
<1>11. CASE StageWrite \/ StageParse \/ ConfirmUnlink
  <2>1. /\ UNCHANGED <<files, sources, now>> /\ Exists(job.src)
        /\ \/ UNCHANGED disk
           \/ \E c : disk' = [disk EXCEPT ![Pending(job.src, job.name)] = c]
    BY <1>d, <1>11 DEF StageWrite, StageParse, ConfirmUnlink, At, WriteFile, Unlink, store
  <2>2. \A p \in Paths : p.dir # "pending" => disk'[p] = disk[p]
    BY <1>0, <2>1 DEF Pending
  <2>3. \/ job' = NoJob
        \/ Goto("stage_parse") /\ job.at = "stage_write"
        \/ Goto("confirm_columns") /\ job.at = "confirm_unlink"
    BY <1>11 DEF StageWrite, StageParse, ConfirmUnlink, At, Return
  <2>4. CASE job' = NoJob
    BY <2>1, <2>2, <2>4, QuietEnd DEF Exists
  <2>5. CASE job' # NoJob
    BY <1>0, <2>1, <2>2, <2>3, <2>5, QuietGoto DEF Steps, Exists
  <2> QED
    BY <2>4, <2>5
<1> QED
  BY <1>1, <1>2, <1>3, <1>4, <1>5, <1>6, <1>7, <1>8, <1>9, <1>10, <1>11 DEF Continue

\* A crash may cut the file being written short; no row vouches for that file.
LEMMA HistoryCrash ==
  ASSUME HistoryInv, TypeInv', Careful, Crash
  PROVE  HistoryInv'
<1>1. /\ UNCHANGED <<files, sources, now>> /\ job' = NoJob /\ job.at # "idle"
      /\ TypeOK /\ TypeOK'
  BY DEF Crash, store, Idle, HistoryInv, TypeInv, TypeOK, Jobs, NoJob, Steps
<1>2. /\ job \in Jobs /\ JobLive \in Paths /\ JobVersion \in Paths
      /\ job.src \in Sources /\ job.was.name \in OwnNames[job.src]
  BY <1>1, JobTyped DEF HistoryInv, NamesOwned, Jobs
<1>3. CASE UNCHANGED disk
  BY <1>1, <1>3, QuietEnd DEF Exists
<1>4. CASE disk' = [disk EXCEPT ![Pending(job.src, job.name)] = Torn]
  <2>1. \A p \in Paths : p.dir # "pending" => disk'[p] = disk[p]
    BY <1>1, <1>4 DEF Pending, TypeOK
  <2> QED
    BY <1>1, <2>1, QuietEnd DEF Exists
<1>5. ASSUME disk' = [disk EXCEPT ![JobVersion] = Torn], job.at = "confirm_copy"
      PROVE  HistoryInv'
  <2>1. \A p \in Paths : p # JobVersion => disk'[p] = disk[p]
    BY <1>1, <1>5 DEF TypeOK
  <2>2. HistoryIntact'
    <3> SUFFICES ASSUME NEW s \in Sources, NEW i \in DOMAIN files[s],
                        ~files[s][i].current
                 PROVE  disk'[files[s][i].stored] = files[s][i].bytes
      BY <1>1 DEF HistoryIntact
    <3>1. files[s][i].stored \in Paths
      BY <1>1, RowTyped DEF FileRow
    <3>2. /\ files[s][i].stored.src = s
          /\ s = job.src => files[s][i].stored.stamp < job.stamp
      BY <1>5 DEF HistoryInv, RowsDated
    <3>3. JobVersion.src = job.src /\ JobVersion.stamp = job.stamp
          /\ job.stamp \in Nat
      BY <1>2 DEF JobVersion, Version, Jobs, Stamps
    <3>4. files[s][i].stored # JobVersion
      BY <3>2, <3>3
    <3> QED
      BY <2>1, <3>1, <3>4 DEF HistoryInv, HistoryIntact
  <2>3. LiveRowRight'
    <3>1. \A s \in Sources : Exists(s) => LivePath(s) \in Paths
                                       /\ LivePath(s) # JobVersion
      BY <1>1, PathsTyped
         DEF LivePath, Data, JobVersion, Version, TypeOK, Exists, SourceRow
    <3> QED
      BY <1>1, <2>1, <3>1 DEF HistoryInv, LiveRowRight, LivePath, Exists
  <2> QED
    BY <1>1, <2>2, <2>3
       DEF HistoryInv, RowsDated, NoRowWhileWritten, JobOnDisk, NamesOwned, NoJob, Exists
<1>6. ASSUME disk' = [disk EXCEPT ![JobLive] = Torn],
             job.at \in {"create_write", "confirm_write"}
      PROVE  HistoryInv'
  <2>1. \A p \in Paths : p # JobLive => disk'[p] = disk[p]
    BY <1>1, <1>6 DEF TypeOK
  <2>2. HistoryIntact'
    <3>1. JobLive.dir = "data"
      BY DEF JobLive, Data
    <3>2. \A s \in Sources : \A i \in DOMAIN files[s] : files[s][i].stored \in Paths
      BY <1>1, RowTyped DEF FileRow
    <3> QED
      BY <1>1, <2>1, <3>1, <3>2 DEF HistoryInv, HistoryIntact, RowsDated
  <2>3. LiveRowRight'
    <3>1. \A s \in Sources : Exists(s) => LivePath(s) \in Paths
      BY <1>1, PathsTyped DEF LivePath, TypeOK, Exists, SourceRow
    <3>2. \A s \in Sources : Exists(s) /\ s # job.src => LivePath(s) # JobLive
      BY <1>2 DEF Careful, NamesApart, HistoryInv, NamesOwned, LivePath, JobLive, Data
    <3>3. \A i \in DOMAIN files[job.src] : ~files[job.src][i].current
      BY <1>6 DEF HistoryInv, NoRowWhileWritten
    <3> QED
      BY <1>1, <2>1, <3>1, <3>2, <3>3 DEF HistoryInv, LiveRowRight, LivePath, Exists
  <2> QED
    BY <1>1, <2>2, <2>3
       DEF HistoryInv, RowsDated, NoRowWhileWritten, JobOnDisk, NamesOwned, NoJob, Exists
<1> QED
  BY <1>2, <1>3, <1>4, <1>5, <1>6 DEF Crash, WriteTarget, WriteFile

LEMMA HistoryStep ==
  ASSUME Careful
  PROVE  HistoryInv /\ [Next]_vars => HistoryInv'
<1> SUFFICES ASSUME HistoryInv, [Next]_vars PROVE HistoryInv'
  OBVIOUS
<1>1. TypeInv'
  BY StepTyped DEF HistoryInv
<1>2. ASSUME NEW r \in awaiting, NEW n \in Names, NEW c \in Bytes,
             RefreshResume(r, n, c)
      PROVE  HistoryInv'
  <2>1. /\ UNCHANGED <<files, disk, sources, now>> /\ r.src \in Sources
        /\ sources[r.src] \in SourceRow /\ Exists(r.src)
        /\ job'.at = "stage_write" /\ job'.src = r.src
        /\ job'.was = [sources[r.src] EXCEPT !.format = r.format]
    BY <1>2
       DEF RefreshResume, Begin, store, HistoryInv, TypeInv, TypeOK, Exists
  <2>2. job'.was.name = sources[r.src].name
    BY <2>1 DEF SourceRow
  <2>3. job' \in Jobs
    BY <1>1, <2>1 DEF TypeInv, TypeOK, NoJob
  <2>4. /\ Exists(job'.src) /\ job'.was.name = sources[job'.src].name
        /\ now' \in {now, now + 1} /\ UNCHANGED <<files, disk, sources>>
    BY <2>1, <2>2
  <2> QED
    BY <1>1, <2>1, <2>3, <2>4, QuietBegin
<1>3. CASE UNCHANGED vars
  <2>1. UNCHANGED <<disk, sources, files, job, now>>
    BY <1>3 DEF vars, store
  <2>2. HistoryIntact' /\ RowsDated'
    BY <2>1 DEF HistoryInv, HistoryIntact, RowsDated
  <2>3. LiveRowRight' /\ NoRowWhileWritten'
    BY <2>1 DEF HistoryInv, LiveRowRight, NoRowWhileWritten, LivePath, Exists
  <2>4. JobOnDisk' /\ NamesOwned'
    BY <2>1 DEF HistoryInv, JobOnDisk, NamesOwned, JobLive, JobVersion, Exists
  <2> QED
    BY <1>1, <2>2, <2>3, <2>4 DEF HistoryInv
<1> QED
  BY <1>1, <1>2, <1>3, HistoryRequest, HistoryContinue, HistoryCrash DEF Next

\* As long as an id is not added twice, confirms are a second apart and sources
\* do not share a file name, every archived row names a file with the bytes it
\* was recorded for: over any number of uploads, sources and crashes.
THEOREM HistoryKept ==
  ASSUME Careful
  PROVE  Spec => []HistoryIntact
<1>1. HistoryInv => HistoryIntact
  BY DEF HistoryInv
<1>2. HistoryInv /\ [Next]_vars => HistoryInv'
  BY HistoryStep
<1> QED
  BY <1>1, <1>2, HistoryInit, PTL DEF Spec
----------------------------------------------------------------------------
(* Handlers repair what an earlier one left half done *)

CreateSteps == {"create_write", "create_row", "create_columns", "create_file",
                "create_fetch", "create_date"}
ConfirmSteps == {"confirm_copy", "confirm_archive", "confirm_write", "confirm_unlink",
                 "confirm_columns", "confirm_record", "confirm_row"}

\* What a handler has made of the description of its source so far.
JobDescribes ==
  /\ job.at \in CreateSteps \cup ConfirmSteps => job.src \in unsettled
  /\ job.at \in {"create_row", "create_columns", "create_file", "create_fetch",
                 "create_date", "confirm_unlink", "confirm_columns", "confirm_record",
                 "confirm_row"} => disk[JobLive] = job.bytes
  /\ job.at \in {"create_file", "create_fetch", "create_date", "confirm_record",
                 "confirm_row"} => DOMAIN columns[job.src] = HeaderOf(job.bytes)
  /\ job.at \in {"create_fetch", "create_date", "confirm_row"} =>
       \E i \in DOMAIN files[job.src] : files[job.src][i] = NewRow
  /\ job.at \in {"save_columns", "save_row"} =>
       job.was.extract = sources[job.src].extract
  /\ job.at = "save_columns" => DOMAIN job.cols = DOMAIN columns[job.src]

RepairInv == TypeInv /\ NamesOwned /\ JobDescribes /\ SettledSourceDescribed

\* What Described(s) speaks of.
SameSource(s) ==
  /\ Exists(s) /\ files'[s] = files[s] /\ disk'[LivePath(s)] = disk[LivePath(s)]
  /\ sources'[s].name = sources[s].name /\ sources'[s].extract = sources[s].extract
  /\ DOMAIN columns'[s] = DOMAIN columns[s]

LEMMA StillDescribed ==
  ASSUME SettledSourceDescribed,
         \A s \in Sources : Exists(s)' /\ s \notin unsettled' =>
           s \notin unsettled /\ SameSource(s)
  PROVE  SettledSourceDescribed'
<1> SUFFICES ASSUME NEW s \in Sources, Exists(s)', s \notin unsettled'
             PROVE  Described(s)'
  BY DEF SettledSourceDescribed
<1>1. s \notin unsettled /\ SameSource(s)
  OBVIOUS
<1>2. Described(s)
  BY <1>1 DEF SettledSourceDescribed, SameSource
<1> QED
  BY <1>1, <1>2 DEF Described, SameSource, LivePath

\* The files a job writes are not the live file of another source.
LEMMA LiveApart ==
  ASSUME NamesApart, RepairInv, job.at # "idle", NEW s \in Sources, Exists(s)
  PROVE  /\ s # job.src => LivePath(s) # JobLive
         /\ LivePath(s) \in Paths /\ LivePath(s) # JobVersion
         /\ \A q, n : LivePath(s) # Pending(q, n)
         /\ JobLive # JobVersion /\ \A q, n : JobLive # Pending(q, n)
<1>1. job \in Jobs /\ job.src \in Sources
  BY JobTyped DEF RepairInv, TypeInv, Jobs
<1>2. sources[s].name \in Names /\ sources[s].name \in OwnNames[s]
      /\ job.was.name \in OwnNames[job.src]
  BY DEF RepairInv, TypeInv, TypeOK, NamesOwned, Exists, SourceRow
<1>3. s # job.src => sources[s].name # job.was.name
  BY <1>1, <1>2 DEF NamesApart
<1>4. LivePath(s) \in Paths
  BY <1>2, PathsTyped DEF LivePath
<1> QED
  BY <1>3, <1>4 DEF LivePath, JobLive, JobVersion, Data, Version, Pending

\* A step that begins or ends no description: it changes nothing a source or its
\* job is described by.
LEMMA RequestRepairs ==
  ASSUME NamesApart, RepairInv, TypeInv', NEW s \in Sources, Request(s)
  PROVE  RepairInv'
<1>1. ASSUME NEW n \in Names, NEW c \in Bytes, NEW d \in AsOf,
             NEW url \in BOOLEAN, NEW sheet \in BOOLEAN,
             CreateSource(s, n, c, d, url, sheet)
      PROVE  RepairInv'
  <2>1. /\ job'.at = "create_write" /\ job'.src = s /\ job'.was.name = n
        /\ n \in OwnNames[s] /\ unsettled' = unsettled \cup {s}
        /\ UNCHANGED <<disk, sources, columns, files>>
    BY <1>1 DEF CreateSource, Begin, store
  <2>2. SettledSourceDescribed'
    BY <2>1, StillDescribed DEF RepairInv, SameSource, Exists
  <2>3. NamesOwned' /\ JobDescribes'
    BY <2>1 DEF RepairInv, NamesOwned, JobDescribes, Exists
  <2> QED
    BY <2>2, <2>3 DEF RepairInv
<1>2. CASE RefreshSource(s)
  <2>1. job.at = "idle" /\ UNCHANGED <<disk, sources, columns, files, job, unsettled>>
    BY <1>2 DEF RefreshSource, Idle, NoJob, store, ghosts
  <2>2. SettledSourceDescribed'
    BY <2>1, StillDescribed DEF RepairInv, SameSource, Exists
  <2>3. NamesOwned' /\ JobDescribes'
    BY <2>1 DEF RepairInv, NamesOwned, JobDescribes, Exists
  <2> QED
    BY <2>2, <2>3 DEF RepairInv
<1>3. ASSUME NEW n \in Names, NEW c \in Bytes, RefetchSource(s, n, c)
      PROVE  RepairInv'
  <2>1. /\ job'.at = "stage_write" /\ job'.src = s /\ job'.was = sources[s]
        /\ Exists(s) /\ UNCHANGED <<disk, sources, columns, files, unsettled>>
    BY <1>3 DEF RefetchSource, Begin, store, ghosts
  <2>2. SettledSourceDescribed'
    BY <2>1, StillDescribed DEF RepairInv, SameSource, Exists
  <2>3. NamesOwned' /\ JobDescribes'
    BY <2>1 DEF RepairInv, NamesOwned, JobDescribes, Exists, CreateSteps, ConfirmSteps
  <2> QED
    BY <2>2, <2>3 DEF RepairInv
<1>4. ASSUME NEW n \in Names, CancelRefresh(s, n)
      PROVE  RepairInv'
  <2>1. /\ job.at = "idle" /\ UNCHANGED <<sources, columns, files, job, unsettled>>
        /\ disk' = [disk EXCEPT ![Pending(s, n)] = NoFile]
    BY <1>4 DEF CancelRefresh, Unlink, WriteFile, Idle, NoJob, store, ghosts
  <2>2. \A q \in Sources : Exists(q) => disk'[LivePath(q)] = disk[LivePath(q)]
    BY <2>1 DEF LivePath, Data, Pending
  <2>3. SettledSourceDescribed'
    BY <2>1, <2>2, StillDescribed DEF RepairInv, SameSource, Exists
  <2>4. NamesOwned' /\ JobDescribes'
    BY <2>1 DEF RepairInv, NamesOwned, JobDescribes, Exists, CreateSteps, ConfirmSteps
  <2> QED
    BY <2>3, <2>4 DEF RepairInv
<1>5. ASSUME NEW n \in Names, NEW d \in AsOf, ConfirmRefresh(s, n, d)
      PROVE  RepairInv'
  <2>1. /\ job'.at \in {"confirm_copy", "confirm_write"} /\ job'.src = s
        /\ job'.was = sources[s] /\ Exists(s) /\ unsettled' = unsettled \cup {s}
        /\ UNCHANGED <<disk, sources, columns, files>>
    BY <1>5 DEF ConfirmRefresh, Begin, store
  <2>2. SettledSourceDescribed'
    BY <2>1, StillDescribed DEF RepairInv, SameSource, Exists
  <2>3. NamesOwned' /\ JobDescribes'
    BY <2>1 DEF RepairInv, NamesOwned, JobDescribes, Exists
  <2> QED
    BY <2>2, <2>3 DEF RepairInv
<1>6. ASSUME NEW custom \in SUBSET Columns, NEW keys \in SUBSET Columns,
             SaveSource(s, custom, keys)
      PROVE  RepairInv'
  <2>1. sources[s] \in SourceRow
    BY <1>6 DEF SaveSource, Exists, RepairInv, TypeInv, TypeOK
  <2>2. /\ job'.at = "save_columns" /\ job'.src = s /\ Exists(s)
        /\ job'.was.name = sources[s].name /\ job'.was.extract = sources[s].extract
        /\ DOMAIN job'.cols = DOMAIN columns[s]
        /\ UNCHANGED <<disk, sources, columns, files, unsettled>>
    BY <1>6, <2>1 DEF SaveSource, Begin, store, ghosts, SourceRow
  <2>3. SettledSourceDescribed'
    BY <2>2, StillDescribed DEF RepairInv, SameSource, Exists
  <2>4. NamesOwned' /\ JobDescribes'
    BY <2>2 DEF RepairInv, NamesOwned, JobDescribes, Exists, CreateSteps, ConfirmSteps
  <2> QED
    BY <2>3, <2>4 DEF RepairInv
<1>7. ASSUME NEW d \in AsOf, UpdateAsOf(s, d)
      PROVE  RepairInv'
  <2>1. /\ job.at = "idle" /\ UNCHANGED <<disk, columns, job, unsettled>> /\ Exists(s)
        /\ files' = [files EXCEPT ![s] = SetCurrentAsOf(files[s], d)]
        /\ sources' = [sources EXCEPT ![s].extract = d]
    BY <1>7 DEF UpdateAsOf, Idle, NoJob, ghosts
  <2>2. /\ sources \in [Sources -> SourceRow \cup {NoSource}]
        /\ files \in [Sources -> Seq(FileRow)]
        /\ sources[s] \in SourceRow
    BY <2>1 DEF RepairInv, TypeInv, TypeOK, Exists
  <2>3. /\ \A q \in Sources : sources'[q].name = sources[q].name
        /\ \A q \in Sources : Exists(q)' => Exists(q)
        /\ \A q \in Sources \ {s} : files'[q] = files[q] /\ sources'[q] = sources[q]
        /\ sources'[s].extract = d /\ files'[s] = SetCurrentAsOf(files[s], d)
    BY <2>1, <2>2 DEF SourceRow, Exists
  <2>4. ASSUME NEW q \in Sources, Exists(q)', q \notin unsettled'
        PROVE  Described(q)'
    <3>1. Exists(q) /\ q \notin unsettled /\ Described(q)
      BY <2>1, <2>3, <2>4 DEF RepairInv, SettledSourceDescribed
    <3>2. CASE q # s
      BY <2>1, <2>3, <3>1, <3>2 DEF Described, LivePath
    <3>3. CASE q = s
      <4>1. PICK i \in DOMAIN files[s] :
              /\ files[s][i].current
              /\ files[s][i].stored = LivePath(s)
              /\ files[s][i].bytes = disk[LivePath(s)]
              /\ DOMAIN columns[s] = HeaderOf(files[s][i].bytes)
        BY <3>1, <3>3 DEF Described
      <4>2. files[s][i] \in FileRow
        BY RowTyped DEF RepairInv, TypeInv
      <4>3. /\ i \in DOMAIN files'[s] /\ files'[s][i].current
            /\ files'[s][i].stored = files[s][i].stored
            /\ files'[s][i].bytes = files[s][i].bytes /\ files'[s][i].asof = d
        BY <2>3, <4>1, <4>2 DEF SetCurrentAsOf, FileRow
      <4>4. LivePath(s)' = LivePath(s)
        BY <2>3 DEF LivePath
      <4> QED
        BY <2>1, <2>3, <3>3, <4>1, <4>3, <4>4 DEF Described
    <3> QED
      BY <3>2, <3>3
  <2>5. NamesOwned' /\ JobDescribes'
    BY <2>1, <2>3 DEF RepairInv, NamesOwned, JobDescribes, CreateSteps, ConfirmSteps
  <2> QED
    BY <2>4, <2>5 DEF RepairInv, SettledSourceDescribed
<1> QED
  BY <1>1, <1>2, <1>3, <1>4, <1>5, <1>6, <1>7 DEF Request

\* What the steps of a job know of the job and of the other sources.
LEMMA JobApart ==
  ASSUME NamesApart, RepairInv, job.at # "idle"
  PROVE  /\ TypeOK /\ job \in Jobs /\ job.src \in Sources
         /\ JobLive \in Paths /\ JobVersion \in Paths
         /\ Pending(job.src, job.name) \in Paths /\ NewRow \in FileRow
         /\ job.was.name \in OwnNames[job.src]
         /\ \A s \in Sources : Exists(s) =>
              /\ s # job.src => LivePath(s) # JobLive
              /\ LivePath(s) \in Paths /\ LivePath(s) # JobVersion
              /\ LivePath(s) # Pending(job.src, job.name)
         /\ JobLive # JobVersion /\ JobLive # Pending(job.src, job.name)
<1>1. TypeOK /\ job \in Jobs /\ job.src \in Sources
      /\ job.was.name \in OwnNames[job.src]
  BY JobTyped DEF RepairInv, TypeInv, NamesOwned, Jobs
<1>2. JobLive # JobVersion /\ JobLive # Pending(job.src, job.name)
  BY DEF JobLive, JobVersion, Data, Version, Pending
<1> QED
  BY <1>1, <1>2, JobTyped, LiveApart

\* A job that ends, whatever it leaves unsettled, describes nothing any more.
LEMMA EndRepairs ==
  ASSUME RepairInv, TypeInv', job' = NoJob,
         \A s \in Sources : Exists(s)' => Exists(s)
           /\ sources'[s].name = sources[s].name,
         SettledSourceDescribed'
  PROVE  RepairInv'
<1>1. job'.at = "idle"
  BY DEF NoJob
<1>2. NamesOwned' /\ JobDescribes'
  BY <1>1 DEF RepairInv, NamesOwned, JobDescribes, CreateSteps, ConfirmSteps
<1> QED
  BY <1>2 DEF RepairInv

LEMMA MoveOn ==
  ASSUME NEW l \in Steps, job \in Jobs, Goto(l)
  PROVE  /\ job'.at = l /\ job'.src = job.src /\ job'.was = job.was
         /\ job'.bytes = job.bytes /\ job'.asof = job.asof /\ job'.cols = job.cols
         /\ JobLive' = JobLive /\ NewRow' = NewRow
<1>1. /\ job'.at = l /\ job'.src = job.src /\ job'.was = job.was
      /\ job'.bytes = job.bytes /\ job'.asof = job.asof /\ job'.cols = job.cols
  BY DEF Goto, Jobs
<1> QED
  BY <1>1 DEF JobLive, NewRow

\* Every step of a handler between its first and its last.
LEMMA ContinueRepairs ==
  ASSUME NamesApart, RepairInv, TypeInv', Continue
  PROVE  RepairInv'
<1>a. job.at # "idle"
  BY DEF Continue, CreateWrite, CreateRow, CreateColumns, CreateFile, CreateFetch,
         CreateDate, StageWrite, StageParse, ConfirmCopy, ConfirmArchive, ConfirmWrite,
         ConfirmUnlink, ConfirmColumns, ConfirmRecord, ConfirmRow, SaveColumns, SaveRow,
         At
<1>b. /\ TypeOK /\ job \in Jobs /\ job.src \in Sources
      /\ JobLive \in Paths /\ JobVersion \in Paths
      /\ Pending(job.src, job.name) \in Paths /\ NewRow \in FileRow
      /\ job.was.name \in OwnNames[job.src]
      /\ \A s \in Sources : Exists(s) =>
           /\ s # job.src => LivePath(s) # JobLive
           /\ LivePath(s) \in Paths /\ LivePath(s) # JobVersion
           /\ LivePath(s) # Pending(job.src, job.name)
      /\ JobLive # JobVersion /\ JobLive # Pending(job.src, job.name)
  BY <1>a, JobApart
<1>1. CASE CreateWrite \/ ConfirmWrite
  <2>1. /\ UNCHANGED <<sources, columns, files, unsettled>>
        /\ disk' = [disk EXCEPT ![JobLive] = job.bytes] /\ job.src \in unsettled
        /\ \/ job.at = "create_write" /\ Goto("create_row")
           \/ job.at = "confirm_write" /\ Goto("confirm_unlink")
    BY <1>1 DEF CreateWrite, ConfirmWrite, At, WriteFile, store, ghosts, RepairInv,
                JobDescribes, CreateSteps, ConfirmSteps
  <2>2. /\ job'.at \in {"create_row", "confirm_unlink"} /\ job'.src = job.src
        /\ job'.was = job.was /\ job'.bytes = job.bytes /\ JobLive' = JobLive
        /\ job'.at = "confirm_unlink" => job.at = "confirm_write"
    BY <1>b, <2>1, MoveOn DEF Steps
  <2>3. SettledSourceDescribed'
    BY <1>b, <2>1, StillDescribed DEF RepairInv, SameSource, Exists, TypeOK
  <2>4. disk'[JobLive'] = job'.bytes
    BY <1>b, <2>1, <2>2 DEF TypeOK
  <2>5. NamesOwned' /\ JobDescribes'
    BY <2>1, <2>2, <2>4 DEF RepairInv, NamesOwned, JobDescribes, Exists
  <2> QED
    BY <2>3, <2>5 DEF RepairInv
<1>2. CASE CreateRow
  <2>1. /\ UNCHANGED <<disk, columns, files, unsettled>> /\ job.at = "create_row"
        /\ sources' = [sources EXCEPT ![job.src] = job.was]
        /\ job.src \in unsettled /\ disk[JobLive] = job.bytes
    BY <1>2 DEF CreateRow, At, ghosts, RepairInv, JobDescribes, CreateSteps
  <2>2. /\ job'.at = "create_columns" /\ job'.src = job.src /\ job'.was = job.was
        /\ job'.bytes = job.bytes /\ JobLive' = JobLive
    BY <1>2, <1>b, MoveOn DEF CreateRow, Steps
  <2>3. /\ sources'[job.src] = job.was
        /\ \A s \in Sources \ {job.src} : sources'[s] = sources[s]
    BY <1>b, <2>1 DEF TypeOK
  <2>4. SettledSourceDescribed'
    BY <2>1, <2>3, StillDescribed DEF RepairInv, SameSource, Exists
  <2>5. NamesOwned' /\ JobDescribes'
    BY <1>b, <2>1, <2>2, <2>3 DEF RepairInv, NamesOwned, JobDescribes, Exists
  <2> QED
    BY <2>4, <2>5 DEF RepairInv
<1>3. CASE CreateColumns \/ ConfirmColumns
  <2>1. /\ UNCHANGED <<disk, sources, files>> /\ job.src \in unsettled
        /\ job.at \in {"create_columns", "confirm_columns"} /\ disk[JobLive] = job.bytes
    BY <1>3 DEF CreateColumns, ConfirmColumns, At, RepairInv, JobDescribes, CreateSteps,
                ConfirmSteps
  <2>2. CASE Raise /\ UNCHANGED columns
    <3>1. SettledSourceDescribed'
      BY <2>1, <2>2, StillDescribed DEF Raise, ghosts, RepairInv, SameSource, Exists
    <3> QED
      BY <2>1, <2>2, <3>1, EndRepairs DEF Raise, Exists
  <2>3. CASE ~(Raise /\ UNCHANGED columns)
    <3>1. /\ UNCHANGED unsettled
          /\ \/ job.at = "create_columns" /\ Goto("create_file")
             \/ job.at = "confirm_columns" /\ Goto("confirm_record")
          /\ \E old : columns' = [columns EXCEPT ![job.src] =
                                    ReconcileColumns(old, HeaderOf(job.bytes))]
      BY <1>3, <2>3 DEF CreateColumns, ConfirmColumns, At, ghosts
    <3>2. /\ job'.at \in {"create_file", "confirm_record"} /\ job'.src = job.src
          /\ job'.was = job.was /\ job'.bytes = job.bytes /\ JobLive' = JobLive
      BY <1>b, <3>1, MoveOn DEF Steps
    <3>3. /\ DOMAIN columns'[job.src] = HeaderOf(job.bytes)
          /\ \A s \in Sources \ {job.src} : columns'[s] = columns[s]
      BY <1>b, <3>1 DEF TypeOK, ReconcileColumns
    <3>4. SettledSourceDescribed'
      BY <2>1, <3>1, <3>3, StillDescribed DEF RepairInv, SameSource, Exists
    <3>5. NamesOwned' /\ JobDescribes'
      BY <1>b, <2>1, <3>1, <3>2, <3>3
         DEF RepairInv, NamesOwned, JobDescribes, Exists, HeaderOf
    <3> QED
      BY <3>4, <3>5 DEF RepairInv
  <2> QED
    BY <2>2, <2>3
<1>4. CASE CreateFile \/ ConfirmRecord
  <2>1. /\ UNCHANGED <<disk, sources, columns, unsettled>> /\ job.src \in unsettled
        /\ job.at \in {"create_file", "confirm_record"}
        /\ disk[JobLive] = job.bytes /\ DOMAIN columns[job.src] = HeaderOf(job.bytes)
    BY <1>4 DEF CreateFile, ConfirmRecord, At, ghosts, RepairInv, JobDescribes,
                CreateSteps, ConfirmSteps
  <2>2. /\ job'.at \in {"create_fetch", "create_date", "confirm_row"}
        /\ job'.src = job.src /\ job'.was = job.was /\ job'.bytes = job.bytes
        /\ JobLive' = JobLive /\ NewRow' = NewRow
    BY <1>4, <1>b, MoveOn DEF CreateFile, ConfirmRecord, Steps
  <2>3. /\ \A s \in Sources \ {job.src} : files'[s] = files[s]
        /\ \E i \in DOMAIN files'[job.src] : files'[job.src][i] = NewRow
    <3>1. CASE CreateFile
      <4>1. files' = [files EXCEPT ![job.src] = <<NewRow>>]
        BY <3>1 DEF CreateFile, SetInitialFile
      <4>2. 1 \in DOMAIN <<NewRow>> /\ <<NewRow>>[1] = NewRow
        OBVIOUS
      <4> QED
        BY <1>b, <4>1, <4>2 DEF TypeOK
    <3>2. CASE ConfirmRecord
      <4>1. files' = [files EXCEPT ![job.src] =
                        RecordCurrentFile(files[job.src], NewRow)]
        BY <3>2 DEF ConfirmRecord
      <4>2. /\ files[job.src] \in Seq(FileRow)
            /\ RecordCurrentFile(files[job.src], NewRow) =
                 Append(Demote(files[job.src]), NewRow)
        BY <1>b DEF TypeOK, RecordCurrentFile
      <4>3. Demote(files[job.src]) \in Seq(FileRow)
        <5>1. /\ DOMAIN files[job.src] = 1 .. Len(files[job.src])
              /\ Len(files[job.src]) \in Nat
              /\ \A i \in 1 .. Len(files[job.src]) : files[job.src][i] \in FileRow
          BY <4>2, LenProperties, ElementOfSeq
        <5>2. Demote(files[job.src]) \in [1 .. Len(files[job.src]) -> FileRow]
          BY <5>1 DEF Demote, FileRow
        <5> QED
          BY <5>1, <5>2, SeqDef
      <4>4. \E i \in DOMAIN Append(Demote(files[job.src]), NewRow) :
              Append(Demote(files[job.src]), NewRow)[i] = NewRow
        <5>1. /\ Len(Demote(files[job.src])) + 1 \in
                   DOMAIN Append(Demote(files[job.src]), NewRow)
              /\ Append(Demote(files[job.src]), NewRow)
                   [Len(Demote(files[job.src])) + 1] = NewRow
          BY <1>b, <4>3, AppendProperties, LenProperties
        <5> QED
          BY <5>1
      <4> QED
        BY <1>b, <4>1, <4>2, <4>4 DEF TypeOK
    <3> QED
      BY <1>4, <3>1, <3>2
  <2>4. SettledSourceDescribed'
    BY <2>1, <2>3, StillDescribed DEF RepairInv, SameSource, Exists
  <2>5. NamesOwned'
    BY <2>1, <2>2 DEF RepairInv, NamesOwned, Exists
  <2>6. JobDescribes'
    BY <2>1, <2>2, <2>3 DEF JobDescribes, HeaderOf
  <2> QED
    BY <2>4, <2>5, <2>6 DEF RepairInv
<1>5. CASE CreateFetch
  <2>1. UNCHANGED <<disk, sources, columns, files, unsettled>> /\ job.at = "create_fetch"
    BY <1>5 DEF CreateFetch, At, ghosts
  <2>2. /\ job'.at = "create_date" /\ job'.src = job.src /\ job'.was = job.was
        /\ job'.bytes = job.bytes /\ JobLive' = JobLive /\ NewRow' = NewRow
    BY <1>5, <1>b, MoveOn DEF CreateFetch, Steps
  <2>3. SettledSourceDescribed'
    BY <2>1, StillDescribed DEF RepairInv, SameSource, Exists
  <2>4. NamesOwned' /\ JobDescribes'
    BY <2>1, <2>2
       DEF RepairInv, NamesOwned, JobDescribes, Exists, CreateSteps, HeaderOf
  <2> QED
    BY <2>3, <2>4 DEF RepairInv
<1>6. CASE CreateDate \/ ConfirmRow
  <2>1. /\ UNCHANGED <<disk, columns, files>> /\ job' = NoJob
        /\ unsettled' = unsettled \ {job.src}
        /\ job.at \in {"create_date", "confirm_row"}
    BY <1>6 DEF CreateDate, ConfirmRow, At, Return
  <2>2. /\ Exists(job.src) /\ sources[job.src] \in SourceRow
        /\ sources[job.src].name = job.was.name
        /\ disk[JobLive] = job.bytes /\ DOMAIN columns[job.src] = HeaderOf(job.bytes)
        /\ \E i \in DOMAIN files[job.src] : files[job.src][i] = NewRow
    BY <1>b, <2>1
       DEF RepairInv, TypeInv, TypeOK, JobHasSource, NamesOwned, JobDescribes, Exists
  <2>3. /\ sources'[job.src].name = sources[job.src].name
        /\ job.asof # NoDate => sources'[job.src].extract = job.asof
        /\ \A s \in Sources \ {job.src} : sources'[s] = sources[s]
    <3>1. CASE CreateDate
      <4>1. CASE job.asof = NoDate
        BY <3>1, <4>1 DEF CreateDate
      <4>2. CASE job.asof # NoDate
        <5>1. sources' = [sources EXCEPT ![job.src].extract = job.asof]
          BY <3>1, <4>2 DEF CreateDate
        <5>2. /\ sources'[job.src] = [sources[job.src] EXCEPT !.extract = job.asof]
              /\ \A s \in Sources \ {job.src} : sources'[s] = sources[s]
          BY <1>b, <5>1 DEF TypeOK
        <5> QED
          BY <2>2, <5>2 DEF SourceRow
      <4> QED
        BY <4>1, <4>2
    <3>2. CASE ConfirmRow
      <4>1. /\ job.was \in SourceRow
            /\ sources' = [sources EXCEPT ![job.src] =
                 [job.was EXCEPT !.keys = NewKeys,
                    !.extract = IF job.asof = NoDate THEN @ ELSE job.asof]]
        BY <1>b, <3>2 DEF ConfirmRow, Jobs
      <4>2. /\ sources'[job.src] =
                 [job.was EXCEPT !.keys = NewKeys,
                    !.extract = IF job.asof = NoDate THEN @ ELSE job.asof]
            /\ \A s \in Sources \ {job.src} : sources'[s] = sources[s]
        BY <1>b, <4>1 DEF TypeOK
      <4>3. /\ sources'[job.src].name = job.was.name
            /\ sources'[job.src].extract =
                 IF job.asof = NoDate THEN job.was.extract ELSE job.asof
        <5> DEFINE d == IF job.asof = NoDate THEN job.was.extract ELSE job.asof
        <5>1. sources'[job.src] = [job.was EXCEPT !.keys = NewKeys, !.extract = d]
          BY <4>1, <4>2 DEF SourceRow
        <5> HIDE DEF d
        <5>2. sources'[job.src].name = job.was.name /\ sources'[job.src].extract = d
          BY <4>1, <5>1 DEF SourceRow
        <5> QED
          BY <5>2 DEF d
      <4> QED
        BY <2>2, <4>2, <4>3
    <3> QED
      BY <1>6, <3>1, <3>2
  <2>4. ASSUME NEW s \in Sources, s = job.src
        PROVE  Described(s)'
    <3>1. LivePath(s)' = JobLive
      BY <2>2, <2>3, <2>4 DEF LivePath, JobLive
    <3>2. PICK i \in DOMAIN files[s] : files[s][i] = NewRow
      BY <2>2, <2>4
    <3>3. /\ files[s][i].current /\ files[s][i].stored = JobLive
          /\ files[s][i].bytes = job.bytes /\ files[s][i].asof = job.asof
      BY <3>2 DEF NewRow
    <3>4. /\ UNCHANGED <<disk, columns, files>>
          /\ job.asof # NoDate => sources'[s].extract = job.asof
          /\ disk[JobLive] = job.bytes /\ DOMAIN columns[s] = HeaderOf(job.bytes)
      BY <2>1, <2>2, <2>3, <2>4
    <3> QED
      BY <3>1, <3>3, <3>4 DEF Described, HeaderOf
  <2>5. ASSUME NEW s \in Sources, Exists(s)', s \notin unsettled'
        PROVE  Described(s)'
    <3>1. CASE s = job.src
      BY <2>4, <3>1
    <3>2. CASE s # job.src
      <4>1. Exists(s) /\ s \notin unsettled /\ sources'[s] = sources[s]
        BY <2>1, <2>3, <2>5, <3>2 DEF Exists
      <4>2. Described(s)
        BY <4>1 DEF RepairInv, SettledSourceDescribed
      <4> QED
        BY <2>1, <4>1, <4>2 DEF Described, LivePath
    <3> QED
      BY <3>1, <3>2
  <2>6. SettledSourceDescribed'
    BY <2>5 DEF SettledSourceDescribed
  <2>7. \A s \in Sources : Exists(s)' => Exists(s)
           /\ sources'[s].name = sources[s].name
    BY <2>2, <2>3 DEF Exists
  <2> QED
    BY <2>1, <2>6, <2>7, EndRepairs
<1>7. CASE SaveColumns
  <2>1. /\ UNCHANGED <<disk, sources, files, unsettled>> /\ job.at = "save_columns"
        /\ columns' = [columns EXCEPT ![job.src] = job.cols]
        /\ DOMAIN job.cols = DOMAIN columns[job.src]
    BY <1>7 DEF SaveColumns, At, ghosts, RepairInv, JobDescribes
  <2>2. /\ job'.at = "save_row" /\ job'.src = job.src /\ job'.was = job.was
        /\ job'.bytes = job.bytes
    BY <1>7, <1>b, MoveOn DEF SaveColumns, Steps
  <2>3. \A s \in Sources : DOMAIN columns'[s] = DOMAIN columns[s]
    BY <1>b, <2>1 DEF TypeOK
  <2>4. SettledSourceDescribed'
    BY <2>1, <2>3, StillDescribed DEF RepairInv, SameSource, Exists
  <2>5. NamesOwned' /\ JobDescribes'
    BY <2>1, <2>2
       DEF RepairInv, NamesOwned, JobDescribes, Exists, CreateSteps, ConfirmSteps
  <2> QED
    BY <2>4, <2>5 DEF RepairInv
<1>8. CASE SaveRow
  <2>1. /\ UNCHANGED <<disk, columns, files, unsettled>> /\ job.at = "save_row"
        /\ sources' = [sources EXCEPT ![job.src] = job.was] /\ job' = NoJob
    BY <1>8 DEF SaveRow, At, ghosts, Return
  <2>2. /\ Exists(job.src) /\ job.was.name = sources[job.src].name
        /\ job.was.extract = sources[job.src].extract
    BY <2>1 DEF RepairInv, TypeInv, JobHasSource, NamesOwned, JobDescribes
  <2>3. \A s \in Sources :
          /\ Exists(s)' => Exists(s)
          /\ sources'[s].name = sources[s].name
          /\ sources'[s].extract = sources[s].extract
    BY <1>b, <2>1, <2>2 DEF TypeOK, Exists
  <2>4. SettledSourceDescribed'
    BY <2>1, <2>3, StillDescribed DEF RepairInv, SameSource
  <2> QED
    BY <2>1, <2>3, <2>4, EndRepairs
<1>9. CASE StageWrite \/ StageParse \/ ConfirmUnlink
  <2>1. /\ UNCHANGED <<sources, columns, files, unsettled>>
        /\ \/ UNCHANGED disk
           \/ \E c : disk' = [disk EXCEPT ![Pending(job.src, job.name)] = c]
    BY <1>9 DEF StageWrite, StageParse, ConfirmUnlink, WriteFile, Unlink, store, ghosts
  <2>2. /\ \A s \in Sources : Exists(s) => disk'[LivePath(s)] = disk[LivePath(s)]
        /\ disk'[JobLive] = disk[JobLive]
    BY <1>b, <2>1 DEF TypeOK
  <2>3. SettledSourceDescribed'
    BY <2>1, <2>2, StillDescribed DEF RepairInv, SameSource, Exists
  <2>4. \/ job' = NoJob
        \/ Goto("stage_parse") /\ job.at = "stage_write"
        \/ Goto("confirm_columns") /\ job.at = "confirm_unlink"
    BY <1>9 DEF StageWrite, StageParse, ConfirmUnlink, At, Return
  <2>5. CASE job' = NoJob
    BY <2>1, <2>3, <2>5, EndRepairs DEF Exists
  <2>6. CASE job' # NoJob
    <3>1. /\ job'.at \in {"stage_parse", "confirm_columns"} /\ job'.src = job.src
          /\ job'.was = job.was /\ job'.bytes = job.bytes /\ JobLive' = JobLive
          /\ job'.at = "confirm_columns" => job.at = "confirm_unlink"
          /\ job.at \in {"stage_write", "confirm_unlink"}
      BY <1>b, <2>4, <2>6, MoveOn DEF Steps
    <3>2. NamesOwned' /\ JobDescribes'
      BY <2>1, <2>2, <3>1
         DEF RepairInv, NamesOwned, JobDescribes, Exists, CreateSteps, ConfirmSteps
    <3> QED
      BY <2>3, <3>2 DEF RepairInv
  <2> QED
    BY <2>5, <2>6
<1>10. CASE ConfirmCopy \/ ConfirmArchive
  <2>1. /\ UNCHANGED <<sources, columns, unsettled>> /\ job.src \in unsettled
        /\ job.at \in {"confirm_copy", "confirm_archive"}
        /\ \/ UNCHANGED files /\ \E c : disk' = [disk EXCEPT ![JobVersion] = c]
           \/ UNCHANGED disk /\ \E r : files' = [files EXCEPT ![job.src] = r]
    BY <1>10 DEF ConfirmCopy, ConfirmArchive, WriteFile, store, ghosts, At, RepairInv,
                 JobDescribes, ConfirmSteps
  <2>2. /\ job'.at \in {"confirm_archive", "confirm_write"} /\ job'.src = job.src
        /\ job'.was = job.was
    BY <1>10, <1>b, MoveOn DEF ConfirmCopy, ConfirmArchive, Steps
  <2>3. \A s \in Sources : Exists(s) /\ s # job.src =>
          files'[s] = files[s] /\ disk'[LivePath(s)] = disk[LivePath(s)]
    BY <1>b, <2>1 DEF TypeOK
  <2>4. SettledSourceDescribed'
    BY <2>1, <2>3, StillDescribed DEF RepairInv, SameSource, Exists
  <2>5. NamesOwned' /\ JobDescribes'
    BY <2>1, <2>2 DEF RepairInv, NamesOwned, JobDescribes, Exists
  <2> QED
    BY <2>4, <2>5 DEF RepairInv
<1> QED
  BY <1>1, <1>2, <1>3, <1>4, <1>5, <1>6, <1>7, <1>8, <1>9, <1>10 DEF Continue

\* A death leaves the source of a create or a confirm unsettled, and cuts short
\* no live file but that one.
LEMMA CrashRepairs ==
  ASSUME NamesApart, RepairInv, TypeInv', Crash
  PROVE  RepairInv'
<1>1. /\ UNCHANGED <<sources, columns, files, unsettled>> /\ job' = NoJob
      /\ job.at # "idle"
  BY DEF Crash, Idle, store, RepairInv, TypeInv, TypeOK, Jobs, NoJob, Steps
<1>2. ASSUME NEW s \in Sources, Exists(s), s \notin unsettled
      PROVE  disk'[LivePath(s)] = disk[LivePath(s)]
  <2>1. /\ LivePath(s) \in Paths /\ LivePath(s) # JobVersion
        /\ LivePath(s) # Pending(job.src, job.name)
        /\ s # job.src => LivePath(s) # JobLive
    BY <1>1, <1>2, JobApart
  <2>2. job.at \in {"create_write", "confirm_write"} => s # job.src
    BY <1>2 DEF RepairInv, JobDescribes, CreateSteps, ConfirmSteps
  <2>3. LivePath(s) \notin WriteTarget
    BY <2>1, <2>2 DEF WriteTarget
  <2> QED
    BY <2>1, <2>3 DEF Crash, WriteFile, RepairInv, TypeInv, TypeOK
<1>3. SettledSourceDescribed'
  BY <1>1, <1>2, StillDescribed DEF RepairInv, SameSource, Exists
<1> QED
  BY <1>1, <1>3, EndRepairs DEF Exists

LEMMA RepairStep ==
  ASSUME NamesApart
  PROVE  RepairInv /\ [Next]_vars => RepairInv'
<1> SUFFICES ASSUME RepairInv, [Next]_vars PROVE RepairInv'
  OBVIOUS
<1>1. TypeInv'
  BY StepTyped DEF RepairInv
<1>2. ASSUME NEW r \in awaiting, NEW n \in Names, NEW c \in Bytes,
             RefreshResume(r, n, c)
      PROVE  RepairInv'
  <2>1. /\ r.src \in Sources /\ Exists(r.src) /\ sources[r.src] \in SourceRow
    BY DEF RepairInv, TypeInv, TypeOK, Exists
  <2>2. /\ job'.at = "stage_write" /\ job'.src = r.src
        /\ job'.was.name = sources[r.src].name
        /\ UNCHANGED <<disk, sources, columns, files, unsettled>>
    BY <1>2, <2>1 DEF RefreshResume, Begin, store, ghosts, SourceRow
  <2>3. SettledSourceDescribed'
    BY <2>2, StillDescribed DEF RepairInv, SameSource, Exists
  <2>4. NamesOwned' /\ JobDescribes'
    BY <2>1, <2>2
       DEF RepairInv, NamesOwned, JobDescribes, Exists, CreateSteps, ConfirmSteps
  <2> QED
    BY <1>1, <2>3, <2>4 DEF RepairInv
<1>3. CASE UNCHANGED vars
  <2>1. UNCHANGED <<disk, sources, columns, files, job, unsettled>>
    BY <1>3 DEF vars, store, ghosts
  <2>2. SettledSourceDescribed'
    BY <2>1, StillDescribed DEF RepairInv, SameSource, Exists
  <2>3. NamesOwned' /\ JobDescribes'
    BY <2>1 DEF RepairInv, NamesOwned, JobDescribes, Exists, JobLive, NewRow
  <2> QED
    BY <1>1, <2>2, <2>3 DEF RepairInv
<1> QED
  BY <1>1, <1>2, <1>3, RequestRepairs, ContinueRepairs, CrashRepairs DEF Next

\* As long as no two sources share a file name, a source whose last create or
\* confirm ran to its end is described by its rows, whatever died before it.
THEOREM HandlersRepair ==
  ASSUME NamesApart
  PROVE  Spec => []SettledSourceDescribed
<1>1. Init => RepairInv
  <2> SUFFICES ASSUME Init PROVE RepairInv
    OBVIOUS
  <2>1. job.at = "idle" /\ \A s \in Sources : ~Exists(s)
    BY DEF Init, NoJob, Exists
  <2> QED
    BY <2>1, InitTyped
       DEF RepairInv, NamesOwned, JobDescribes, SettledSourceDescribed, CreateSteps,
           ConfirmSteps
<1>2. RepairInv /\ [Next]_vars => RepairInv'
  BY RepairStep
<1>3. RepairInv => SettledSourceDescribed
  BY DEF RepairInv
<1> QED
  BY <1>1, <1>2, <1>3, PTL DEF Spec
----------------------------------------------------------------------------
(* What an upsert must pass on *)

\* A handler that rewrites the columns or the row of a source works from what is
\* stored: no other handler has changed it since it was read.
JobReads ==
  /\ job.at \in {"confirm_copy", "confirm_archive", "confirm_write", "confirm_unlink",
                 "confirm_columns"} => job.cols = columns[job.src]
  /\ job.at \in ConfirmSteps \cup {"save_columns", "save_row"} =>
       job.was.sheet = sources[job.src].sheet

MappingsStep ==
  \A s \in Sources : \A k \in DOMAIN columns[s] \cap DOMAIN columns'[s] :
    columns'[s][k] # columns[s][k] => job.at \in {"save_columns", "create_columns"}
SheetStep ==
  \A s \in Sources : Exists(s) /\ sources'[s] # NoSource
    /\ sources'[s].sheet # sources[s].sheet => job.at = "create_row"

LEMMA ReadsStep ==
  ASSUME TypeInv, JobReads, [Next]_vars
  PROVE  JobReads' /\ MappingsStep /\ SheetStep
<1>0. /\ TypeOK /\ sources \in [Sources -> SourceRow \cup {NoSource}]
      /\ columns \in [Sources -> ColumnMaps]
      /\ job.at # "idle" => job \in Jobs /\ job.src \in Sources /\ job.was \in SourceRow
  BY JobTyped DEF TypeInv, TypeOK, Jobs
<1>1. ASSUME UNCHANGED <<sources, columns>>,
             \/ job'.at \in {"idle", "stage_write", "stage_parse"} \cup CreateSteps
             \/ UNCHANGED job
             \/ \E l \in Steps : /\ Goto(l) /\ job \in Jobs
                                 /\ l \notin {"confirm_copy", "save_columns", "save_row"}
                                 /\ l \in ConfirmSteps => job.at \in ConfirmSteps
                                 /\ l \in {"confirm_archive", "confirm_write",
                                           "confirm_unlink", "confirm_columns"} =>
                                      job.at \in {"confirm_copy", "confirm_archive",
                                                  "confirm_write", "confirm_unlink"}
      PROVE  JobReads' /\ MappingsStep /\ SheetStep
  <2>1. MappingsStep /\ SheetStep
    BY <1>1 DEF MappingsStep, SheetStep
  <2>2. CASE job'.at \in {"idle", "stage_write", "stage_parse"} \cup CreateSteps
    BY <2>1, <2>2 DEF JobReads, CreateSteps, ConfirmSteps
  <2>3. CASE UNCHANGED job
    BY <1>1, <2>1, <2>3 DEF JobReads
  <2>4. ASSUME NEW l \in Steps, Goto(l), job \in Jobs,
               l \notin {"confirm_copy", "save_columns", "save_row"},
               l \in ConfirmSteps => job.at \in ConfirmSteps,
               l \in {"confirm_archive", "confirm_write", "confirm_unlink",
                      "confirm_columns"} =>
                 job.at \in {"confirm_copy", "confirm_archive", "confirm_write",
                             "confirm_unlink"}
        PROVE  JobReads'
    <3>1. /\ job'.at = l /\ job'.src = job.src /\ job'.was = job.was
          /\ job'.cols = job.cols
      BY <2>4, MoveOn
    <3> QED
      BY <1>1, <2>4, <3>1 DEF JobReads
  <2> QED
    BY <1>1, <2>1, <2>2, <2>3, <2>4
<1>2. ASSUME NEW s \in Sources, Request(s)
      PROVE  JobReads' /\ MappingsStep /\ SheetStep
  <2>1. ASSUME NEW n \in Names, NEW d \in AsOf, ConfirmRefresh(s, n, d)
        PROVE  JobReads' /\ MappingsStep /\ SheetStep
    BY <2>1
       DEF ConfirmRefresh, Begin, store, JobReads, MappingsStep, SheetStep
  <2>2. ASSUME NEW custom \in SUBSET Columns, NEW keys \in SUBSET Columns,
               SaveSource(s, custom, keys)
        PROVE  JobReads' /\ MappingsStep /\ SheetStep
    <3>1. /\ job'.at = "save_columns" /\ job'.src = s /\ UNCHANGED <<sources, columns>>
          /\ job'.was = [sources[s] EXCEPT !.keys = keys] /\ sources[s] \in SourceRow
      BY <1>0, <2>2 DEF SaveSource, Begin, store, Exists
    <3>2. job'.was.sheet = sources[s].sheet
      BY <3>1 DEF SourceRow
    <3> QED
      BY <3>1, <3>2 DEF JobReads, MappingsStep, SheetStep
  <2>3. ASSUME NEW d \in AsOf, UpdateAsOf(s, d)
        PROVE  JobReads' /\ MappingsStep /\ SheetStep
    <3>1. /\ job'.at = "idle" /\ UNCHANGED columns /\ sources[s] \in SourceRow
          /\ sources' = [sources EXCEPT ![s] = [sources[s] EXCEPT !.extract = d]]
      BY <1>0, <2>3 DEF UpdateAsOf, Exists, Idle, NoJob
    <3>2. \A q \in Sources : sources'[q].sheet = sources[q].sheet
      BY <1>0, <3>1 DEF SourceRow
    <3> QED
      BY <3>1, <3>2 DEF JobReads, MappingsStep, SheetStep, ConfirmSteps
  <2>4. ASSUME ~\E n \in Names, d \in AsOf : ConfirmRefresh(s, n, d),
               ~\E custom, keys \in SUBSET Columns : SaveSource(s, custom, keys),
               ~\E d \in AsOf : UpdateAsOf(s, d)
        PROVE  JobReads' /\ MappingsStep /\ SheetStep
    <3>1. /\ UNCHANGED <<sources, columns>>
          /\ \/ job'.at \in {"idle", "stage_write", "stage_parse"} \cup CreateSteps
             \/ UNCHANGED job
      BY <1>2, <2>4 DEF Request, CreateSource, RefreshSource, RefetchSource,
                        CancelRefresh, Begin, store, CreateSteps
    <3> QED
      BY <1>1, <3>1
  <2> QED
    BY <2>1, <2>2, <2>3, <2>4
<1>3. ASSUME NEW r \in awaiting, NEW n \in Names, NEW c \in Bytes,
             RefreshResume(r, n, c)
      PROVE  JobReads' /\ MappingsStep /\ SheetStep
  BY <1>1, <1>3 DEF RefreshResume, Begin, store
<1>4. CASE Continue
  <2>1. CASE CreateWrite \/ CreateFile \/ CreateFetch
    <3>1. UNCHANGED <<sources, columns>> /\ job'.at \in CreateSteps
      BY <1>0, <2>1, MoveOn
         DEF CreateWrite, CreateFile, CreateFetch, At, store, Steps, CreateSteps
    <3> QED
      BY <1>1, <3>1
  <2>2. CASE CreateRow
    <3>1. /\ job'.at \in CreateSteps /\ job.at = "create_row" /\ UNCHANGED columns
      BY <1>0, <2>2, MoveOn DEF CreateRow, At, Steps, CreateSteps
    <3> QED
      BY <3>1 DEF JobReads, MappingsStep, SheetStep, CreateSteps, ConfirmSteps
  <2>3. CASE CreateColumns
    <3>1. /\ job'.at \in CreateSteps \cup {"idle"} /\ job.at = "create_columns"
          /\ UNCHANGED sources
      BY <1>0, <2>3, MoveOn
         DEF CreateColumns, At, Raise, NoJob, Steps, CreateSteps
    <3> QED
      BY <3>1 DEF JobReads, MappingsStep, SheetStep, CreateSteps, ConfirmSteps
  <2>4. CASE CreateDate \/ ConfirmRow \/ SaveRow
    <3>1. /\ job'.at = "idle" /\ UNCHANGED columns /\ job.at # "idle"
          /\ Exists(job.src) => sources[job.src] \in SourceRow
      BY <1>0, <2>4 DEF CreateDate, ConfirmRow, SaveRow, At, Return, NoJob, Exists
    <3>2. Exists(job.src)
      BY <2>4 DEF TypeInv, JobHasSource, CreateDate, ConfirmRow, SaveRow, At
    <3>3. \A s \in Sources : sources'[s].sheet = sources[s].sheet
      <4>1. CASE CreateDate
        BY <1>0, <3>1, <3>2, <4>1 DEF CreateDate, SourceRow
      <4>2. CASE ConfirmRow
        <5> DEFINE d == IF job.asof = NoDate THEN job.was.extract ELSE job.asof
        <5>1. sources' = [sources EXCEPT ![job.src] =
                            [job.was EXCEPT !.keys = NewKeys, !.extract = d]]
          BY <1>0, <3>1, <4>2 DEF ConfirmRow, SourceRow
        <5>2. job.was.sheet = sources[job.src].sheet
          BY <4>2 DEF ConfirmRow, At, JobReads, ConfirmSteps
        <5> HIDE DEF d
        <5>3. [job.was EXCEPT !.keys = NewKeys, !.extract = d].sheet = job.was.sheet
          BY <1>0, <3>1 DEF SourceRow
        <5> QED
          BY <1>0, <3>1, <5>1, <5>2, <5>3
      <4>3. CASE SaveRow
        <5>1. /\ sources' = [sources EXCEPT ![job.src] = job.was]
              /\ job.was.sheet = sources[job.src].sheet
          BY <4>3 DEF SaveRow, At, JobReads
        <5> QED
          BY <1>0, <3>1, <5>1
      <4> QED
        BY <2>4, <4>1, <4>2, <4>3
    <3> QED
      BY <3>1, <3>3 DEF JobReads, MappingsStep, SheetStep, ConfirmSteps
  <2>5. CASE StageWrite \/ StageParse
    <3>1. UNCHANGED <<sources, columns>> /\ job'.at \in {"idle", "stage_parse"}
      BY <1>0, <2>5, MoveOn
         DEF StageWrite, StageParse, At, Return, NoJob, store, Steps
    <3> QED
      BY <1>1, <3>1
  <2>6. CASE ConfirmCopy \/ ConfirmArchive \/ ConfirmWrite \/ ConfirmUnlink
             \/ ConfirmRecord
    <3>1. /\ UNCHANGED <<sources, columns>> /\ job \in Jobs
          /\ \E l \in Steps :
               /\ Goto(l)
               /\ <<job.at, l>> \in {<<"confirm_copy", "confirm_archive">>,
                                     <<"confirm_archive", "confirm_write">>,
                                     <<"confirm_write", "confirm_unlink">>,
                                     <<"confirm_unlink", "confirm_columns">>,
                                     <<"confirm_record", "confirm_row">>}
      BY <1>0, <2>6 DEF ConfirmCopy, ConfirmArchive, ConfirmWrite, ConfirmUnlink,
                        ConfirmRecord, At, store, Steps
    <3> QED
      BY <1>1, <3>1 DEF ConfirmSteps
  <2>7. CASE ConfirmColumns
    <3>1. /\ job.at = "confirm_columns" /\ UNCHANGED sources
          /\ job.cols = columns[job.src]
      BY <2>7 DEF ConfirmColumns, At, JobReads
    <3>2. \/ job'.at = "idle"
          \/ /\ job'.at = "confirm_record" /\ job'.src = job.src
             /\ job'.was = job.was
      <4>1. job \in Jobs /\ "confirm_record" \in Steps
        BY <1>0, <3>1 DEF Steps
      <4>2. job' = NoJob \/ Goto("confirm_record")
        BY <2>7 DEF ConfirmColumns, Raise
      <4> QED
        BY <4>1, <4>2, MoveOn DEF NoJob
    <3>3. JobReads'
      BY <3>1, <3>2 DEF JobReads, ConfirmSteps
    <3>4. \/ UNCHANGED columns
          \/ columns' = [columns EXCEPT ![job.src] =
               ReconcileColumns(columns[job.src], HeaderOf(job.bytes))]
      BY <2>7, <3>1 DEF ConfirmColumns
    <3>5. MappingsStep
      <4> SUFFICES ASSUME NEW s \in Sources,
                          NEW k \in DOMAIN columns[s] \cap DOMAIN columns'[s]
                   PROVE  columns'[s][k] = columns[s][k]
        BY DEF MappingsStep
      <4>1. CASE s = job.src /\ ~UNCHANGED columns
        <5>1. columns'[s] = ReconcileColumns(columns[s], HeaderOf(job.bytes))
          BY <1>0, <3>4, <4>1
        <5> QED
          BY <5>1 DEF ReconcileColumns
      <4>2. CASE s # job.src \/ UNCHANGED columns
        BY <1>0, <3>4, <4>2
      <4> QED
        BY <4>1, <4>2
    <3> QED
      BY <3>1, <3>3, <3>5 DEF SheetStep
  <2>8. CASE SaveColumns
    <3>1. /\ job.at = "save_columns" /\ UNCHANGED sources
          /\ job'.at = "save_row" /\ job'.src = job.src /\ job'.was = job.was
      BY <1>0, <2>8, MoveOn DEF SaveColumns, At, Steps
    <3> QED
      BY <3>1 DEF JobReads, MappingsStep, SheetStep, ConfirmSteps
  <2> QED
    BY <1>4, <2>1, <2>2, <2>3, <2>4, <2>5, <2>6, <2>7, <2>8 DEF Continue
<1>5. CASE Crash
  BY <1>1, <1>5 DEF Crash, NoJob, store
<1>6. CASE UNCHANGED vars
  BY <1>1, <1>6 DEF vars, store
<1> QED
  BY <1>2, <1>3, <1>4, <1>5, <1>6 DEF Next

LEMMA ReadsAlways == Spec => [](TypeInv /\ JobReads)
<1>1. Init => JobReads
  BY DEF Init, NoJob, JobReads, ConfirmSteps
<1>2. TypeInv /\ JobReads /\ [Next]_vars => JobReads'
  BY ReadsStep
<1> QED
  BY <1>1, <1>2, TypeInvariant, PTL DEF Spec

EditsStep ==
  \A s \in Sources :
    /\ \A k \in DOMAIN columns[s] \cap DOMAIN columns'[s] :
         columns'[s][k] # columns[s][k] => job.at \in {"save_columns", "create_columns"}
    /\ Exists(s) /\ sources'[s] # NoSource /\ sources'[s].sheet # sources[s].sheet
         => job.at = "create_row"

\* Only Save and a new Add source change the mapping of a column that stays, over
\* any number of refreshes and deaths: _reconcile_columns keeps what was set.
\* Every writer of a source row but Add source passes the worksheet on.
THEOREM EditsKept == Spec => EditsSurviveRefresh
<1>1. MappingsStep /\ SheetStep => EditsStep
  BY DEF MappingsStep, SheetStep, EditsStep
<1>2. (TypeInv /\ JobReads) /\ [Next]_vars => [EditsStep]_vars
  BY <1>1, ReadsStep
<1>3. Spec => [][EditsStep]_vars
  BY <1>2, ReadsAlways, PTL DEF Spec
<1> QED
  BY <1>3 DEF EditsSurviveRefresh, EditsStep
----------------------------------------------------------------------------
(* SourceFiles implements SourceVault *)

\* Version files belong to sources that exist and are older than any version a
\* confirm may still take: its copy goes to a path no file is at.
VersionsDated ==
  \A s \in Sources, t \in Stamps, n \in Names :
    disk[Version(s, t, n)] # NoFile =>
      /\ Exists(s) /\ t < now
      /\ job.at = "confirm_copy" /\ job.src = s => t < job.stamp

\* When a handler overwrites a live file, its content is in a version already.
OldFileKept ==
  /\ job.at = "confirm_write" => disk[JobLive] \in {NoFile, disk[JobVersion]}
  /\ job.at \in {"create_write", "create_row"} => ~Exists(job.src)

VaultInv == HistoryInv /\ VersionsDated /\ OldFileKept

\* What the copies and the row of a source make of it in the vault.
SameVersions(s) ==
  \A t \in Stamps, n \in Names : disk'[Version(s, t, n)] = disk[Version(s, t, n)]

LEMMA SameKept ==
  ASSUME NEW s \in Sources, Exists(s)' <=> Exists(s),
         Exists(s) => LivePath(s)' = LivePath(s) /\ SameVersions(s)
                        /\ disk'[LivePath(s)] = disk[LivePath(s)]
  PROVE  Kept'[s] = Kept[s]
<1>1. CASE Exists(s)
  <2> DEFINE P == {LivePath(s)} \cup {Version(s, t, n) : t \in Stamps, n \in Names}
  <2>1. P' = P /\ \A p \in P : disk'[p] = disk[p]
    BY <1>1 DEF SameVersions, Version
  <2>2. /\ Kept[s] = {disk[p] : p \in P} \ {NoFile, Torn}
        /\ Kept'[s] = {disk'[p] : p \in P'} \ {NoFile, Torn}
    BY <1>1 DEF Kept
  <2> HIDE DEF P
  <2> QED
    BY <2>1, <2>2
<1>2. CASE ~Exists(s)
  BY <1>2 DEF Kept
<1> QED
  BY <1>1, <1>2

\* The members of the vault, before and after a step.
LEMMA KeptMembers ==
  ASSUME NEW s \in Sources
  PROVE  /\ Exists(s) => \A c : c \in Kept[s] <=>
              /\ c \notin {NoFile, Torn}
              /\ \/ c = disk[LivePath(s)]
                 \/ \E t \in Stamps, n \in Names : c = disk[Version(s, t, n)]
         /\ ~Exists(s) => Kept[s] = {}
         /\ Exists(s)' => \A c : c \in Kept'[s] <=>
              /\ c \notin {NoFile, Torn}
              /\ \/ c = disk'[LivePath(s)']
                 \/ \E t \in Stamps, n \in Names : c = disk'[Version(s, t, n)]
         /\ ~Exists(s)' => Kept'[s] = {}
<1>1. ASSUME Exists(s), NEW c
      PROVE  c \in Kept[s] <=>
              /\ c \notin {NoFile, Torn}
              /\ \/ c = disk[LivePath(s)]
                 \/ \E t \in Stamps, n \in Names : c = disk[Version(s, t, n)]
  BY <1>1 DEF Kept
<1>2. ASSUME Exists(s)', NEW c
      PROVE  c \in Kept'[s] <=>
              /\ c \notin {NoFile, Torn}
              /\ \/ c = disk'[LivePath(s)']
                 \/ \E t \in Stamps, n \in Names : c = disk'[Version(s, t, n)]
  <2> DEFINE V == {Version(s, t, n) : t \in Stamps, n \in Names}
  <2>1. Kept'[s] = {disk'[p] : p \in {LivePath(s)'} \cup V} \ {NoFile, Torn}
    BY <1>2 DEF Kept, Version
  <2>2. c \in {disk'[p] : p \in {LivePath(s)'} \cup V} <=>
          c = disk'[LivePath(s)'] \/ \E p \in V : c = disk'[p]
    OBVIOUS
  <2>3. (\E p \in V : c = disk'[p]) <=>
          \E t \in Stamps, n \in Names : c = disk'[Version(s, t, n)]
    OBVIOUS
  <2> HIDE DEF V
  <2> QED
    BY <2>1, <2>2, <2>3
<1>3. (~Exists(s) => Kept[s] = {}) /\ (~Exists(s)' => Kept'[s] = {})
  BY DEF Kept
<1> QED
  BY <1>1, <1>2, <1>3

LEMMA GrowsByOne ==
  ASSUME NEW s \in Sources, NEW c \in Contents,
         \A q \in Sources \ {s} : Kept'[q] = Kept[q],
         Kept'[s] \in {Kept[s], Kept[s] \cup ({c} \ {Torn})}
  PROVE  [Vault!VaultNext]_Kept
<1>0. Kept = [q \in Sources |-> Kept[q]] /\ Kept' = [q \in Sources |-> Kept'[q]]
  BY DEF Kept
<1>1. CASE Kept'[s] = Kept[s]
  <2>1. \A q \in Sources : Kept'[q] = Kept[q]
    BY <1>1
  <2>2. Kept' = Kept
    BY <1>0, <2>1, Zenon
  <2> QED
    BY <2>2
<1>2. CASE c \in Bytes /\ c # Torn /\ Kept'[s] = Kept[s] \cup {c}
  <2>1. \A q \in Sources : Kept'[q] = [Kept EXCEPT ![s] = @ \cup {c}][q]
    BY <1>0, <1>2
  <2>2. Kept' = [Kept EXCEPT ![s] = @ \cup {c}]
    BY <1>0, <2>1
  <2> QED
    BY <1>2, <2>2 DEF Vault!VaultNext, Vault!Publish
<1> QED
  BY <1>1, <1>2 DEF Contents

LEMMA KeptStutters ==
  ASSUME \A s \in Sources : Kept'[s] = Kept[s]
  PROVE  [Vault!VaultNext]_Kept
<1>1. Kept = [s \in Sources |-> Kept[s]] /\ Kept' = [s \in Sources |-> Kept'[s]]
  BY DEF Kept
<1>2. Kept' = Kept
  BY <1>1, Zenon
<1> QED
  BY <1>2

\* What holds of the job and of the files it may write.
LEMMA VaultApart ==
  ASSUME Careful, VaultInv, job.at # "idle"
  PROVE  /\ TypeOK /\ job \in Jobs /\ job.src \in Sources
         /\ job.stamp \in Stamps /\ job.was.name \in Names
         /\ JobLive \in Paths /\ JobVersion \in Paths
         /\ JobVersion = Version(job.src, job.stamp, job.was.name)
         /\ \A s \in Sources : Exists(s) =>
              LivePath(s) \in Paths /\ (s # job.src => LivePath(s) # JobLive)
         /\ job.at \notin {"create_write", "create_row"} =>
              Exists(job.src) /\ LivePath(job.src) = JobLive
         /\ \A s \in Sources, t \in Stamps, n \in Names :
              Version(s, t, n) \in Paths /\ Version(s, t, n) # JobLive
<1>1. /\ TypeOK /\ job \in Jobs /\ job.src \in Sources
      /\ job.stamp \in Stamps /\ job.was.name \in Names
      /\ JobLive \in Paths /\ JobVersion \in Paths
      /\ job.was.name \in OwnNames[job.src]
  BY JobTyped DEF VaultInv, HistoryInv, TypeInv, NamesOwned, Jobs, SourceRow
<1>2. \A s \in Sources : Exists(s) =>
        LivePath(s) \in Paths /\ (s # job.src => LivePath(s) # JobLive)
  BY <1>1, PathsTyped
     DEF VaultInv, HistoryInv, NamesOwned, Careful, NamesApart, TypeOK, Exists,
         SourceRow, LivePath, JobLive, Data
<1>3. job.at \notin {"create_write", "create_row"} =>
        Exists(job.src) /\ LivePath(job.src) = JobLive
  BY DEF VaultInv, HistoryInv, TypeInv, JobHasSource, NamesOwned, LivePath, JobLive
<1>4. \A s \in Sources, t \in Stamps, n \in Names :
        Version(s, t, n) \in Paths /\ Version(s, t, n) # JobLive
  BY PathsTyped DEF Version, JobLive, Data
<1> QED
  BY <1>1, <1>2, <1>3, <1>4 DEF JobVersion

\* A step that takes no copy, overwrites no live file and adds no source.
LEMMA VaultQuiet ==
  ASSUME VaultInv, TypeInv', \A s \in Sources : SameVersions(s),
         now' \in {now, now + 1},
         \A s \in Sources :
           /\ Exists(s)' <=> Exists(s)
           /\ Exists(s) => /\ LivePath(s)' = LivePath(s)
                           /\ disk'[LivePath(s)] = disk[LivePath(s)],
         job'.at \notin {"confirm_copy", "confirm_write", "create_write", "create_row"}
  PROVE  VersionsDated' /\ OldFileKept' /\ [Vault!VaultNext]_Kept
<1>1. now \in Nat
  BY DEF VaultInv, HistoryInv, TypeInv, TypeOK, Stamps
<1>2. VersionsDated'
  <2> SUFFICES ASSUME NEW s \in Sources, NEW t \in Stamps, NEW n \in Names,
                      disk'[Version(s, t, n)] # NoFile
               PROVE  Exists(s)' /\ t < now'
    BY DEF VersionsDated, Version
  <2>1. disk[Version(s, t, n)] # NoFile /\ t \in Nat
    BY DEF SameVersions, Stamps
  <2> QED
    BY <1>1, <2>1 DEF VaultInv, VersionsDated
<1>3. OldFileKept'
  BY DEF OldFileKept
<1>4. \A s \in Sources : Kept'[s] = Kept[s]
  BY SameKept
<1> QED
  BY <1>2, <1>3, <1>4, KeptStutters

LEMMA VaultRequest ==
  ASSUME Careful, VaultInv, TypeInv', NEW s \in Sources, Request(s)
  PROVE  VersionsDated' /\ OldFileKept' /\ [Vault!VaultNext]_Kept
<1>0. /\ TypeOK /\ job.at = "idle"
      /\ \A q \in Sources : Exists(q) => LivePath(q) \in Paths
  <2>1. TypeOK /\ job.at = "idle"
    <3>1. Idle
      BY DEF Request, CreateSource, RefreshSource, RefetchSource, CancelRefresh,
             ConfirmRefresh, SaveSource, UpdateAsOf
    <3> QED
      BY <3>1 DEF VaultInv, HistoryInv, TypeInv, Idle, NoJob
  <2> QED
    BY <2>1, PathsTyped DEF TypeOK, Exists, SourceRow, LivePath
<1>1. ASSUME NEW n \in Names, NEW c \in Bytes, NEW d \in AsOf,
             NEW url \in BOOLEAN, NEW sheet \in BOOLEAN,
             CreateSource(s, n, c, d, url, sheet)
      PROVE  VersionsDated' /\ OldFileKept' /\ [Vault!VaultNext]_Kept
  <2>1. /\ job'.at = "create_write" /\ job'.src = s /\ ~Exists(s)
        /\ UNCHANGED <<disk, sources, now>>
    BY <1>1 DEF CreateSource, Begin, store, Careful
  <2>2. VersionsDated'
    BY <2>1 DEF VaultInv, VersionsDated, Exists
  <2>3. OldFileKept'
    BY <2>1 DEF OldFileKept, Exists
  <2>4. \A q \in Sources : Kept'[q] = Kept[q]
    BY <2>1, SameKept DEF Exists, LivePath, SameVersions
  <2> QED
    BY <2>2, <2>3, <2>4, KeptStutters
<1>2. ASSUME NEW n \in Names, NEW d \in AsOf, ConfirmRefresh(s, n, d)
      PROVE  VersionsDated' /\ OldFileKept' /\ [Vault!VaultNext]_Kept
  <2>1. /\ job'.at = IF disk[LivePath(s)] # NoFile THEN "confirm_copy"
                                                   ELSE "confirm_write"
        /\ job'.src = s /\ job'.was = sources[s] /\ job'.stamp = now /\ now' = now + 1
        /\ UNCHANGED <<disk, sources>> /\ Exists(s) /\ now \in Nat
    BY <1>0, <1>2 DEF ConfirmRefresh, Begin, store, Careful, TypeOK, Stamps
  <2>2. VersionsDated'
    <3> SUFFICES ASSUME NEW q \in Sources, NEW t \in Stamps, NEW m \in Names,
                        disk[Version(q, t, m)] # NoFile
                 PROVE  Exists(q)' /\ t < now' /\ t < job'.stamp
      BY <2>1 DEF VersionsDated, Version
    <3>1. Exists(q) /\ t < now /\ t \in Nat
      BY DEF VaultInv, VersionsDated, Stamps
    <3> QED
      BY <2>1, <3>1 DEF Exists
  <2>3. JobLive' = LivePath(s)
    BY <2>1 DEF JobLive, LivePath
  <2>4. OldFileKept'
    BY <2>1, <2>3 DEF OldFileKept
  <2>5. \A q \in Sources : Kept'[q] = Kept[q]
    BY <2>1, SameKept DEF Exists, LivePath, SameVersions
  <2> QED
    BY <2>2, <2>4, <2>5, KeptStutters
<1>3. ASSUME NEW n \in Names, CancelRefresh(s, n)
      PROVE  VersionsDated' /\ OldFileKept' /\ [Vault!VaultNext]_Kept
  <2>1. /\ disk' = [disk EXCEPT ![Pending(s, n)] = NoFile]
        /\ UNCHANGED <<sources, job, now>>
    BY <1>3 DEF CancelRefresh, Unlink, WriteFile, store
  <2>2. \A p \in Paths : p.dir # "pending" => disk'[p] = disk[p]
    BY <1>0, <2>1 DEF TypeOK, Pending
  <2>3. /\ \A q \in Sources : SameVersions(q)
        /\ \A q \in Sources : Exists(q) => disk'[LivePath(q)] = disk[LivePath(q)]
    BY <1>0, <2>2, PathsTyped DEF SameVersions, Version, LivePath, Data
  <2> QED
    BY <1>0, <2>1, <2>3, VaultQuiet DEF Exists, LivePath
<1>4. CASE \/ RefreshSource(s)
           \/ \E n \in Names, c \in Bytes : RefetchSource(s, n, c)
           \/ \E custom, keys \in SUBSET Columns : SaveSource(s, custom, keys)
  <2>1. /\ UNCHANGED <<disk, sources, now>>
        /\ job'.at \in {"idle", "stage_write", "save_columns"}
    BY <1>0, <1>4 DEF RefreshSource, RefetchSource, SaveSource, Begin, store
  <2> QED
    BY <2>1, VaultQuiet DEF Exists, LivePath, SameVersions
<1>5. ASSUME NEW d \in AsOf, UpdateAsOf(s, d)
      PROVE  VersionsDated' /\ OldFileKept' /\ [Vault!VaultNext]_Kept
  <2>1. /\ UNCHANGED <<disk, now, job>> /\ sources[s] \in SourceRow /\ Exists(s)
        /\ sources' = [sources EXCEPT ![s] = [sources[s] EXCEPT !.extract = d]]
    BY <1>0, <1>5 DEF UpdateAsOf, TypeOK, Exists
  <2>2. \A q \in Sources : (Exists(q)' => Exists(q)) /\ sources'[q].name = sources[q].name
    BY <1>0, <2>1 DEF TypeOK, Exists, SourceRow
  <2>3. \A q \in Sources : Exists(q) => Exists(q)'
    <3>1. sources'[s] \in SourceRow
      BY <1>0, <1>5, <2>1 DEF TypeOK, SourceRow
    <3> QED
      BY <1>0, <2>1, <3>1, RowAssumption DEF Exists, TypeOK
  <2> QED
    BY <1>0, <2>1, <2>2, <2>3, VaultQuiet DEF LivePath, SameVersions
<1> QED
  BY <1>1, <1>2, <1>3, <1>4, <1>5 DEF Request

LEMMA VaultContinue ==
  ASSUME Careful, VaultInv, TypeInv', Continue
  PROVE  VersionsDated' /\ OldFileKept' /\ [Vault!VaultNext]_Kept
<1>a. job.at # "idle" /\ UNCHANGED now
  BY DEF Continue, CreateWrite, CreateRow, CreateColumns, CreateFile, CreateFetch,
         CreateDate, StageWrite, StageParse, ConfirmCopy, ConfirmArchive, ConfirmWrite,
         ConfirmUnlink, ConfirmColumns, ConfirmRecord, ConfirmRow, SaveColumns, SaveRow,
         At
<1>b. /\ TypeOK /\ job \in Jobs /\ job.src \in Sources
      /\ job.stamp \in Stamps /\ job.was.name \in Names
      /\ JobLive \in Paths /\ JobVersion \in Paths
      /\ JobVersion = Version(job.src, job.stamp, job.was.name)
      /\ \A s \in Sources : Exists(s) =>
           LivePath(s) \in Paths /\ (s # job.src => LivePath(s) # JobLive)
      /\ job.at \notin {"create_write", "create_row"} =>
           Exists(job.src) /\ LivePath(job.src) = JobLive
      /\ \A s \in Sources, t \in Stamps, n \in Names :
           Version(s, t, n) \in Paths /\ Version(s, t, n) # JobLive
  BY <1>a, VaultApart
<1>1. CASE CreateWrite
  <2>1. /\ UNCHANGED sources /\ disk' = [disk EXCEPT ![JobLive] = job.bytes]
        /\ job.at = "create_write" /\ ~Exists(job.src)
    BY <1>1 DEF CreateWrite, At, WriteFile, store, VaultInv, OldFileKept
  <2>2. job'.at = "create_row" /\ job'.src = job.src
    BY <1>1, <1>b, MoveOn DEF CreateWrite, Steps
  <2>3. \A s \in Sources : SameVersions(s)
    BY <1>b, <2>1 DEF SameVersions, TypeOK
  <2>4. \A s \in Sources : Exists(s) => disk'[LivePath(s)] = disk[LivePath(s)]
    BY <1>b, <2>1 DEF TypeOK
  <2>5. VersionsDated'
    BY <1>a, <2>1, <2>2, <2>3 DEF VaultInv, VersionsDated, SameVersions, Exists, Version
  <2>6. OldFileKept'
    BY <2>1, <2>2 DEF OldFileKept, Exists
  <2>7. \A s \in Sources : Kept'[s] = Kept[s]
    BY <2>1, <2>3, <2>4, SameKept DEF Exists, LivePath
  <2> QED
    BY <2>5, <2>6, <2>7, KeptStutters
<1>2. CASE CreateRow
  <2>1. /\ UNCHANGED disk /\ sources' = [sources EXCEPT ![job.src] = job.was]
        /\ job.at = "create_row" /\ ~Exists(job.src) /\ disk[JobLive] = job.bytes
        /\ job.was \in SourceRow /\ job.bytes \in Contents
    BY <1>2, <1>b
       DEF CreateRow, At, VaultInv, OldFileKept, HistoryInv, JobOnDisk, Jobs
  <2>2. job'.at = "create_columns" /\ job'.src = job.src
    BY <1>2, <1>b, MoveOn DEF CreateRow, Steps
  <2>3. /\ sources'[job.src] = job.was /\ Exists(job.src)'
        /\ LivePath(job.src)' = JobLive
        /\ \A s \in Sources \ {job.src} : sources'[s] = sources[s]
    <3>1. /\ sources'[job.src] = job.was
          /\ \A s \in Sources \ {job.src} : sources'[s] = sources[s]
      BY <1>b, <2>1 DEF TypeOK
    <3> QED
      BY <2>1, <2>2, <3>1, RowAssumption DEF Exists, LivePath, JobLive
  <2>4. VersionsDated' /\ OldFileKept'
    <3>1. OldFileKept'
      BY <2>2 DEF OldFileKept
    <3>2. \A s \in Sources : Exists(s) => Exists(s)'
      BY <2>1, <2>3 DEF Exists
    <3> QED
      BY <1>a, <2>1, <2>2, <3>1, <3>2 DEF VaultInv, VersionsDated, Version
  <2>5. \A s \in Sources \ {job.src} : Kept'[s] = Kept[s]
    BY <2>1, <2>3, SameKept DEF Exists, LivePath, SameVersions
  <2>6. ASSUME NEW s \in Sources, s = job.src
        PROVE  Kept'[s] = Kept[s] \cup ({job.bytes} \ {Torn})
    <3>1. /\ Kept[s] = {}
          /\ \A t \in Stamps, n \in Names : disk[Version(s, t, n)] = NoFile
      BY <2>1, <2>6, KeptMembers DEF VaultInv, VersionsDated
    <3>2. Exists(s)' /\ LivePath(s)' = JobLive
      BY <2>1, <2>3, <2>6, RowAssumption DEF Exists, LivePath, JobLive
    <3>3. \A c : c \in Kept'[s] <=> c = job.bytes /\ c # Torn
      BY <2>1, <3>1, <3>2, KeptMembers, MarkAssumption DEF Contents
    <3> QED
      BY <3>1, <3>3
  <2> QED
    BY <1>b, <2>1, <2>4, <2>5, <2>6, GrowsByOne
<1>3. CASE ConfirmCopy
  <2>1. /\ UNCHANGED sources /\ disk' = [disk EXCEPT ![JobVersion] = disk[JobLive]]
        /\ job.at = "confirm_copy" /\ Exists(job.src) /\ LivePath(job.src) = JobLive
        /\ job.stamp < now
    BY <1>3, <1>b DEF ConfirmCopy, At, WriteFile, store, VaultInv, HistoryInv, RowsDated
  <2>2. job'.at = "confirm_archive"
    BY <1>3, <1>b, MoveOn DEF ConfirmCopy, Steps
  <2>3. /\ disk'[JobVersion] = disk[JobLive] /\ disk[JobVersion] = NoFile
        /\ \A p \in Paths : p # JobVersion => disk'[p] = disk[p]
        /\ JobVersion.dir = "versions"
    <3>1. job.stamp \in Nat
      BY <1>b DEF Stamps
    <3> QED
      BY <1>b, <2>1, <3>1 DEF TypeOK, VaultInv, VersionsDated, Version
  <2>4. VersionsDated' /\ OldFileKept'
    <3>1. ASSUME NEW s \in Sources, NEW t \in Stamps, NEW n \in Names,
                 disk'[Version(s, t, n)] # NoFile
          PROVE  Exists(s) /\ t < now
      <4>1. CASE Version(s, t, n) = JobVersion
        BY <1>b, <2>1, <4>1 DEF Version
      <4>2. CASE Version(s, t, n) # JobVersion
        BY <1>b, <2>3, <3>1, <4>2 DEF VaultInv, VersionsDated
      <4> QED
        BY <4>1, <4>2
    <3> QED
      BY <1>a, <2>1, <2>2, <3>1 DEF VersionsDated, OldFileKept, Exists, Version
  <2>5. \A s \in Sources : Exists(s) => disk'[LivePath(s)] = disk[LivePath(s)]
    BY <1>b, <2>3 DEF LivePath, Data
  <2>6. \A s \in Sources \ {job.src} : Kept'[s] = Kept[s]
    <3>1. \A s \in Sources \ {job.src} : SameVersions(s)
      BY <1>b, <2>3 DEF SameVersions, Version
    <3> QED
      BY <2>1, <2>5, <3>1, SameKept DEF Exists, LivePath
  <2>7. ASSUME NEW s \in Sources, s = job.src
        PROVE  Kept'[s] = Kept[s]
    <3>1. Exists(s) /\ Exists(s)' /\ LivePath(s)' = LivePath(s) /\ LivePath(s) = JobLive
      BY <2>1, <2>7 DEF Exists, LivePath
    <3>2. disk'[LivePath(s)] = disk[LivePath(s)]
      BY <2>5, <3>1
    <3>3. \A c : c \in Kept[s] <=>
            /\ c \notin {NoFile, Torn}
            /\ \/ c = disk[JobLive]
               \/ \E t \in Stamps, n \in Names : c = disk[Version(s, t, n)]
      BY <3>1, KeptMembers
    <3>4. \A c : c \in Kept'[s] <=>
            /\ c \notin {NoFile, Torn}
            /\ \/ c = disk[JobLive]
               \/ \E t \in Stamps, n \in Names : c = disk'[Version(s, t, n)]
      BY <3>1, <3>2, KeptMembers
    <3>5. \A c : c \notin {NoFile, Torn, disk[JobLive]} => \A t \in Stamps, n \in Names :
            c = disk'[Version(s, t, n)] <=> c = disk[Version(s, t, n)]
      BY <1>b, <2>3
    <3>6. ASSUME NEW c
          PROVE  c \in Kept'[s] <=> c \in Kept[s]
      <4>1. CASE c \in {NoFile, Torn}
        BY <3>3, <3>4, <4>1
      <4>2. CASE c = disk[JobLive]
        BY <3>3, <3>4, <4>2
      <4>3. CASE c \notin {NoFile, Torn, disk[JobLive]}
        BY <3>3, <3>4, <3>5, <4>3
      <4> QED
        BY <4>1, <4>2, <4>3
    <3> QED
      BY <3>6
  <2> QED
    BY <2>4, <2>6, <2>7, KeptStutters
<1>4. CASE ConfirmArchive
  <2>1. /\ UNCHANGED <<disk, sources>> /\ job.at = "confirm_archive"
        /\ disk[JobVersion] = disk[JobLive]
    BY <1>4 DEF ConfirmArchive, At, VaultInv, HistoryInv, JobOnDisk
  <2>2. /\ job'.at = "confirm_write" /\ job'.src = job.src /\ job'.was = job.was
        /\ job'.stamp = job.stamp
    BY <1>4, <1>b DEF ConfirmArchive, Steps, Goto, Jobs
  <2>3. OldFileKept'
    BY <2>1, <2>2 DEF OldFileKept, JobLive, JobVersion
  <2>4. VersionsDated'
    BY <1>a, <2>1, <2>2 DEF VaultInv, VersionsDated, Exists
  <2>5. \A s \in Sources : Kept'[s] = Kept[s]
    BY <2>1, SameKept DEF Exists, LivePath, SameVersions
  <2> QED
    BY <2>3, <2>4, <2>5, KeptStutters
<1>5. CASE ConfirmWrite
  <2>1. /\ UNCHANGED sources /\ disk' = [disk EXCEPT ![JobLive] = job.bytes]
        /\ job.at = "confirm_write" /\ Exists(job.src) /\ LivePath(job.src) = JobLive
        /\ disk[JobLive] \in {NoFile, disk[JobVersion]} /\ job.bytes \in Contents
    BY <1>5, <1>b DEF ConfirmWrite, At, WriteFile, store, VaultInv, OldFileKept, Jobs
  <2>2. job'.at = "confirm_unlink"
    BY <1>5, <1>b, MoveOn DEF ConfirmWrite, Steps
  <2>3. /\ disk'[JobLive] = job.bytes /\ \A s \in Sources : SameVersions(s)
        /\ \A s \in Sources : Exists(s) /\ s # job.src =>
             disk'[LivePath(s)] = disk[LivePath(s)]
    BY <1>b, <2>1 DEF SameVersions, TypeOK
  <2>4. VersionsDated' /\ OldFileKept'
    BY <1>a, <2>1, <2>2, <2>3
       DEF VaultInv, VersionsDated, OldFileKept, SameVersions, Exists, Version
  <2>5. \A s \in Sources \ {job.src} : Kept'[s] = Kept[s]
    BY <2>1, <2>3, SameKept DEF Exists, LivePath
  <2>6. ASSUME NEW s \in Sources, s = job.src
        PROVE  Kept'[s] = Kept[s] \cup ({job.bytes} \ {Torn})
    <3>1. Exists(s) /\ Exists(s)' /\ LivePath(s)' = JobLive /\ LivePath(s) = JobLive
      BY <2>1, <2>6 DEF Exists, LivePath
    <3>2. \A c : c \in Kept[s] <=>
            /\ c \notin {NoFile, Torn}
            /\ \E t \in Stamps, n \in Names : c = disk[Version(s, t, n)]
      BY <1>b, <2>1, <2>6, <3>1, KeptMembers
    <3>3. \A c : c \in Kept'[s] <=>
            /\ c \notin {NoFile, Torn}
            /\ \/ c = job.bytes
               \/ \E t \in Stamps, n \in Names : c = disk[Version(s, t, n)]
      BY <2>3, <3>1, KeptMembers DEF SameVersions
    <3> QED
      BY <2>1, <3>2, <3>3, MarkAssumption DEF Contents
  <2> QED
    BY <1>b, <2>1, <2>4, <2>5, <2>6, GrowsByOne
<1>6. CASE StageWrite \/ StageParse \/ ConfirmUnlink
  <2>1. /\ UNCHANGED sources
        /\ \/ UNCHANGED disk
           \/ \E c : disk' = [disk EXCEPT ![Pending(job.src, job.name)] = c]
    BY <1>6 DEF StageWrite, StageParse, ConfirmUnlink, WriteFile, Unlink, store
  <2>2. \A p \in Paths : p.dir # "pending" => disk'[p] = disk[p]
    BY <1>b, <2>1 DEF TypeOK, Pending
  <2>3. /\ \A s \in Sources : SameVersions(s)
        /\ \A s \in Sources : Exists(s) => disk'[LivePath(s)] = disk[LivePath(s)]
    BY <1>b, <2>2 DEF SameVersions, Version, LivePath, Data
  <2>4. job'.at \in {"idle", "stage_parse", "confirm_columns"}
    BY <1>b, <1>6, MoveOn DEF StageWrite, StageParse, ConfirmUnlink, Return, NoJob, Steps
  <2> QED
    BY <1>a, <2>1, <2>3, <2>4, VaultQuiet DEF Exists, LivePath
<1>7. CASE CreateColumns \/ ConfirmColumns
  <2>1. UNCHANGED <<disk, sources>>
    BY <1>7 DEF CreateColumns, ConfirmColumns
  <2>2. \/ job' = NoJob
        \/ Goto("create_file") \/ Goto("confirm_record")
    BY <1>7 DEF CreateColumns, ConfirmColumns, Raise
  <2>3. job'.at \in {"idle", "create_file", "confirm_record"}
    BY <1>b, <2>2, MoveOn DEF NoJob, Steps
  <2> QED
    BY <1>a, <2>1, <2>3, VaultQuiet DEF Exists, LivePath, SameVersions
<1>8. CASE CreateFile \/ CreateFetch \/ ConfirmRecord \/ SaveColumns
  <2>1. UNCHANGED <<disk, sources>>
    BY <1>8 DEF CreateFile, CreateFetch, ConfirmRecord, SaveColumns
  <2>2. job'.at \in {"create_fetch", "create_date", "confirm_row", "save_row"}
    BY <1>b, <1>8, MoveOn DEF CreateFile, CreateFetch, ConfirmRecord, SaveColumns, Steps
  <2> QED
    BY <1>a, <2>1, <2>2, VaultQuiet DEF Exists, LivePath, SameVersions
<1>9. CASE CreateDate \/ ConfirmRow \/ SaveRow
  <2>1. /\ UNCHANGED disk /\ job' = NoJob /\ Exists(job.src)
        /\ job.was.name = sources[job.src].name
        /\ sources[job.src] \in SourceRow /\ job.was \in SourceRow
        /\ job.at \notin {"idle", "create_write", "create_row"}
    BY <1>9, <1>b
       DEF CreateDate, ConfirmRow, SaveRow, At, Return, VaultInv, HistoryInv, NamesOwned,
           TypeOK, Exists, Jobs
  <2>2. \/ UNCHANGED sources
        \/ \E row \in SourceRow : /\ row.name = job.was.name
                                 /\ sources' = [sources EXCEPT ![job.src] = row]
    <3>1. CASE CreateDate
      BY <1>b, <2>1, <3>1 DEF CreateDate, SourceRow, Jobs, AsOf
    <3>2. CASE ConfirmRow
      <4>1. NewKeys \subseteq Columns
        BY <2>1 DEF NewKeys, SourceRow
      <4> QED
        BY <1>b, <2>1, <4>1, <3>2 DEF ConfirmRow, SourceRow, Jobs, AsOf
    <3>3. CASE SaveRow
      BY <2>1, <3>3 DEF SaveRow
    <3> QED
      BY <1>9, <3>1, <3>2, <3>3
  <2>3. \A s \in Sources : /\ Exists(s)' <=> Exists(s)
                          /\ LivePath(s)' = LivePath(s)
    BY <1>b, <2>1, <2>2, RowAssumption DEF Exists, TypeOK, LivePath
  <2>4. job'.at = "idle"
    BY <2>1 DEF NoJob
  <2> QED
    BY <1>a, <2>1, <2>3, <2>4, VaultQuiet DEF SameVersions
<1> QED
  BY <1>1, <1>2, <1>3, <1>4, <1>5, <1>6, <1>7, <1>8, <1>9 DEF Continue

\* A death inside a copy or inside the write of a live file loses no content: the
\* copy went to a new path, the content of the live file is in a version.
LEMMA VaultCrash ==
  ASSUME Careful, VaultInv, TypeInv', Crash
  PROVE  VersionsDated' /\ OldFileKept' /\ [Vault!VaultNext]_Kept
<1>a. /\ UNCHANGED <<sources, now>> /\ job'.at = "idle" /\ job.at # "idle"
  BY DEF Crash, Idle, store, VaultInv, HistoryInv, TypeInv, TypeOK, Jobs, NoJob, Steps
<1>b. /\ TypeOK /\ job \in Jobs /\ job.src \in Sources
      /\ job.stamp \in Stamps /\ job.was.name \in Names
      /\ JobLive \in Paths /\ JobVersion \in Paths
      /\ JobVersion = Version(job.src, job.stamp, job.was.name)
      /\ \A s \in Sources : Exists(s) =>
           LivePath(s) \in Paths /\ (s # job.src => LivePath(s) # JobLive)
      /\ job.at \notin {"create_write", "create_row"} =>
           Exists(job.src) /\ LivePath(job.src) = JobLive
      /\ \A s \in Sources, t \in Stamps, n \in Names :
           Version(s, t, n) \in Paths /\ Version(s, t, n) # JobLive
  BY <1>a, VaultApart
<1>1. CASE UNCHANGED disk \/ disk' = [disk EXCEPT ![Pending(job.src, job.name)] = Torn]
  <2>1. \A p \in Paths : p.dir # "pending" => disk'[p] = disk[p]
    BY <1>b, <1>1 DEF TypeOK, Pending
  <2>2. /\ \A s \in Sources : SameVersions(s)
        /\ \A s \in Sources : Exists(s) => disk'[LivePath(s)] = disk[LivePath(s)]
    BY <1>b, <2>1 DEF SameVersions, Version, LivePath, Data
  <2> QED
    BY <1>a, <2>2, VaultQuiet DEF Exists, LivePath
<1>2. ASSUME job.at = "confirm_copy", disk' = [disk EXCEPT ![JobVersion] = Torn]
      PROVE  VersionsDated' /\ OldFileKept' /\ [Vault!VaultNext]_Kept
  <2>1. Exists(job.src) /\ job.stamp < now /\ job.stamp \in Nat
    BY <1>b, <1>2 DEF VaultInv, HistoryInv, RowsDated, Stamps
  <2>2. /\ disk'[JobVersion] = Torn /\ disk[JobVersion] = NoFile
        /\ \A p \in Paths : p # JobVersion => disk'[p] = disk[p]
        /\ JobVersion.dir = "versions"
    BY <1>b, <1>2, <2>1 DEF TypeOK, VaultInv, VersionsDated, Version
  <2>3. VersionsDated' /\ OldFileKept'
    <3>1. ASSUME NEW s \in Sources, NEW t \in Stamps, NEW n \in Names,
                 disk'[Version(s, t, n)] # NoFile
          PROVE  Exists(s) /\ t < now
      <4>1. CASE Version(s, t, n) = JobVersion
        BY <1>b, <2>1, <4>1 DEF Version
      <4>2. CASE Version(s, t, n) # JobVersion
        BY <1>b, <2>2, <3>1, <4>2 DEF VaultInv, VersionsDated
      <4> QED
        BY <4>1, <4>2
    <3> QED
      BY <1>a, <3>1 DEF VersionsDated, OldFileKept, Exists, Version
  <2>4. ASSUME NEW s \in Sources
        PROVE  Kept'[s] = Kept[s]
    <3>1. CASE Exists(s)
      <4>1. /\ Exists(s)' /\ LivePath(s)' = LivePath(s)
            /\ disk'[LivePath(s)] = disk[LivePath(s)]
        BY <1>a, <1>b, <2>2, <3>1 DEF Exists, LivePath, Data
      <4>2. \A c : c \notin {NoFile, Torn} => \A t \in Stamps, n \in Names :
              c = disk'[Version(s, t, n)] <=> c = disk[Version(s, t, n)]
        BY <1>b, <2>2
      <4>3. /\ \A c : c \in Kept[s] <=>
                 /\ c \notin {NoFile, Torn}
                 /\ \/ c = disk[LivePath(s)]
                    \/ \E t \in Stamps, n \in Names : c = disk[Version(s, t, n)]
            /\ \A c : c \in Kept'[s] <=>
                 /\ c \notin {NoFile, Torn}
                 /\ \/ c = disk[LivePath(s)]
                    \/ \E t \in Stamps, n \in Names : c = disk'[Version(s, t, n)]
        BY <3>1, <4>1, KeptMembers
      <4>4. ASSUME NEW c
            PROVE  c \in Kept'[s] <=> c \in Kept[s]
        BY <4>2, <4>3
      <4> QED
        BY <4>4
    <3>2. CASE ~Exists(s)
      BY <1>a, <3>2, KeptMembers DEF Exists
    <3> QED
      BY <3>1, <3>2
  <2> QED
    BY <2>3, <2>4, KeptStutters
<1>3. ASSUME job.at \in {"create_write", "confirm_write"},
             disk' = [disk EXCEPT ![JobLive] = Torn]
      PROVE  VersionsDated' /\ OldFileKept' /\ [Vault!VaultNext]_Kept
  <2>1. /\ disk'[JobLive] = Torn /\ \A s \in Sources : SameVersions(s)
        /\ \A s \in Sources : Exists(s) /\ s # job.src =>
             disk'[LivePath(s)] = disk[LivePath(s)]
    BY <1>b, <1>3 DEF SameVersions, TypeOK
  <2>2. VersionsDated' /\ OldFileKept'
    BY <1>a, <2>1 DEF VaultInv, VersionsDated, OldFileKept, SameVersions, Exists, Version
  <2>3. \A s \in Sources \ {job.src} : Kept'[s] = Kept[s]
    BY <1>a, <2>1, SameKept DEF Exists, LivePath
  <2>4. ASSUME NEW s \in Sources, s = job.src
        PROVE  Kept'[s] = Kept[s]
    <3>1. CASE job.at = "create_write"
      BY <1>a, <2>4, <3>1, KeptMembers DEF VaultInv, OldFileKept, Exists
    <3>2. CASE job.at = "confirm_write"
      <4>1. /\ Exists(s) /\ Exists(s)' /\ LivePath(s)' = JobLive /\ LivePath(s) = JobLive
            /\ disk[JobLive] \in {NoFile, disk[JobVersion]}
        BY <1>a, <1>b, <2>4, <3>2 DEF Exists, LivePath, VaultInv, OldFileKept
      <4>2. \A c : c \in Kept[s] <=>
              /\ c \notin {NoFile, Torn}
              /\ \E t \in Stamps, n \in Names : c = disk[Version(s, t, n)]
        BY <1>b, <2>4, <4>1, KeptMembers
      <4>3. \A c : c \in Kept'[s] <=>
              /\ c \notin {NoFile, Torn}
              /\ \E t \in Stamps, n \in Names : c = disk[Version(s, t, n)]
        BY <2>1, <4>1, KeptMembers DEF SameVersions
      <4> QED
        BY <4>2, <4>3
    <3> QED
      BY <1>3, <3>1, <3>2
  <2> QED
    BY <2>2, <2>3, <2>4, KeptStutters
<1> QED
  BY <1>1, <1>2, <1>3 DEF Crash, WriteTarget, WriteFile

LEMMA VaultStep ==
  ASSUME Careful, VaultInv, [Next]_vars
  PROVE  VaultInv' /\ [Vault!VaultNext]_Kept
<1>1. TypeInv' /\ HistoryInv'
  BY StepTyped, HistoryStep DEF VaultInv, HistoryInv
<1>2. ASSUME NEW r \in awaiting, NEW n \in Names, NEW c \in Bytes,
             RefreshResume(r, n, c)
      PROVE  VersionsDated' /\ OldFileKept' /\ [Vault!VaultNext]_Kept
  <2>1. UNCHANGED <<disk, sources, now>> /\ job'.at = "stage_write"
    BY <1>2 DEF RefreshResume, Begin, store
  <2> QED
    BY <1>1, <2>1, VaultQuiet DEF Exists, LivePath, SameVersions
<1>3. ASSUME UNCHANGED vars
      PROVE  VersionsDated' /\ OldFileKept' /\ [Vault!VaultNext]_Kept
  <2>1. UNCHANGED <<disk, sources, job, now>>
    BY <1>3 DEF vars, store
  <2>2. VersionsDated'
    BY <2>1 DEF VaultInv, VersionsDated, Exists
  <2>3. OldFileKept'
    BY <2>1 DEF VaultInv, OldFileKept, Exists, JobLive, JobVersion
  <2>4. \A s \in Sources : Kept'[s] = Kept[s]
    BY <2>1, SameKept DEF Exists, LivePath, SameVersions
  <2> QED
    BY <2>2, <2>3, <2>4, KeptStutters
<1>4. VersionsDated' /\ OldFileKept' /\ [Vault!VaultNext]_Kept
  BY <1>1, <1>2, <1>3, VaultRequest, VaultContinue, VaultCrash DEF Next
<1> QED
  BY <1>1, <1>4 DEF VaultInv

\* SourceFiles implements SourceVault: under the same conditions no upload,
\* refresh or death loses a content that was once read back for a source.
THEOREM EveryVersionKept ==
  ASSUME Careful
  PROVE  Spec => KeepsEveryVersion
<1>1. Init => VaultInv /\ Vault!VaultInit
  <2> SUFFICES ASSUME Init PROVE VaultInv /\ Vault!VaultInit
    OBVIOUS
  <2>1. job.at = "idle" /\ \A s \in Sources : ~Exists(s)
    BY DEF Init, NoJob, Exists
  <2>2. VersionsDated /\ OldFileKept
    BY <2>1, PathsTyped DEF Init, VersionsDated, OldFileKept
  <2>3. Kept = [s \in Sources |-> {}]
    BY <2>1 DEF Kept
  <2> QED
    BY <2>2, <2>3, HistoryInit DEF VaultInv, Vault!VaultInit
<1>2. VaultInv /\ [Next]_vars => VaultInv' /\ [Vault!VaultNext]_Kept
  BY VaultStep
<1> QED
  BY <1>1, <1>2, PTL DEF Spec, KeepsEveryVersion, Vault!VaultSpec
----------------------------------------------------------------------------
(* Key columns are columns *)

\* While no process has died: keys are columns, but between the set_columns and
\* the upsert_source of a confirm; and what a job will store keeps it so.
KeysInv ==
  /\ job.at \in ConfirmSteps => job.src \in unsettled
  /\ crashes = 0 =>
       /\ \A s \in Sources :
            Exists(s) /\ ~(job.at \in {"confirm_record", "confirm_row"} /\ job.src = s) =>
              sources[s].keys \subseteq DOMAIN columns[s]
       /\ job.at \in ConfirmSteps => job.was.keys \subseteq DOMAIN job.cols
       /\ job.at \in {"confirm_record", "confirm_row"} =>
            DOMAIN columns[job.src] = HeaderOf(job.bytes)
       /\ job.at \in {"create_write", "create_row"} => job.was.keys = {}
       /\ job.at = "create_columns" => sources[job.src].keys = {}
       /\ job.at = "save_columns" => DOMAIN job.cols = DOMAIN columns[job.src]
       /\ job.at \in {"save_columns", "save_row"} =>
            job.was.keys \subseteq DOMAIN columns[job.src]

LEMMA KeysStep ==
  ASSUME ~FreeKeys, TypeInv, KeysInv, [Next]_vars
  PROVE  KeysInv'
<1>0. /\ TypeOK /\ sources \in [Sources -> SourceRow \cup {NoSource}]
      /\ columns \in [Sources -> ColumnMaps]
      /\ job.at # "idle" => job \in Jobs /\ job.src \in Sources /\ job.was \in SourceRow
  BY JobTyped DEF TypeInv, TypeOK, Jobs
\* A step that changes no row and no column, and begins neither write of them.
<1>1. ASSUME UNCHANGED <<sources, columns, crashes>>, unsettled \subseteq unsettled',
             \/ job'.at \in {"idle", "stage_write", "stage_parse", "create_file",
                             "create_fetch", "create_date"}
                /\ job.at \notin {"confirm_record", "confirm_row"}
             \/ UNCHANGED job
             \/ \E l \in Steps : /\ Goto(l) /\ job \in Jobs
                                 /\ <<job.at, l>> \in
                                      {<<"create_write", "create_row">>,
                                       <<"confirm_copy", "confirm_archive">>,
                                       <<"confirm_archive", "confirm_write">>,
                                       <<"confirm_write", "confirm_unlink">>,
                                       <<"confirm_unlink", "confirm_columns">>,
                                       <<"confirm_record", "confirm_row">>}
      PROVE  KeysInv'
  <2>1. CASE job'.at \in {"idle", "stage_write", "stage_parse", "create_file",
                          "create_fetch", "create_date"}
             /\ job.at \notin {"confirm_record", "confirm_row"}
    BY <1>1, <2>1 DEF KeysInv, ConfirmSteps, Exists
  <2>2. CASE UNCHANGED job
    BY <1>1, <2>2 DEF KeysInv, Exists
  <2>3. ASSUME NEW l \in Steps, Goto(l), job \in Jobs,
               <<job.at, l>> \in {<<"create_write", "create_row">>,
                                  <<"confirm_copy", "confirm_archive">>,
                                  <<"confirm_archive", "confirm_write">>,
                                  <<"confirm_write", "confirm_unlink">>,
                                  <<"confirm_unlink", "confirm_columns">>,
                                  <<"confirm_record", "confirm_row">>}
        PROVE  KeysInv'
    <3>1. /\ job'.at = l /\ job'.src = job.src /\ job'.was = job.was
          /\ job'.cols = job.cols /\ job'.bytes = job.bytes
      BY <2>3, MoveOn
    <3>2. /\ l \in ConfirmSteps => job.at \in ConfirmSteps
          /\ l = "create_row" => job.at = "create_write"
          /\ l = "confirm_row" <=> job.at = "confirm_record"
          /\ l \in {"create_row", "confirm_row", "confirm_archive", "confirm_write",
                    "confirm_unlink", "confirm_columns"}
          /\ job.at # "confirm_row"
      BY <2>3 DEF ConfirmSteps
    <3> QED
      BY <1>1, <3>1, <3>2 DEF KeysInv, Exists, HeaderOf
  <2> QED
    BY <1>1, <2>1, <2>2, <2>3
<1>2. ASSUME NEW s \in Sources, Request(s)
      PROVE  KeysInv'
  <2>0. job.at = "idle" /\ UNCHANGED crashes /\ unsettled \subseteq unsettled'
    <3>1. Idle /\ UNCHANGED crashes /\ unsettled \subseteq unsettled'
      BY <1>2 DEF Request, CreateSource, RefreshSource, RefetchSource, CancelRefresh,
                  ConfirmRefresh, SaveSource, UpdateAsOf, ghosts
    <3> QED
      BY <3>1 DEF Idle, NoJob
  <2>1. ASSUME NEW n \in Names, NEW c \in Bytes, NEW d \in AsOf,
               NEW url \in BOOLEAN, NEW sheet \in BOOLEAN,
               CreateSource(s, n, c, d, url, sheet)
        PROVE  KeysInv'
    BY <2>0, <2>1 DEF CreateSource, Begin, store, KeysInv, ConfirmSteps, Exists
  <2>2. ASSUME NEW n \in Names, NEW d \in AsOf, ConfirmRefresh(s, n, d)
        PROVE  KeysInv'
    <3>1. /\ job'.at \in {"confirm_copy", "confirm_write"} /\ job'.src = s
          /\ job'.was = sources[s] /\ job'.cols = columns[s] /\ Exists(s)
          /\ s \in unsettled' /\ UNCHANGED <<sources, columns>>
      BY <2>2 DEF ConfirmRefresh, Begin, store
    <3> QED
      BY <2>0, <3>1 DEF KeysInv, Exists
  <2>3. ASSUME NEW custom \in SUBSET Columns, NEW keys \in SUBSET Columns,
               SaveSource(s, custom, keys)
        PROVE  KeysInv'
    <3>1. /\ job'.at = "save_columns" /\ job'.src = s /\ UNCHANGED <<sources, columns>>
          /\ job'.was = [sources[s] EXCEPT !.keys = keys] /\ sources[s] \in SourceRow
          /\ keys \subseteq DOMAIN columns[s] /\ DOMAIN job'.cols = DOMAIN columns[s]
      BY <1>0, <2>3 DEF SaveSource, Begin, store, Exists
    <3>2. job'.was.keys = keys
      BY <3>1 DEF SourceRow
    <3> QED
      BY <2>0, <3>1, <3>2 DEF KeysInv, ConfirmSteps, Exists
  <2>4. ASSUME NEW d \in AsOf, UpdateAsOf(s, d)
        PROVE  KeysInv'
    <3>1. /\ UNCHANGED <<columns, job>> /\ sources[s] \in SourceRow /\ Exists(s)
          /\ sources' = [sources EXCEPT ![s] = [sources[s] EXCEPT !.extract = d]]
      BY <1>0, <2>4 DEF UpdateAsOf, Exists
    <3>2. \A q \in Sources : /\ Exists(q)' => Exists(q)
                            /\ sources'[q].keys = sources[q].keys
      BY <1>0, <3>1 DEF SourceRow, Exists
    <3> QED
      BY <2>0, <3>1, <3>2 DEF KeysInv, ConfirmSteps
  <2>5. ASSUME \/ RefreshSource(s)
               \/ \E n \in Names, c \in Bytes : RefetchSource(s, n, c)
               \/ \E n \in Names : CancelRefresh(s, n)
        PROVE  KeysInv'
    <3>1. /\ UNCHANGED <<sources, columns>>
          /\ job'.at \in {"idle", "stage_write"}
      BY <2>0, <2>5 DEF RefreshSource, RefetchSource, CancelRefresh, Begin, store
    <3> QED
      BY <1>1, <2>0, <3>1
  <2> QED
    BY <1>2, <2>1, <2>2, <2>3, <2>4, <2>5 DEF Request
<1>3. ASSUME NEW r \in awaiting, NEW n \in Names, NEW c \in Bytes,
             RefreshResume(r, n, c)
      PROVE  KeysInv'
  <2>1. /\ UNCHANGED <<sources, columns, ghosts>> /\ job'.at = "stage_write"
        /\ job.at = "idle"
    BY <1>3 DEF RefreshResume, Begin, store, Idle, NoJob
  <2> QED
    BY <1>1, <2>1 DEF ghosts
<1>4. CASE Continue
  <2>1. CASE CreateWrite \/ CreateFile \/ CreateFetch \/ StageWrite \/ StageParse
             \/ ConfirmCopy \/ ConfirmArchive \/ ConfirmWrite \/ ConfirmUnlink
             \/ ConfirmRecord
    <3>1. UNCHANGED <<sources, columns, ghosts>> /\ job \in Jobs
      BY <1>0, <2>1
         DEF CreateWrite, CreateFile, CreateFetch, StageWrite, StageParse, ConfirmCopy,
             ConfirmArchive, ConfirmWrite, ConfirmUnlink, ConfirmRecord, At, store
    <3>2. CASE CreateFile \/ CreateFetch \/ StageWrite \/ StageParse
      <4>1. /\ job'.at \in {"idle", "stage_parse", "create_fetch", "create_date"}
            /\ job.at \notin {"confirm_record", "confirm_row"}
        BY <3>1, <3>2, MoveOn
           DEF CreateFile, CreateFetch, StageWrite, StageParse, At, Return, NoJob, Steps
      <4> QED
        BY <1>1, <3>1, <4>1 DEF ghosts
    <3>3. CASE CreateWrite \/ ConfirmCopy \/ ConfirmArchive \/ ConfirmWrite
               \/ ConfirmUnlink \/ ConfirmRecord
      <4>1. \E l \in Steps : /\ Goto(l) /\ job \in Jobs
                             /\ <<job.at, l>> \in
                                  {<<"create_write", "create_row">>,
                                   <<"confirm_copy", "confirm_archive">>,
                                   <<"confirm_archive", "confirm_write">>,
                                   <<"confirm_write", "confirm_unlink">>,
                                   <<"confirm_unlink", "confirm_columns">>,
                                   <<"confirm_record", "confirm_row">>}
        BY <3>1, <3>3 DEF CreateWrite, ConfirmCopy, ConfirmArchive, ConfirmWrite,
                          ConfirmUnlink, ConfirmRecord, At, Steps
      <4> QED
        BY <1>1, <3>1, <4>1 DEF ghosts
    <3> QED
      BY <2>1, <3>2, <3>3
  <2>2. CASE CreateRow
    <3>1. /\ job'.at = "create_columns" /\ job'.src = job.src
          /\ UNCHANGED <<columns, ghosts>>
          /\ sources' = [sources EXCEPT ![job.src] = job.was] /\ job.at = "create_row"
      BY <1>0, <2>2, MoveOn DEF CreateRow, At, Steps
    <3>2. /\ sources'[job.src] = job.was
          /\ \A s \in Sources \ {job.src} : sources'[s] = sources[s]
      BY <1>0, <3>1
    <3>3. crashes = 0 => job.was.keys = {}
      BY <3>1 DEF KeysInv
    <3> QED
      BY <1>0, <3>1, <3>2, <3>3 DEF KeysInv, ConfirmSteps, Exists, ghosts
  <2>3. CASE CreateColumns
    <3>1. /\ UNCHANGED <<sources, ghosts>> /\ job.at = "create_columns"
          /\ job' = NoJob \/ Goto("create_file")
          /\ UNCHANGED columns \/ \E m : columns' = [columns EXCEPT ![job.src] = m]
      BY <2>3 DEF CreateColumns, Raise, At
    <3>2. job'.at \in {"idle", "create_file"}
      BY <1>0, <3>1, MoveOn DEF NoJob, Steps
    <3>3. \A s \in Sources : s # job.src => columns'[s] = columns[s]
      BY <1>0, <3>1
    <3> QED
      BY <3>1, <3>2, <3>3 DEF KeysInv, ConfirmSteps, Exists, ghosts
  <2>4. CASE CreateDate
    <3>1. /\ job'.at = "idle" /\ job.at = "create_date" /\ UNCHANGED <<columns, crashes>>
          /\ Exists(job.src) /\ sources[job.src] \in SourceRow
      BY <1>0, <2>4
         DEF CreateDate, At, Return, NoJob, TypeInv, JobHasSource, Exists
    <3>2. \A s \in Sources : /\ Exists(s)' => Exists(s)
                            /\ sources'[s].keys = sources[s].keys
      BY <1>0, <2>4, <3>1 DEF CreateDate, SourceRow, Exists
    <3> QED
      BY <3>1, <3>2 DEF KeysInv, ConfirmSteps
  <2>5. CASE ConfirmColumns
    <3>1. /\ UNCHANGED <<sources, ghosts>> /\ job.at = "confirm_columns"
      BY <2>5 DEF ConfirmColumns, Raise, At
    <3>2. CASE Raise /\ UNCHANGED columns
      BY <1>1, <3>1, <3>2 DEF Raise, NoJob, ghosts
    <3>3. CASE ~(Raise /\ UNCHANGED columns)
      <4>1. /\ Goto("confirm_record")
            /\ columns' = [columns EXCEPT ![job.src] =
                             ReconcileColumns(job.cols, HeaderOf(job.bytes))]
        BY <2>5, <3>3 DEF ConfirmColumns
      <4>2. /\ job'.at = "confirm_record" /\ job'.src = job.src /\ job'.was = job.was
            /\ job'.cols = job.cols /\ job'.bytes = job.bytes
        BY <1>0, <3>1, <4>1, MoveOn DEF Steps
      <4>3. /\ DOMAIN columns'[job.src] = HeaderOf(job.bytes)
            /\ \A s \in Sources \ {job.src} : columns'[s] = columns[s]
        BY <1>0, <3>1, <4>1 DEF ReconcileColumns
      <4> QED
        BY <1>0, <3>1, <4>2, <4>3 DEF KeysInv, ConfirmSteps, Exists, HeaderOf, ghosts
    <3> QED
      BY <3>2, <3>3
  <2>6. CASE ConfirmRow
    <3> DEFINE d == IF job.asof = NoDate THEN job.was.extract ELSE job.asof
    <3>1. /\ job.at = "confirm_row" /\ job'.at = "idle" /\ UNCHANGED <<columns, crashes>>
          /\ job.was \in SourceRow /\ job.src \in Sources
          /\ sources' = [sources EXCEPT ![job.src] =
                           [job.was EXCEPT !.keys = NewKeys, !.extract = d]]
      BY <1>0, <2>6 DEF ConfirmRow, At, Return, NoJob, SourceRow
    <3> HIDE DEF d
    <3>2. /\ sources'[job.src].keys = NewKeys
          /\ \A s \in Sources \ {job.src} : sources'[s] = sources[s]
      BY <1>0, <3>1 DEF SourceRow
    <3>3. crashes = 0 => NewKeys \subseteq DOMAIN columns[job.src]
      BY <3>1 DEF KeysInv, ConfirmSteps, NewKeys
    <3> QED
      BY <3>1, <3>2, <3>3 DEF KeysInv, ConfirmSteps, Exists
  <2>7. CASE SaveColumns
    <3>1. /\ job.at = "save_columns" /\ UNCHANGED <<sources, ghosts>>
          /\ job'.at = "save_row" /\ job'.src = job.src /\ job'.was = job.was
          /\ columns' = [columns EXCEPT ![job.src] = job.cols]
      BY <1>0, <2>7, MoveOn DEF SaveColumns, At, Steps
    <3>2. crashes = 0 => \A s \in Sources : DOMAIN columns'[s] = DOMAIN columns[s]
      BY <1>0, <3>1 DEF KeysInv
    <3> QED
      BY <1>0, <3>1, <3>2 DEF KeysInv, ConfirmSteps, Exists, ghosts
  <2>8. CASE SaveRow
    <3>1. /\ job.at = "save_row" /\ job'.at = "idle" /\ UNCHANGED <<columns, ghosts>>
          /\ sources' = [sources EXCEPT ![job.src] = job.was]
      BY <2>8 DEF SaveRow, At, Return, NoJob
    <3>2. /\ sources'[job.src] = job.was
          /\ \A s \in Sources \ {job.src} : sources'[s] = sources[s]
      BY <1>0, <3>1
    <3> QED
      BY <1>0, <3>1, <3>2 DEF KeysInv, ConfirmSteps, Exists, ghosts
  <2> QED
    BY <1>4, <2>1, <2>2, <2>3, <2>4, <2>5, <2>6, <2>7, <2>8 DEF Continue
<1>5. CASE Crash
  <2>1. job'.at = "idle" /\ crashes' # 0
    BY <1>5 DEF Crash, NoJob, TypeInv, TypeOK
  <2> QED
    BY <2>1 DEF KeysInv, ConfirmSteps
<1>6. CASE UNCHANGED vars
  BY <1>1, <1>6 DEF vars, store, ghosts
<1> QED
  BY <1>2, <1>3, <1>4, <1>5, <1>6 DEF Next

\* As long as the editor posts no key that is not a column, a source whose last
\* create or confirm ran to its end has only columns for keys, unless the process
\* died: over any number of refreshes that drop columns.
THEOREM KeysKept ==
  ASSUME ~FreeKeys
  PROVE  Spec => []KeysAreColumns
<1>1. Init => KeysInv
  <2> SUFFICES ASSUME Init PROVE KeysInv
    OBVIOUS
  <2>1. job.at = "idle" /\ \A s \in Sources : ~Exists(s)
    BY DEF Init, NoJob, Exists
  <2> QED
    BY <2>1 DEF KeysInv, ConfirmSteps
<1>2. TypeInv /\ KeysInv /\ [Next]_vars => KeysInv'
  BY KeysStep
<1>3. KeysInv => KeysAreColumns
  BY DEF KeysInv, KeysAreColumns, ConfirmSteps
<1> QED
  BY <1>1, <1>2, <1>3, TypeInvariant, PTL DEF Spec
============================================================================
