---------------------------- MODULE Migrations ----------------------------
(***************************************************************************)
(* Opening the engagement store: migrate (store/migrations.py), which the  *)
(* server (plane/app.py) and "uticen-lite import" (cli/import_cmd.py) call *)
(* when they start, each in a process of its own, over one database file.  *)
(*                                                                         *)
(* executescript runs a step's statements in autocommit mode and PRAGMA    *)
(* user_version is a write of its own, so every statement is a transaction *)
(* and another process, or the death of this one, can come between any two.*)
(* Waiting for a lock (busy_timeout) is not modelled.                      *)
(***************************************************************************)
EXTENDS Naturals, Sequences

CONSTANTS
  Script,     \* the migration steps: per step, its statements
  Openers,    \* processes that open the store
  Sources,    \* data sources the store may hold
  Releases,   \* user_versions of the stores of earlier releases
  MaxCrashes  \* bound on process deaths

Kinds == {"create", "alter", "backfill"}
ASSUME ScriptAssumption ==
  /\ Script \in Seq(Seq([kind : Kinds, object : STRING]))
  /\ \A i \in DOMAIN Script : Len(Script[i]) > 0
ASSUME BoundAssumption ==
  /\ Releases \subseteq 0 .. Len(Script)
  /\ MaxCrashes \in Nat
\* A column is added by one statement and made by no other; at most one
\* statement fills the history, behind the one that creates its table.
ASSUME CarefulAssumption ==
  \A i, k \in DOMAIN Script : \A j \in DOMAIN Script[i], l \in DOMAIN Script[k] :
    LET first == Script[i][j]
        other == Script[k][l]
    IN /\ first.kind = "alter" /\ other.object = first.object => i = k /\ j = l
       /\ first.kind = "backfill" =>
            /\ first.object = "source_files"
            /\ \E m \in 1 .. j - 1 : Script[i][m].object = first.object
            /\ other.object = first.object => k >= i
            /\ other.kind = "backfill" => i = k /\ j = l
ASSUME FillAssumption ==
  \E i \in DOMAIN Script : \E j \in DOMAIN Script[i] : Script[i][j].kind = "backfill"

VARIABLES
  version,  \* PRAGMA user_version
  schema,   \* the tables, and the columns added to them, that exist
  known,    \* rows of table sources
  current,  \* per source, its source_files rows with is_current = 1
  opener,   \* per process, where it stands in migrate
  crashes,  \* history: process deaths so far
  disturbed \* history: has a migration met another one, or died where a
            \* step that cannot be repeated has begun?
vars == <<version, schema, known, current, opener, crashes, disturbed>>
----------------------------------------------------------------------------
Create(t) == [kind |-> "create", object |-> t]   \* CREATE TABLE IF NOT EXISTS
Alter(c) == [kind |-> "alter", object |-> c]     \* ALTER TABLE ... ADD COLUMN
Backfill(t) == [kind |-> "backfill", object |-> t]   \* INSERT ... SELECT

\* _STEPS
StoreSteps ==
  << <<Create("project"), Create("sources"), Create("columns"),
       Create("controls"), Create("control_sources"), Create("runs"),
       Create("violations")>>,
     <<Alter("sources.title")>>,
     <<Create("source_files"), Backfill("source_files")>>,
     <<Alter("controls.pipeline")>>,
     <<Alter("runs.procedure_id")>>,
     <<Alter("sources.sheet"), Create("source_fetch")>>,
     <<Alter("controls.failure_threshold_rationale")>> >>

Last == Len(Script)
\* Everything that steps 1 .. v create or add.
ObjectsUpTo(v) == UNION {{Script[i][j].object : j \in DOMAIN Script[i]} : i \in 1 .. v}

Init ==
  \E v \in Releases :
    /\ version = v
    /\ schema = ObjectsUpTo(v)
    /\ known \in SUBSET (IF "sources" \in schema THEN Sources ELSE {})
    /\ current = [s \in Sources |-> IF s \in known /\ "source_files" \in schema
                                      THEN 1 ELSE 0]
    /\ opener = [o \in Openers |-> [at |-> "away", step |-> 0, pos |-> 0]]
    /\ crashes = 0 /\ disturbed = FALSE

At(o, l) == opener[o].at = l
Migrating(o) == opener[o].at \in {"script", "pragma"}
Statement(o) == Script[opener[o].step][opener[o].pos]

\* Mutant: the loop skips only the steps below the stored version.
FromCurrent(v) == IF v = 0 THEN 1 ELSE v
\* "if idx <= current: continue", with current read once, before the loop.
FirstStep(v) == v + 1

\* The loop goes on with a step, or ends behind the last one.
LoopAt(o, step) ==
  opener' = [opener EXCEPT ![o] =
    IF step > Last THEN [at |-> "open", step |-> 0, pos |-> 0]
                   ELSE [at |-> "script", step |-> step, pos |-> 1]]

Open(o) ==
  /\ ~Migrating(o)
  /\ LoopAt(o, FirstStep(version))
  /\ disturbed' = (disturbed \/ \E p \in Openers : Migrating(p))
  /\ UNCHANGED <<version, schema, known, current, crashes>>

\* The column is there already, or the table is not: OperationalError.
StatementFails(o) ==
  /\ At(o, "script")
  /\ \/ Statement(o).kind = "alter" /\ Statement(o).object \in schema
     \/ Statement(o).kind = "backfill" /\ Statement(o).object \notin schema
  /\ opener' = [opener EXCEPT ![o].at = "failed"]
  /\ UNCHANGED <<version, schema, known, current, crashes, disturbed>>

Advance(o) ==
  opener' = [opener EXCEPT
    ![o].at = IF @ = "script" /\ opener[o].pos < Len(Script[opener[o].step])
                THEN "script" ELSE "pragma",
    ![o].pos = @ + 1]

ChangeSchema(o) ==
  /\ At(o, "script")
  /\ \/ Statement(o).kind = "create"
     \/ Statement(o).kind = "alter" /\ Statement(o).object \notin schema
  /\ schema' = schema \cup {Statement(o).object}
  /\ Advance(o)
  /\ UNCHANGED <<version, known, current, crashes, disturbed>>

\* One current row for every source there is, whatever rows there are.
FillHistory(o) ==
  /\ At(o, "script")
  /\ Statement(o).kind = "backfill" /\ Statement(o).object \in schema
  /\ current' = [s \in Sources |-> current[s] + (IF s \in known THEN 1 ELSE 0)]
  /\ Advance(o)
  /\ UNCHANGED <<version, schema, known, crashes, disturbed>>

\* Mutant: the version is that of the step which comes next.
SetNextVersion(o) ==
  /\ At(o, "pragma")
  /\ version' = opener[o].step + 1
  /\ LoopAt(o, opener[o].step + 1)
  /\ UNCHANGED <<schema, known, current, crashes, disturbed>>

SetVersion(o) ==
  /\ At(o, "pragma")
  /\ version' = opener[o].step
  /\ LoopAt(o, opener[o].step + 1)
  /\ UNCHANGED <<schema, known, current, crashes, disturbed>>

\* A process that has the store open adds a source: upsert_source and
\* set_initial_file.
AddSource(o, s) ==
  /\ At(o, "open") /\ s \notin known
  /\ known' = known \cup {s}
  /\ current' = [current EXCEPT ![s] = 1]
  /\ UNCHANGED <<version, schema, opener, crashes, disturbed>>

\* Of the step that o is in, a statement has run that must not run again.
Unrepeatable(o) ==
  \E j \in DOMAIN Script[opener[o].step] :
    j < opener[o].pos /\ Script[opener[o].step][j].kind # "create"

Crash(o) ==
  /\ Migrating(o) /\ crashes < MaxCrashes
  /\ opener' = [opener EXCEPT ![o].at = "away"]
  /\ crashes' = crashes + 1 /\ disturbed' = (disturbed \/ Unrepeatable(o))
  /\ UNCHANGED <<version, schema, known, current>>

Next ==
  \E o \in Openers :
    \/ Open(o)
    \/ StatementFails(o) \/ ChangeSchema(o) \/ FillHistory(o)
    \/ SetVersion(o)
    \/ \E s \in Sources : AddSource(o, s)
    \/ Crash(o)

Spec == Init /\ [][Next]_vars
----------------------------------------------------------------------------
(* Properties *)

\* Every variable stays in its set; a process that migrates is at a statement
\* of a step, or behind the last one.
TypeOK ==
  /\ version \in 0 .. Last
  /\ schema \subseteq STRING /\ known \subseteq Sources
  /\ current \in [Sources -> Nat]
  /\ opener \in [Openers -> [at : {"away", "script", "pragma", "open", "failed"},
                             step : 0 .. Last, pos : Nat]]
  /\ \A o \in Openers :
       /\ Migrating(o) => opener[o].step > 0 /\ opener[o].pos > 0
       /\ At(o, "script") => opener[o].pos <= Len(Script[opener[o].step])
  /\ crashes \in Nat /\ disturbed \in BOOLEAN

\* The version never promises more than there is, whoever migrates at the same
\* time and wherever a process dies: all that steps 1 .. version make exists.
VersionBacked ==
  \A i \in 1 .. version : \A j \in DOMAIN Script[i] :
    Script[i][j].object \in schema

\* A process that came through migrate finds the whole schema, also when
\* another one writes an older version over its own.
OpenIsMigrated ==
  (\E o \in Openers : At(o, "open")) =>
    \A i \in 1 .. Last : \A j \in DOMAIN Script[i] :
      Script[i][j].object \in schema

\* The store of any release opens, and then every source in it has exactly one
\* current row ("Backfill one current row per existing source",
\* migrations.py:91), also after a migration died anywhere but between an ALTER
\* TABLE or the backfill and the PRAGMA behind it, as long as none meets
\* another.
UndisturbedOpens ==
  ~disturbed =>
    /\ \A o \in Openers : ~At(o, "failed")
    /\ (\E o \in Openers : At(o, "open")) =>
         \A s \in Sources : current[s] = IF s \in known THEN 1 ELSE 0
============================================================================
