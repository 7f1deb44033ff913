-------------------------- MODULE EngagementProofs --------------------------
(***************************************************************************)
(* Theorems about Engagement: the settings of the install survive a reset, *)
(* a reset restores the demo, and what an export writes is current, for    *)
(* any controls, sources, settings and numbers of requests, runs, loads,   *)
(* exports and deaths.                                                     *)
(***************************************************************************)
EXTENDS Engagement, ListProofs, FiniteSetTheorems

Settings == [Keys -> Values \cup {Unset}]
Project == [named : BOOLEAN, system : Settings]
LoadSteps == {"files", "project", "sources", "columns", "initial", "controls", "bind", "copy",
              "restore"}
Load == [step : LoadSteps, kept : Settings, todo : SUBSET (Sources \cup Controls),
         at : Controls \cup Sources \cup {Absent}, resets : BOOLEAN, raced : BOOLEAN]
Counts == [runs : Nat, edits : Nat, loads : Nat, exports : Nat, deaths : Nat]

Typed ==
  /\ project \in Project \cup {Absent}
  /\ chosen \in Settings
  /\ controls = [c \in Controls |-> controls[c]]
  /\ load \in Load \cup {Idle}
  /\ count \in Counts

\* Where the settings are: in the row of the project, or, from the wipe of a
\* reset to its last step, in what the reset read before.
SettingsSafe ==
  /\ Loop \/ ~load.resets => SystemOf(project) = chosen
  /\ ~Loop /\ load.resets =>
       /\ load.kept = chosen
       /\ load.step \notin {"files", "project"} =>
            project # Absent /\ project.system = NoSettings
  /\ ~Loop /\ load.step = "files" => load.resets

\* The sources that have their row, their columns and their file row.
Stored == sources \cap columns \cap current
Ready(c) == controls[c] = DemoGraph[c] /\ c \in bound
\* What a load has done when it is at a step.
Progress ==
  ~Loop =>
    /\ load.step \notin {"files", "project"} => Named
    /\ load.step \in {"sources", "columns", "initial"} =>
         load.todo \subseteq DemoSources /\ DemoSources \ load.todo \subseteq Stored
    /\ load.step \in {"columns", "initial"} => load.at \in load.todo \cap sources
    /\ load.step = "initial" => load.at \in columns
    /\ load.step \in {"controls", "bind", "copy", "restore"} => DemoSources \subseteq Stored
    /\ load.step \in {"controls", "bind"} =>
         load.todo \subseteq Demo /\ \A c \in Demo \ load.todo : Ready(c)
    /\ load.step = "bind" => load.at \in load.todo /\ controls[load.at] = DemoGraph[load.at]
    /\ load.step \in {"copy", "restore"} => \A c \in Demo : Ready(c)
    /\ load.step = "copy" =>
         load.todo \subseteq DemoSources /\ DemoSources \ load.todo \subseteq files
    /\ load.step = "restore" => DemoSources \subseteq files

\* What a reset that nothing overlapped has left of the old engagement.
Clean ==
  ~Loop /\ load.resets /\ ~load.raced =>
    /\ Active = {} /\ export = Idle /\ runs = <<>>
    /\ sources \cup columns \cup current \subseteq DemoSources /\ bound \subseteq Demo
    /\ \A c \in Controls \ Demo : controls[c] = Absent
    /\ load.step # "files" => papers = Nothing /\ bundle = Absent /\ files \subseteq DemoSources

IInv == Typed /\ SettingsSafe /\ Progress /\ Clean
----------------------------------------------------------------------------
(* How a load moves on *)

LEMMA IdleIsNoLoad == Idle \notin Load /\ \A l \in Load : l # Idle
BY DEF Idle, Load, LoadSteps

LEMMA GotoMoves ==
  ASSUME load \in Load, NEW step \in LoadSteps,
         NEW todo \in SUBSET (Sources \cup Controls), Goto(step, todo)
  PROVE /\ load' \in Load
        /\ load'.step = step /\ load'.todo = todo /\ load'.kept = load.kept
        /\ load'.resets = load.resets /\ load'.raced = load.raced
BY DEF Goto, Load

\* Each either moves on or has one thing less to do.
LEMMA EachMoves ==
  ASSUME load \in Load, NEW x \in load.todo, NEW step \in LoadSteps,
         NEW todo \in SUBSET (Sources \cup Controls), Each(x, step, todo)
  PROVE /\ load' \in Load
        /\ load'.kept = load.kept
        /\ load'.resets = load.resets /\ load'.raced = load.raced
        /\ \/ load.todo = {x} /\ load'.step = step /\ load'.todo = todo
           \/ load'.step = load.step /\ load'.todo = load.todo \ {x}
<1>1. CASE load.todo = {x}
  BY <1>1, GotoMoves DEF Each
<1>2. CASE load.todo # {x}
  <2>1. load.step \in LoadSteps /\ load.todo \ {x} \in SUBSET (Sources \cup Controls)
    BY DEF Load
  <2>2. Goto(load.step, load.todo \ {x})
    BY <1>2 DEF Each
  <2> QED BY <2>1, <2>2, GotoMoves
<1> QED BY <1>1, <1>2

LEMMA BeginStarts ==
  ASSUME NEW step \in LoadSteps, NEW kept \in Settings, Begin(step, kept)
  PROVE /\ load' \in Load
        /\ load'.step = step /\ load'.kept = kept
        /\ load'.resets = (step = "files")
        /\ load'.raced = (Active # {} \/ export # Idle)
<1>1. load' = [step |-> step, kept |-> kept, todo |-> {}, at |-> Absent,
               resets |-> step = "files", raced |-> Active # {} \/ export # Idle]
  BY DEF Begin
<1> QED BY <1>1 DEF Load

LEMMA OverlapNotes ==
  ASSUME load \in Load \cup {Idle}, Overlap
  PROVE /\ Loop => load' = load
        /\ ~Loop => /\ load' \in Load
                    /\ load'.step = load.step /\ load'.todo = load.todo
                    /\ load'.kept = load.kept /\ load'.at = load.at
                    /\ load'.resets = load.resets /\ load'.raced
BY DEF Overlap, Loop, Load

LEMMA BumpCounts ==
  ASSUME count \in Counts,
         NEW what \in {"runs", "edits", "loads", "exports", "deaths"}, Bump(what)
  PROVE count' \in Counts /\ count' # count
<1>1. count[what] + 1 # count[what] /\ count'[what] = count[what] + 1
  BY DEF Bump, Counts
<1>2. count' \in Counts
  BY DEF Bump, Counts
<1> QED BY <1>1, <1>2

LEMMA SystemTyped == Typed => SystemOf(project) \in Settings
BY DEF Typed, SystemOf, Project, NoSettings, Settings
LEMMA NewProject ==
  /\ NoSettings \in Settings
  /\ [named |-> TRUE, system |-> NoSettings] \in Project
  /\ \A p \in Project : p # Absent
<1>1. NoSettings \in Settings
  BY DEF NoSettings, Settings
<1>2. \A x \in Settings : [named |-> TRUE, system |-> x] \in Project
  BY DEF Project
<1>3. Absent \notin Project
  BY AbsentAssumption DEF Project, Settings
<1> QED BY <1>1, <1>2, <1>3
----------------------------------------------------------------------------
(* The invariant *)

LEMMA InitInv == Init => IInv
<1> SUFFICES ASSUME Init PROVE IInv
  OBVIOUS
<1>1. project \in Project \cup {Absent} /\ SystemOf(project) = NoSettings
  <2>1. project = Absent \/ project = [named |-> TRUE, system |-> NoSettings]
    BY DEF Init
  <2>2. CASE project = Absent
    BY <2>2 DEF SystemOf
  <2>3. CASE project = [named |-> TRUE, system |-> NoSettings]
    <3>1. project \in Project /\ project # Absent /\ project.system = NoSettings
      BY <2>3, NewProject
    <3> QED BY <3>1 DEF SystemOf
  <2> QED BY <2>1, <2>2, <2>3
<1>2. controls = [c \in Controls |-> controls[c]]
  <2>1. CASE controls = Nothing
    BY <2>1 DEF Nothing
  <2>2. CASE controls \in [Controls -> UNION {Graphs[c] : c \in Controls}]
    BY <2>2
  <2> QED BY <2>1, <2>2 DEF Init
<1>3. count \in Counts /\ chosen = NoSettings /\ NoSettings \in Settings /\ load = Idle
  BY DEF Init, Counts, NoSettings, Settings
<1> QED BY <1>1, <1>2, <1>3 DEF IInv, Typed, SettingsSafe, Progress, Clean, Loop

\* What runs, exports and time do not touch.
Untouched == UNCHANGED <<project, sources, columns, current, controls, bound, chosen>>

LEMMA NothingLoaded ==
  ASSUME IInv, Untouched, UNCHANGED <<load, files>>, count' \in Counts,
         Loop \/ load.raced \/ ~load.resets
           \/ UNCHANGED <<runs, papers, bundle, req, export>>
  PROVE IInv'
<1>1. Typed' /\ SettingsSafe'
  BY DEF IInv, Untouched, Typed, SettingsSafe, Loop, SystemOf
<1>2. Progress'
  BY DEF IInv, Untouched, Progress, Loop, Named, Ready, Stored
<1>3. Clean'
  BY DEF IInv, Untouched, Clean, Loop, Active
<1> QED BY <1>1, <1>2, <1>3 DEF IInv

\* A thread at work leaves the load alone, and it is known to overlap it.
LEMMA ThreadsKeep ==
  ASSUME IInv, Untouched, UNCHANGED <<files, load, count>>, Active # {} \/ export # Idle
  PROVE IInv'
<1>1. Loop \/ load.raced \/ ~load.resets
  <2>1. ~Loop => load.raced \in BOOLEAN /\ load.resets \in BOOLEAN
    BY DEF IInv, Typed, Loop, Load
  <2> QED BY <2>1 DEF IInv, Clean
<1> QED BY <1>1, NothingLoaded DEF IInv, Typed

\* A thread that starts is noted on the load.
LEMMA StartsKeep ==
  ASSUME IInv, Untouched, Overlap, UNCHANGED files, count' \in Counts
  PROVE IInv'
<1>1. load \in Load \cup {Idle}
  BY DEF IInv, Typed
<1>2. CASE Loop
  BY <1>1, <1>2, OverlapNotes, NothingLoaded
<1>3. CASE ~Loop
  <2>1. /\ load' \in Load
        /\ load'.step = load.step /\ load'.todo = load.todo
        /\ load'.kept = load.kept /\ load'.at = load.at
        /\ load'.resets = load.resets /\ load'.raced
    BY <1>1, <1>3, OverlapNotes
  <2>2. ~Loop'
    BY <2>1, IdleIsNoLoad DEF Loop
  <2>3. Typed' /\ SettingsSafe'
    BY <1>3, <2>1, <2>2 DEF IInv, Untouched, Typed, SettingsSafe, SystemOf
  <2>4. Progress'
    BY <1>3, <2>1, <2>2 DEF IInv, Untouched, Progress, Named, Ready, Stored
  <2>5. Clean'
    BY <2>1 DEF Clean
  <2> QED BY <2>3, <2>4, <2>5 DEF IInv
<1> QED BY <1>2, <1>3
----------------------------------------------------------------------------
(* Settings, setup and authoring: no load is at work *)

LEMMA ChooseKeeps ==
  ASSUME IInv, NEW k \in Keys, NEW v \in Values \cup {Unset}, Choose(k, v)
  PROVE IInv'
<1>1. SystemOf(project) = chosen /\ chosen \in Settings
  BY DEF IInv, Typed, SettingsSafe, Choose
<1>2. /\ project' = [named |-> Named, system |-> [chosen EXCEPT ![k] = v]]
      /\ chosen' = [chosen EXCEPT ![k] = v] /\ load' = Idle
  BY <1>1 DEF Choose, Loop
<1>3. Named \in BOOLEAN
  BY DEF IInv, Typed, Named, Project
<1>4. project' \in Project /\ SystemOf(project)' = chosen' /\ chosen' \in Settings
  <2>1. [chosen EXCEPT ![k] = v] \in Settings
    BY <1>1 DEF Settings
  <2>2. project' \in Project
    BY <1>2, <1>3, <2>1 DEF Project
  <2>3. project' # Absent
    BY <2>2, NewProject
  <2> QED BY <1>2, <2>1, <2>2, <2>3 DEF SystemOf
<1>5. count' \in Counts
  BY BumpCounts DEF Choose, IInv, Typed
<1>6. UNCHANGED <<controls>> /\ Typed'
  BY <1>2, <1>4, <1>5 DEF IInv, Typed, Choose
<1> QED BY <1>2, <1>4, <1>6 DEF IInv, SettingsSafe, Progress, Clean, Loop

LEMMA SetupKeeps == ASSUME IInv, Setup PROVE IInv'
<1>1. /\ project' = [named |-> TRUE, system |-> NoSettings]
      /\ chosen' = NoSettings /\ load' = Idle /\ UNCHANGED <<controls, count>>
  BY DEF Setup, Loop
<1>2. project' \in Project /\ project' # Absent /\ NoSettings \in Settings
  BY <1>1, NewProject
<1>3. SystemOf(project)' = chosen'
  BY <1>1, <1>2 DEF SystemOf
<1>4. Typed'
  BY <1>1, <1>2 DEF IInv, Typed
<1> QED BY <1>1, <1>3, <1>4 DEF IInv, SettingsSafe, Progress, Clean, Loop

\* Nothing but the tables of sources and controls changes.
LEMMA AuthoringKeeps ==
  ASSUME IInv, Loop, UNCHANGED <<project, chosen, load>>, count' \in Counts,
         controls' = [c \in Controls |-> controls'[c]]
  PROVE IInv'
<1>1. Typed'
  BY DEF IInv, Typed
<1> QED BY <1>1 DEF IInv, SettingsSafe, SystemOf, Progress, Clean, Loop

LEMMA UploadKeeps == ASSUME IInv, NEW s \in Sources, Upload(s) PROVE IInv'
<1>1. count' \in Counts
  BY BumpCounts DEF Upload, IInv, Typed
<1> QED BY <1>1, AuthoringKeeps DEF Upload, IInv, Typed

LEMMA AuthorKeeps ==
  ASSUME IInv, NEW c \in Controls, NEW g \in Graphs[c], Author(c, g)
  PROVE IInv'
<1>1. count' \in Counts
  BY BumpCounts DEF Author, IInv, Typed
<1>2. controls' = [d \in Controls |-> controls'[d]]
  BY DEF Author, IInv, Typed
<1> QED BY <1>1, <1>2, AuthoringKeeps DEF Author
----------------------------------------------------------------------------
(* Loads and resets *)

LEMMA LoadDemoKeeps == ASSUME IInv, LoadDemo PROVE IInv'
<1>1. /\ load' \in Load /\ load'.step = "project" /\ ~load'.resets
  BY NewProject, BeginStarts DEF LoadDemo, LoadSteps
<1>2. count' \in Counts
  BY BumpCounts DEF LoadDemo, IInv, Typed
<1>3. Typed'
  BY <1>1, <1>2 DEF LoadDemo, store, IInv, Typed
<1>4. SettingsSafe'
  BY <1>1, IdleIsNoLoad DEF LoadDemo, store, IInv, SettingsSafe, SystemOf, Loop
<1> QED BY <1>1, <1>3, <1>4 DEF IInv, Progress, Clean

LEMMA ResetKeeps == ASSUME IInv, Reset PROVE IInv'
<1>1. SystemOf(project) = chosen /\ chosen \in Settings
  BY DEF IInv, Typed, SettingsSafe, Reset
<1>2. /\ load' \in Load /\ load'.step = "files" /\ load'.resets
      /\ load'.kept = chosen /\ load'.raced = (Active # {} \/ export # Idle)
  BY <1>1, BeginStarts DEF Reset, LoadSteps
<1>3. count' \in Counts
  BY BumpCounts DEF Reset, IInv, Typed
<1>4. Typed'
  BY <1>2, <1>3 DEF Reset, IInv, Typed, Nothing
<1>5. SettingsSafe' /\ Progress'
  BY <1>2, IdleIsNoLoad DEF Reset, SettingsSafe, Progress, Loop
<1>6. Clean'
  <2>1. Active = {} => Active' = {}
    BY DEF Reset, Active, Idle
  <2>2. runs' = <<>> /\ sources' = {} /\ columns' = {} /\ current' = {} /\ bound' = {}
        /\ export' = export
        /\ \A c \in Controls : controls'[c] = Absent
    BY DEF Reset, Nothing
  <2> QED BY <1>2, <2>1, <2>2 DEF Clean
<1> QED BY <1>4, <1>5, <1>6 DEF IInv

LEMMA ClearFileKeeps == ASSUME IInv, NEW s \in Sources, ClearFile(s) PROVE IInv'
<1>1. load.step = "files" /\ UNCHANGED <<load, project, chosen, sources, columns, current,
                                        controls, bound, runs, req, export, count>>
  BY DEF ClearFile, Loading, store
<1> QED BY <1>1 DEF IInv, Typed, SettingsSafe, Progress, Clean, SystemOf, Loop, Named, Ready, Stored, Active

LEMMA LoadAtWork ==
  ASSUME IInv, NEW step, Loading(step)
  PROVE load \in Load /\ ~Loop /\ load.step = step
BY IdleIsNoLoad DEF IInv, Typed, Loading, Loop

LEMMA ClearTargetKeeps == ASSUME IInv, ClearTarget PROVE IInv'
<1>1. load \in Load /\ ~Loop /\ load.step = "files"
  BY LoadAtWork DEF ClearTarget
<1>2. /\ load' \in Load /\ load'.step = "project" /\ load'.kept = load.kept
      /\ load'.resets = load.resets /\ load'.raced = load.raced
  BY <1>1, GotoMoves DEF ClearTarget, LoadSteps
<1>3. papers' = Nothing /\ bundle' = Absent /\ files' = {}
      /\ UNCHANGED <<project, chosen, sources, columns, current, controls, bound, runs, req,
                     export, count>>
  BY DEF ClearTarget, Stale, store
<1>4. Typed'
  BY <1>2, <1>3 DEF IInv, Typed
<1>5. ~Loop'
  BY <1>2, IdleIsNoLoad DEF Loop
<1>6. SettingsSafe' /\ Progress'
  BY <1>1, <1>2, <1>3, <1>5 DEF IInv, SettingsSafe, Progress
<1>7. Clean'
  BY <1>1, <1>2, <1>3 DEF IInv, Clean, Active
<1> QED BY <1>4, <1>6, <1>7 DEF IInv

LEMMA ImportProjectKeeps == ASSUME IInv, ImportProject PROVE IInv'
<1>1. load \in Load /\ ~Loop /\ load.step = "project"
  BY LoadAtWork DEF ImportProject
<1>2. /\ load' \in Load /\ load'.step = "sources" /\ load'.todo = DemoSources
      /\ load'.kept = load.kept
      /\ load'.resets = load.resets /\ load'.raced = load.raced
  BY <1>1, GotoMoves, DemoAssumption DEF ImportProject, LoadSteps
<1>3. /\ project' = [named |-> TRUE, system |-> NoSettings]
      /\ chosen' = IF load.resets THEN chosen ELSE NoSettings
      /\ UNCHANGED <<sources, columns, current, controls, bound, files, runs, papers, bundle, req,
                     export, count>>
  BY DEF ImportProject, disk
<1>4. project' \in Project /\ project' # Absent /\ NoSettings \in Settings
  BY <1>3, NewProject
<1>5. Typed'
  BY <1>2, <1>3, <1>4 DEF IInv, Typed
<1>6. ~Loop'
  BY <1>2, IdleIsNoLoad DEF Loop
<1>7. SettingsSafe'
  BY <1>1, <1>2, <1>3, <1>4, <1>6 DEF IInv, SettingsSafe, SystemOf
<1>8. Progress'
  BY <1>2, <1>3, <1>4 DEF Progress, Named
<1>9. Clean'
  BY <1>1, <1>2, <1>3 DEF IInv, Clean, Active
<1> QED BY <1>5, <1>7, <1>8, <1>9 DEF IInv

LEMMA ImportSourceKeeps == ASSUME IInv, NEW s \in Sources, ImportSource(s) PROVE IInv'
<1>1. load \in Load /\ ~Loop /\ load.step = "sources" /\ s \in load.todo
  BY LoadAtWork DEF ImportSource
<1>2. /\ load' \in Load /\ load'.step = "columns" /\ load'.at = s /\ load'.todo = load.todo
      /\ load'.kept = load.kept
      /\ load'.resets = load.resets /\ load'.raced = load.raced
  BY <1>1 DEF ImportSource, Load, LoadSteps
<1>3. /\ sources' = sources \cup {s}
      /\ UNCHANGED <<project, chosen, columns, current, controls, bound, files, runs, papers, bundle,
                     req, export, count>>
  BY DEF ImportSource, disk
<1>4. s \in DemoSources
  BY <1>1 DEF IInv, Progress
<1>5. Typed'
  BY <1>2, <1>3 DEF IInv, Typed
<1>6. ~Loop'
  BY <1>2, IdleIsNoLoad DEF Loop
<1>7. SettingsSafe'
  BY <1>1, <1>2, <1>3, <1>6 DEF IInv, SettingsSafe, SystemOf
<1>8. Progress'
  BY <1>1, <1>2, <1>3 DEF IInv, Progress, Named, Stored
<1>9. Clean'
  BY <1>1, <1>2, <1>3, <1>4 DEF IInv, Clean, Active
<1> QED BY <1>5, <1>7, <1>8, <1>9 DEF IInv

LEMMA ImportColumnsKeeps == ASSUME IInv, ImportColumns PROVE IInv'
<1>1. load \in Load /\ ~Loop /\ load.step = "columns"
  BY LoadAtWork DEF ImportColumns
<1>2. load.at \in load.todo \cap sources /\ load.todo \subseteq DemoSources
  BY <1>1 DEF IInv, Progress
<1>3. /\ load' \in Load /\ load'.step = "initial" /\ load'.at = load.at /\ load'.todo = load.todo
      /\ load'.kept = load.kept
      /\ load'.resets = load.resets /\ load'.raced = load.raced
  BY <1>1 DEF ImportColumns, Goto, Load, LoadSteps
<1>4. /\ columns' = columns \cup {load.at}
      /\ UNCHANGED <<project, chosen, sources, current, controls, bound, files, runs, papers, bundle,
                     req, export, count>>
  BY DEF ImportColumns, disk
<1>5. Typed'
  BY <1>3, <1>4 DEF IInv, Typed
<1>6. ~Loop'
  BY <1>3, IdleIsNoLoad DEF Loop
<1>7. SettingsSafe'
  BY <1>1, <1>3, <1>4, <1>6 DEF IInv, SettingsSafe, SystemOf
<1>8. Progress'
  BY <1>1, <1>2, <1>3, <1>4 DEF IInv, Progress, Named, Stored
<1>9. Clean'
  BY <1>1, <1>2, <1>3, <1>4 DEF IInv, Clean, Active
<1> QED BY <1>5, <1>7, <1>8, <1>9 DEF IInv

LEMMA ImportFileKeeps == ASSUME IInv, ImportFile PROVE IInv'
<1>1. load \in Load /\ ~Loop /\ load.step = "initial"
  BY LoadAtWork DEF ImportFile
<1>2. /\ load.at \in load.todo \cap sources /\ load.at \in columns
      /\ load.todo \subseteq DemoSources /\ DemoSources \ load.todo \subseteq Stored
  BY <1>1 DEF IInv, Progress
<1>3. /\ load' \in Load /\ load'.kept = load.kept
      /\ load'.resets = load.resets /\ load'.raced = load.raced
      /\ \/ load.todo = {load.at} /\ load'.step = "controls" /\ load'.todo = Demo
         \/ load'.step = "sources" /\ load'.todo = load.todo \ {load.at}
  <2>1. CASE load.todo = {load.at}
    BY <1>1, <2>1, GotoMoves, DemoAssumption DEF ImportFile, LoadSteps
  <2>2. CASE load.todo # {load.at}
    <3>1. load.todo \ {load.at} \in SUBSET (Sources \cup Controls) /\ "sources" \in LoadSteps
      BY <1>1 DEF Load, LoadSteps
    <3>2. Goto("sources", load.todo \ {load.at})
      BY <2>2 DEF ImportFile
    <3> QED BY <1>1, <3>1, <3>2, GotoMoves
  <2> QED BY <2>1, <2>2
<1>4. /\ current' = current \cup {load.at}
      /\ UNCHANGED <<project, chosen, sources, columns, controls, bound, files, runs, papers, bundle,
                     req, export, count>>
  BY DEF ImportFile, disk
<1>5. Typed'
  BY <1>3, <1>4 DEF IInv, Typed
<1>6. ~Loop'
  BY <1>3, IdleIsNoLoad DEF Loop
<1>7. SettingsSafe'
  BY <1>1, <1>3, <1>4, <1>6 DEF IInv, SettingsSafe, SystemOf
<1>8. Progress'
  <2>1. CASE load.todo = {load.at} /\ load'.step = "controls" /\ load'.todo = Demo
    <3>1. DemoSources \subseteq Stored'
      BY <1>2, <1>4, <2>1 DEF Stored
    <3> QED BY <1>1, <1>4, <2>1, <3>1 DEF IInv, Progress, Named
  <2>2. CASE load'.step = "sources" /\ load'.todo = load.todo \ {load.at}
    <3>1. DemoSources \ load'.todo \subseteq Stored'
      BY <1>2, <1>4, <2>2 DEF Stored
    <3> QED BY <1>1, <1>2, <1>4, <2>2, <3>1 DEF IInv, Progress, Named
  <2> QED BY <1>3, <2>1, <2>2
<1>9. Clean'
  BY <1>1, <1>2, <1>3, <1>4 DEF IInv, Clean, Active
<1> QED BY <1>5, <1>7, <1>8, <1>9 DEF IInv

LEMMA ImportControlKeeps == ASSUME IInv, NEW c \in Controls, ImportControl(c) PROVE IInv'
<1>1. load \in Load /\ ~Loop /\ load.step = "controls" /\ c \in load.todo
  BY LoadAtWork DEF ImportControl
<1>2. /\ load' \in Load /\ load'.step = "bind" /\ load'.at = c /\ load'.todo = load.todo
      /\ load'.kept = load.kept
      /\ load'.resets = load.resets /\ load'.raced = load.raced
  BY <1>1 DEF ImportControl, Load, LoadSteps
<1>3. /\ controls' = [controls EXCEPT ![c] = DemoGraph[c]]
      /\ UNCHANGED <<project, chosen, sources, columns, current, bound, files, runs, papers, bundle, req,
                     export, count>>
  BY DEF ImportControl, disk
<1>4. /\ controls' = [d \in Controls |-> controls'[d]]
      /\ controls'[c] = DemoGraph[c]
      /\ \A d \in Controls \ {c} : controls'[d] = controls[d]
  BY <1>3 DEF IInv, Typed
<1>5. Typed'
  BY <1>2, <1>3, <1>4 DEF IInv, Typed
<1>6. ~Loop'
  BY <1>2, IdleIsNoLoad DEF Loop
<1>7. SettingsSafe'
  BY <1>1, <1>2, <1>3, <1>6 DEF IInv, SettingsSafe, SystemOf
<1>8. Demo \subseteq Controls /\ c \in Demo
  BY <1>1, DemoAssumption DEF IInv, Progress
<1>9. Progress'
  BY <1>1, <1>2, <1>3, <1>4, <1>8 DEF IInv, Progress, Named, Ready, Stored
<1>10. Clean'
  BY <1>1, <1>2, <1>3, <1>4, <1>8 DEF IInv, Clean, Active
<1> QED BY <1>5, <1>7, <1>9, <1>10 DEF IInv

LEMMA BindKeeps == ASSUME IInv, Bind PROVE IInv'
<1>1. load \in Load /\ ~Loop /\ load.step = "bind"
  BY LoadAtWork DEF Bind
<1>2. load.at \in load.todo /\ load.todo \subseteq Demo /\ Demo \subseteq Controls
  BY <1>1, DemoAssumption DEF IInv, Progress
<1>3. /\ load' \in Load /\ load'.kept = load.kept
      /\ load'.resets = load.resets /\ load'.raced = load.raced
      /\ \/ load.todo = {load.at} /\ load'.step = "copy" /\ load'.todo = DemoSources
         \/ load'.step = "controls" /\ load'.todo = load.todo \ {load.at}
  <2>1. CASE load.todo = {load.at}
    BY <1>1, <2>1, GotoMoves, DemoAssumption DEF Bind, LoadSteps
  <2>2. CASE load.todo # {load.at}
    <3>1. load.todo \ {load.at} \in SUBSET (Sources \cup Controls) /\ "controls" \in LoadSteps
      BY <1>2 DEF LoadSteps
    <3>2. Goto("controls", load.todo \ {load.at})
      BY <2>2 DEF Bind
    <3> QED BY <1>1, <3>1, <3>2, GotoMoves
  <2> QED BY <2>1, <2>2
<1>4. /\ bound' = bound \cup {load.at}
      /\ UNCHANGED <<project, chosen, sources, columns, current, controls, files, runs, papers, bundle, req,
                     export, count>>
  BY DEF Bind, disk
<1>5. Typed'
  BY <1>3, <1>4 DEF IInv, Typed
<1>6. ~Loop'
  BY <1>3, IdleIsNoLoad DEF Loop
<1>7. SettingsSafe'
  BY <1>1, <1>3, <1>4, <1>6 DEF IInv, SettingsSafe, SystemOf
<1>8. Progress'
  BY <1>1, <1>2, <1>3, <1>4 DEF IInv, Progress, Named, Ready, Stored
<1>9. Clean'
  BY <1>1, <1>2, <1>3, <1>4 DEF IInv, Clean, Active
<1> QED BY <1>5, <1>7, <1>8, <1>9 DEF IInv

LEMMA CopyKeeps == ASSUME IInv, NEW s \in Sources, Copy(s) PROVE IInv'
<1>1. load \in Load /\ ~Loop /\ load.step = "copy" /\ s \in load.todo
  BY LoadAtWork DEF Copy
<1>2. /\ load' \in Load /\ load'.kept = load.kept
      /\ load'.resets = load.resets /\ load'.raced = load.raced
      /\ \/ load.todo = {s} /\ load'.step = "restore" /\ load'.todo = {}
         \/ load'.step = "copy" /\ load'.todo = load.todo \ {s}
  BY <1>1, EachMoves DEF Copy, LoadSteps
<1>3. /\ files' = files \cup {s}
      /\ UNCHANGED <<project, chosen, sources, columns, current, controls, bound, runs, papers, bundle, req,
                     export, count>>
  BY DEF Copy, store
<1>4. Typed'
  BY <1>2, <1>3 DEF IInv, Typed
<1>5. ~Loop'
  BY <1>2, IdleIsNoLoad DEF Loop
<1>6. SettingsSafe'
  BY <1>1, <1>2, <1>3, <1>5 DEF IInv, SettingsSafe, SystemOf
<1>7. Progress'
  BY <1>1, <1>2, <1>3 DEF IInv, Progress, Named, Ready, Stored
<1>8. Clean'
  BY <1>1, <1>2, <1>3 DEF IInv, Clean, Active, Progress
<1> QED BY <1>4, <1>6, <1>7, <1>8 DEF IInv

\* The end of a load: what a reset read is put back over no settings at all.
LEMMA FinishLoadKeeps == ASSUME IInv, FinishLoad PROVE IInv'
<1>1. load \in Load /\ ~Loop /\ load.step = "restore"
  BY LoadAtWork DEF FinishLoad
<1>2. load' = Idle /\ UNCHANGED <<chosen, controls, count>>
  BY DEF FinishLoad
<1>3. project \in Project /\ project # Absent /\ project.system \in Settings
  BY <1>1, NewProject DEF IInv, Typed, SettingsSafe, Progress, Named, Project
<1>4. CASE load.resets
  <2>1. load.kept = chosen /\ chosen \in Settings /\ project.system = NoSettings
    BY <1>1, <1>4 DEF IInv, SettingsSafe, Typed
  <2>2. Restored(project.system, load.kept) = chosen
    BY <2>1 DEF Restored, NoSettings, Settings
  <2>3. project' = [project EXCEPT !.system = chosen]
    BY <1>4, <2>2 DEF FinishLoad
  <2>4. project' \in Project /\ project'.system = chosen
    BY <1>3, <2>1, <2>3 DEF Project
  <2>5. SystemOf(project)' = chosen'
    BY <1>2, <2>4, NewProject DEF SystemOf
  <2>6. Typed'
    BY <1>2, <2>4 DEF IInv, Typed
  <2> QED BY <1>2, <2>5, <2>6 DEF IInv, SettingsSafe, Progress, Clean, Loop
<1>5. CASE ~load.resets
  <2>1. UNCHANGED project
    BY <1>5 DEF FinishLoad
  <2>2. Typed' /\ SystemOf(project)' = chosen'
    BY <1>1, <1>2, <1>5, <2>1 DEF IInv, Typed, SettingsSafe
  <2> QED BY <1>2, <2>2 DEF IInv, SettingsSafe, Progress, Clean, Loop
<1> QED BY <1>4, <1>5

LEMMA DieKeeps == ASSUME IInv, Die PROVE IInv'
<1>1. load' = Idle /\ UNCHANGED <<project, controls>>
      /\ chosen' = IF ~Loop /\ load.resets THEN SystemOf(project) ELSE chosen
  BY DEF Die, store
<1>2. count' \in Counts
  BY BumpCounts DEF Die, IInv, Typed
<1>3. SystemOf(project)' = chosen'
  BY <1>1 DEF IInv, SettingsSafe, SystemOf
<1>4. Typed'
  BY <1>1, <1>2, SystemTyped DEF IInv, Typed
<1> QED BY <1>1, <1>3, <1>4 DEF IInv, SettingsSafe, Progress, Clean, Loop
----------------------------------------------------------------------------
(* Runs and exports *)

LEMMA RunKeeps ==
  ASSUME IInv, NEW r \in Requests,
         RunProc(r) \/ RunFails(r) \/ OpenPaper(r) \/ WritePaper(r) \/ Aggregate(r)
  PROVE IInv'
<1>1. req[r].step \in {"proc", "paper", "write", "aggregate"}
  BY DEF RunProc, RunFails, OpenPaper, WritePaper, Aggregate
<1>2. Active # {}
  BY <1>1 DEF Active, Idle
<1>3. Untouched /\ UNCHANGED <<files, load, count>>
  BY DEF RunProc, RunFails, OpenPaper, WritePaper, Aggregate, Untouched, store, disk
<1> QED BY <1>2, <1>3, ThreadsKeep

\* The steps of an export that have begun one.
Exports == ReadRuns \/ NoRuns \/ ReadInfo \/ OpenBundle \/ CopyWorkpapers \/ CloseBundle \/ ExportFails

LEMMA ExportKeeps == ASSUME IInv, Exports PROVE IInv'
<1>1. export # Idle
  BY DEF Exports, ReadRuns, NoRuns, ReadInfo, OpenBundle, CopyWorkpapers, CloseBundle,
         ExportFails, Exporting
<1>2. Untouched /\ UNCHANGED <<files, load, count>>
  BY DEF Exports, ReadRuns, NoRuns, ReadInfo, OpenBundle, CopyWorkpapers, CloseBundle,
         ExportFails, Untouched, store, disk
<1> QED BY <1>1, <1>2, ThreadsKeep

LEMMA StartRunKeeps ==
  ASSUME IInv, NEW r \in Requests, NEW c \in Controls, StartRun(r, c)
  PROVE IInv'
<1>1. count' \in Counts
  BY BumpCounts DEF StartRun, IInv, Typed
<1> QED BY <1>1, StartsKeep DEF StartRun, Untouched, store, disk

LEMMA StartExportKeeps == ASSUME IInv, StartExport PROVE IInv'
<1>1. count' \in Counts
  BY BumpCounts DEF StartExport, IInv, Typed
<1> QED BY <1>1, StartsKeep DEF StartExport, Untouched, store, disk
----------------------------------------------------------------------------
(* The theorems *)

LEMMA NextKeeps == IInv /\ [Next]_vars => IInv'
<1> SUFFICES ASSUME IInv, [Next]_vars PROVE IInv'
  OBVIOUS
<1>1. ASSUME NEW k \in Keys, NEW v \in Values \cup {Unset}, Choose(k, v) PROVE IInv'
  BY <1>1, ChooseKeeps
<1>2. CASE Setup \/ LoadDemo \/ Reset
  BY <1>2, SetupKeeps, LoadDemoKeeps, ResetKeeps
<1>3. ASSUME NEW s \in Sources, Upload(s) \/ ClearFile(s) \/ ImportSource(s) \/ Copy(s)
      PROVE IInv'
  BY <1>3, UploadKeeps, ClearFileKeeps, ImportSourceKeeps, CopyKeeps
<1>4. ASSUME NEW c \in Controls, NEW g \in Graphs[c], Author(c, g) PROVE IInv'
  BY <1>4, AuthorKeeps
<1>5. ASSUME NEW c \in Controls, ImportControl(c) PROVE IInv'
  BY <1>5, ImportControlKeeps
<1>6. CASE ClearTarget \/ ImportProject \/ ImportColumns \/ ImportFile \/ Bind \/ FinishLoad
  BY <1>6, ClearTargetKeeps, ImportProjectKeeps, ImportColumnsKeeps, ImportFileKeeps, BindKeeps,
     FinishLoadKeeps
<1>7. ASSUME NEW r \in Requests, NEW c \in Controls, StartRun(r, c) PROVE IInv'
  BY <1>7, StartRunKeeps
<1>8. ASSUME NEW r \in Requests,
             RunProc(r) \/ RunFails(r) \/ OpenPaper(r) \/ WritePaper(r) \/ Aggregate(r) PROVE IInv'
  BY <1>8, RunKeeps
<1>9. CASE StartExport
  BY <1>9, StartExportKeeps
<1>10. CASE Exports
  BY <1>10, ExportKeeps
<1>11. CASE Die
  BY <1>11, DieKeeps
<1>12. CASE UNCHANGED vars
  <2>1. Untouched /\ UNCHANGED <<load, files, count, runs, papers, bundle, req, export>>
    BY <1>12 DEF vars, store, disk, Untouched
  <2> QED BY <2>1, NothingLoaded DEF IInv, Typed
<1> QED
  BY <1>1, <1>2, <1>3, <1>4, <1>5, <1>6, <1>7, <1>8, <1>9, <1>10, <1>11, <1>12
     DEF Next, Exports

LEMMA Invariant == Spec => []IInv
<1> QED BY InitInv, NextKeeps, PTL DEF Spec

\* Whenever no load is under way, the project has the settings last chosen:
\* every reset that came to its end has put back what it read, whatever ran or
\* was exported meanwhile and however often the process died.
THEOREM SettingsSurvive == Spec => []SettingsKept
<1>1. IInv => SettingsKept
  BY DEF IInv, SettingsSafe, SettingsKept
<1> QED BY <1>1, Invariant, PTL

LEMMA GotoStays ==
  ASSUME load \in Load, NEW step, step # "idle", NEW todo, Goto(step, todo)
  PROVE ~Loop'
<1>1. load'.step = step
  BY DEF Goto, Load
<1> QED BY <1>1 DEF Loop, Idle

LEMMA EachStays ==
  ASSUME load \in Load, NEW x, NEW step, step # "idle", NEW todo, Each(x, step, todo)
  PROVE ~Loop'
<1>1. load.step # "idle"
  BY DEF Load, LoadSteps
<1> QED BY <1>1, GotoStays DEF Each

\* Only its last step ends a load, unless the process dies.
LEMMA LoadsEndDone ==
  ASSUME IInv, Next, ~Loop, Loop', count' = count
  PROVE FinishLoad
<1>1. count \in Counts /\ load \in Load
  BY DEF IInv, Typed, Loop
<1>2. ~Die
  BY <1>1, BumpCounts DEF Die
<1>3. /\ ~ClearTarget /\ ~ImportProject /\ ~ImportColumns /\ ~ImportFile /\ ~Bind
      /\ \A s \in Sources : ~Copy(s)
  BY <1>1, GotoStays, EachStays DEF ClearTarget, ImportProject, ImportColumns, ImportFile, Bind, Copy
<1>4. /\ \A c \in Controls : ~ImportControl(c)
      /\ \A s \in Sources : ~ImportSource(s)
  <2>1. ASSUME NEW c \in Controls, ImportControl(c) PROVE FALSE
    <3>1. load'.step = "bind"
      BY <1>1, <2>1 DEF ImportControl, Load
    <3> QED BY <3>1 DEF Loop, Idle
  <2>2. ASSUME NEW s \in Sources, ImportSource(s) PROVE FALSE
    <3>1. load'.step = "columns"
      BY <1>1, <2>2 DEF ImportSource, Load
    <3> QED BY <3>1 DEF Loop, Idle
  <2> QED BY <2>1, <2>2
<1>5. /\ ~StartExport
      /\ \A r \in Requests, c \in Controls : ~StartRun(r, c)
  BY <1>1, OverlapNotes, IdleIsNoLoad DEF StartExport, StartRun, Loop
<1>6. /\ \A s \in Sources : ~Upload(s) /\ ~ClearFile(s)
      /\ \A k \in Keys, v \in Values \cup {Unset} : ~Choose(k, v)
      /\ \A c \in Controls : \A g \in Graphs[c] : ~Author(c, g)
      /\ ~Setup /\ ~LoadDemo /\ ~Reset
  BY DEF Upload, ClearFile, Choose, Author, Setup, LoadDemo, Reset, Loop
<1>7. /\ \A r \in Requests : ~RunProc(r) /\ ~RunFails(r) /\ ~OpenPaper(r) /\ ~WritePaper(r)
                                /\ ~Aggregate(r)
      /\ ~Exports
  BY DEF RunProc, RunFails, OpenPaper, WritePaper, Aggregate, Exports, ReadRuns, NoRuns, ReadInfo,
         OpenBundle, CopyWorkpapers, CloseBundle, ExportFails, Loop
<1> QED BY <1>2, <1>3, <1>4, <1>5, <1>6, <1>7 DEF Next, Exports

\* A load that comes to its end leaves the whole demo; a reset that nothing
\* overlapped leaves nothing else, from whatever state it was started in.
THEOREM ResetLeavesTheDemo == Spec => ResetRestores
<1>1. ASSUME IInv, [Next]_vars, ~Loop, Loop', count' = count
      PROVE DemoLoaded' /\ (load.resets /\ ~load.raced => OnlyDemo')
  <2>1. FinishLoad
    BY <1>1, LoadsEndDone DEF vars, Loop
  <2>2. load \in Load /\ load.step = "restore"
    BY <2>1, <1>1, LoadAtWork DEF FinishLoad
  <2>3. UNCHANGED <<sources, columns, current, controls, bound, files, runs, papers, bundle>>
    BY <2>1 DEF FinishLoad, disk
  <2>4. Named'
    <3>1. project \in Project /\ project.named
      BY <1>1, <2>2, NewProject DEF IInv, Typed, Progress, Named
    <3>2. project'.named /\ project' \in Project
      <4>1. load.kept \in Settings /\ project.system \in Settings
        BY <2>2, <3>1 DEF Load, Project
      <4>2. Restored(project.system, load.kept) \in Settings
        BY <4>1 DEF Restored, Settings
      <4> QED BY <2>1, <3>1, <4>2 DEF FinishLoad, Project
    <3> QED BY <3>2, NewProject DEF Named
  <2>5. DemoLoaded'
    BY <1>1, <2>2, <2>3, <2>4 DEF IInv, Progress, Ready, Stored, DemoLoaded
  <2>6. ASSUME load.resets, ~load.raced PROVE OnlyDemo'
    BY <1>1, <2>2, <2>3, <2>5, <2>6 DEF IInv, Clean, OnlyDemo, DemoLoaded
  <2> QED BY <2>5, <2>6
<1> QED BY <1>1, Invariant, PTL DEF Spec, ResetRestores
----------------------------------------------------------------------------
(* What a bundle is current by: the rows, the runs under way, the runs that are
   complete, and what an export has read *)

Procs == {Whole} \cup UNION {UNION {Range(g) : g \in Graphs[c]} : c \in Controls}
Row == [control : Controls, proc : Procs, at : 1..MaxRuns]

\* The rows are of the times that runs have begun at.
RowsTimed ==
  /\ runs \in Seq(Row) /\ count.runs \in 0..MaxRuns
  /\ \A i \in DOMAIN runs : runs[i].at <= count.runs

\* The rows of one time are those of the run that began then.
RowsOnly(at, c, procs) ==
  \A i \in DOMAIN runs : runs[i].at = at => runs[i].control = c /\ runs[i].proc \in procs
\* The run at time at has stored the row of the procedure.
HasRow(c, p, at) == \E i \in DOMAIN runs : runs[i] = [control |-> c, proc |-> p, at |-> at]

\* A run under way.
Under(q) ==
  /\ DOMAIN q = {"step", "control", "at", "graph", "n", "torn", "alone"}
  /\ q.step \in {"proc", "paper", "write", "aggregate"} /\ q.control \in Controls
  /\ q.at \in 1..count.runs /\ q.graph \in Graphs[q.control]
  /\ q.n \in 1..Len(q.graph) /\ q.torn \in BOOLEAN
  /\ q.step = "aggregate" => Len(q.graph) > 1
  /\ RowsOnly(q.at, q.control, Range(q.graph))
  /\ ~q.torn => /\ controls[q.control] # Absent
                /\ \A i \in 1..Len(q.graph) : (q.step = "proc" => i < q.n)
                     => HasRow(q.control, q.graph[i], q.at)
RunsKnown ==
  /\ DOMAIN req = Requests
  /\ \A r \in Active : Under(req[r])
  /\ \A r, s \in Active : req[r].at = req[s].at => r = s

\* A run that completed: its rows are there, and no other run is of its time.
Complete(c) ==
  LET d == done[c]
      procs == IF Len(d.graph) > 1 THEN Range(d.graph) \cup {Whole} ELSE Range(d.graph)
  IN /\ d.at \in 1..count.runs /\ d.graph \in Graphs[c] /\ controls[c] # Absent
     /\ \A i \in 1..Len(d.graph) : HasRow(c, d.graph[i], d.at)
     /\ RowsOnly(d.at, c, procs)
     /\ \A r \in Active : req[r].at # d.at
DoneKnown == /\ DOMAIN done = Controls
             /\ \A c \in Controls : done[c] # Absent => Complete(c)

\* A control has one of its graphs.
Authored == \A c \in Controls : controls[c] \in Graphs[c] \cup {Absent}

Ascending(rows) == \A i, j \in DOMAIN rows : i <= j => rows[i].at <= rows[j].at
\* What an export has read.
Listing(c, rows) ==
  /\ rows \in Seq(Row) /\ Ascending(rows)
  /\ \A i \in DOMAIN rows : rows[i].control = c
InfoOf(g) == IF g # Absent /\ Len(g) > 1 THEN g ELSE Absent
\* It is still what the rows say that there were when it began.
Fresh(began) ==
  /\ began.rows <= Len(runs)
  /\ \A c \in DOMAIN export.rows \cup Range(export.todo) : controls[c] # Absent
  /\ \A c \in DOMAIN export.rows :
       /\ \A i \in DOMAIN export.rows[c] : \E j \in DOMAIN runs : runs[j] = export.rows[c][i]
       /\ \A j \in 1..began.rows : runs[j].control = c =>
            \E i \in DOMAIN export.rows[c] : export.rows[c][i] = runs[j]
  /\ export.step # "rows" /\ began.loop /\ began.edits = count.edits =>
       \A c \in DOMAIN export.rows : export.info[c] = InfoOf(controls[c])
\* No load has begun since an export that began while none was under way.
ExportKnown ==
  export # Idle =>
    LET began == export.began IN
    /\ export.step \in {"rows", "write", "workpapers", "evidence"}
    /\ DOMAIN export = {"step", "todo", "rows", "info", "workpapers", "began"}
    /\ export.todo \in Seq(Controls) /\ DOMAIN export.rows \subseteq Controls
    /\ began.rows \in Nat /\ began.edits \in 0..count.edits /\ began.loads \in 0..count.loads
    /\ \A c \in DOMAIN export.rows : Listing(c, export.rows[c])
    /\ export.step # "rows" => \A c \in Controls : export.info[c] \in Graphs[c] \cup {Absent}
    /\ began.loads = count.loads => Fresh(began) /\ (began.loop => Loop)

Known == RowsTimed /\ RunsKnown /\ DoneKnown
BundleInv == Known /\ Authored /\ ExportKnown
----------------------------------------------------------------------------
(* The rows of a control, oldest first and newest *)

Later == {x \in Row \X Row : x[2].at <= x[1].at}
Earlier == {x \in Row \X Row : x[1].at <= x[2].at}

\* What an export reads of a control: its rows, oldest first.
LEMMA ChronologicalIs ==
  ASSUME RowsTimed, NEW c
  PROVE  /\ Listing(c, Chronological(c))
         /\ Range(Chronological(c)) = {row \in Range(runs) : row.control = c}
<1> DEFINE mine == {row \in Range(runs) : row.control = c}
           rows == RowsOf(c)
           At(t) == Only(rows, {row \in Range(rows) : row.at = t})
           lists == [i \in 1..MaxRuns |-> At(MaxRuns + 1 - i)]
           newest == FlattenSeq(lists)
<1>0. MaxRuns \in Nat /\ runs \in Seq(Row)
  BY BoundAssumption DEF RowsTimed
<1>1. rows \in Seq(Row) /\ Range(rows) = mine
  <2>1. rows \in Seq(Row) /\ Range(rows) = Range(runs) \cap mine
    BY <1>0, OnlyRange DEF RowsOf
  <2>2. Range(runs) \cap mine = mine
    OBVIOUS
  <2> QED
    BY <2>1, <2>2
<1>2. \A row \in mine : row \in Row /\ row.at \in 1..MaxRuns /\ row.control = c
  <2>1. \A row \in Range(runs) : row \in Row
    BY <1>0 DEF Range
  <2>2. \A row \in Row : row.at \in 1..MaxRuns
    BY DEF Row
  <2> QED
    BY <2>1, <2>2
<1>3. Chronological(c) = Reverse(newest)
  BY DEF Chronological, Newest
<1> HIDE DEF mine, rows
<1>4. \A t : At(t) \in Seq(Row) /\ Range(At(t)) = {row \in mine : row.at = t}
  <2> TAKE t
  <2> DEFINE P == {row \in Range(rows) : row.at = t}
  <2>1. Range(rows) \cap P = {row \in mine : row.at = t}
    BY <1>1
  <2> HIDE DEF P
  <2>2. Only(rows, P) \in Seq(Row) /\ Range(Only(rows, P)) = Range(rows) \cap P
    BY <1>1, OnlyRange
  <2> QED
    BY <2>1, <2>2 DEF P
<1> HIDE DEF At
<1>5. /\ lists \in Seq(Seq(Row)) /\ DOMAIN lists = 1..MaxRuns
      /\ \A i \in 1..MaxRuns : /\ lists[i] \in Seq(Row)
                               /\ Range(lists[i]) = {row \in mine : row.at = MaxRuns + 1 - i}
  BY <1>0, <1>4
<1> HIDE DEF lists
<1>6. newest \in Seq(Row) /\ Range(newest) = UNION {Range(lists[i]) : i \in DOMAIN lists}
  BY <1>5, FlattenRange
<1>7. UNION {Range(lists[i]) : i \in DOMAIN lists} = mine
  <2>1. \A row \in mine : MaxRuns + 1 - row.at \in 1..MaxRuns
                            /\ row.at = MaxRuns + 1 - (MaxRuns + 1 - row.at)
    BY <1>0, <1>2
  <2>2. \A row \in mine : row \in Range(lists[MaxRuns + 1 - row.at])
    BY <1>5, <2>1
  <2>3. \A i \in 1..MaxRuns : Range(lists[i]) \subseteq mine
    BY <1>5
  <2> QED
    BY <1>5, <2>1, <2>2, <2>3
<1>8. Ordered(newest, Later)
  <2>1. ASSUME NEW i \in DOMAIN lists PROVE Ordered(lists[i], Later)
    <3>1. \A x \in Range(lists[i]) : x \in Row /\ x.at = MaxRuns + 1 - i
      BY <1>2, <1>5
    <3>2. \A a \in DOMAIN lists[i] : lists[i][a] \in Range(lists[i])
      BY DEF Range
    <3>3. \A x, y \in Range(lists[i]) : <<x, y>> \in Later
      <4> TAKE x \in Range(lists[i]), y \in Range(lists[i])
      <4>1. x \in Row /\ y \in Row /\ x.at = y.at /\ y.at \in 1..MaxRuns
        BY <3>1 DEF Row
      <4> QED
        BY <4>1 DEF Later
    <3> QED
      BY <3>2, <3>3 DEF Ordered
  <2>2. ASSUME NEW i \in DOMAIN lists, NEW j \in DOMAIN lists, i < j,
               NEW x \in Range(lists[i]), NEW y \in Range(lists[j])
        PROVE  <<x, y>> \in Later
    <3>1. x \in Row /\ y \in Row /\ x.at = MaxRuns + 1 - i /\ y.at = MaxRuns + 1 - j
      BY <1>2, <1>5
    <3>2. y.at <= x.at
      BY <1>0, <1>5, <2>2, <3>1
    <3> QED
      BY <3>1, <3>2 DEF Later
  <2> QED
    BY <1>5, <2>1, <2>2, FlattenOrdered
<1> HIDE DEF newest
<1> DEFINE o == Reverse(newest)
           L == Len(newest)
<1>9. /\ o \in Seq(Row) /\ Len(o) = L /\ Range(o) = Range(newest)
      /\ \A i \in 1..L : o[i] = newest[L - i + 1]
  BY <1>6, ReverseOf
<1> HIDE DEF o
<1>10. L \in Nat /\ DOMAIN newest = 1..L /\ DOMAIN o = 1..L /\ \A i \in 1..L : newest[i] \in Row
  BY <1>6, <1>9
<1>11. Ascending(o)
  <2> SUFFICES ASSUME NEW i \in 1..L, NEW j \in 1..L, i <= j PROVE o[i].at <= o[j].at
    BY <1>10 DEF Ascending
  <2>1. CASE i = j
    <3>1. o[i] \in Row
      BY <1>9, <1>10
    <3>2. o[i].at \in 1..MaxRuns
      BY <3>1 DEF Row
    <3> QED
      BY <1>0, <2>1, <3>2
  <2>2. CASE i < j
    <3>1. L - j + 1 \in 1..L /\ L - i + 1 \in 1..L /\ L - j + 1 < L - i + 1
      BY <1>10, <2>2
    <3>2. <<newest[L - j + 1], newest[L - i + 1]>> \in Later
      BY <1>8, <1>10, <3>1 DEF Ordered
    <3> QED
      BY <1>9, <3>2 DEF Later
  <2> QED
    BY <1>10, <2>1, <2>2
<1>12. Range(o) = mine
  BY <1>6, <1>7, <1>9
<1>13. \A i \in DOMAIN o : o[i].control = c
  BY <1>2, <1>12 DEF Range
<1> QED
  BY <1>3, <1>9, <1>11, <1>12, <1>13 DEF Listing, mine, o

\* Of rows in ascending order the last one is the newest.
LEMMA LastIsNewest ==
  ASSUME NEW rows, rows \in Seq(Row), Ascending(rows), rows # <<>>
  PROVE  /\ Last(rows) \in Range(rows)
         /\ \A i \in DOMAIN rows : rows[i].at <= Last(rows).at
<1>1. Last(rows) = rows[Len(rows)] /\ Len(rows) \in 1..Len(rows) /\ Last(rows) \in Range(rows)
  BY LastOf
<1>2. DOMAIN rows = 1..Len(rows) /\ \A i \in DOMAIN rows : i <= Len(rows)
  OBVIOUS
<1> QED
  BY <1>1, <1>2 DEF Ascending

\* And the newest of a procedure is that which a later one has not overwritten.
LEMMA LatestIsNewest ==
  ASSUME NEW rows, rows \in Seq(Row), Ascending(rows), NEW p, HasRun(rows, p)
  PROVE  /\ LatestOf(rows, p) \in Range(rows) /\ LatestOf(rows, p).proc = p
         /\ \A i \in DOMAIN rows : rows[i].proc = p => rows[i].at <= LatestOf(rows, p).at
<1> DEFINE P == {row \in Range(rows) : row.proc = p}
           o == Only(rows, P)
<1>1. LatestOf(rows, p) = Last(o)
  BY DEF LatestOf
<1>2. \A i \in DOMAIN rows : rows[i].proc = p => rows[i] \in P
  BY DEF Range
<1>3. \A row \in P : row \in Range(rows) /\ row.proc = p
  OBVIOUS
<1>4. P \subseteq Range(rows) /\ P # {}
  BY DEF HasRun, Range
<1> HIDE DEF P
<1>5. o \in Seq(Row) /\ Range(o) = P
  <2>1. o \in Seq(Row) /\ Range(o) = Range(rows) \cap P
    BY OnlyRange
  <2> QED
    BY <1>4, <2>1
<1>6. Ordered(rows, Earlier)
  BY DEF Ordered, Earlier, Ascending
<1>7. Ordered(o, Earlier)
  BY <1>6, OnlyOrdered
<1> HIDE DEF o
<1>8. Ascending(o)
  <2> SUFFICES ASSUME NEW i \in DOMAIN o, NEW j \in DOMAIN o, i <= j PROVE o[i].at <= o[j].at
    BY DEF Ascending
  <2>1. DOMAIN o = 1..Len(o) /\ o[i] \in Row
    BY <1>5
  <2>2. CASE i = j
    <3>1. o[i].at \in 1..MaxRuns /\ MaxRuns \in Nat
      BY <2>1, BoundAssumption DEF Row
    <3> QED
      BY <2>2, <3>1
  <2>3. CASE i < j
    <3>1. <<o[i], o[j]>> \in Earlier
      BY <1>7, <2>3 DEF Ordered
    <3> QED
      BY <3>1 DEF Earlier
  <2> QED
    BY <2>1, <2>2, <2>3
<1>9. o # <<>>
  BY <1>4, <1>5 DEF Range
<1>10. Last(o) \in P /\ \A i \in DOMAIN o : o[i].at <= Last(o).at
  BY <1>5, <1>8, <1>9, LastIsNewest
<1>11. ASSUME NEW i \in DOMAIN rows, rows[i].proc = p PROVE rows[i].at <= Last(o).at
  <2>1. rows[i] \in Range(o)
    BY <1>2, <1>5, <1>11
  <2>2. PICK a \in DOMAIN o : o[a] = rows[i]
    BY <2>1 DEF Range
  <2> QED
    BY <1>10, <2>2
<1> QED
  BY <1>1, <1>3, <1>10, <1>11
----------------------------------------------------------------------------
(* What stays *)

\* A row is added at a time that has begun: the rows of other times are as before.
LEMMA RowAdded ==
  ASSUME RowsTimed, NEW row \in Row, row.at <= count.runs,
         runs' = Append(runs, row), count'.runs = count.runs
  PROVE  /\ RowsTimed'
         /\ Len(runs) <= Len(runs') /\ \A i \in 1..Len(runs) : runs'[i] = runs[i]
         /\ \A c, p, at : HasRow(c, p, at) => HasRow(c, p, at)'
         /\ \A c, p, at : row = [control |-> c, proc |-> p, at |-> at] => HasRow(c, p, at)'
         /\ \A at, c, procs :
              RowsOnly(at, c, procs) /\ (row.at = at => row.control = c /\ row.proc \in procs)
                => RowsOnly(at, c, procs)'
<1> DEFINE L == Len(runs)
<1>0. runs \in Seq(Row) /\ L \in Nat /\ DOMAIN runs = 1..L
  BY DEF RowsTimed
<1>1. /\ runs' \in Seq(Row) /\ Len(runs') = L + 1 /\ DOMAIN runs' = 1..(L + 1)
      /\ runs'[L + 1] = row /\ \A i \in 1..L : runs'[i] = runs[i]
  BY <1>0
<1> HIDE DEF L
<1>2. \A i \in DOMAIN runs' : i \in 1..L \/ i = L + 1
  BY <1>0, <1>1
<1>3. L + 1 \in DOMAIN runs' /\ \A i \in DOMAIN runs : i \in DOMAIN runs' /\ runs'[i] = runs[i]
  BY <1>0, <1>1
<1>4. RowsTimed'
  BY <1>0, <1>1, <1>2 DEF RowsTimed
<1>5. \A c, p, at : HasRow(c, p, at) => HasRow(c, p, at)'
  BY <1>3 DEF HasRow
<1>6. \A c, p, at : row = [control |-> c, proc |-> p, at |-> at] => HasRow(c, p, at)'
  BY <1>1, <1>3 DEF HasRow
<1>7. ASSUME NEW at, NEW c, NEW procs, RowsOnly(at, c, procs),
             row.at = at => row.control = c /\ row.proc \in procs
      PROVE  RowsOnly(at, c, procs)'
  BY <1>0, <1>1, <1>2, <1>7 DEF RowsOnly
<1>8. Len(runs) <= Len(runs') /\ \A i \in 1..Len(runs) : runs'[i] = runs[i]
  BY <1>0, <1>1 DEF L
<1> QED
  BY <1>4, <1>5, <1>6, <1>7, <1>8

\* What an export has read stays what it is while controls and rows are added.
LEMMA ExportStays ==
  ASSUME count \in Counts, count' \in Counts, ExportKnown, export' = export,
         count.edits <= count'.edits, count.loads <= count'.loads,
         count'.loads = count.loads =>
           /\ Len(runs) <= Len(runs') /\ \A i \in 1..Len(runs) : runs'[i] = runs[i]
           /\ Len(runs) \in Nat /\ DOMAIN runs = 1..Len(runs) /\ DOMAIN runs' = 1..Len(runs')
           /\ \A c \in Controls : controls[c] # Absent =>
                /\ controls'[c] # Absent
                /\ Loop /\ count'.edits = count.edits => controls'[c] = controls[c]
           /\ Loop => Loop'
  PROVE  ExportKnown'
<1> SUFFICES ASSUME export # Idle PROVE ExportKnown'
  BY DEF ExportKnown
<1> DEFINE began == export.began
<1>1. /\ export.step \in {"rows", "write", "workpapers", "evidence"}
      /\ DOMAIN export = {"step", "todo", "rows", "info", "workpapers", "began"}
      /\ export.todo \in Seq(Controls) /\ DOMAIN export.rows \subseteq Controls
      /\ began.rows \in Nat /\ began.edits \in 0..count.edits /\ began.loads \in 0..count.loads
      /\ \A c \in DOMAIN export.rows : Listing(c, export.rows[c])
      /\ export.step # "rows" => \A c \in Controls : export.info[c] \in Graphs[c] \cup {Absent}
      /\ began.loads = count.loads => Fresh(began) /\ (began.loop => Loop)
  BY DEF ExportKnown
<1>2. count.edits \in Nat /\ count.loads \in Nat /\ count'.edits \in Nat /\ count'.loads \in Nat
  BY DEF Counts
<1>3. began.edits \in 0..count'.edits /\ began.loads \in 0..count'.loads
  BY <1>1, <1>2
<1>4. \A c \in DOMAIN export.rows : Listing(c, export.rows[c])'
  BY <1>1 DEF Listing, Ascending
<1>5. ASSUME began.loads = count'.loads PROVE Fresh(began)' /\ (began.loop => Loop')
  <2>1. began.loads = count.loads /\ count'.loads = count.loads
    BY <1>1, <1>2, <1>5
  <2>2. /\ Len(runs) <= Len(runs') /\ \A i \in 1..Len(runs) : runs'[i] = runs[i]
        /\ Len(runs) \in Nat /\ DOMAIN runs = 1..Len(runs) /\ DOMAIN runs' = 1..Len(runs')
        /\ \A c \in Controls : controls[c] # Absent =>
             /\ controls'[c] # Absent
             /\ Loop /\ count'.edits = count.edits => controls'[c] = controls[c]
        /\ Loop => Loop'
    BY <2>1
  <2>3. Fresh(began) /\ (began.loop => Loop)
    BY <1>1, <2>1
  <2> HIDE DEF began
  <2> DEFINE L == Len(runs)
             M == Len(runs')
  <2>5. L \in Nat /\ M \in Nat /\ L <= M /\ began.rows <= L /\ began.rows \in Nat
    BY <1>1, <2>2, <2>3, <2>2 DEF Fresh, began
  <2>6. \A i \in 1..L : i \in 1..M /\ runs'[i] = runs[i]
    BY <2>2, <2>5
  <2>7. \A i \in 1..began.rows : i \in 1..L
    BY <2>5
  <2>8. Range(export.todo) \subseteq Controls
    BY <1>1 DEF Range
  <2>9. \A c \in DOMAIN export.rows \cup Range(export.todo) :
          c \in Controls /\ controls[c] # Absent /\ controls'[c] # Absent
    BY <1>1, <2>2, <2>3, <2>8 DEF Fresh
  <2>10. ASSUME NEW c \in DOMAIN export.rows
         PROVE  /\ \A i \in DOMAIN export.rows[c] : \E j \in DOMAIN runs' : runs'[j] = export.rows[c][i]
                /\ \A j \in 1..began.rows : runs'[j].control = c =>
                     \E i \in DOMAIN export.rows[c] : export.rows[c][i] = runs'[j]
    BY <2>2, <2>3, <2>6, <2>7 DEF Fresh
  <2>11. ASSUME export.step # "rows", began.loop, began.edits = count'.edits
         PROVE  \A c \in DOMAIN export.rows : export.info[c] = InfoOf(controls'[c])
    <3>1. began.edits = count.edits /\ count'.edits = count.edits
      BY <1>1, <1>2, <2>11 DEF began
    <3> QED
      BY <2>2, <2>3, <2>9, <2>11, <3>1 DEF Fresh
  <2>12. began.rows <= Len(runs')
    BY <2>5
  <2> HIDE DEF L, M
  <2>13. \A c \in DOMAIN export'.rows \cup Range(export'.todo) : controls'[c] # Absent
    BY <2>9
  <2>14. \A c \in DOMAIN export'.rows :
           /\ \A i \in DOMAIN export'.rows[c] : \E j \in DOMAIN runs' : runs'[j] = export'.rows[c][i]
           /\ \A j \in 1..began.rows : runs'[j].control = c =>
                \E i \in DOMAIN export'.rows[c] : export'.rows[c][i] = runs'[j]
    BY <2>10
  <2>15. export'.step # "rows" /\ began.loop /\ began.edits = count'.edits =>
           \A c \in DOMAIN export'.rows : export'.info[c] = InfoOf(controls'[c])
    BY <2>11
  <2> QED
    BY <2>2, <2>3, <2>12, <2>13, <2>14, <2>15 DEF Fresh, began
<1> QED
  BY <1>1, <1>3, <1>4, <1>5 DEF ExportKnown, began

\* Neither runs nor rows change, and no control goes: what is known of runs stays.
LEMMA RunsStay ==
  ASSUME RowsTimed, RunsKnown, DoneKnown, UNCHANGED <<runs, req, done>>,
         count'.runs = count.runs,
         \A c \in Controls : controls[c] # Absent => controls'[c] # Absent
  PROVE  RowsTimed' /\ RunsKnown' /\ DoneKnown'
<1>1. RowsTimed'
  BY DEF RowsTimed
<1>2. \A c, p, at : HasRow(c, p, at)' = HasRow(c, p, at)
  BY DEF HasRow
<1>3. \A at, c, procs : RowsOnly(at, c, procs)' = RowsOnly(at, c, procs)
  BY DEF RowsOnly
<1>4. Active' = Active
  BY DEF Active
<1>5. ASSUME NEW q, Under(q) PROVE Under(q)'
  BY <1>2, <1>3, <1>5 DEF Under
<1>6. ASSUME NEW r \in Active' PROVE Under(req[r])'
  <2>1. PICK q : q = req[r]
    OBVIOUS
  <2>2. Under(q)
    BY <1>4, <2>1 DEF RunsKnown
  <2>3. Under(q)'
    BY <1>5, <2>2
  <2> QED
    BY <2>1, <2>3
<1>7. RunsKnown'
  BY <1>4, <1>6 DEF RunsKnown
<1>8. ASSUME NEW c \in Controls, Complete(c) PROVE Complete(c)'
  BY <1>2, <1>3, <1>4, <1>8 DEF Complete
<1>9. DoneKnown'
  BY <1>8 DEF DoneKnown
<1> QED
  BY <1>1, <1>7, <1>9
----------------------------------------------------------------------------
(* Runs and resets keep it *)

\* A request that moves on as a run of its time, or ends, leaves the others and
\* what has completed as they were.
LEMMA OthersStay ==
  ASSUME RunsKnown, NEW r \in Active, NEW x, req' = [req EXCEPT ![r] = x],
         count'.runs = count.runs, controls' = controls,
         x = Idle \/ (x.at = req[r].at /\ Under(x)'),
         \A c, p, at : HasRow(c, p, at) => HasRow(c, p, at)',
         \A at, c, procs : at # req[r].at /\ RowsOnly(at, c, procs) => RowsOnly(at, c, procs)'
  PROVE  /\ RunsKnown'
         /\ \A c \in Controls : done[c] # Absent /\ Complete(c) /\ done'[c] = done[c] => Complete(c)'
<1>1. PICK q : q = req[r]
  OBVIOUS
<1>2. /\ r \in Requests /\ r \in DOMAIN req /\ req'[r] = x /\ DOMAIN req' = Requests
      /\ \A s \in Requests : s # r => req'[s] = req[s]
  BY DEF RunsKnown, Active
<1>3. \A s \in Active' : (s = r \/ s \in Active) /\ s \in Requests
  BY <1>2 DEF Active
<1>4. r \in Active' => x.at = q.at /\ Under(x)'
  BY <1>1, <1>2 DEF Active
<1>5. \A s \in Active : Under(req[s]) /\ \A t \in Active : req[s].at = req[t].at => s = t
  BY DEF RunsKnown
<1>6. ASSUME NEW s \in Active, s # r PROVE Under(req[s])'
  <2>1. PICK y : y = req[s]
    OBVIOUS
  <2>2. Under(y) /\ y.at # req[r].at
    BY <1>5, <1>6, <2>1
  <2>3. Under(y)'
    BY <2>2 DEF Under
  <2>4. y = req'[s]
    BY <1>2, <1>6, <2>1 DEF Active
  <2> QED
    BY <2>3, <2>4
<1>7. ASSUME NEW s \in Active' PROVE Under(req[s])'
  BY <1>2, <1>3, <1>4, <1>6, <1>7
<1>8. \A s \in Active' : s \in Active /\ req'[s].at = req[s].at
  BY <1>1, <1>2, <1>3, <1>4
<1>9. RunsKnown'
  BY <1>2, <1>5, <1>7, <1>8 DEF RunsKnown
<1>10. ASSUME NEW c \in Controls, done[c] # Absent, Complete(c), done'[c] = done[c]
       PROVE  Complete(c)'
  <2>1. PICK d : d = done[c]
    OBVIOUS
  <2> DEFINE procs == IF Len(d.graph) > 1 THEN Range(d.graph) \cup {Whole} ELSE Range(d.graph)
  <2>2. /\ d.at \in 1..count.runs /\ d.graph \in Graphs[c] /\ controls[c] # Absent
        /\ \A i \in 1..Len(d.graph) : HasRow(c, d.graph[i], d.at)
        /\ RowsOnly(d.at, c, procs)
        /\ \A s \in Active : req[s].at # d.at
    BY <1>10, <2>1 DEF Complete
  <2> HIDE DEF procs
  <2>3. /\ \A i \in 1..Len(d.graph) : HasRow(c, d.graph[i], d.at)'
        /\ RowsOnly(d.at, c, procs)'
        /\ \A s \in Active' : req'[s].at # d.at
    BY <1>8, <2>2
  <2> QED
    BY <1>10, <2>1, <2>2, <2>3 DEF Complete, procs
<1> QED
  BY <1>9, <1>10

\* A run that ends is the newest complete one of its control, or changes nothing.
LEMMA CompletesStays ==
  ASSUME DoneKnown, NEW q, q.control \in Controls, Completes(q),
         \A c \in Controls : done[c] # Absent /\ Complete(c) /\ done'[c] = done[c] => Complete(c)',
         ~q.torn /\ done'[q.control] = [at |-> q.at, graph |-> q.graph] => Complete(q.control)'
  PROVE  DoneKnown'
<1>1. DOMAIN done = Controls /\ \A c \in Controls : done[c] # Absent => Complete(c)
  BY DEF DoneKnown
<1>2. CASE done' = done
  BY <1>1, <1>2 DEF DoneKnown
<1>3. CASE ~q.torn /\ done' = [done EXCEPT ![q.control] = [at |-> q.at, graph |-> q.graph]]
  <2>1. /\ DOMAIN done' = Controls /\ done'[q.control] = [at |-> q.at, graph |-> q.graph]
        /\ \A c \in Controls : c # q.control => done'[c] = done[c]
    BY <1>1, <1>3
  <2> QED
    BY <1>1, <1>3, <2>1 DEF DoneKnown
<1> QED
  BY <1>2, <1>3 DEF Completes

\* A row of a run under way is a row of the table.
LEMMA RowIsRow ==
  ASSUME RowsTimed, NEW q, Under(q), NEW p \in Range(q.graph) \cup {Whole}
  PROVE  RowOf(q, p) \in Row /\ RowOf(q, p).at <= count.runs
<1>1. q.control \in Controls /\ q.graph \in Graphs[q.control] /\ q.at \in 1..count.runs
  BY DEF Under
<1>2. count.runs \in 0..MaxRuns /\ MaxRuns \in Nat
  BY BoundAssumption DEF RowsTimed
<1>3. q.at \in 1..MaxRuns /\ q.at <= count.runs
  BY <1>1, <1>2
<1>4. p \in Procs
  BY <1>1 DEF Procs
<1> QED
  BY <1>1, <1>3, <1>4 DEF RowOf, Row

LEMMA GraphOf ==
  ASSUME NEW c \in Controls, NEW g \in Graphs[c]
  PROVE  /\ g \in Seq(Range(g)) /\ Len(g) \in Nat /\ Len(g) >= 1 /\ DOMAIN g = 1..Len(g)
         /\ \A i \in 1..Len(g) : g[i] \in Range(g)
<1>1. g \in Seq(Range(g)) /\ Len(g) > 0
  BY GraphAssumption
<1>2. Len(g) \in Nat
  BY <1>1
<1> QED
  BY <1>1, <1>2

LEMMA StartRunKnows ==
  ASSUME count \in Counts, controls = [c \in Controls |-> controls[c]], Known, Authored,
         NEW r \in Requests, NEW c \in Controls, StartRun(r, c)
  PROVE  Known'
<1>0. PICK N : N = count.runs + 1
  OBVIOUS
<1>1. PICK x : x = [step |-> "proc", control |-> c, at |-> N,
                    graph |-> controls[c], n |-> 1, torn |-> FALSE, alone |-> TRUE]
  OBVIOUS
<1>2. /\ x.step = "proc" /\ x.control = c /\ x.at = N /\ x.graph = controls[c]
      /\ x.n = 1 /\ x.torn = FALSE /\ DOMAIN x = {"step", "control", "at", "graph", "n", "torn", "alone"}
      /\ x # Idle
  BY <1>1 DEF Idle
<1>3. /\ req[r] = Idle /\ controls[c] # Absent /\ req' = [req EXCEPT ![r] = x]
      /\ controls' = controls /\ runs' = runs /\ done' = done /\ count.runs < MaxRuns
  BY <1>0, <1>1 DEF StartRun, store
<1>4. /\ count.runs \in Nat /\ N = count.runs + 1 /\ N \in Nat /\ count'.runs = N
      /\ N \in 1..N /\ N \in 0..MaxRuns
  <2>1. count.runs \in Nat /\ count'.runs = count.runs + 1
    BY DEF StartRun, Bump, Counts
  <2> QED
    BY <1>0, <1>3, <2>1, BoundAssumption
<1>5. \A i \in DOMAIN runs : runs[i].at \in Nat /\ runs[i].at <= count.runs /\ runs[i].at # N
  <2>1. \A row \in Row : row.at \in 1..MaxRuns
    BY DEF Row
  <2>2. runs \in Seq(Row) /\ \A i \in DOMAIN runs : runs[i] \in Row /\ runs[i].at <= count.runs
    BY DEF Known, RowsTimed
  <2> QED
    BY <1>4, <2>1, <2>2, BoundAssumption
<1>6. RowsTimed'
  BY <1>3, <1>4, <1>5 DEF Known, RowsTimed
<1>7. \A d, p, at : HasRow(d, p, at)' = HasRow(d, p, at)
  BY <1>3 DEF HasRow
<1>8. \A at, d, procs : RowsOnly(at, d, procs)' = RowsOnly(at, d, procs)
  BY <1>3 DEF RowsOnly
<1>9. ASSUME NEW q, Under(q) PROVE Under(q)' /\ q.at # N
  <2>1. q.at \in 1..count.runs
    BY <1>9 DEF Under
  <2>2. q.at \in 1..count'.runs /\ q.at # N
    BY <1>4, <2>1
  <2> QED
    BY <1>3, <1>7, <1>8, <1>9, <2>2 DEF Under
<1>10. Under(x)'
  <2>1. controls[c] \in Graphs[c]
    BY <1>3 DEF Authored
  <2>2. Len(controls[c]) \in Nat /\ Len(controls[c]) >= 1
    BY <2>1, GraphOf
  <2>3. 1 \in 1..Len(controls[c]) /\ \A i \in 1..Len(controls[c]) : ~(i < 1)
    BY <2>2
  <2>4. RowsOnly(x.at, x.control, Range(x.graph))'
    BY <1>2, <1>3, <1>5 DEF RowsOnly
  <2> QED
    BY <1>2, <1>3, <1>4, <2>1, <2>3, <2>4 DEF Under
<1>11. /\ DOMAIN req' = Requests /\ req'[r] = x /\ \A s \in Requests : s # r => req'[s] = req[s]
  BY <1>3 DEF Known, RunsKnown
<1>12. \A s \in Active' : (s = r /\ req'[s] = x) \/ (s \in Active /\ s # r /\ req'[s] = req[s])
  BY <1>3, <1>11 DEF Active
<1>13. ASSUME NEW s \in Active' PROVE Under(req[s])'
  <2>1. PICK y : y = req'[s]
    OBVIOUS
  <2>2. y = x \/ Under(y)
    BY <1>12, <1>13, <2>1 DEF Known, RunsKnown
  <2>3. Under(y)'
    BY <1>9, <1>10, <2>2
  <2> QED
    BY <2>1, <2>3
<1>14. \A s \in Active : req[s].at # N
  BY <1>9 DEF Known, RunsKnown
<1>15. \A s, t \in Active' : req'[s].at = req'[t].at => s = t
  BY <1>2, <1>12, <1>14 DEF Known, RunsKnown
<1>16. RunsKnown'
  BY <1>11, <1>13, <1>15 DEF RunsKnown
<1>17. ASSUME NEW d \in Controls, Complete(d) PROVE Complete(d)'
  <2>1. done[d].at \in 1..count.runs
    BY <1>17 DEF Complete
  <2>2. done[d].at \in 1..count'.runs /\ done[d].at # N
    BY <1>4, <2>1
  <2>3. \A s \in Active' : req'[s].at # done[d].at
    BY <1>2, <1>12, <1>17, <2>2 DEF Complete
  <2> QED
    BY <1>3, <1>7, <1>8, <1>17, <2>2, <2>3 DEF Complete
<1> QED
  BY <1>3, <1>6, <1>16, <1>17 DEF Known, DoneKnown

\* A request at one of the steps of a run is a run under way.
LEMMA AtWork ==
  ASSUME Known, NEW r \in Requests, NEW q, q = req[r],
         q.step \in {"proc", "paper", "write", "aggregate"}
  PROVE  r \in Active /\ Under(q) /\ DOMAIN req = Requests
BY DEF Known, RunsKnown, Active, Idle

LEMMA RunProcKnows ==
  ASSUME Known, NEW r \in Requests, RunProc(r)
  PROVE  /\ Known'
         /\ Len(runs) <= Len(runs') /\ \A i \in 1..Len(runs) : runs'[i] = runs[i]
<1>1. PICK q : q = req[r]
  OBVIOUS
<1> DEFINE p == q.graph[q.n]
<1>2. /\ q.step = "proc" /\ controls[q.control] # Absent
      /\ runs' = Append(runs, RowOf(q, p))
      /\ req' = [req EXCEPT ![r] = IF q.n < Len(q.graph) THEN [q EXCEPT !.n = @ + 1]
                                                         ELSE [q EXCEPT !.step = "paper"]]
      /\ controls' = controls /\ done' = done /\ count' = count
  BY <1>1 DEF RunProc, Runnable, store
<1>3. PICK x : x = IF q.n < Len(q.graph) THEN [q EXCEPT !.n = @ + 1]
                                         ELSE [q EXCEPT !.step = "paper"]
  OBVIOUS
<1>4. r \in Active /\ Under(q) /\ DOMAIN req = Requests
  BY <1>1, <1>2, AtWork
<1>5. /\ DOMAIN q = {"step", "control", "at", "graph", "n", "torn", "alone"}
      /\ q.control \in Controls /\ q.at \in 1..count.runs /\ q.graph \in Graphs[q.control]
      /\ q.n \in 1..Len(q.graph) /\ q.torn \in BOOLEAN
      /\ RowsOnly(q.at, q.control, Range(q.graph))
      /\ ~q.torn => \A i \in 1..Len(q.graph) : i < q.n => HasRow(q.control, q.graph[i], q.at)
  BY <1>2, <1>4 DEF Under
<1>6. Len(q.graph) \in Nat /\ \A i \in 1..Len(q.graph) : q.graph[i] \in Range(q.graph)
  BY <1>5, GraphOf
<1>7. p \in Range(q.graph) /\ RowOf(q, p) \in Row /\ RowOf(q, p).at <= count.runs
  BY <1>4, <1>5, <1>6, RowIsRow DEF Known
<1>8. /\ RowOf(q, p) = [control |-> q.control, proc |-> p, at |-> q.at]
      /\ RowOf(q, p).at = q.at /\ RowOf(q, p).control = q.control /\ RowOf(q, p).proc = p
  BY DEF RowOf
<1>9. PICK row : row = RowOf(q, p)
  OBVIOUS
<1>10. /\ RowsTimed'
       /\ Len(runs) <= Len(runs') /\ \A i \in 1..Len(runs) : runs'[i] = runs[i]
       /\ \A c, o, at : HasRow(c, o, at) => HasRow(c, o, at)'
       /\ \A c, o, at : row = [control |-> c, proc |-> o, at |-> at] => HasRow(c, o, at)'
       /\ \A at, c, procs :
            RowsOnly(at, c, procs) /\ (row.at = at => row.control = c /\ row.proc \in procs)
              => RowsOnly(at, c, procs)'
  BY <1>2, <1>7, <1>9, RowAdded DEF Known
<1>11. HasRow(q.control, q.graph[q.n], q.at)' /\ RowsOnly(q.at, q.control, Range(q.graph))'
  BY <1>5, <1>7, <1>8, <1>9, <1>10
<1>12. \A at, c, procs : at # req[r].at /\ RowsOnly(at, c, procs) => RowsOnly(at, c, procs)'
  BY <1>1, <1>8, <1>9, <1>10
<1>13. x.at = q.at /\ Under(x)'
  <2>1. CASE q.n < Len(q.graph)
    <3>1. x = [q EXCEPT !.n = @ + 1]
      BY <1>3, <2>1
    <3>2. /\ DOMAIN x = DOMAIN q /\ x.step = "proc" /\ x.control = q.control /\ x.at = q.at
          /\ x.graph = q.graph /\ x.n = q.n + 1 /\ x.torn = q.torn
      BY <1>2, <1>5, <3>1
    <3>3. x.n \in 1..Len(q.graph)
      BY <1>5, <1>6, <2>1, <3>2
    <3>4. \A i \in 1..Len(q.graph) : i < x.n => i < q.n \/ i = q.n
      BY <1>5, <1>6, <3>2
    <3>5. ~x.torn => \A i \in 1..Len(x.graph) : i < x.n => HasRow(x.control, x.graph[i], x.at)'
      BY <1>5, <1>10, <1>11, <3>2, <3>4
    <3>6. RowsOnly(x.at, x.control, Range(x.graph))'
      BY <1>11, <3>2
    <3> QED
      BY <1>2, <1>5, <3>2, <3>3, <3>5, <3>6 DEF Under
  <2>2. CASE ~(q.n < Len(q.graph))
    <3>1. x = [q EXCEPT !.step = "paper"]
      BY <1>3, <2>2
    <3>2. /\ DOMAIN x = DOMAIN q /\ x.step = "paper" /\ x.control = q.control /\ x.at = q.at
          /\ x.graph = q.graph /\ x.n = q.n /\ x.torn = q.torn
      BY <1>5, <3>1
    <3>3. \A i \in 1..Len(q.graph) : i < q.n \/ i = q.n
      BY <1>5, <1>6, <2>2
    <3>4. ~x.torn => \A i \in 1..Len(x.graph) : HasRow(x.control, x.graph[i], x.at)'
      BY <1>5, <1>10, <1>11, <3>2, <3>3
    <3>5. RowsOnly(x.at, x.control, Range(x.graph))'
      BY <1>11, <3>2
    <3> QED
      BY <1>2, <1>5, <3>2, <3>4, <3>5 DEF Under
  <2> QED
    BY <2>1, <2>2
<1> HIDE DEF p
<1>14. req' = [req EXCEPT ![r] = x] /\ count'.runs = count.runs
  BY <1>2, <1>3
<1>15. /\ RunsKnown'
       /\ \A c \in Controls : done[c] # Absent /\ Complete(c) /\ done'[c] = done[c] => Complete(c)'
  BY <1>1, <1>2, <1>4, <1>10, <1>12, <1>13, <1>14, OthersStay DEF Known
<1>16. DoneKnown'
  BY <1>2, <1>15 DEF Known, DoneKnown
<1> QED
  BY <1>10, <1>15, <1>16 DEF Known

LEMMA RunFailsKnows ==
  ASSUME Known, NEW r \in Requests, RunFails(r)
  PROVE  Known'
<1>1. PICK q : q = req[r]
  OBVIOUS
<1>2. /\ q.step \in {"proc", "paper", "write", "aggregate"} /\ req' = [req EXCEPT ![r] = Idle]
      /\ runs' = runs /\ controls' = controls /\ done' = done /\ count' = count
  BY <1>1 DEF RunFails, store
<1>3. r \in Active
  BY <1>1, <1>2, AtWork
<1>4. /\ \A c, p, at : HasRow(c, p, at) => HasRow(c, p, at)'
      /\ \A at, c, procs : RowsOnly(at, c, procs) => RowsOnly(at, c, procs)'
  BY <1>2 DEF HasRow, RowsOnly
<1>5. /\ RunsKnown'
      /\ \A c \in Controls : done[c] # Absent /\ Complete(c) /\ done'[c] = done[c] => Complete(c)'
  BY <1>2, <1>3, <1>4, OthersStay DEF Known
<1>6. DoneKnown' /\ RowsTimed'
  BY <1>2, <1>5 DEF Known, DoneKnown, RowsTimed
<1> QED
  BY <1>5, <1>6 DEF Known

LEMMA OpenPaperKnows ==
  ASSUME Known, NEW r \in Requests, OpenPaper(r)
  PROVE  Known'
<1>1. PICK q : q = req[r]
  OBVIOUS
<1>2. PICK alone : alone = \A s \in Active : req[s].step = "write" => req[s].control # q.control
  OBVIOUS
<1>3. PICK x : x = [q EXCEPT !.step = "write", !.alone = alone]
  OBVIOUS
<1>4. /\ q.step = "paper" /\ req' = [req EXCEPT ![r].step = "write", ![r].alone = alone]
      /\ runs' = runs /\ controls' = controls /\ count' = count /\ done' = done
  BY <1>1, <1>2 DEF OpenPaper, store
<1>5. r \in Active /\ Under(q) /\ DOMAIN req = Requests
  BY <1>1, <1>4, AtWork
<1>6. req' = [req EXCEPT ![r] = x]
  BY <1>1, <1>3, <1>4, <1>5
<1>7. /\ \A c, p, at : HasRow(c, p, at)' = HasRow(c, p, at)
      /\ \A at, c, procs : RowsOnly(at, c, procs)' = RowsOnly(at, c, procs)
  BY <1>4 DEF HasRow, RowsOnly
<1>8. /\ DOMAIN x = DOMAIN q /\ x.step = "write" /\ x.control = q.control /\ x.at = q.at
      /\ x.graph = q.graph /\ x.n = q.n /\ x.torn = q.torn
  BY <1>3, <1>5 DEF Under
<1>9. Under(x)'
  BY <1>4, <1>5, <1>7, <1>8 DEF Under
<1>10. /\ RunsKnown'
       /\ \A c \in Controls : done[c] # Absent /\ Complete(c) /\ done'[c] = done[c] => Complete(c)'
  BY <1>1, <1>4, <1>5, <1>6, <1>7, <1>8, <1>9, OthersStay DEF Known
<1>11. DoneKnown' /\ RowsTimed'
  BY <1>4, <1>10 DEF Known, DoneKnown, RowsTimed
<1> QED
  BY <1>10, <1>11 DEF Known

LEMMA WritePaperKnows ==
  ASSUME Known, NEW r \in Requests, WritePaper(r)
  PROVE  Known'
<1>1. PICK q : q = req[r]
  OBVIOUS
<1>2. /\ q.step = "write"
      /\ runs' = runs /\ controls' = controls /\ count' = count
      /\ IF Len(q.graph) > 1
         THEN req' = [req EXCEPT ![r].step = "aggregate"] /\ done' = done
         ELSE req' = [req EXCEPT ![r] = Idle] /\ Completes(q)
  BY <1>1 DEF WritePaper, store
<1>3. r \in Active /\ Under(q) /\ DOMAIN req = Requests
  BY <1>1, <1>2, AtWork
<1>4. /\ DOMAIN q = {"step", "control", "at", "graph", "n", "torn", "alone"}
      /\ q.control \in Controls /\ q.at \in 1..count.runs /\ q.graph \in Graphs[q.control]
      /\ q.n \in 1..Len(q.graph) /\ q.torn \in BOOLEAN
      /\ RowsOnly(q.at, q.control, Range(q.graph))
      /\ ~q.torn => /\ controls[q.control] # Absent
                    /\ \A i \in 1..Len(q.graph) : HasRow(q.control, q.graph[i], q.at)
  BY <1>2, <1>3 DEF Under
<1>5. /\ \A c, p, at : HasRow(c, p, at)' = HasRow(c, p, at)
      /\ \A at, c, procs : RowsOnly(at, c, procs)' = RowsOnly(at, c, procs)
  BY <1>2 DEF HasRow, RowsOnly
<1>6. RowsTimed'
  BY <1>2 DEF Known, RowsTimed
<1>7. CASE Len(q.graph) > 1
  <2>1. PICK x : x = [q EXCEPT !.step = "aggregate"]
    OBVIOUS
  <2>2. req' = [req EXCEPT ![r] = x] /\ done' = done
    BY <1>1, <1>2, <1>7, <2>1
  <2>3. /\ DOMAIN x = DOMAIN q /\ x.step = "aggregate" /\ x.control = q.control /\ x.at = q.at
        /\ x.graph = q.graph /\ x.n = q.n /\ x.torn = q.torn
    BY <1>4, <2>1
  <2>4. Under(x)'
    BY <1>2, <1>4, <1>5, <1>7, <2>3 DEF Under
  <2>5. /\ RunsKnown'
        /\ \A c \in Controls : done[c] # Absent /\ Complete(c) /\ done'[c] = done[c] => Complete(c)'
    BY <1>1, <1>2, <1>3, <1>5, <2>2, <2>3, <2>4, OthersStay DEF Known
  <2>6. DoneKnown'
    BY <2>2, <2>5 DEF Known, DoneKnown
  <2> QED
    BY <1>6, <2>5, <2>6 DEF Known
<1>8. CASE ~(Len(q.graph) > 1)
  <2>1. req' = [req EXCEPT ![r] = Idle] /\ Completes(q)
    BY <1>2, <1>8
  <2>2. /\ RunsKnown'
        /\ \A c \in Controls : done[c] # Absent /\ Complete(c) /\ done'[c] = done[c] => Complete(c)'
    BY <1>2, <1>3, <1>5, <2>1, OthersStay DEF Known
  <2>3. \A s \in Active' : req'[s].at # q.at
    BY <1>1, <1>3, <2>1 DEF Known, RunsKnown, Active
  <2>4. ASSUME ~q.torn, done'[q.control] = [at |-> q.at, graph |-> q.graph]
        PROVE  Complete(q.control)'
    <3>1. PICK c, d : c = q.control /\ d = [at |-> q.at, graph |-> q.graph]
      OBVIOUS
    <3>2. d.at = q.at /\ d.graph = q.graph /\ done'[c] = d
      BY <2>4, <3>1
    <3>3. /\ \A i \in 1..Len(d.graph) : HasRow(c, d.graph[i], d.at)'
          /\ RowsOnly(d.at, c, Range(d.graph))'
      BY <1>4, <1>5, <2>4, <3>1, <3>2
    <3>4. Complete(c)'
      BY <1>2, <1>4, <1>8, <2>3, <2>4, <3>1, <3>2, <3>3 DEF Complete
    <3> QED
      BY <3>1, <3>4
  <2>5. DoneKnown'
    BY <1>4, <2>1, <2>2, <2>4, CompletesStays DEF Known
  <2> QED
    BY <1>6, <2>2, <2>5 DEF Known
<1> QED
  BY <1>7, <1>8

LEMMA AggregateKnows ==
  ASSUME Known, NEW r \in Requests, Aggregate(r)
  PROVE  /\ Known'
         /\ Len(runs) <= Len(runs') /\ \A i \in 1..Len(runs) : runs'[i] = runs[i]
<1>1. PICK q : q = req[r]
  OBVIOUS
<1>2. /\ q.step = "aggregate"
      /\ runs' = Append(runs, RowOf(q, Whole))
      /\ req' = [req EXCEPT ![r] = Idle] /\ Completes(q)
      /\ controls' = controls /\ count' = count
  BY <1>1 DEF Aggregate, store
<1>3. r \in Active /\ Under(q) /\ DOMAIN req = Requests
  BY <1>1, <1>2, AtWork
<1>4. /\ q.control \in Controls /\ q.at \in 1..count.runs /\ q.graph \in Graphs[q.control]
      /\ Len(q.graph) > 1 /\ RowsOnly(q.at, q.control, Range(q.graph))
      /\ ~q.torn => /\ controls[q.control] # Absent
                    /\ \A i \in 1..Len(q.graph) : HasRow(q.control, q.graph[i], q.at)
  BY <1>2, <1>3 DEF Under
<1>5. PICK row : row = RowOf(q, Whole)
  OBVIOUS
<1>6. row \in Row /\ row.at <= count.runs
  BY <1>3, <1>5, RowIsRow DEF Known
<1>7. row.at = q.at /\ row.control = q.control /\ row.proc = Whole
  BY <1>5 DEF RowOf
<1>8. /\ RowsTimed'
      /\ Len(runs) <= Len(runs') /\ \A i \in 1..Len(runs) : runs'[i] = runs[i]
      /\ \A c, o, at : HasRow(c, o, at) => HasRow(c, o, at)'
      /\ \A at, c, procs :
           RowsOnly(at, c, procs) /\ (row.at = at => row.control = c /\ row.proc \in procs)
             => RowsOnly(at, c, procs)'
  BY <1>2, <1>5, <1>6, RowAdded DEF Known
<1>9. \A at, c, procs : at # req[r].at /\ RowsOnly(at, c, procs) => RowsOnly(at, c, procs)'
  BY <1>1, <1>7, <1>8
<1>10. /\ RunsKnown'
       /\ \A c \in Controls : done[c] # Absent /\ Complete(c) /\ done'[c] = done[c] => Complete(c)'
  BY <1>2, <1>3, <1>8, <1>9, OthersStay DEF Known
<1>11. \A s \in Active' : req'[s].at # q.at
  BY <1>1, <1>2, <1>3 DEF Known, RunsKnown, Active
<1>12. RowsOnly(q.at, q.control, Range(q.graph) \cup {Whole})'
  <2>1. RowsOnly(q.at, q.control, Range(q.graph) \cup {Whole})
    BY <1>4 DEF RowsOnly
  <2>2. row.proc \in Range(q.graph) \cup {Whole}
    BY <1>7
  <2>3. PICK procs : procs = Range(q.graph) \cup {Whole}
    OBVIOUS
  <2> QED
    BY <1>7, <1>8, <2>1, <2>2, <2>3
<1>13. ASSUME ~q.torn, done'[q.control] = [at |-> q.at, graph |-> q.graph]
       PROVE  Complete(q.control)'
  <2>1. PICK c, d : c = q.control /\ d = [at |-> q.at, graph |-> q.graph]
    OBVIOUS
  <2>2. d.at = q.at /\ d.graph = q.graph /\ done'[c] = d
    BY <1>13, <2>1
  <2>3. /\ \A i \in 1..Len(d.graph) : HasRow(c, d.graph[i], d.at)'
        /\ RowsOnly(d.at, c, Range(d.graph) \cup {Whole})'
    BY <1>4, <1>8, <1>12, <1>13, <2>1, <2>2
  <2>4. Complete(c)'
    BY <1>2, <1>4, <1>11, <1>13, <2>1, <2>2, <2>3 DEF Complete
  <2> QED
    BY <2>1, <2>4
<1>14. DoneKnown'
  BY <1>2, <1>4, <1>10, <1>13, CompletesStays DEF Known
<1> QED
  BY <1>8, <1>10, <1>14 DEF Known

\* A reset takes the rows of the runs under way with it.
LEMMA ResetKnows ==
  ASSUME count \in Counts, Known, Reset
  PROVE  Known'
<1>1. /\ runs' = <<>> /\ done' = Nothing /\ controls' = Nothing /\ count'.runs = count.runs
      /\ req' = [r \in Requests |-> IF r \in Active THEN [req[r] EXCEPT !.torn = TRUE] ELSE Idle]
  BY DEF Reset, Bump, Counts
<1>2. RowsTimed'
  BY <1>1 DEF Known, RowsTimed
<1>3. \A at, c, procs : RowsOnly(at, c, procs)'
  BY <1>1 DEF RowsOnly
<1>4. ASSUME NEW r \in Active
      PROVE  /\ r \in Requests /\ req'[r].at = req[r].at /\ Under(req[r])'
  <2>1. PICK q : q = req[r]
    OBVIOUS
  <2>2. PICK x : x = [q EXCEPT !.torn = TRUE]
    OBVIOUS
  <2>3. r \in Requests /\ req'[r] = x
    BY <1>1, <2>1, <2>2 DEF Active
  <2>4. Under(q)
    BY <2>1 DEF Known, RunsKnown
  <2>5. /\ DOMAIN x = DOMAIN q /\ x.step = q.step /\ x.control = q.control /\ x.at = q.at
        /\ x.graph = q.graph /\ x.n = q.n /\ x.torn = TRUE
    BY <2>2, <2>4 DEF Under
  <2>6. Under(x)'
    BY <1>1, <1>3, <2>4, <2>5 DEF Under
  <2> QED
    BY <2>1, <2>3, <2>5, <2>6
<1>5. \A r \in Active' : r \in Active
  BY <1>1 DEF Active
<1>6. RunsKnown'
  BY <1>1, <1>4, <1>5 DEF Known, RunsKnown
<1>7. DoneKnown'
  BY <1>1 DEF DoneKnown, Nothing
<1> QED
  BY <1>2, <1>6, <1>7 DEF Known
----------------------------------------------------------------------------
(* Authoring and loads keep it *)

\* What a step counts, and nothing else.
LEMMA BumpMoves ==
  ASSUME count \in Counts,
         NEW what \in {"runs", "edits", "loads", "exports", "deaths"}, Bump(what)
  PROVE  /\ count' \in Counts /\ count'[what] = count[what] + 1
         /\ \A other \in {"runs", "edits", "loads", "exports", "deaths"} \ {what} :
              count'[other] = count[other]
         /\ count.edits \in Nat /\ count.loads \in Nat /\ count.runs \in Nat
<1>1. count \in [{"runs", "edits", "loads", "exports", "deaths"} -> Nat]
  BY DEF Counts
<1>2. count' = [count EXCEPT ![what] = @ + 1]
  BY DEF Bump
<1>3. count' \in Counts
  BY BumpCounts
<1> QED
  BY <1>1, <1>2, <1>3

LEMMA AuthoredStays == ASSUME Authored, controls' = controls PROVE Authored'
BY DEF Authored

\* A step of no run and no export, which takes no control away and changes none
\* without being an edit.
LEMMA QuietKnows ==
  ASSUME BundleInv, count \in Counts, count' \in Counts, UNCHANGED <<runs, req, done, export>>,
         count'.runs = count.runs, count.edits <= count'.edits, count.loads <= count'.loads,
         \A c \in Controls : controls[c] # Absent =>
           /\ controls'[c] # Absent
           /\ Loop /\ count'.edits = count.edits => controls'[c] = controls[c],
         Loop /\ count'.loads = count.loads => Loop',
         Authored'
  PROVE  BundleInv'
<1>1. Known'
  BY RunsStay DEF BundleInv, Known
<1>2. /\ Len(runs) <= Len(runs') /\ \A i \in 1..Len(runs) : runs'[i] = runs[i]
      /\ Len(runs) \in Nat /\ DOMAIN runs = 1..Len(runs) /\ DOMAIN runs' = 1..Len(runs')
  <2>1. runs \in Seq(Row)
    BY DEF BundleInv, Known, RowsTimed
  <2> QED
    BY <2>1
<1>3. ExportKnown'
  BY <1>2, ExportStays DEF BundleInv
<1> QED
  BY <1>1, <1>3 DEF BundleInv

LEMMA TablesStay ==
  ASSUME BundleInv, count \in Counts, UNCHANGED <<controls, runs, req, done, export>>,
         count' \in Counts,
         count'.runs = count.runs, count.edits <= count'.edits, count.loads <= count'.loads,
         Loop /\ count'.loads = count.loads => Loop'
  PROVE  BundleInv'
<1>1. Authored'
  BY AuthoredStays DEF BundleInv
<1> QED
  BY <1>1, QuietKnows

LEMMA SameCounts ==
  ASSUME count \in Counts, count' = count
  PROVE  /\ count' \in Counts /\ count'.runs = count.runs
         /\ count.edits <= count'.edits /\ count.loads <= count'.loads
<1>1. count.edits \in Nat /\ count.loads \in Nat
  BY DEF Counts
<1> QED
  BY <1>1

\* Setup and the steps of a load but those that touch controls.
LEMMA LoadKnows ==
  ASSUME IInv, BundleInv,
         \/ Setup \/ ClearTarget \/ ImportProject \/ ImportColumns \/ ImportFile \/ Bind \/ FinishLoad
         \/ \E s \in Sources : ClearFile(s) \/ ImportSource(s) \/ Copy(s)
  PROVE  BundleInv'
<1>1. UNCHANGED <<controls, runs, req, done, export, count>>
  BY DEF Setup, ClearTarget, ImportProject, ImportColumns, ImportFile, Bind, FinishLoad, ClearFile,
         ImportSource, Copy, store
<1>2. Loop => Loop'
  BY DEF Setup, ClearTarget, ImportProject, ImportColumns, ImportFile, Bind, FinishLoad, ClearFile,
         ImportSource, Copy, Loading, Loop
<1>3. count \in Counts
  BY DEF IInv, Typed
<1> QED
  BY <1>1, <1>2, <1>3, SameCounts, TablesStay

LEMMA ChooseKnows ==
  ASSUME IInv, BundleInv, NEW k \in Keys, NEW v \in Values \cup {Unset}, Choose(k, v)
  PROVE  BundleInv'
<1>1. count \in Counts
  BY DEF IInv, Typed
<1>2. /\ count' \in Counts /\ count'.runs = count.runs
      /\ count.edits <= count'.edits /\ count.loads <= count'.loads
  BY <1>1, BumpMoves DEF Choose
<1>3. UNCHANGED <<controls, runs, req, done, export, load>>
  BY DEF Choose
<1> QED
  BY <1>1, <1>2, <1>3, TablesStay DEF Loop

LEMMA UploadKnows ==
  ASSUME IInv, BundleInv, NEW s \in Sources, Upload(s)
  PROVE  BundleInv'
<1>1. count \in Counts
  BY DEF IInv, Typed
<1>2. /\ count' \in Counts /\ count'.runs = count.runs
      /\ count.edits <= count'.edits /\ count.loads <= count'.loads
  BY <1>1, BumpMoves DEF Upload
<1>3. UNCHANGED <<controls, runs, req, done, export, load>>
  BY DEF Upload
<1> QED
  BY <1>1, <1>2, <1>3, TablesStay DEF Loop

LEMMA LoadDemoKnows ==
  ASSUME IInv, BundleInv, LoadDemo
  PROVE  BundleInv'
<1>1. count \in Counts
  BY DEF IInv, Typed
<1>2. /\ count' \in Counts /\ count'.runs = count.runs
      /\ count.edits <= count'.edits /\ count.loads <= count'.loads /\ count'.loads # count.loads
  BY <1>1, BumpMoves DEF LoadDemo
<1>3. UNCHANGED <<controls, runs, req, done, export>>
  BY DEF LoadDemo, store
<1> QED
  BY <1>1, <1>2, <1>3, TablesStay

LEMMA AuthorKnows ==
  ASSUME IInv, BundleInv, NEW c \in Controls, NEW g \in Graphs[c], Author(c, g)
  PROVE  BundleInv'
<1>1. count \in Counts /\ controls = [d \in Controls |-> controls[d]]
  BY DEF IInv, Typed
<1>2. /\ count' \in Counts /\ count'.runs = count.runs /\ count'.edits # count.edits
      /\ count.edits <= count'.edits /\ count.loads <= count'.loads
  BY <1>1, BumpMoves DEF Author
<1>3. UNCHANGED <<load, runs, req, done, export>>
  BY DEF Author
<1>4. controls'[c] = g /\ \A d \in Controls : d # c => controls'[d] = controls[d]
  BY <1>1 DEF Author
<1>5. g # Absent
  BY AbsentAssumption
<1>6. Authored'
  BY <1>4 DEF BundleInv, Authored
<1>7. \A d \in Controls : controls[d] # Absent =>
        /\ controls'[d] # Absent
        /\ count'.edits = count.edits => controls'[d] = controls[d]
  BY <1>2, <1>4, <1>5
<1> QED
  BY <1>1, <1>2, <1>3, <1>6, <1>7, QuietKnows DEF Loop

\* The demo puts its own graph, which is one that its control may have; an export
\* that began while no load was under way is none that a load is now.
LEMMA ImportControlKnows ==
  ASSUME IInv, BundleInv, NEW c \in Controls, ImportControl(c)
  PROVE  BundleInv'
<1>1. count \in Counts /\ controls = [d \in Controls |-> controls[d]]
  BY DEF IInv, Typed
<1>2. ~Loop /\ c \in Demo
  BY LoadAtWork DEF ImportControl, IInv, Progress
<1>3. UNCHANGED <<runs, req, done, export, count>>
  BY DEF ImportControl
<1>4. controls'[c] = DemoGraph[c] /\ \A d \in Controls : d # c => controls'[d] = controls[d]
  BY <1>1 DEF ImportControl
<1>5. DemoGraph[c] \in Graphs[c] /\ DemoGraph[c] # Absent
  BY <1>2, DemoAssumption, AbsentAssumption
<1>6. Authored'
  BY <1>4, <1>5 DEF BundleInv, Authored
<1>7. \A d \in Controls : controls[d] # Absent => controls'[d] # Absent
  BY <1>4, <1>5
<1> QED
  BY <1>1, <1>2, <1>3, <1>6, <1>7, SameCounts, QuietKnows
----------------------------------------------------------------------------
(* Every step keeps it *)

LEMMA RunsSequence ==
  ASSUME RowsTimed
  PROVE  runs \in Seq(Row) /\ Len(runs) \in Nat /\ DOMAIN runs = 1..Len(runs)
BY DEF RowsTimed

\* What a run adds to the table does not touch what an export has read.
LEMMA RowsGrow ==
  ASSUME count \in Counts, count' \in Counts, BundleInv, Known', export' = export,
         controls' = controls, count.edits <= count'.edits, count.loads <= count'.loads,
         Loop => Loop',
         Len(runs) <= Len(runs'), \A i \in 1..Len(runs) : runs'[i] = runs[i]
  PROVE  ExportKnown'
<1>1. /\ Len(runs) \in Nat /\ DOMAIN runs = 1..Len(runs)
      /\ Len(runs') \in Nat /\ DOMAIN runs' = 1..Len(runs')
  BY DEF BundleInv, Known, RowsTimed
<1> QED
  BY <1>1, ExportStays DEF BundleInv

LEMMA RunKnows ==
  ASSUME IInv, BundleInv, NEW r \in Requests,
         RunProc(r) \/ RunFails(r) \/ OpenPaper(r) \/ WritePaper(r) \/ Aggregate(r)
  PROVE  BundleInv'
<1>1. count \in Counts
  BY DEF IInv, Typed
<1>2. UNCHANGED <<load, controls, export, count>>
  BY DEF RunProc, RunFails, OpenPaper, WritePaper, Aggregate, store
<1>3. /\ Known'
      /\ Len(runs) <= Len(runs') /\ \A i \in 1..Len(runs) : runs'[i] = runs[i]
  <2>1. CASE RunProc(r) \/ Aggregate(r)
    BY <2>1, RunProcKnows, AggregateKnows DEF BundleInv
  <2>2. CASE RunFails(r) \/ OpenPaper(r) \/ WritePaper(r)
    <3>1. runs' = runs /\ Len(runs) \in Nat
      BY <2>2, RunsSequence DEF RunFails, OpenPaper, WritePaper, BundleInv, Known
    <3> QED
      BY <2>2, <3>1, RunFailsKnows, OpenPaperKnows, WritePaperKnows DEF BundleInv
  <2> QED
    BY <2>1, <2>2
<1>4. Authored'
  BY <1>2, AuthoredStays DEF BundleInv
<1>5. Loop => Loop'
  BY <1>2 DEF Loop
<1>6. ExportKnown'
  BY <1>1, <1>2, <1>3, <1>5, SameCounts, RowsGrow
<1> QED
  BY <1>3, <1>4, <1>6 DEF BundleInv

\* A thread that starts is noted on the load; it starts none.
LEMMA OverlapStays == ASSUME IInv, Overlap PROVE Loop => Loop'
<1>1. load \in Load \cup {Idle}
  BY DEF IInv, Typed
<1> QED
  BY <1>1, OverlapNotes DEF Loop

LEMMA StartRunKnown ==
  ASSUME IInv, BundleInv, NEW r \in Requests, NEW c \in Controls, StartRun(r, c)
  PROVE  BundleInv'
<1>1. count \in Counts /\ controls = [d \in Controls |-> controls[d]]
  BY DEF IInv, Typed
<1>2. /\ count' \in Counts /\ count.edits <= count'.edits /\ count.loads <= count'.loads
  BY <1>1, BumpMoves DEF StartRun
<1>3. UNCHANGED <<controls, export, runs>> /\ (Loop => Loop')
  BY OverlapStays DEF StartRun, store
<1>4. Known'
  BY <1>1, StartRunKnows DEF BundleInv
<1>5. Authored'
  BY <1>3, AuthoredStays DEF BundleInv
<1>6. Len(runs) <= Len(runs') /\ \A i \in 1..Len(runs) : runs'[i] = runs[i]
  BY <1>3, RunsSequence DEF BundleInv, Known
<1>7. ExportKnown'
  BY <1>1, <1>2, <1>3, <1>4, <1>6, RowsGrow
<1> QED
  BY <1>4, <1>5, <1>7 DEF BundleInv

LEMMA ResetKnown ==
  ASSUME IInv, BundleInv, Reset
  PROVE  BundleInv'
<1>1. count \in Counts
  BY DEF IInv, Typed
<1>2. Known'
  BY <1>1, ResetKnows DEF BundleInv
<1>3. controls' = Nothing /\ export' = export
  BY DEF Reset
<1>4. Authored'
  BY <1>3 DEF Authored, Nothing
<1>5. /\ count' \in Counts /\ count'.loads = count.loads + 1 /\ count'.edits = count.edits
      /\ count.loads \in Nat /\ count.edits \in Nat
  BY <1>1, BumpMoves DEF Reset
<1>6. ExportKnown'
  BY <1>1, <1>3, <1>5, ExportStays DEF BundleInv
<1> QED
  BY <1>2, <1>4, <1>6 DEF BundleInv

LEMMA DieKnown ==
  ASSUME IInv, BundleInv, Die
  PROVE  BundleInv'
<1>1. count \in Counts
  BY DEF IInv, Typed
<1>2. count'.runs = count.runs
  BY <1>1, BumpMoves DEF Die
<1>3. /\ UNCHANGED <<controls, runs, done>> /\ load' = Idle /\ export' = Idle
      /\ req' = [r \in Requests |-> Idle]
  BY DEF Die, store
<1>4. Active' = {}
  BY <1>3 DEF Active
<1>5. RowsTimed' /\ RunsKnown'
  BY <1>2, <1>3, <1>4 DEF BundleInv, Known, RowsTimed, RunsKnown
<1>6. /\ \A c, p, at : HasRow(c, p, at)' = HasRow(c, p, at)
      /\ \A at, c, procs : RowsOnly(at, c, procs)' = RowsOnly(at, c, procs)
  BY <1>3 DEF HasRow, RowsOnly
<1>7. ASSUME NEW c \in Controls, Complete(c) PROVE Complete(c)'
  BY <1>2, <1>3, <1>4, <1>6, <1>7 DEF Complete
<1>8. DoneKnown'
  BY <1>3, <1>7 DEF BundleInv, Known, DoneKnown
<1>9. Authored' /\ ExportKnown'
  BY <1>3, AuthoredStays DEF BundleInv, ExportKnown
<1> QED
  BY <1>5, <1>8, <1>9 DEF BundleInv, Known

\* The ids of a finite set as a list.
LEMMA ListOfSet ==
  ASSUME NEW S, IsFiniteSet(S)
  PROVE  SetToSeq(S) \in Seq(S) /\ Range(SetToSeq(S)) \subseteq S
<1>1. PICK n \in Nat : ExistsBijection(1..n, S)
  BY FS_NatBijection
<1>2. Cardinality(S) = n
  BY <1>1, FS_CountingElements
<1>3. PICK f \in Bijection(1..n, S) : TRUE
  BY <1>1 DEF ExistsBijection
<1>4. f \in [1..n -> S] /\ IsInjective(f)
  BY <1>3 DEF Bijection, Injection
<1>5. \E g \in [1..Cardinality(S) -> S] : IsInjective(g)
  BY <1>2, <1>4
<1>6. SetToSeq(S) \in [1..n -> S]
  BY <1>2, <1>5 DEF SetToSeq
<1> HIDE DEF SetToSeq
<1>7. SetToSeq(S) \in Seq(S)
  BY <1>1, <1>6
<1>8. Range(SetToSeq(S)) \subseteq S
  BY <1>6 DEF Range
<1> QED
  BY <1>7, <1>8

\* A step of an export: runs, rows and controls stay.
LEMMA OnlyExport ==
  ASSUME BundleInv, UNCHANGED <<controls, runs, req, done>>, count'.runs = count.runs
  PROVE  Known' /\ Authored'
<1>1. Known'
  BY RunsStay DEF BundleInv, Known
<1>2. Authored'
  BY AuthoredStays DEF BundleInv
<1> QED
  BY <1>1, <1>2

LEMMA StartExportKnown ==
  ASSUME IInv, BundleInv, StartExport
  PROVE  BundleInv'
<1>1. count \in Counts
  BY DEF IInv, Typed
<1>2. /\ count'.runs = count.runs /\ count'.edits = count.edits /\ count'.loads = count.loads
      /\ count.edits \in Nat /\ count.loads \in Nat
  BY <1>1, BumpMoves DEF StartExport
<1> DEFINE S == {c \in Controls : controls[c] # Absent}
<1>3. PICK todo : todo = SetToSeq(S)
  OBVIOUS
<1>4. UNCHANGED <<controls, runs, req, done>> /\ (Loop => Loop')
  BY OverlapStays DEF StartExport, store
<1>5. Known' /\ Authored'
  BY <1>2, <1>4, OnlyExport
<1>6. todo \in Seq(Controls) /\ \A c \in Range(todo) : controls[c] # Absent
  <2>1. IsFiniteSet(S) /\ S \subseteq Controls
    BY BoundAssumption, FS_Subset
  <2>2. \A c \in S : controls[c] # Absent
    OBVIOUS
  <2> HIDE DEF S
  <2>3. todo \in Seq(S) /\ Range(todo) \subseteq S
    BY <1>3, <2>1, ListOfSet
  <2> QED
    BY <2>1, <2>2, <2>3
<1>7. PICK e : e = [step |-> "rows", todo |-> todo, rows |-> <<>>, info |-> Nothing,
                    workpapers |-> Nothing,
                    began |-> [rows |-> Len(runs), edits |-> count.edits, loads |-> count.loads,
                               loop |-> Loop, intact |-> Intact]]
  OBVIOUS
<1>8. export' = e
  BY <1>3, <1>7 DEF StartExport
<1>9. /\ e.step = "rows" /\ e.todo = todo /\ DOMAIN e.rows = {}
      /\ DOMAIN e = {"step", "todo", "rows", "info", "workpapers", "began"}
      /\ e.began.rows = Len(runs) /\ e.began.edits = count.edits /\ e.began.loads = count.loads
      /\ e.began.loop = Loop
  BY <1>7
<1>10. Len(runs') = Len(runs) /\ Len(runs) \in Nat
  BY <1>4, RunsSequence DEF BundleInv, Known
<1>11. PICK b : b = e.began
  OBVIOUS
<1>12. Fresh(b)'
  BY <1>4, <1>6, <1>8, <1>9, <1>10, <1>11 DEF Fresh
<1>13. ExportKnown'
  BY <1>2, <1>4, <1>6, <1>8, <1>9, <1>10, <1>11, <1>12 DEF ExportKnown
<1> QED
  BY <1>5, <1>13 DEF BundleInv

LEMMA ReadRunsKnown ==
  ASSUME IInv, BundleInv, ReadRuns
  PROVE  BundleInv'
<1>1. UNCHANGED <<controls, runs, req, done, load, count>>
  BY DEF ReadRuns, store
<1>2. Known' /\ Authored'
  BY <1>1, OnlyExport
<1>3. PICK e, f : e = export /\ f = export'
  OBVIOUS
<1>4. PICK c, rows : c = Head(e.todo) /\ rows = Chronological(c)
  OBVIOUS
<1>5. /\ e # Idle /\ e.step = "rows" /\ e.todo # <<>>
      /\ f = [e EXCEPT !.rows = Put(@, c, rows), !.todo = Tail(@)]
  BY <1>3, <1>4 DEF ReadRuns, Exporting
<1>6. /\ DOMAIN e = {"step", "todo", "rows", "info", "workpapers", "began"}
      /\ e.todo \in Seq(Controls) /\ DOMAIN e.rows \subseteq Controls
      /\ e.began.rows \in Nat /\ e.began.edits \in 0..count.edits /\ e.began.loads \in 0..count.loads
      /\ \A d \in DOMAIN e.rows : Listing(d, e.rows[d])
      /\ e.began.loads = count.loads => Fresh(e.began) /\ (e.began.loop => Loop)
  BY <1>3, <1>5 DEF BundleInv, ExportKnown
<1>7. c \in Controls /\ c \in Range(e.todo) /\ Tail(e.todo) \in Seq(Controls)
      /\ Range(Tail(e.todo)) \subseteq Range(e.todo)
  BY <1>4, <1>5, <1>6, HeadAndTail
<1>8. Listing(c, rows) /\ Range(rows) = {row \in Range(runs) : row.control = c}
  BY <1>4, ChronologicalIs DEF BundleInv, Known
<1>9. /\ DOMAIN f = DOMAIN e /\ f.step = "rows" /\ f.todo = Tail(e.todo) /\ f.began = e.began
      /\ f.rows = Put(e.rows, c, rows) /\ f # Idle
  BY <1>5, <1>6 DEF Idle
<1>10. /\ DOMAIN f.rows = DOMAIN e.rows \cup {c} /\ f.rows[c] = rows
       /\ \A d \in DOMAIN e.rows : d # c => f.rows[d] = e.rows[d]
  BY <1>9 DEF Put
<1>11. ASSUME NEW d \in DOMAIN f.rows PROVE Listing(d, f.rows[d])'
  <2>1. Listing(d, f.rows[d])
    BY <1>6, <1>8, <1>10
  <2> QED
    BY <2>1 DEF Listing, Ascending
<1>12. PICK b : b = e.began
  OBVIOUS
<1>13. ASSUME b.loads = count.loads PROVE Fresh(b)' /\ (b.loop => Loop')
  <2>1. /\ b.rows <= Len(runs)
        /\ \A d \in DOMAIN e.rows \cup Range(e.todo) : controls[d] # Absent
        /\ \A d \in DOMAIN e.rows :
             /\ \A i \in DOMAIN e.rows[d] : \E j \in DOMAIN runs : runs[j] = e.rows[d][i]
             /\ \A j \in 1..b.rows : runs[j].control = d =>
                  \E i \in DOMAIN e.rows[d] : e.rows[d][i] = runs[j]
    BY <1>3, <1>6, <1>12, <1>13 DEF Fresh
  <2>2. \A d \in DOMAIN f.rows \cup Range(f.todo) : controls[d] # Absent
    BY <1>7, <1>9, <1>10, <2>1
  <2>3. \A i \in DOMAIN rows : \E j \in DOMAIN runs : runs[j] = rows[i]
    BY <1>8 DEF Range
  <2>4. \A j \in 1..b.rows : runs[j].control = c => \E i \in DOMAIN rows : rows[i] = runs[j]
    <3>1. \A j \in 1..b.rows : j \in DOMAIN runs
      BY <1>6, <1>12, <2>1, RunsSequence DEF BundleInv, Known
    <3> QED
      BY <1>8, <3>1 DEF Range
  <2>5. \A d \in DOMAIN f.rows :
          /\ \A i \in DOMAIN f.rows[d] : \E j \in DOMAIN runs : runs[j] = f.rows[d][i]
          /\ \A j \in 1..b.rows : runs[j].control = d =>
               \E i \in DOMAIN f.rows[d] : f.rows[d][i] = runs[j]
    BY <1>10, <2>1, <2>3, <2>4
  <2> QED
    BY <1>1, <1>3, <1>6, <1>9, <1>12, <1>13, <2>1, <2>2, <2>5 DEF Fresh, Loop
<1>14. ExportKnown'
  BY <1>1, <1>3, <1>6, <1>7, <1>9, <1>10, <1>11, <1>12, <1>13 DEF ExportKnown
<1> QED
  BY <1>2, <1>14 DEF BundleInv

LEMMA ReadInfoKnown ==
  ASSUME IInv, BundleInv, ReadInfo
  PROVE  BundleInv'
<1>1. UNCHANGED <<controls, runs, req, done, load, count>>
  BY DEF ReadInfo, store
<1>2. Known' /\ Authored'
  BY <1>1, OnlyExport
<1>3. PICK e, f : e = export /\ f = export'
  OBVIOUS
<1>4. PICK info : info = [c \in Controls |-> InfoOf(controls[c])]
  OBVIOUS
<1>5. e # Idle /\ e.step = "rows" /\ f = [e EXCEPT !.step = "write", !.info = info]
  BY <1>3, <1>4 DEF ReadInfo, Exporting, InfoOf
<1>6. /\ DOMAIN e = {"step", "todo", "rows", "info", "workpapers", "began"}
      /\ e.todo \in Seq(Controls) /\ DOMAIN e.rows \subseteq Controls
      /\ e.began.rows \in Nat /\ e.began.edits \in 0..count.edits /\ e.began.loads \in 0..count.loads
      /\ \A c \in DOMAIN e.rows : Listing(c, e.rows[c])
      /\ e.began.loads = count.loads => Fresh(e.began) /\ (e.began.loop => Loop)
  BY <1>3, <1>5 DEF BundleInv, ExportKnown
<1>7. /\ DOMAIN f = DOMAIN e /\ f.step = "write" /\ f.todo = e.todo /\ f.began = e.began
      /\ f.rows = e.rows /\ f.info = info /\ f # Idle
  BY <1>5, <1>6 DEF Idle
<1>8. \A c \in Controls : info[c] = InfoOf(controls[c])
  BY <1>4
<1>9. \A c \in Controls : info[c] \in Graphs[c] \cup {Absent}
  BY <1>8 DEF BundleInv, Authored, InfoOf
<1>10. \A c \in DOMAIN f.rows : Listing(c, f.rows[c])'
  BY <1>6, <1>7 DEF Listing, Ascending
<1>11. PICK b : b = e.began
  OBVIOUS
<1>12. ASSUME b.loads = count.loads PROVE Fresh(b)' /\ (b.loop => Loop')
  <2>1. /\ b.rows <= Len(runs)
        /\ \A d \in DOMAIN e.rows \cup Range(e.todo) : controls[d] # Absent
        /\ \A d \in DOMAIN e.rows :
             /\ \A i \in DOMAIN e.rows[d] : \E j \in DOMAIN runs : runs[j] = e.rows[d][i]
             /\ \A j \in 1..b.rows : runs[j].control = d =>
                  \E i \in DOMAIN e.rows[d] : e.rows[d][i] = runs[j]
    BY <1>3, <1>6, <1>11, <1>12 DEF Fresh
  <2>2. \A c \in DOMAIN f.rows : f.info[c] = InfoOf(controls[c])
    BY <1>6, <1>7, <1>8
  <2> QED
    BY <1>1, <1>3, <1>6, <1>7, <1>11, <1>12, <2>1, <2>2 DEF Fresh, Loop
<1>13. ExportKnown'
  BY <1>1, <1>3, <1>6, <1>7, <1>9, <1>10, <1>11, <1>12 DEF ExportKnown
<1> QED
  BY <1>2, <1>13 DEF BundleInv

\* The archive is opened and the workpapers are copied: what was read stays.
LEMMA CopyKnown ==
  ASSUME IInv, BundleInv, OpenBundle \/ CopyWorkpapers
  PROVE  BundleInv'
<1>1. UNCHANGED <<controls, runs, req, done, load, count>>
  BY DEF OpenBundle, CopyWorkpapers, store
<1>2. Known' /\ Authored'
  BY <1>1, OnlyExport
<1>3. PICK e, f : e = export /\ f = export'
  OBVIOUS
<1>4. /\ e # Idle /\ e.step \in {"write", "workpapers"}
      /\ DOMAIN e = {"step", "todo", "rows", "info", "workpapers", "began"}
      /\ e.todo \in Seq(Controls) /\ DOMAIN e.rows \subseteq Controls
      /\ e.began.rows \in Nat /\ e.began.edits \in 0..count.edits /\ e.began.loads \in 0..count.loads
      /\ \A c \in DOMAIN e.rows : Listing(c, e.rows[c])
      /\ \A c \in Controls : e.info[c] \in Graphs[c] \cup {Absent}
      /\ e.began.loads = count.loads => Fresh(e.began) /\ (e.began.loop => Loop)
  BY <1>3 DEF OpenBundle, CopyWorkpapers, Exporting, BundleInv, ExportKnown
<1>5. /\ DOMAIN f = DOMAIN e /\ f.step \in {"workpapers", "evidence"} /\ f.todo = e.todo
      /\ f.began = e.began /\ f.rows = e.rows /\ f.info = e.info /\ f # Idle
  <2>1. CASE OpenBundle
    <3>1. f = [e EXCEPT !.step = "workpapers"]
      BY <1>3, <2>1 DEF OpenBundle
    <3> QED
      BY <1>4, <3>1 DEF Idle
  <2>2. CASE CopyWorkpapers
    <3>1. f = [e EXCEPT !.step = "evidence", !.workpapers = papers]
      BY <1>3, <2>2 DEF CopyWorkpapers
    <3> QED
      BY <1>4, <3>1 DEF Idle
  <2> QED
    BY <2>1, <2>2
<1>6. \A c \in DOMAIN f.rows : Listing(c, f.rows[c])'
  BY <1>4, <1>5 DEF Listing, Ascending
<1>7. PICK b : b = e.began
  OBVIOUS
<1>8. ASSUME b.loads = count.loads PROVE Fresh(b)' /\ (b.loop => Loop')
  <2>1. Fresh(b) /\ (b.loop => Loop)
    BY <1>4, <1>7, <1>8
  <2> QED
    BY <1>1, <1>3, <1>4, <1>5, <2>1 DEF Fresh, Loop
<1>9. ExportKnown'
  BY <1>1, <1>3, <1>4, <1>5, <1>6, <1>7, <1>8 DEF ExportKnown
<1> QED
  BY <1>2, <1>9 DEF BundleInv

LEMMA ExportEnds ==
  ASSUME IInv, BundleInv, NoRuns \/ CloseBundle \/ ExportFails
  PROVE  BundleInv'
<1>1. UNCHANGED <<controls, runs, req, done, load, count>> /\ export' = Idle
  BY DEF NoRuns, CloseBundle, ExportFails, store
<1>2. Known' /\ Authored'
  BY <1>1, OnlyExport
<1> QED
  BY <1>1, <1>2 DEF BundleInv, ExportKnown

LEMMA InitBundle == Init => BundleInv
<1> SUFFICES ASSUME Init PROVE BundleInv
  OBVIOUS
<1>1. /\ runs = <<>> /\ done = Nothing /\ export = Idle /\ count.runs = 0
      /\ req = [r \in Requests |-> Idle] /\ Loop
  BY DEF Init, Loop
<1>2. Known
  <2>1. Active = {} /\ DOMAIN req = Requests
    BY <1>1 DEF Active
  <2>2. DOMAIN done = Controls /\ \A c \in Controls : done[c] = Absent
    BY <1>1 DEF Nothing
  <2>3. RowsTimed
    BY <1>1, BoundAssumption DEF RowsTimed
  <2> QED
    BY <2>1, <2>2, <2>3 DEF Known, RunsKnown, DoneKnown
<1>3. Authored
  <2>1. CASE controls = Nothing
    BY <2>1 DEF Authored, Nothing
  <2>2. CASE \A c \in Controls : controls[c] \in IF c \in Demo THEN {DemoGraph[c]} ELSE Graphs[c]
    BY <2>2, DemoAssumption DEF Authored
  <2> QED
    BY <2>1, <2>2 DEF Init
<1> QED
  BY <1>1, <1>2, <1>3 DEF BundleInv, ExportKnown

LEMMA NextBundle == IInv /\ BundleInv /\ [Next]_vars => BundleInv'
<1> SUFFICES ASSUME IInv, BundleInv, [Next]_vars PROVE BundleInv'
  OBVIOUS
<1>1. ASSUME NEW k \in Keys, NEW v \in Values \cup {Unset}, Choose(k, v) PROVE BundleInv'
  BY <1>1, ChooseKnows
<1>2. CASE Setup \/ ClearTarget \/ ImportProject \/ ImportColumns \/ ImportFile \/ Bind \/ FinishLoad
  BY <1>2, LoadKnows
<1>3. CASE LoadDemo \/ Reset
  BY <1>3, LoadDemoKnows, ResetKnown
<1>4. ASSUME NEW s \in Sources, Upload(s) PROVE BundleInv'
  BY <1>4, UploadKnows
<1>5. ASSUME NEW s \in Sources, ClearFile(s) \/ ImportSource(s) \/ Copy(s) PROVE BundleInv'
  BY <1>5, LoadKnows
<1>6. ASSUME NEW c \in Controls, NEW g \in Graphs[c], Author(c, g) PROVE BundleInv'
  BY <1>6, AuthorKnows
<1>7. ASSUME NEW c \in Controls, ImportControl(c) PROVE BundleInv'
  BY <1>7, ImportControlKnows
<1>8. ASSUME NEW r \in Requests, NEW c \in Controls, StartRun(r, c) PROVE BundleInv'
  BY <1>8, StartRunKnown
<1>9. ASSUME NEW r \in Requests,
             RunProc(r) \/ RunFails(r) \/ OpenPaper(r) \/ WritePaper(r) \/ Aggregate(r)
      PROVE  BundleInv'
  BY <1>9, RunKnows
<1>10. CASE StartExport \/ ReadRuns \/ ReadInfo
  BY <1>10, StartExportKnown, ReadRunsKnown, ReadInfoKnown
<1>11. CASE NoRuns \/ OpenBundle \/ CopyWorkpapers \/ CloseBundle \/ ExportFails
  BY <1>11, CopyKnown, ExportEnds
<1>12. CASE Die
  BY <1>12, DieKnown
<1>13. CASE UNCHANGED vars
  <2>1. UNCHANGED <<load, controls, runs, req, done, export, count>>
    BY <1>13 DEF vars, store
  <2>2. count \in Counts
    BY DEF IInv, Typed
  <2>3. Loop => Loop'
    BY <2>1 DEF Loop
  <2> QED
    BY <2>1, <2>2, <2>3, SameCounts, TablesStay
<1> QED
  BY <1>1, <1>2, <1>3, <1>4, <1>5, <1>6, <1>7, <1>8, <1>9, <1>10, <1>11, <1>12, <1>13 DEF Next

LEMMA BundleInvariant == Spec => []BundleInv
<1> QED BY InitBundle, NextBundle, Invariant, PTL DEF Spec

\* Whatever a paper shows is the newest of its procedure that the export read.
LEMMA PaperShows ==
  ASSUME NEW c \in Controls, NEW rows, Listing(c, rows), NEW info,
         info \in Graphs[c] \cup {Absent}, NEW shown, shown = Workpaper(rows, info)
  PROVE  \A i \in DOMAIN shown :
           /\ shown[i] \in Range(rows)
           /\ \A k \in DOMAIN rows : rows[k].proc = shown[i].proc => rows[k].at <= shown[i].at
<1>1. rows \in Seq(Row) /\ Ascending(rows)
  BY DEF Listing
<1>2. CASE info # Absent /\ \E i \in DOMAIN rows : rows[i].proc # Whole
  <2> DEFINE P == {p \in Range(info) : HasRun(rows, p)}
  <2>1. PICK sh : sh = Only(info, P)
    OBVIOUS
  <2>2. info \in Seq(Range(info))
    BY <1>2, GraphOf
  <2>3. \A p \in P : HasRun(rows, p)
    OBVIOUS
  <2>4. shown = [i \in DOMAIN sh |-> LatestOf(rows, sh[i])]
    BY <1>2, <2>1 DEF Workpaper
  <2> HIDE DEF P
  <2>5. sh \in Seq(Range(info)) /\ Range(sh) = Range(info) \cap P
    BY <2>1, <2>2, OnlyRange
  <2>6. ASSUME NEW i \in DOMAIN shown
        PROVE  /\ shown[i] \in Range(rows)
               /\ \A k \in DOMAIN rows : rows[k].proc = shown[i].proc => rows[k].at <= shown[i].at
    <3>1. PICK p : p = sh[i]
      OBVIOUS
    <3>2. p \in Range(sh) /\ shown[i] = LatestOf(rows, p)
      BY <2>4, <3>1 DEF Range
    <3>3. HasRun(rows, p)
      BY <2>3, <2>5, <3>2
    <3>4. /\ LatestOf(rows, p) \in Range(rows) /\ LatestOf(rows, p).proc = p
          /\ \A k \in DOMAIN rows : rows[k].proc = p => rows[k].at <= LatestOf(rows, p).at
      BY <1>1, <3>3, LatestIsNewest
    <3> QED
      BY <3>2, <3>4
  <2> QED
    BY <2>6
<1>3. CASE ~(info # Absent /\ \E i \in DOMAIN rows : rows[i].proc # Whole)
  <2>1. shown = IF rows = <<>> THEN <<>> ELSE <<Last(rows)>>
    BY <1>3 DEF Workpaper
  <2>2. CASE rows = <<>>
    BY <2>1, <2>2
  <2>3. CASE rows # <<>>
    <3>1. /\ Last(rows) \in Range(rows)
          /\ \A k \in DOMAIN rows : rows[k].at <= Last(rows).at
      BY <1>1, <2>3, LastIsNewest
    <3>2. \A i \in DOMAIN shown : shown[i] = Last(rows)
      BY <2>1, <2>3
    <3> QED
      BY <3>1, <3>2
  <2> QED
    BY <2>2, <2>3
<1> QED
  BY <1>2, <1>3

\* When the newest run of the control completed on the graph it has, and the
\* export has read every row of it, the paper shows that run.
LEMMA PaperOfSettled ==
  ASSUME BundleInv, NEW c \in Controls, NEW rows, Listing(c, rows), Settled(c),
         NEW info, info = InfoOf(controls[c]),
         \A i \in DOMAIN rows : \E j \in DOMAIN runs : runs[j] = rows[i],
         \A j \in DOMAIN runs : runs[j].control = c => \E i \in DOMAIN rows : rows[i] = runs[j]
  PROVE  Workpaper(rows, info) =
           [i \in DOMAIN controls[c] |-> [control |-> c, proc |-> controls[c][i], at |-> done[c].at]]
<1>1. PICK g, at : g = controls[c] /\ at = done[c].at
  OBVIOUS
<1> DEFINE procs == IF Len(g) > 1 THEN Range(g) \cup {Whole} ELSE Range(g)
           New(i) == [control |-> c, proc |-> g[i], at |-> at]
<1>2. /\ done[c] # Absent /\ done[c].graph = g
      /\ \A i \in DOMAIN runs : runs[i].control = c => runs[i].at <= at
  BY <1>1 DEF Settled
<1>3. /\ at \in 1..count.runs /\ g \in Graphs[c] /\ g # Absent
      /\ \A i \in 1..Len(g) : HasRow(c, g[i], at)
      /\ RowsOnly(at, c, procs)
  BY <1>1, <1>2 DEF BundleInv, Known, DoneKnown, Complete
<1>4. /\ g \in Seq(Range(g)) /\ Len(g) \in Nat /\ Len(g) >= 1 /\ DOMAIN g = 1..Len(g)
      /\ \A i \in 1..Len(g) : g[i] \in Range(g)
  BY <1>3, GraphOf
<1>5. /\ rows \in Seq(Row) /\ Ascending(rows) /\ \A i \in DOMAIN rows : rows[i].control = c
  BY DEF Listing
<1>6. \A x \in Range(rows) : x \in Row /\ x.control = c /\ x.at <= at /\ (x.at = at => x.proc \in procs)
  <2> TAKE x \in Range(rows)
  <2>1. PICK k \in DOMAIN rows : x = rows[k]
    BY DEF Range
  <2>2. PICK j \in DOMAIN runs : runs[j] = x
    BY <2>1
  <2>3. x \in Row /\ x.control = c
    BY <1>5, <2>1
  <2> QED
    BY <1>2, <1>3, <2>2, <2>3 DEF RowsOnly
<1>7. \A i \in 1..Len(g) : \E k \in DOMAIN rows : rows[k] = New(i)
  BY <1>3 DEF HasRow
<1>8. \A i : New(i).proc = g[i] /\ New(i).at = at /\ New(i).control = c
  OBVIOUS
<1>9. \A x \in Row : x = [control |-> x.control, proc |-> x.proc, at |-> x.at] /\ x.at \in Nat
  BY BoundAssumption DEF Row
<1>10. at \in Nat
  BY <1>3
<1>11. PICK one \in DOMAIN rows : rows[one] = New(1)
  BY <1>4, <1>7
<1> HIDE DEF New
<1>12. CASE Len(g) > 1
  <2>1. info = g
    BY <1>1, <1>3, <1>12 DEF InfoOf
  <2>2. Whole \notin Range(g)
    <3>1. Len(<<Whole>>) = 1
      OBVIOUS
    <3>2. g # <<Whole>>
      <4> SUFFICES ASSUME g = <<Whole>> PROVE FALSE
        OBVIOUS
      <4>1. Len(g) = 1
        BY <3>1
      <4> QED
        BY <1>12, <4>1
    <3> QED
      BY <1>3, <3>2, GraphAssumption
  <2>3. rows[one].proc # Whole
    BY <1>4, <1>8, <1>11, <2>2
  <2> DEFINE P == {p \in Range(g) : HasRun(rows, p)}
  <2>4. \A i \in 1..Len(g) : HasRun(rows, g[i])
    BY <1>7, <1>8 DEF HasRun
  <2>5. Range(g) \subseteq P
    BY <1>4, <2>4 DEF Range
  <2>6. Workpaper(rows, info) = [i \in DOMAIN Only(g, P) |-> LatestOf(rows, Only(g, P)[i])]
    BY <1>3, <2>1, <2>3 DEF Workpaper
  <2> HIDE DEF P
  <2>7. Only(g, P) = g
    BY <1>4, <2>5, OnlyAll
  <2>8. ASSUME NEW i \in 1..Len(g) PROVE LatestOf(rows, g[i]) = New(i)
    <3>1. PICK x : x = LatestOf(rows, g[i])
      OBVIOUS
    <3>2. /\ x \in Range(rows) /\ x.proc = g[i]
          /\ \A k \in DOMAIN rows : rows[k].proc = g[i] => rows[k].at <= x.at
      BY <1>5, <2>4, <3>1, LatestIsNewest
    <3>3. at <= x.at
      BY <1>7, <1>8, <3>2
    <3>4. x.at = at /\ x.control = c
      BY <1>6, <1>9, <1>10, <3>2, <3>3
    <3>5. x = [control |-> c, proc |-> g[i], at |-> at]
      BY <1>6, <1>9, <3>2, <3>4
    <3> QED
      BY <3>1, <3>5 DEF New
  <2>9. Workpaper(rows, info) = [i \in DOMAIN g |-> New(i)]
    BY <1>4, <2>6, <2>7, <2>8
  <2> QED
    BY <1>1, <2>9 DEF New
<1>13. CASE ~(Len(g) > 1)
  <2>1. info = Absent /\ Len(g) = 1
    <3>1. info = InfoOf(g)
      BY <1>1
    <3>2. info = Absent
      BY <1>13, <3>1 DEF InfoOf
    <3> DEFINE n == Len(g)
    <3>3. n \in Nat /\ n >= 1 /\ ~(n > 1)
      BY <1>4, <1>13
    <3> HIDE DEF n
    <3>4. n = 1
      BY <3>3
    <3> QED
      BY <3>2, <3>4 DEF n
  <2>2. rows # <<>>
    BY <1>11
  <2>3. PICK x : x = Last(rows)
    OBVIOUS
  <2>4. Workpaper(rows, info) = <<x>>
    BY <2>1, <2>2, <2>3 DEF Workpaper
  <2>5. x \in Range(rows) /\ \A k \in DOMAIN rows : rows[k].at <= x.at
    BY <1>5, <2>2, <2>3, LastIsNewest
  <2>6. x.at = at /\ x.control = c
    BY <1>6, <1>8, <1>9, <1>10, <1>11, <2>5
  <2>7. x.proc \in Range(g)
    BY <1>6, <1>13, <2>5, <2>6
  <2>8. x.proc = g[1]
    BY <1>4, <2>1, <2>7 DEF Range
  <2>9. x = New(1)
    BY <1>6, <1>9, <2>5, <2>6, <2>8 DEF New
  <2>10. <<x>> = [i \in 1..1 |-> New(i)]
    <3> DEFINE t == <<x>>
               u == [i \in 1..1 |-> New(i)]
    <3>1. DOMAIN t = 1..1 /\ t[1] = x /\ DOMAIN u = 1..1 /\ u[1] = New(1)
      OBVIOUS
    <3>2. t = [i \in 1..1 |-> t[i]] /\ u = [i \in 1..1 |-> u[i]]
      OBVIOUS
    <3>3. \A i \in 1..1 : t[i] = u[i]
      BY <2>9, <3>1
    <3> HIDE DEF t, u
    <3>4. t = u
      BY <3>1, <3>2, <3>3
    <3> QED
      BY <3>4 DEF t, u
  <2>11. Workpaper(rows, info) = [i \in DOMAIN g |-> New(i)]
    BY <1>4, <2>1, <2>4, <2>10
  <2> QED
    BY <1>1, <2>11 DEF New
<1> QED
  BY <1>12, <1>13

LEMMA WritesCurrent ==
  ASSUME BundleInv, CloseBundle, bundle # Absent,
         NEW c \in DOMAIN bundle'.results, NEW shown, shown = bundle'.results[c]
  PROVE  /\ count.loads = export.began.loads =>
              \A i \in DOMAIN shown, j \in 1 .. export.began.rows :
                runs[j].control = c /\ runs[j].proc = shown[i].proc => runs[j].at <= shown[i].at
         /\ Undisturbed /\ Settled(c) =>
              shown = [i \in DOMAIN controls[c] |->
                        [control |-> c, proc |-> controls[c][i], at |-> done[c].at]]
<1>1. PICK e : e = export
  OBVIOUS
<1>2. /\ e # Idle /\ e.step = "evidence"
      /\ bundle'.results = [d \in DOMAIN e.rows |-> Workpaper(e.rows[d], e.info[d])]
  BY <1>1 DEF CloseBundle, Exporting
<1>3. PICK rows, info : rows = e.rows[c] /\ info = e.info[c]
  OBVIOUS
<1>4. c \in DOMAIN e.rows /\ shown = Workpaper(rows, info)
  BY <1>2, <1>3
<1>5. /\ DOMAIN e.rows \subseteq Controls /\ e.began.rows \in Nat
      /\ \A d \in DOMAIN e.rows : Listing(d, e.rows[d])
      /\ \A d \in Controls : e.info[d] \in Graphs[d] \cup {Absent}
      /\ e.began.loads = count.loads => Fresh(e.began)
  BY <1>1, <1>2 DEF BundleInv, ExportKnown
<1>6. c \in Controls /\ Listing(c, rows) /\ info \in Graphs[c] \cup {Absent}
  BY <1>3, <1>4, <1>5
<1>7. \A i \in DOMAIN shown :
        /\ shown[i] \in Range(rows)
        /\ \A k \in DOMAIN rows : rows[k].proc = shown[i].proc => rows[k].at <= shown[i].at
  BY <1>4, <1>6, PaperShows
<1>8. ASSUME e.began.loads = count.loads
      PROVE  /\ e.began.rows <= Len(runs)
             /\ \A i \in DOMAIN rows : \E j \in DOMAIN runs : runs[j] = rows[i]
             /\ \A j \in 1..e.began.rows : runs[j].control = c =>
                  \E i \in DOMAIN rows : rows[i] = runs[j]
             /\ e.began.loop /\ e.began.edits = count.edits => info = InfoOf(controls[c])
  BY <1>1, <1>2, <1>3, <1>4, <1>5, <1>8 DEF Fresh
<1>9. ASSUME count.loads = e.began.loads
      PROVE  \A i \in DOMAIN shown, j \in 1 .. e.began.rows :
               runs[j].control = c /\ runs[j].proc = shown[i].proc => runs[j].at <= shown[i].at
  BY <1>7, <1>8, <1>9
<1>10. ASSUME Undisturbed, Settled(c)
       PROVE  shown = [i \in DOMAIN controls[c] |->
                        [control |-> c, proc |-> controls[c][i], at |-> done[c].at]]
  <2>1. /\ Len(runs) = e.began.rows /\ count.edits = e.began.edits
        /\ count.loads = e.began.loads /\ e.began.loop
    BY <1>1, <1>10 DEF Undisturbed
  <2>2. DOMAIN runs = 1..e.began.rows
    BY <2>1, RunsSequence DEF BundleInv, Known
  <2>3. /\ info = InfoOf(controls[c])
        /\ \A i \in DOMAIN rows : \E j \in DOMAIN runs : runs[j] = rows[i]
        /\ \A j \in DOMAIN runs : runs[j].control = c => \E i \in DOMAIN rows : rows[i] = runs[j]
    BY <1>8, <2>1, <2>2
  <2> QED
    BY <1>4, <1>6, <1>10, <2>3, PaperOfSettled
<1> QED
  BY <1>1, <1>9, <1>10

\* Nothing but an export closes an archive.
LEMMA OnlyExportsClose ==
  ASSUME [Next]_vars, Closed
  PROVE  CloseBundle /\ bundle # Absent
BY DEF Closed, Next, Choose, Setup, LoadDemo, Reset, Upload, ClearFile, ImportSource, ImportColumns,
       ImportFile, Copy, Author, ImportControl, ClearTarget, ImportProject, Bind, FinishLoad,
       StartRun, RunProc, RunFails, OpenPaper, WritePaper, Aggregate, StartExport, ReadRuns, NoRuns,
       ReadInfo, OpenBundle, CopyWorkpapers, CloseBundle, ExportFails, Die, vars, disk

\* The results that an export writes are current, whatever ran, was edited or was
\* reset while it read: none is older than the one of its procedure that was there
\* when it began, and an undisturbed export shows the newest run that completed.
THEOREM BundlesAreCurrent == Spec => BundleCurrent
<1>1. IInv /\ BundleInv /\ [Next]_vars =>
        [Closed =>
           \A c \in DOMAIN bundle'.results : LET shown == bundle'.results[c] IN
             /\ count.loads = export.began.loads /\ Loop =>
                  \A i \in DOMAIN shown, j \in 1 .. export.began.rows :
                    LET old == runs[j]
                    IN old.control = c /\ old.proc = shown[i].proc => old.at <= shown[i].at
             /\ Undisturbed /\ Settled(c) =>
                  shown = [i \in DOMAIN controls[c] |->
                            [control |-> c, proc |-> controls[c][i], at |-> done[c].at]]]_vars
  <2> SUFFICES ASSUME BundleInv, [Next]_vars, Closed,
                      NEW c \in DOMAIN bundle'.results, NEW shown, shown = bundle'.results[c]
               PROVE  /\ count.loads = export.began.loads =>
                           \A i \in DOMAIN shown, j \in 1 .. export.began.rows :
                             runs[j].control = c /\ runs[j].proc = shown[i].proc
                               => runs[j].at <= shown[i].at
                      /\ Undisturbed /\ Settled(c) =>
                           shown = [i \in DOMAIN controls[c] |->
                                     [control |-> c, proc |-> controls[c][i], at |-> done[c].at]]
    OBVIOUS
  <2> QED
    BY OnlyExportsClose, WritesCurrent
<1> QED
  BY <1>1, Invariant, BundleInvariant, PTL DEF Spec, BundleCurrent
----------------------------------------------------------------------------
(* An archive hangs together *)

\* What an export takes with it of a control whose paper was that of its newest
\* run, as long as nothing disturbs it: a run of the control has no row yet, so
\* it has not opened the paper, and what is there is still of the newest run.
Held(c) == export # Idle /\ Undisturbed /\ c \in export.began.intact
IntactKnown ==
  /\ export # Idle => export.began.intact \subseteq Controls
  /\ \A c \in Controls : Held(c) =>
       /\ Settled(c) /\ papers[c] = Paper(done[c].at)
       /\ \A r \in Active : req[r].control = c => req[r].step = "proc"
       /\ export.step = "evidence" => export.workpapers[c] = Paper(done[c].at)

\* A step that adds no row, and is neither an edit nor of a load.
LEMMA StaysIntact ==
  ASSUME IntactKnown, export' # Idle => export # Idle /\ export'.began = export.began,
         UNCHANGED <<runs, controls>>, count'.edits = count.edits, count'.loads = count.loads,
         \A c \in Controls : Held(c) =>
           /\ done'[c] = done[c] /\ papers'[c] = papers[c]
           /\ \A r \in Active' : req'[r].control = c => req'[r].step = "proc",
         export' # Idle /\ export'.step = "evidence" =>
           \/ export.step = "evidence" /\ export'.workpapers = export.workpapers
           \/ export'.workpapers = papers
  PROVE  IntactKnown'
<1>1. export' # Idle => export'.began.intact \subseteq Controls
  BY DEF IntactKnown
<1>2. ASSUME NEW c \in Controls, Held(c)'
      PROVE  /\ Settled(c)' /\ papers'[c] = Paper(done'[c].at)
             /\ \A r \in Active' : req'[r].control = c => req'[r].step = "proc"
             /\ export'.step = "evidence" => export'.workpapers[c] = Paper(done'[c].at)
  <2>1. Held(c) /\ export' # Idle
    BY <1>2 DEF Held, Undisturbed
  <2>2. /\ Settled(c) /\ papers[c] = Paper(done[c].at)
        /\ export.step = "evidence" => export.workpapers[c] = Paper(done[c].at)
    BY <2>1 DEF IntactKnown
  <2>3. /\ done'[c] = done[c] /\ papers'[c] = papers[c]
        /\ \A r \in Active' : req'[r].control = c => req'[r].step = "proc"
    BY <2>1
  <2>4. Settled(c)'
    BY <2>2, <2>3 DEF Settled
  <2>5. export'.step = "evidence" => export'.workpapers[c] = Paper(done'[c].at)
    BY <2>1, <2>2, <2>3
  <2> QED
    BY <2>2, <2>3, <2>4, <2>5
<1>3. IntactKnown' = (/\ export' # Idle => export'.began.intact \subseteq Controls
                      /\ \A c \in Controls : Held(c)' =>
                           /\ Settled(c)' /\ papers'[c] = Paper(done'[c].at)
                           /\ \A r \in Active' : req'[r].control = c => req'[r].step = "proc"
                           /\ export'.step = "evidence" =>
                                export'.workpapers[c] = Paper(done'[c].at))
  BY DEF IntactKnown, Paper
<1> QED
  BY <1>1, <1>2, <1>3

\* After any other step nothing is undisturbed.
LEMMA Disturbed ==
  ASSUME IInv, BundleInv, IntactKnown, export' = export,
         \/ \E r \in Requests : RunProc(r) \/ Aggregate(r)
         \/ \E k \in Keys, v \in Values \cup {Unset} : Choose(k, v)
         \/ \E s \in Sources : Upload(s) \/ ClearFile(s) \/ ImportSource(s) \/ Copy(s)
         \/ \E c \in Controls : \E g \in Graphs[c] : Author(c, g)
         \/ \E c \in Controls : ImportControl(c)
         \/ LoadDemo \/ Reset \/ ClearTarget \/ ImportProject \/ ImportColumns \/ ImportFile
         \/ Bind \/ FinishLoad
  PROVE  IntactKnown'
<1> SUFFICES ASSUME export # Idle, Undisturbed' PROVE FALSE
  BY DEF IntactKnown, Held
<1>1. PICK b : b = export.began
  OBVIOUS
<1>2. /\ b.edits \in 0..count.edits /\ b.loads \in 0..count.loads /\ b.rows \in Nat
      /\ b.loads = count.loads => b.rows <= Len(runs) /\ (b.loop => Loop)
  BY <1>1 DEF BundleInv, ExportKnown, Fresh
<1>3. b.loop /\ Len(runs') = b.rows /\ count'.edits = b.edits /\ count'.loads = b.loads
  BY <1>1 DEF Undisturbed
<1>4. count \in Counts /\ count.edits \in Nat /\ count.loads \in Nat
  BY DEF IInv, Typed, Counts
<1>5. ASSUME NEW r \in Requests, RunProc(r) \/ Aggregate(r) PROVE FALSE
  <2>1. /\ count' = count /\ \E row : runs' = Append(runs, row)
    BY <1>5 DEF RunProc, Aggregate
  <2>2. Len(runs) \in Nat /\ runs \in Seq(Row)
    BY RunsSequence DEF BundleInv, Known
  <2>3. Len(runs') = Len(runs) + 1
    BY <2>1, <2>2
  <2>4. b.rows <= Len(runs)
    BY <1>2, <1>3, <2>1
  <2> QED
    BY <1>2, <1>3, <2>2, <2>3, <2>4
<1>6. ~Bump("edits")
  <2>1. Bump("edits") => count'.edits = count.edits + 1
    BY <1>4, BumpMoves
  <2> QED
    BY <1>2, <1>3, <1>4, <2>1
<1>7. ~Bump("loads")
  <2>1. Bump("loads") => count'.loads = count.loads + 1
    BY <1>4, BumpMoves
  <2> QED
    BY <1>2, <1>3, <1>4, <2>1
<1>8. count' = count => Loop
  BY <1>2, <1>3
<1>9. /\ \A k \in Keys, v \in Values \cup {Unset} : ~Choose(k, v)
      /\ \A s \in Sources : ~Upload(s)
      /\ \A c \in Controls : \A g \in Graphs[c] : ~Author(c, g)
      /\ ~LoadDemo /\ ~Reset
  BY <1>6, <1>7 DEF Choose, Upload, Author, LoadDemo, Reset
<1>10. /\ \A s \in Sources : ~ClearFile(s) /\ ~ImportSource(s) /\ ~Copy(s)
       /\ \A c \in Controls : ~ImportControl(c)
       /\ ~ClearTarget /\ ~ImportProject /\ ~ImportColumns /\ ~ImportFile /\ ~Bind /\ ~FinishLoad
  BY <1>8 DEF ClearFile, ImportSource, Copy, ImportControl, ClearTarget, ImportProject,
              ImportColumns, ImportFile, Bind, FinishLoad, Loading, Loop
<1> QED
  BY <1>5, <1>9, <1>10

\* A run that opens or writes a paper has its rows: it is none of a control that
\* is held.
LEMMA RunIntact ==
  ASSUME IInv, BundleInv, IntactKnown, NEW r \in Requests,
         RunFails(r) \/ OpenPaper(r) \/ WritePaper(r)
  PROVE  IntactKnown'
<1>1. PICK q : q = req[r]
  OBVIOUS
<1>2. UNCHANGED <<runs, controls, export, count>>
  BY DEF RunFails, OpenPaper, WritePaper, store
<1>3. /\ q.step \in {"proc", "paper", "write", "aggregate"}
      /\ r \in Active /\ Under(q) /\ DOMAIN req = Requests /\ DOMAIN done = Controls
  <2>1. q.step \in {"proc", "paper", "write", "aggregate"}
    BY <1>1 DEF RunFails, OpenPaper, WritePaper
  <2> QED
    BY <1>1, <2>1, AtWork DEF BundleInv, Known, DoneKnown
<1>4. ASSUME NEW c \in Controls, Held(c)
      PROVE  /\ done'[c] = done[c] /\ papers'[c] = papers[c]
             /\ \A s \in Active' : req'[s].control = c => req'[s].step = "proc"
  <2>1. \A s \in Active : req[s].control = c => req[s].step = "proc"
    BY <1>4 DEF IntactKnown
  <2>2. q.step # "proc" => q.control # c
    BY <1>1, <1>3, <2>1
  <2>3. CASE RunFails(r)
    <3>1. req' = [req EXCEPT ![r] = Idle] /\ papers' = papers /\ done' = done
      BY <2>3 DEF RunFails, disk
    <3>2. \A s \in Active' : s \in Active /\ req'[s] = req[s]
      BY <1>3, <3>1 DEF Active
    <3> QED
      BY <2>1, <3>1, <3>2
  <2>4. CASE OpenPaper(r) \/ WritePaper(r)
    <3>1. q.control # c
      BY <1>1, <2>2, <2>4 DEF OpenPaper, WritePaper
    <3>2. papers'[c] = papers[c]
      BY <1>1, <2>4, <3>1 DEF OpenPaper, WritePaper, PapersOf
    <3>3. done'[c] = done[c]
      <4>1. done' = done \/ Completes(q)
        BY <1>1, <2>4 DEF OpenPaper, WritePaper
      <4> QED
        BY <1>3, <3>1, <4>1 DEF Completes
    <3>4. PICK x : req' = [req EXCEPT ![r] = x] /\ (x = Idle \/ x.control = q.control)
      <4>1. CASE OpenPaper(r)
        <5>1. PICK alone : req' = [req EXCEPT ![r].step = "write", ![r].alone = alone]
          BY <4>1 DEF OpenPaper
        <5>2. PICK x : x = [q EXCEPT !.step = "write", !.alone = alone]
          OBVIOUS
        <5>3. req' = [req EXCEPT ![r] = x]
          BY <1>1, <1>3, <5>1, <5>2
        <5>4. x.control = q.control
          BY <1>3, <5>2 DEF Under
        <5> QED
          BY <5>3, <5>4
      <4>2. CASE WritePaper(r)
        <5>1. PICK x : x = [q EXCEPT !.step = "aggregate"]
          OBVIOUS
        <5>2. req' = [req EXCEPT ![r] = x] \/ req' = [req EXCEPT ![r] = Idle]
          BY <1>1, <4>2, <5>1 DEF WritePaper
        <5>3. x.control = q.control
          BY <1>3, <5>1 DEF Under
        <5> QED
          BY <5>2, <5>3
      <4> QED
        BY <2>4, <4>1, <4>2
    <3>5. \A s \in Active' : (s \in Active /\ req'[s] = req[s]) \/ req'[s].control = q.control
      BY <1>3, <3>4 DEF Active
    <3> QED
      BY <2>1, <3>1, <3>2, <3>3, <3>5
  <2> QED
    BY <2>3, <2>4
<1> QED
  BY <1>2, <1>4, StaysIntact

LEMMA StartRunIntact ==
  ASSUME IInv, BundleInv, IntactKnown, NEW r \in Requests, NEW d \in Controls, StartRun(r, d)
  PROVE  IntactKnown'
<1>1. UNCHANGED <<runs, controls, export, done, papers>>
  BY DEF StartRun, store, disk
<1>2. count'.edits = count.edits /\ count'.loads = count.loads
  <2>1. count \in Counts /\ Bump("runs")
    BY DEF StartRun, IInv, Typed
  <2> QED
    BY <2>1, BumpMoves
<1>3. PICK x : req' = [req EXCEPT ![r] = x] /\ x.step = "proc"
  <2>1. PICK x : x = [step |-> "proc", control |-> d, at |-> count.runs + 1,
                      graph |-> controls[d], n |-> 1, torn |-> FALSE, alone |-> TRUE]
    OBVIOUS
  <2>2. req' = [req EXCEPT ![r] = x]
    BY <2>1 DEF StartRun
  <2>3. x.step = "proc"
    BY <2>1
  <2> QED
    BY <2>2, <2>3
<1>4. \A s \in Active' : (s \in Active /\ req'[s] = req[s]) \/ req'[s] = x
  BY <1>3 DEF Active, BundleInv, Known, RunsKnown
<1>5. ASSUME NEW c \in Controls, Held(c)
      PROVE  \A s \in Active' : req'[s].control = c => req'[s].step = "proc"
  BY <1>3, <1>4, <1>5 DEF IntactKnown
<1> QED
  BY <1>1, <1>2, <1>5, StaysIntact

LEMMA ExportIntact ==
  ASSUME IInv, BundleInv, IntactKnown, Exports
  PROVE  IntactKnown'
<1>1. UNCHANGED <<runs, controls, req, done, papers, count>> /\ Active' = Active
  BY DEF Exports, ReadRuns, NoRuns, ReadInfo, OpenBundle, CopyWorkpapers, CloseBundle, ExportFails,
         store, disk, Active
<1>2. PICK e, f : e = export /\ f = export'
  OBVIOUS
<1>3. e # Idle /\ DOMAIN e = {"step", "todo", "rows", "info", "workpapers", "began"}
  BY <1>2 DEF Exports, ReadRuns, NoRuns, ReadInfo, OpenBundle, CopyWorkpapers, CloseBundle,
              ExportFails, Exporting, BundleInv, ExportKnown
<1>4. \/ f = Idle
      \/ f.began = e.began /\ f.step # "evidence"
      \/ f.began = e.began /\ f.workpapers = papers
  <2>1. CASE ReadRuns
    <3>1. e.step = "rows" /\ \E x, y : f = [e EXCEPT !.rows = x, !.todo = y]
      BY <1>2, <2>1 DEF ReadRuns, Exporting
    <3> QED
      BY <1>3, <3>1
  <2>2. CASE ReadInfo
    <3>1. \E x : f = [e EXCEPT !.step = "write", !.info = x]
      BY <1>2, <2>2 DEF ReadInfo
    <3> QED
      BY <1>3, <3>1
  <2>3. CASE OpenBundle
    <3>1. f = [e EXCEPT !.step = "workpapers"]
      BY <1>2, <2>3 DEF OpenBundle
    <3> QED
      BY <1>3, <3>1
  <2>4. CASE CopyWorkpapers
    <3>1. f = [e EXCEPT !.step = "evidence", !.workpapers = papers]
      BY <1>2, <2>4 DEF CopyWorkpapers
    <3> QED
      BY <1>3, <3>1
  <2>5. CASE NoRuns \/ CloseBundle \/ ExportFails
    BY <1>2, <2>5 DEF NoRuns, CloseBundle, ExportFails
  <2> QED
    BY <2>1, <2>2, <2>3, <2>4, <2>5 DEF Exports
<1>5. ASSUME NEW c \in Controls, Held(c)
      PROVE  \A s \in Active' : req'[s].control = c => req'[s].step = "proc"
  BY <1>1, <1>5 DEF IntactKnown
<1> QED
  BY <1>1, <1>2, <1>3, <1>4, <1>5, StaysIntact

\* An export begins with what is intact.
LEMMA StartExportIntact ==
  ASSUME StartExport
  PROVE  IntactKnown'
<1>1. UNCHANGED <<runs, controls, req, done, papers>> /\ Active' = Active
  BY DEF StartExport, store, disk, Active
<1>2. export'.step = "rows" /\ export'.began.intact = Intact
  BY DEF StartExport
<1>3. \A c \in Controls : Settled(c)' = Settled(c)
  BY <1>1 DEF Settled
<1>4. ASSUME NEW c \in Intact
      PROVE  /\ c \in Controls /\ Settled(c) /\ papers[c] = Paper(done[c].at)
             /\ \A r \in Active : req[r].control # c
  BY DEF Intact
<1>5. Intact \subseteq Controls
  BY DEF Intact
<1> QED
  BY <1>1, <1>2, <1>3, <1>4, <1>5 DEF IntactKnown, Held, Paper

LEMMA NextIntact == IInv /\ BundleInv /\ IntactKnown /\ [Next]_vars => IntactKnown'
<1> SUFFICES ASSUME IInv, BundleInv, IntactKnown, [Next]_vars PROVE IntactKnown'
  OBVIOUS
<1>1. ASSUME \/ \E r \in Requests : RunProc(r) \/ Aggregate(r)
             \/ \E k \in Keys, v \in Values \cup {Unset} : Choose(k, v)
             \/ \E s \in Sources : Upload(s) \/ ClearFile(s) \/ ImportSource(s) \/ Copy(s)
             \/ \E c \in Controls : \E g \in Graphs[c] : Author(c, g)
             \/ \E c \in Controls : ImportControl(c)
             \/ LoadDemo \/ Reset \/ ClearTarget \/ ImportProject \/ ImportColumns \/ ImportFile
             \/ Bind \/ FinishLoad
      PROVE  IntactKnown'
  <2>1. export' = export
    BY <1>1 DEF RunProc, Aggregate, Choose, Upload, ClearFile, ImportSource, Copy, Author,
                ImportControl, LoadDemo, Reset, ClearTarget, ImportProject, ImportColumns,
                ImportFile, Bind, FinishLoad
  <2> QED
    BY <1>1, <2>1, Disturbed
<1>2. ASSUME NEW r \in Requests, RunFails(r) \/ OpenPaper(r) \/ WritePaper(r) PROVE IntactKnown'
  BY <1>2, RunIntact
<1>3. ASSUME NEW r \in Requests, NEW c \in Controls, StartRun(r, c) PROVE IntactKnown'
  BY <1>3, StartRunIntact
<1>4. CASE Exports
  BY <1>4, ExportIntact
<1>5. CASE StartExport
  BY <1>5, StartExportIntact
<1>6. CASE Die
  BY <1>6 DEF Die, IntactKnown, Held
<1>7. CASE Setup \/ UNCHANGED vars
  <2>1. UNCHANGED <<runs, controls, req, done, papers, count, export>> /\ Active' = Active
    BY <1>7 DEF Setup, vars, store, disk, Active
  <2>2. ASSUME NEW c \in Controls, Held(c)
        PROVE  \A s \in Active' : req'[s].control = c => req'[s].step = "proc"
    BY <2>1, <2>2 DEF IntactKnown
  <2> QED
    BY <2>1, <2>2, StaysIntact
<1> QED
  BY <1>1, <1>2, <1>3, <1>4, <1>5, <1>6, <1>7 DEF Next, Exports

LEMMA IntactInvariant == Spec => []IntactKnown
<1>1. Init => IntactKnown
  BY DEF Init, IntactKnown, Held
<1> QED BY <1>1, NextIntact, Invariant, BundleInvariant, PTL DEF Spec

\* Of a control that no run was under way of and whose paper was that of its
\* newest run, an undisturbed export archives the workpaper and the evidence of
\* the run that its results are of: a run opens a paper only after it has stored
\* a row, and only that of its own control.
THEOREM BundlesAreWhole == Spec => BundleWhole
<1>1. IInv /\ BundleInv /\ IntactKnown /\ [Next]_vars =>
        [Closed /\ Undisturbed =>
           \A c \in export.began.intact : LET at == done[c].at IN
             /\ bundle'.workpapers[c] = Paper(at) /\ bundle'.evidence[c] = Paper(at)
             /\ c \in DOMAIN bundle'.results
                  => \A i \in DOMAIN bundle'.results[c] : bundle'.results[c][i].at = at]_vars
  <2> SUFFICES ASSUME BundleInv, IntactKnown, [Next]_vars, Closed, Undisturbed,
                      NEW c \in export.began.intact
               PROVE  /\ bundle'.workpapers[c] = Paper(done[c].at)
                      /\ bundle'.evidence[c] = Paper(done[c].at)
                      /\ c \in DOMAIN bundle'.results =>
                           \A i \in DOMAIN bundle'.results[c] : bundle'.results[c][i].at = done[c].at
    OBVIOUS
  <2>1. CloseBundle /\ bundle # Absent
    BY OnlyExportsClose
  <2>2. export # Idle /\ export.step = "evidence" /\ c \in Controls
    BY <2>1 DEF CloseBundle, Exporting, IntactKnown
  <2>3. Held(c)
    BY <2>2 DEF Held
  <2>4. /\ Settled(c) /\ papers[c] = Paper(done[c].at)
        /\ export.workpapers[c] = Paper(done[c].at)
    BY <2>2, <2>3 DEF IntactKnown
  <2>5. bundle'.workpapers = export.workpapers /\ bundle'.evidence = papers
    BY <2>1 DEF CloseBundle
  <2>6. ASSUME c \in DOMAIN bundle'.results
        PROVE  \A i \in DOMAIN bundle'.results[c] : bundle'.results[c][i].at = done[c].at
    <3>1. PICK shown : shown = bundle'.results[c]
      OBVIOUS
    <3>2. shown = [i \in DOMAIN controls[c] |->
                    [control |-> c, proc |-> controls[c][i], at |-> done[c].at]]
      BY <2>1, <2>4, <2>6, <3>1, WritesCurrent
    <3> QED
      BY <3>1, <3>2
  <2> QED
    BY <2>4, <2>5, <2>6
<1> QED
  BY <1>1, Invariant, BundleInvariant, IntactInvariant, PTL DEF Spec, BundleWhole
=============================================================================
