------------------------- MODULE MigrationsProofs -------------------------
(***************************************************************************)
(* Theorems of Migrations, for every script, every set of processes that   *)
(* open the store, every interleaving and any number of deaths.            *)
(***************************************************************************)
EXTENDS Migrations, TLAPS

\* All that steps 1 .. v make exists.
Made(v) == \A i \in 1 .. v : \A j \in DOMAIN Script[i] :
             Script[i][j].object \in schema

\* What a process that migrates has made: the steps below its own, and the
\* statements before the one it is at.
Progress(o) ==
  Migrating(o) =>
    /\ \A i \in 1 .. Last : i < opener[o].step =>
         \A j \in DOMAIN Script[i] : Script[i][j].object \in schema
    /\ \A j \in DOMAIN Script[opener[o].step] :
         j < opener[o].pos => Script[opener[o].step][j].object \in schema
    /\ At(o, "pragma") => opener[o].pos > Len(Script[opener[o].step])

\* The inductive invariant: VersionBacked alone does not tell that a process
\* which is about to write a version has made what it promises.
Inv ==
  /\ TypeOK
  /\ VersionBacked
  /\ \A o \in Openers : Progress(o)
  /\ \A o \in Openers : At(o, "open") => Made(Last)

OpenerStates == [at : {"away", "script", "pragma", "open", "failed"},
                 step : 0 .. Last, pos : Nat]

LEMMA Element ==
  ASSUME NEW S, NEW q \in Seq(S), NEW i \in DOMAIN q
  PROVE  q[i] \in S
  OBVIOUS

LEMMA ScriptFacts ==
  /\ Last \in Nat
  /\ \A i \in 1 .. Last :
       /\ Script[i] \in Seq([kind : Kinds, object : STRING])
       /\ Len(Script[i]) \in Nat /\ Len(Script[i]) > 0
       /\ DOMAIN Script[i] = 1 .. Len(Script[i])
       /\ \A j \in DOMAIN Script[i] : Script[i][j].object \in STRING
<1> DEFINE R == [kind : Kinds, object : STRING]
<1>1. Last \in Nat /\ DOMAIN Script = 1 .. Last
  BY ScriptAssumption DEF Last
<1>2. SUFFICES ASSUME NEW i \in 1 .. Last
               PROVE  /\ Script[i] \in Seq(R)
                      /\ Len(Script[i]) \in Nat /\ Len(Script[i]) > 0
                      /\ DOMAIN Script[i] = 1 .. Len(Script[i])
                      /\ \A j \in DOMAIN Script[i] : Script[i][j].object \in STRING
  BY <1>1
<1>3. Script[i] \in Seq(R) /\ Len(Script[i]) > 0
  <2>1. i \in DOMAIN Script
    BY <1>1
  <2>2. Script[i] \in Seq(R)
    BY <2>1, ScriptAssumption, Element
  <2> QED
    BY <2>1, <2>2, ScriptAssumption
<1>4. \A j \in DOMAIN Script[i] : Script[i][j] \in R
  BY <1>3, Element
<1>5. Len(Script[i]) \in Nat /\ DOMAIN Script[i] = 1 .. Len(Script[i])
  BY <1>3
<1> QED
  BY <1>3, <1>4, <1>5

\* A process enters the loop at a step when all the steps below are made.
LEMMA LoopEnters ==
  ASSUME Inv, NEW o \in Openers, NEW v \in 0 .. Last, Made(v),
         LoopAt(o, v + 1), UNCHANGED schema
  PROVE  /\ opener' \in [Openers -> OpenerStates]
         /\ \A p \in Openers :
              /\ Migrating(p)' => opener'[p].step > 0 /\ opener'[p].pos > 0
              /\ At(p, "script")' => opener'[p].pos <= Len(Script[opener'[p].step])
              /\ Progress(p)'
              /\ At(p, "open")' => Made(Last)'
<1> USE ScriptFacts DEF Inv, TypeOK, OpenerStates
<1>1. Made(v)' /\ (Made(Last) => Made(Last)')
  BY DEF Made
<1>2. \A p \in Openers : p # o => opener'[p] = opener[p]
  BY DEF LoopAt
<1>3. CASE v + 1 > Last
  <2>1. opener'[o] = [at |-> "open", step |-> 0, pos |-> 0]
    BY <1>3 DEF LoopAt
  <2>2. opener' \in [Openers -> OpenerStates]
    BY <1>3 DEF LoopAt
  <2>3. Made(Last)'
    <3>1. v = Last
      BY <1>3
    <3> QED
      BY <1>1, <3>1
  <2>4. ~Migrating(o)' /\ ~At(o, "script")' /\ Progress(o)'
    BY <2>1 DEF Migrating, At, Progress
  <2>5. \A p \in Openers \ {o} :
          /\ Progress(p)'
          /\ Migrating(p)' => opener'[p].step > 0 /\ opener'[p].pos > 0
          /\ At(p, "script")' => opener'[p].pos <= Len(Script[opener'[p].step])
    BY <1>2 DEF Migrating, At, Progress
  <2> QED
    BY <2>2, <2>3, <2>4, <2>5
<1>4. CASE ~(v + 1 > Last)
  <2>1. opener'[o] = [at |-> "script", step |-> v + 1, pos |-> 1]
    BY <1>4 DEF LoopAt
  <2>2. opener' \in [Openers -> OpenerStates]
    BY <1>4 DEF LoopAt
  <2>3. Progress(o)'
    BY <1>1, <1>4, <2>1 DEF Migrating, At, Progress, Made
  <2>4. \A p \in Openers \ {o} : Progress(p)'
    BY <1>2 DEF Migrating, At, Progress
  <2>5. v + 1 \in 1 .. Last /\ 1 <= Len(Script[v + 1])
    BY <1>4
  <2>6. \A p \in Openers \ {o} :
          /\ Migrating(p)' => opener'[p].step > 0 /\ opener'[p].pos > 0
          /\ At(p, "script")' => opener'[p].pos <= Len(Script[opener'[p].step])
          /\ At(p, "open")' => Made(Last)'
    BY <1>1, <1>2 DEF Migrating, At
  <2> QED
    BY <2>1, <2>2, <2>3, <2>4, <2>5, <2>6 DEF Migrating, At
<1> QED
  BY <1>3, <1>4

\* A process whose statement has been carried out goes on to the next.
LEMMA StatementMade ==
  ASSUME Inv, NEW o \in Openers, At(o, "script"), Advance(o),
         schema \subseteq schema', Statement(o).object \in schema'
  PROVE  /\ opener' \in [Openers -> OpenerStates]
         /\ \A p \in Openers :
              /\ Migrating(p)' => opener'[p].step > 0 /\ opener'[p].pos > 0
              /\ At(p, "script")' => opener'[p].pos <= Len(Script[opener'[p].step])
              /\ Progress(p)'
              /\ At(p, "open")' => Made(Last)'
<1> USE ScriptFacts DEF Inv, TypeOK, OpenerStates
<1> DEFINE s == opener[o].step
           n == opener[o].pos
<1>1. \A p \in Openers : p # o => opener'[p] = opener[p]
  BY DEF Advance
<1>2. opener'[o] = [at |-> IF n < Len(Script[s]) THEN "script" ELSE "pragma",
                    step |-> s, pos |-> n + 1]
  BY DEF Advance, At
<1>3. s \in 1 .. Last /\ n \in 1 .. Len(Script[s])
  BY DEF Migrating, At
<1>4. opener' \in [Openers -> OpenerStates]
  BY <1>1, <1>2, <1>3 DEF Advance
<1>5. Progress(o)'
  <2>1. \A i \in 1 .. Last : i < s =>
          \A j \in DOMAIN Script[i] : Script[i][j].object \in schema'
    BY <1>3 DEF Progress, Migrating, At
  <2>2. \A j \in DOMAIN Script[s] : j < n + 1 => Script[s][j].object \in schema'
    <3> SUFFICES ASSUME NEW j \in DOMAIN Script[s], j < n + 1
                 PROVE  Script[s][j].object \in schema'
      OBVIOUS
    <3>1. CASE j = n
      BY <3>1 DEF Statement
    <3>2. CASE j < n
      BY <1>3, <3>2 DEF Progress, Migrating, At
    <3> QED
      BY <1>3, <3>1, <3>2
  <2> QED
    BY <1>2, <1>3, <2>1, <2>2 DEF Progress, Migrating, At
<1>6. Made(Last) => Made(Last)'
  BY DEF Made
<1>7. \A p \in Openers \ {o} : Progress(p)'
  <2> SUFFICES ASSUME NEW p \in Openers, p # o, Migrating(p)'
               PROVE  Progress(p)'
    BY DEF Progress
  <2>1. opener'[p] = opener[p] /\ Migrating(p) /\ Progress(p)
    BY <1>1 DEF Migrating
  <2> QED
    BY <2>1 DEF Progress, Migrating, At
<1>8. \A p \in Openers \ {o} :
        /\ Migrating(p)' => opener'[p].step > 0 /\ opener'[p].pos > 0
        /\ At(p, "script")' => opener'[p].pos <= Len(Script[opener'[p].step])
        /\ At(p, "open")' => Made(Last)'
  BY <1>1, <1>6 DEF Migrating, At
<1> QED
  BY <1>2, <1>3, <1>4, <1>5, <1>7, <1>8 DEF Migrating, At

LEMMA InvInit == Init => Inv
<1> SUFFICES ASSUME Init PROVE Inv
  OBVIOUS
<1>1. PICK v \in Releases :
        /\ version = v /\ schema = ObjectsUpTo(v)
        /\ known \in SUBSET (IF "sources" \in schema THEN Sources ELSE {})
        /\ current = [s \in Sources |->
                        IF s \in known /\ "source_files" \in schema THEN 1 ELSE 0]
        /\ opener = [o \in Openers |-> [at |-> "away", step |-> 0, pos |-> 0]]
        /\ crashes = 0 /\ disturbed = FALSE
  BY DEF Init
<1>2. v \in 0 .. Last
  BY BoundAssumption DEF Last
<1>3. /\ schema \subseteq STRING
      /\ \A i \in 1 .. v : \A j \in DOMAIN Script[i] : Script[i][j].object \in schema
  <2>1. \A x \in schema : \E i \in 1 .. v : \E j \in DOMAIN Script[i] :
          x = Script[i][j].object
    BY <1>1 DEF ObjectsUpTo
  <2>2. ASSUME NEW i \in 1 .. v, NEW j \in DOMAIN Script[i]
        PROVE  Script[i][j].object \in schema
    <3> DEFINE Of(k) == {Script[k][l].object : l \in DOMAIN Script[k]}
    <3>1. Of(i) \in {Of(k) : k \in 1 .. v}
      OBVIOUS
    <3>2. Script[i][j].object \in Of(i)
      OBVIOUS
    <3>3. schema = UNION {Of(k) : k \in 1 .. v}
      BY <1>1 DEF ObjectsUpTo
    <3> QED
      BY <3>1, <3>2, <3>3
  <2> QED
    BY <1>2, <2>1, <2>2, ScriptFacts
<1>4. TypeOK
  <2>1. opener \in [Openers -> OpenerStates]
    BY <1>1, ScriptFacts DEF OpenerStates
  <2>2. \A o \in Openers : ~Migrating(o) /\ ~At(o, "script")
    BY <1>1 DEF Migrating, At
  <2>3. known \subseteq Sources
    BY <1>1
  <2>4. current \in [Sources -> Nat]
    BY <1>1
  <2> QED
    BY <1>1, <1>2, <1>3, <2>1, <2>2, <2>3, <2>4 DEF TypeOK, OpenerStates
<1>5. VersionBacked
  BY <1>1, <1>3 DEF VersionBacked
<1>6. \A o \in Openers : Progress(o) /\ ~At(o, "open")
  BY <1>1 DEF Progress, Migrating, At
<1> QED
  BY <1>4, <1>5, <1>6 DEF Inv

LEMMA InvNext == Inv /\ [Next]_vars => Inv'
<1> SUFFICES ASSUME Inv, [Next]_vars PROVE Inv'
  OBVIOUS
<1> USE ScriptFacts
<1>1. ASSUME NEW o \in Openers, Open(o) PROVE Inv'
  <2>1. version \in 0 .. Last /\ Made(version)
    BY DEF Inv, TypeOK, VersionBacked, Made
  <2>2. /\ LoopAt(o, version + 1)
        /\ UNCHANGED <<version, schema, known, current, crashes>>
        /\ disturbed' \in BOOLEAN
    BY <1>1 DEF Open, FirstStep
  <2> HIDE DEF Inv, Made
  <2>3. /\ opener' \in [Openers -> OpenerStates]
        /\ \A p \in Openers :
             /\ Migrating(p)' => opener'[p].step > 0 /\ opener'[p].pos > 0
             /\ At(p, "script")' => opener'[p].pos <= Len(Script[opener'[p].step])
             /\ Progress(p)'
             /\ At(p, "open")' => Made(Last)'
    BY <2>1, <2>2, LoopEnters
  <2> QED
    BY <2>2, <2>3 DEF Inv, TypeOK, OpenerStates, VersionBacked
<1>2. ASSUME NEW o \in Openers, StatementFails(o) PROVE Inv'
  <2>1. /\ opener' = [opener EXCEPT ![o].at = "failed"]
        /\ UNCHANGED <<version, schema, known, current, crashes, disturbed>>
    BY <1>2 DEF StatementFails
  <2>2. \A p \in Openers \ {o} : opener'[p] = opener[p]
    BY <2>1
  <2>3. opener'[o].at = "failed" /\ opener' \in [Openers -> OpenerStates]
    BY <2>1 DEF Inv, TypeOK, OpenerStates
  <2> QED
    BY <2>1, <2>2, <2>3
    DEF Inv, TypeOK, OpenerStates, VersionBacked, Progress, Migrating, At, Made
<1>3. ASSUME NEW o \in Openers, ChangeSchema(o) PROVE Inv'
  <2>1. /\ At(o, "script") /\ schema' = schema \cup {Statement(o).object}
        /\ Advance(o) /\ UNCHANGED <<version, known, current, crashes, disturbed>>
    BY <1>3 DEF ChangeSchema
  <2>2. Statement(o).object \in STRING
    BY <2>1 DEF Inv, TypeOK, Statement, At, Migrating
  <2>3. /\ opener' \in [Openers -> OpenerStates]
        /\ \A p \in Openers :
             /\ Migrating(p)' => opener'[p].step > 0 /\ opener'[p].pos > 0
             /\ At(p, "script")' => opener'[p].pos <= Len(Script[opener'[p].step])
             /\ Progress(p)'
             /\ At(p, "open")' => Made(Last)'
    BY <2>1, StatementMade
  <2> QED
    BY <2>1, <2>2, <2>3 DEF Inv, TypeOK, OpenerStates, VersionBacked
<1>4. ASSUME NEW o \in Openers, FillHistory(o) PROVE Inv'
  <2>1. /\ At(o, "script") /\ Statement(o).object \in schema
        /\ Advance(o) /\ UNCHANGED <<version, schema, known, crashes, disturbed>>
        /\ current' = [s \in Sources |-> current[s] + (IF s \in known THEN 1 ELSE 0)]
    BY <1>4 DEF FillHistory
  <2>2. current' \in [Sources -> Nat]
    BY <2>1 DEF Inv, TypeOK
  <2>3. /\ opener' \in [Openers -> OpenerStates]
        /\ \A p \in Openers :
             /\ Migrating(p)' => opener'[p].step > 0 /\ opener'[p].pos > 0
             /\ At(p, "script")' => opener'[p].pos <= Len(Script[opener'[p].step])
             /\ Progress(p)'
             /\ At(p, "open")' => Made(Last)'
    BY <2>1, StatementMade
  <2> QED
    BY <2>1, <2>2, <2>3 DEF Inv, TypeOK, OpenerStates, VersionBacked
<1>5. ASSUME NEW o \in Openers, SetVersion(o) PROVE Inv'
  <2> DEFINE v == opener[o].step
  <2>1. /\ At(o, "pragma") /\ version' = v
        /\ LoopAt(o, v + 1) /\ UNCHANGED <<schema, known, current, crashes, disturbed>>
    BY <1>5 DEF SetVersion
  <2>2. v \in 1 .. Last
    BY <2>1 DEF Inv, TypeOK, At, Migrating
  <2>3. Made(v)
    <3>1. Migrating(o) /\ Progress(o)
      BY <2>1 DEF Inv, Migrating, At
    <3>2. opener[o].pos > Len(Script[v]) /\ opener[o].pos \in Nat
      BY <2>1, <3>1 DEF Inv, TypeOK, Progress
    <3>3. \A j \in DOMAIN Script[v] : Script[v][j].object \in schema
      BY <2>2, <3>1, <3>2 DEF Progress
    <3>4. \A i \in 1 .. Last : i < v =>
            \A j \in DOMAIN Script[i] : Script[i][j].object \in schema
      BY <3>1 DEF Progress
    <3>5. ASSUME NEW i \in 1 .. v, NEW j \in DOMAIN Script[i]
          PROVE  Script[i][j].object \in schema
      <4>1. CASE i = v
        BY <3>3, <4>1
      <4>2. CASE i # v
        <5>1. i \in 1 .. Last /\ i < v
          BY <2>2, <4>2
        <5> QED
          BY <3>4, <5>1
      <4> QED
        BY <4>1, <4>2
    <3> QED
      BY <3>5 DEF Made
  <2>4. /\ opener' \in [Openers -> OpenerStates]
        /\ \A p \in Openers :
             /\ Migrating(p)' => opener'[p].step > 0 /\ opener'[p].pos > 0
             /\ At(p, "script")' => opener'[p].pos <= Len(Script[opener'[p].step])
             /\ Progress(p)'
             /\ At(p, "open")' => Made(Last)'
    BY <2>1, <2>2, <2>3, LoopEnters
  <2>5. VersionBacked'
    BY <2>1, <2>3 DEF VersionBacked, Made
  <2> QED
    BY <2>1, <2>2, <2>4, <2>5 DEF Inv, TypeOK, OpenerStates
<1>6. ASSUME NEW o \in Openers, NEW s \in Sources, AddSource(o, s) PROVE Inv'
  <2>1. /\ known' = known \cup {s} /\ current' = [current EXCEPT ![s] = 1]
        /\ UNCHANGED <<version, schema, opener, crashes, disturbed>>
    BY <1>6 DEF AddSource
  <2>2. current' \in [Sources -> Nat] /\ known' \subseteq Sources
    BY <2>1 DEF Inv, TypeOK
  <2> QED
    BY <2>1, <2>2
    DEF Inv, TypeOK, OpenerStates, VersionBacked, Progress, Migrating, At, Made
<1>7. ASSUME NEW o \in Openers, Crash(o) PROVE Inv'
  <2>1. /\ opener' = [opener EXCEPT ![o].at = "away"] /\ crashes' = crashes + 1
        /\ UNCHANGED <<version, schema, known, current>> /\ disturbed' \in BOOLEAN
    BY <1>7 DEF Crash, Unrepeatable
  <2>2. \A p \in Openers \ {o} : opener'[p] = opener[p]
    BY <2>1
  <2>3. opener'[o].at = "away" /\ opener' \in [Openers -> OpenerStates]
    BY <2>1 DEF Inv, TypeOK, OpenerStates
  <2> QED
    BY <2>1, <2>2, <2>3
    DEF Inv, TypeOK, OpenerStates, VersionBacked, Progress, Migrating, At, Made
<1>8. CASE UNCHANGED vars
  BY <1>8
  DEF vars, Inv, TypeOK, OpenerStates, VersionBacked, Progress, Migrating, At, Made
<1> QED
  BY <1>1, <1>2, <1>3, <1>4, <1>5, <1>6, <1>7, <1>8 DEF Next

LEMMA InvAlways == Spec => []Inv
  BY InvInit, InvNext, PTL DEF Spec

\* Types, for every script and number of processes.
THEOREM MigrationTypes == Spec => []TypeOK
<1>1. Inv => TypeOK
  BY DEF Inv
<1> QED
  BY <1>1, InvAlways, PTL

\* Whatever dies and whoever else migrates, the stored version is never ahead
\* of the schema.
THEOREM NeverAhead == Spec => []VersionBacked
<1>1. Inv => VersionBacked
  BY DEF Inv
<1> QED
  BY <1>1, InvAlways, PTL

\* Who has come through migrate may use every table and column of the script.
THEOREM OpenMeansMigrated == Spec => []OpenIsMigrated
<1>1. Inv => OpenIsMigrated
  BY DEF Inv, OpenIsMigrated, Made
<1> QED
  BY <1>1, InvAlways, PTL
----------------------------------------------------------------------------
(* Undisturbed openings *)

Places == {p \in (1 .. Last) \X Nat : p[2] \in DOMAIN Script[p[1]]}
Stmt(p) == Script[p[1]][p[2]]

\* Statement p has been carried out, as far as one migration tells.
Before(o, p) ==
  p[1] < opener[o].step \/ (p[1] = opener[o].step /\ p[2] < opener[o].pos)
Passed(p) ==
  /\ \A o \in Openers : Migrating(o) => Before(o, p)
  /\ (\A o \in Openers : ~Migrating(o)) => p[1] <= version

\* What UndisturbedOpens needs: one process migrates, in the step behind the
\* stored version; no column of a statement to come is there; and every source
\* has its one row once the statement that fills the history has passed.
Alone == \A o, p \in Openers : Migrating(o) /\ Migrating(p) => o = p
NoneFailed == \A o \in Openers : ~At(o, "failed")
AtTheEnd == \A o \in Openers : At(o, "open") => version = Last /\ \A p \in Openers : ~Migrating(p)
InStep == \A o \in Openers : Migrating(o) => version = opener[o].step - 1
NotAhead == \A p \in Places : Stmt(p).kind = "alter" /\ Stmt(p).object \in schema => Passed(p)
Filled == \A p \in Places : Stmt(p).kind = "backfill" =>
            \A s \in Sources : current[s] = IF s \in known /\ Passed(p) THEN 1 ELSE 0
Orderly == Alone /\ NoneFailed /\ AtTheEnd /\ InStep /\ NotAhead /\ Filled
Undisturbed == Inv /\ (~disturbed => Orderly)

LEMMA PlaceFacts ==
  /\ \A p \in Places : p[1] \in 1 .. Last /\ p[2] \in 1 .. Len(Script[p[1]])
  /\ \A i \in 1 .. Last : \A j \in DOMAIN Script[i] : <<i, j>> \in Places
  /\ \A p, q \in Places : p[1] = q[1] /\ p[2] = q[2] => p = q
BY ScriptFacts DEF Places

\* CarefulAssumption, of places.
LEMMA Careful ==
  ASSUME NEW p \in Places
  PROVE  /\ Stmt(p).kind = "alter" =>
              \A q \in Places : Stmt(q).object = Stmt(p).object => p = q
         /\ Stmt(p).kind = "backfill" =>
              /\ Stmt(p).object = "source_files"
              /\ \E m \in 1 .. p[2] - 1 : Script[p[1]][m].object = Stmt(p).object
              /\ \A q \in Places : Stmt(q).object = Stmt(p).object => q[1] >= p[1]
              /\ \A q \in Places : Stmt(q).kind = "backfill" => p = q
<1>1. \A q \in Places : q[1] \in DOMAIN Script /\ q[2] \in DOMAIN Script[q[1]]
  BY ScriptAssumption DEF Places, Last
<1>2. \A q \in Places :
        LET first == Script[p[1]][p[2]]
            other == Script[q[1]][q[2]]
        IN /\ first.kind = "alter" /\ other.object = first.object => p[1] = q[1] /\ p[2] = q[2]
           /\ first.kind = "backfill" =>
                /\ first.object = "source_files"
                /\ \E m \in 1 .. p[2] - 1 : Script[p[1]][m].object = first.object
                /\ other.object = first.object => q[1] >= p[1]
                /\ other.kind = "backfill" => p[1] = q[1] /\ p[2] = q[2]
  BY <1>1, CarefulAssumption
<1> QED
  BY <1>2, PlaceFacts DEF Stmt

\* A process at a statement is at a place, which is not passed yet.
LEMMA StatementPlace ==
  ASSUME Inv, NEW o \in Openers, At(o, "script")
  PROVE  /\ <<opener[o].step, opener[o].pos>> \in Places
         /\ Stmt(<<opener[o].step, opener[o].pos>>) = Statement(o)
         /\ ~Passed(<<opener[o].step, opener[o].pos>>)
         /\ Migrating(o) /\ opener[o].step \in 1 .. Last /\ opener[o].pos \in Nat
<1>1. Migrating(o) /\ opener[o].step \in 1 .. Last /\ opener[o].pos \in Nat
  BY DEF Inv, TypeOK, Migrating, At
<1>2. opener[o].pos \in 1 .. Len(Script[opener[o].step])
  BY <1>1 DEF Inv, TypeOK
<1>3. ~Before(o, <<opener[o].step, opener[o].pos>>)
  BY <1>1 DEF Before
<1> QED
  BY <1>1, <1>2, <1>3, PlaceFacts, ScriptFacts DEF Stmt, Statement, Passed

\* What only moves the places on keeps what is said of them.
LEMMA PassedStays ==
  ASSUME NotAhead, Filled, \A p \in Places : Passed(p)' <=> Passed(p),
         UNCHANGED <<schema, current, known>>
  PROVE  NotAhead' /\ Filled'
BY DEF NotAhead, Filled, Stmt

LEMMA OrderlyInit == Init => Orderly
<1> SUFFICES ASSUME Init PROVE Orderly
  OBVIOUS
<1>1. PICK v \in Releases :
        /\ version = v /\ schema = ObjectsUpTo(v)
        /\ current = [s \in Sources |->
                        IF s \in known /\ "source_files" \in schema THEN 1 ELSE 0]
        /\ opener = [o \in Openers |-> [at |-> "away", step |-> 0, pos |-> 0]]
  BY DEF Init
<1>2. v \in 0 .. Last
  BY BoundAssumption DEF Last
<1>3. \A o \in Openers : ~Migrating(o) /\ ~At(o, "failed") /\ ~At(o, "open")
  BY <1>1 DEF Migrating, At
<1>4. \A p \in Places : Passed(p) <=> p[1] <= v
  BY <1>1, <1>3 DEF Passed
<1>5. \A x \in schema : \E p \in Places : Stmt(p).object = x /\ p[1] <= v
  <2> SUFFICES ASSUME NEW x \in schema
               PROVE  \E p \in Places : Stmt(p).object = x /\ p[1] <= v
    OBVIOUS
  <2>1. PICK i \in 1 .. v : \E j \in DOMAIN Script[i] : x = Script[i][j].object
    BY <1>1 DEF ObjectsUpTo
  <2>2. PICK j \in DOMAIN Script[i] : x = Script[i][j].object
    BY <2>1
  <2>3. i \in 1 .. Last
    BY <1>2, ScriptFacts
  <2>4. <<i, j>> \in Places
    BY <2>3, PlaceFacts
  <2>5. Stmt(<<i, j>>).object = x /\ <<i, j>>[1] <= v
    BY <2>2 DEF Stmt
  <2> QED
    BY <2>4, <2>5
<1>6. NotAhead
  <2> SUFFICES ASSUME NEW p \in Places, Stmt(p).kind = "alter", Stmt(p).object \in schema
               PROVE  Passed(p)
    BY DEF NotAhead
  <2>1. PICK q \in Places : Stmt(q).object = Stmt(p).object /\ q[1] <= v
    BY <1>5
  <2>2. p = q
    BY <2>1, Careful
  <2> QED
    BY <1>4, <2>1, <2>2
<1>7. Filled
  <2> SUFFICES ASSUME NEW p \in Places, Stmt(p).kind = "backfill", NEW s \in Sources
               PROVE  current[s] = IF s \in known /\ Passed(p) THEN 1 ELSE 0
    BY DEF Filled
  <2>1. "source_files" \in schema => Passed(p)
    <3> SUFFICES ASSUME "source_files" \in schema PROVE Passed(p)
      OBVIOUS
    <3>1. PICK q \in Places : Stmt(q).object = "source_files" /\ q[1] <= v
      BY <1>5
    <3>2. q[1] >= p[1]
      BY <3>1, Careful
    <3> QED
      BY <1>2, <1>4, <3>1, <3>2, PlaceFacts
  <2>2. Passed(p) => "source_files" \in schema
    <3> SUFFICES ASSUME p[1] <= v PROVE "source_files" \in ObjectsUpTo(v)
      BY <1>1, <1>4
    <3>1. p[1] \in 1 .. v /\ p[2] \in DOMAIN Script[p[1]]
      BY <1>2, PlaceFacts, ScriptFacts
    <3>2. Script[p[1]][p[2]].object = "source_files"
      BY Careful DEF Stmt
    <3> QED
      BY <3>1, <3>2 DEF ObjectsUpTo
  <2> QED
    BY <1>1, <2>1, <2>2
<1> QED
  BY <1>3, <1>6, <1>7 DEF Orderly, Alone, NoneFailed, AtTheEnd, InStep

\* A process that enters the loop, alone, behind the version it goes on from.
LEMMA EntersOrderly ==
  ASSUME Inv, Orderly, NEW o \in Openers, NEW v \in 0 .. Last, LoopAt(o, v + 1),
         version' = v, \A p \in Openers : p # o => ~Migrating(p),
         \A p \in Places : Passed(p) <=> p[1] <= v,
         Last <= v \/ \A p \in Openers : p # o => ~At(p, "open"),
         UNCHANGED <<schema, current, known>>
  PROVE  Orderly'
<1>1. Last \in Nat
  BY ScriptFacts
<1>2. \A p \in Openers : p # o => opener'[p] = opener[p]
  BY DEF LoopAt
<1>3. opener'[o] = IF v + 1 > Last THEN [at |-> "open", step |-> 0, pos |-> 0]
                                   ELSE [at |-> "script", step |-> v + 1, pos |-> 1]
  BY DEF LoopAt, Inv, TypeOK
<1>4. \A p \in Openers : p # o => ~Migrating(p)'
  BY <1>2 DEF Migrating
<1>5. \A p \in Places : Passed(p)' <=> Passed(p)
  <2> SUFFICES ASSUME NEW p \in Places PROVE Passed(p)' <=> p[1] <= v
    OBVIOUS
  <2>1. p[1] \in 1 .. Last /\ p[2] \in Nat /\ p[2] > 0
    BY PlaceFacts, ScriptFacts
  <2>2. CASE v + 1 > Last
    <3>1. \A q \in Openers : ~Migrating(q)'
      BY <1>3, <1>4, <2>2 DEF Migrating
    <3> QED
      BY <3>1 DEF Passed
  <2>3. CASE ~(v + 1 > Last)
    <3>1. Migrating(o)' /\ opener'[o].step = v + 1 /\ opener'[o].pos = 1
      BY <1>3, <2>3 DEF Migrating
    <3>2. Before(o, p)' <=> p[1] <= v
      BY <1>1, <2>1, <3>1 DEF Before
    <3> QED
      BY <1>4, <3>1, <3>2 DEF Passed
  <2> QED
    BY <2>2, <2>3
<1>6. NotAhead' /\ Filled'
  BY <1>5, PassedStays DEF Orderly
<1>10. InStep'
  BY <1>1, <1>3, <1>4 DEF InStep, Migrating
<1>7. Alone'
  BY <1>4 DEF Alone
<1>8. NoneFailed'
  BY <1>2, <1>3 DEF Orderly, NoneFailed, At
<1>9. AtTheEnd'
  <2>1. CASE v + 1 > Last
    <3>1. v = Last /\ ~Migrating(o)'
      BY <1>1, <1>3, <2>1 DEF Migrating
    <3> QED
      BY <1>4, <3>1 DEF AtTheEnd
  <2>2. CASE ~(v + 1 > Last)
    <3>1. \A p \in Openers : ~At(p, "open")'
      BY <1>1, <1>2, <1>3, <2>2 DEF At
    <3> QED
      BY <3>1 DEF AtTheEnd
  <2> QED
    BY <2>1, <2>2
<1> QED
  BY <1>6, <1>7, <1>8, <1>9, <1>10 DEF Orderly

\* The only process that migrates carries out its statement and goes on.
LEMMA AdvancesOrderly ==
  ASSUME Inv, Orderly, NEW o \in Openers, At(o, "script"), Advance(o), UNCHANGED version,
         NEW q \in Places, q = <<opener[o].step, opener[o].pos>>
  PROVE  /\ Alone' /\ NoneFailed' /\ AtTheEnd' /\ InStep'
         /\ \A p \in Places : Passed(p)' <=> Passed(p) \/ p = q
<1>1. Migrating(o) /\ opener[o].step \in 1 .. Last /\ opener[o].pos \in Nat
  BY StatementPlace
<1>2. \A p \in Openers : p # o => opener'[p] = opener[p]
  BY DEF Advance, Inv, TypeOK
<1>3. /\ opener'[o].step = opener[o].step /\ opener'[o].pos = opener[o].pos + 1
      /\ opener'[o].at \in {"script", "pragma"}
  BY DEF Advance, At, Inv, TypeOK
<1>4. Migrating(o)' /\ \A p \in Openers : p # o => ~Migrating(p) /\ ~Migrating(p)'
  BY <1>1, <1>2, <1>3 DEF Migrating, Orderly, Alone
<1>5. \A p \in Places : Before(o, p)' <=> Before(o, p) \/ p = q
  <2> SUFFICES ASSUME NEW p \in Places PROVE Before(o, p)' <=> Before(o, p) \/ p = q
    OBVIOUS
  <2>1. p[1] \in Nat /\ p[2] \in Nat
    BY PlaceFacts, ScriptFacts
  <2>2. p = q <=> p[1] = opener[o].step /\ p[2] = opener[o].pos
    BY PlaceFacts
  <2> QED
    BY <1>1, <1>3, <2>1, <2>2 DEF Before
<1>6. \A p \in Places : (Before(o, p)' <=> Passed(p)') /\ (Before(o, p) <=> Passed(p))
  BY <1>1, <1>4 DEF Passed
<1>7. InStep'
  BY <1>1, <1>3, <1>4 DEF InStep, Orderly
<1>8. Alone' /\ NoneFailed'
  BY <1>2, <1>3, <1>4 DEF Orderly, Alone, NoneFailed, At
<1>9. AtTheEnd'
  BY <1>1, <1>2, <1>3 DEF Orderly, AtTheEnd, At
<1> QED
  BY <1>5, <1>6, <1>7, <1>8, <1>9

LEMMA OrderlyNext == Undisturbed /\ [Next]_vars => Undisturbed'
<1> SUFFICES ASSUME Inv, ~disturbed => Orderly, [Next]_vars, ~disturbed' PROVE Orderly'
  BY InvNext DEF Undisturbed
<1>0. /\ version \in 0 .. Last /\ Last \in Nat
      /\ opener \in [Openers -> OpenerStates] /\ current \in [Sources -> Nat]
  BY ScriptFacts DEF Inv, TypeOK, OpenerStates
<1>1. ASSUME NEW o \in Openers, Open(o) PROVE Orderly'
  <2>1. /\ LoopAt(o, version + 1) /\ version' = version /\ UNCHANGED <<schema, current, known>>
        /\ ~disturbed /\ \A p \in Openers : ~Migrating(p)
    BY <1>1 DEF Open, FirstStep
  <2>2. \A p \in Places : Passed(p) <=> p[1] <= version
    BY <2>1 DEF Passed
  <2>3. Last <= version \/ \A p \in Openers : p # o => ~At(p, "open")
    BY <1>0, <2>1 DEF Orderly, AtTheEnd
  <2> QED
    BY <1>0, <2>1, <2>2, <2>3, EntersOrderly
<1>2. ASSUME NEW o \in Openers, StatementFails(o) PROVE Orderly'
  <2> DEFINE q == <<opener[o].step, opener[o].pos>>
  <2>1. At(o, "script") /\ ~disturbed
    BY <1>2 DEF StatementFails
  <2>2. q \in Places /\ Stmt(q) = Statement(o) /\ ~Passed(q) /\ Migrating(o)
    BY <2>1, StatementPlace
  <2>3. CASE Stmt(q).kind = "alter" /\ Stmt(q).object \in schema
    <3>1. Passed(q)
      BY <2>1, <2>2, <2>3 DEF Orderly, NotAhead
    <3> QED
      BY <2>2, <3>1
  <2>4. CASE Stmt(q).kind = "backfill" /\ Stmt(q).object \notin schema
    <3>1. PICK m \in 1 .. q[2] - 1 : Script[q[1]][m].object = Stmt(q).object
      BY <2>2, <2>4, Careful
    <3>2. m \in DOMAIN Script[opener[o].step] /\ m < opener[o].pos
      BY <2>1, <2>2, PlaceFacts, StatementPlace, ScriptFacts
    <3>3. Script[opener[o].step][m].object \in schema
      BY <2>2, <3>2 DEF Inv, Progress
    <3> QED
      BY <2>4, <3>1, <3>3
  <2> QED
    BY <1>2, <2>2, <2>3, <2>4 DEF StatementFails
<1>3. ASSUME NEW o \in Openers, ChangeSchema(o) PROVE Orderly'
  <2>0. PICK q \in Places : q = <<opener[o].step, opener[o].pos>>
    BY <1>3, StatementPlace DEF ChangeSchema
  <2>1. /\ At(o, "script") /\ ~disturbed /\ Advance(o)
        /\ schema' = schema \cup {Statement(o).object} /\ UNCHANGED <<version, current, known>>
        /\ Statement(o).kind # "backfill"
    BY <1>3 DEF ChangeSchema
  <2>2. Stmt(q) = Statement(o)
    BY <2>0, <2>1, StatementPlace
  <2>3. /\ Alone' /\ NoneFailed' /\ AtTheEnd' /\ InStep'
        /\ \A p \in Places : Passed(p)' <=> Passed(p) \/ p = q
    BY <2>0, <2>1, AdvancesOrderly
  <2>4. NotAhead'
    <3> SUFFICES ASSUME NEW p \in Places, Stmt(p).kind = "alter", Stmt(p).object \in schema'
                 PROVE  Passed(p)'
      BY DEF NotAhead, Stmt
    <3>1. CASE Stmt(p).object \in schema
      BY <2>1, <2>3, <3>1 DEF Orderly, NotAhead
    <3>2. CASE Stmt(p).object = Stmt(q).object
      BY <2>3, <3>2, Careful
    <3> QED
      BY <2>1, <2>2, <3>1, <3>2
  <2>5. Filled'
    <3>1. \A p \in Places : Stmt(p).kind = "backfill" => (Passed(p)' <=> Passed(p))
      BY <2>1, <2>2, <2>3
    <3> QED
      BY <2>1, <3>1 DEF Orderly, Filled, Stmt
  <2> QED
    BY <2>3, <2>4, <2>5 DEF Orderly
<1>4. ASSUME NEW o \in Openers, FillHistory(o) PROVE Orderly'
  <2>0. PICK q \in Places : q = <<opener[o].step, opener[o].pos>>
    BY <1>4, StatementPlace DEF FillHistory
  <2>1. /\ At(o, "script") /\ ~disturbed /\ Advance(o) /\ Statement(o).kind = "backfill"
        /\ current' = [s \in Sources |-> current[s] + (IF s \in known THEN 1 ELSE 0)]
        /\ UNCHANGED <<version, schema, known>>
    BY <1>4 DEF FillHistory
  <2>2. Stmt(q) = Statement(o) /\ ~Passed(q)
    BY <2>0, <2>1, StatementPlace
  <2>3. /\ Alone' /\ NoneFailed' /\ AtTheEnd' /\ InStep'
        /\ \A p \in Places : Passed(p)' <=> Passed(p) \/ p = q
    BY <2>0, <2>1, AdvancesOrderly
  <2>4. NotAhead'
    BY <2>1, <2>3 DEF Orderly, NotAhead, Stmt
  <2>5. \A s \in Sources : current[s] = 0
    BY <2>1, <2>2 DEF Orderly, Filled
  <2>6. \A s \in Sources : current'[s] = IF s \in known THEN 1 ELSE 0
    BY <2>1, <2>5
  <2>7. Filled'
    <3>1. \A p \in Places : Stmt(p).kind = "backfill" => p = q
      BY <2>1, <2>2, Careful
    <3> QED
      BY <2>1, <2>3, <2>6, <3>1 DEF Filled, Stmt
  <2> QED
    BY <2>3, <2>4, <2>7 DEF Orderly
<1>5. ASSUME NEW o \in Openers, SetVersion(o) PROVE Orderly'
  <2> DEFINE v == opener[o].step
  <2>1. /\ At(o, "pragma") /\ Migrating(o) /\ ~disturbed /\ LoopAt(o, v + 1)
        /\ version' = v /\ UNCHANGED <<schema, current, known>>
    BY <1>5 DEF SetVersion, Migrating, At
  <2>2. v \in 0 .. Last
    BY <1>0 DEF OpenerStates
  <2>3. \A p \in Openers : p # o => ~Migrating(p)
    BY <2>1 DEF Orderly, Alone
  <2>4. \A p \in Places : Passed(p) <=> p[1] <= v
    <3> SUFFICES ASSUME NEW p \in Places PROVE Passed(p) <=> p[1] <= v
      OBVIOUS
    <3>1. p[1] \in 1 .. Last /\ p[2] \in 1 .. Len(Script[p[1]]) /\ Len(Script[p[1]]) \in Nat
      BY PlaceFacts, ScriptFacts
    <3>2. opener[o].pos \in Nat /\ opener[o].pos > Len(Script[v])
      BY <1>0, <2>1 DEF Inv, Progress, OpenerStates
    <3>3. Before(o, p) <=> p[1] <= v
      BY <2>2, <3>1, <3>2 DEF Before
    <3> QED
      BY <2>1, <2>3, <3>3 DEF Passed
  <2>5. \A p \in Openers : ~At(p, "open")
    BY <2>1 DEF Orderly, AtTheEnd
  <2> QED
    BY <2>1, <2>2, <2>3, <2>4, <2>5, EntersOrderly
<1>6. ASSUME NEW o \in Openers, NEW s \in Sources, AddSource(o, s) PROVE Orderly'
  <2>1. /\ At(o, "open") /\ ~disturbed /\ current' = [current EXCEPT ![s] = 1]
        /\ UNCHANGED <<version, schema, opener>>
    BY <1>6 DEF AddSource
  <2>2. version = Last /\ \A p \in Openers : ~Migrating(p)
    BY <2>1 DEF Orderly, AtTheEnd
  <2>3. \A p \in Places : Passed(p) /\ Passed(p)'
    BY <1>0, <2>1, <2>2, PlaceFacts DEF Passed, Migrating
  <2>4. known' = known \cup {s}
    BY <1>6 DEF AddSource
  <2>5. NotAhead'
    BY <2>1, <2>3 DEF Orderly, NotAhead, Stmt
  <2>6. Filled'
    BY <1>0, <2>1, <2>3, <2>4 DEF Orderly, Filled, Stmt
  <2> QED
    BY <2>1, <2>5, <2>6 DEF Orderly, Alone, NoneFailed, AtTheEnd, InStep, At, Migrating
<1>7. ASSUME NEW o \in Openers, Crash(o) PROVE Orderly'
  <2>1. /\ Migrating(o) /\ ~disturbed /\ ~Unrepeatable(o)
        /\ opener' = [opener EXCEPT ![o].at = "away"]
        /\ UNCHANGED <<version, schema, known, current>>
    BY <1>7 DEF Crash
  <2>2. /\ \A p \in Openers : p # o => opener'[p] = opener[p] /\ ~Migrating(p)
        /\ opener'[o].at = "away"
    BY <1>0, <2>1 DEF Orderly, Alone, OpenerStates
  <2>3. \A p \in Openers : ~Migrating(p)'
    BY <2>2 DEF Migrating
  <2>4. version = opener[o].step - 1 /\ opener[o].step \in 1 .. Last
    BY <1>0, <2>1 DEF Orderly, InStep, Inv, TypeOK, OpenerStates
  <2>5. ASSUME NEW p \in Places, Stmt(p).kind # "create" PROVE Passed(p)' <=> Passed(p)
    <3>1. p[1] \in 1 .. Last /\ p[2] \in DOMAIN Script[p[1]]
      BY PlaceFacts, ScriptFacts
    <3>2. ~(p[1] = opener[o].step /\ p[2] < opener[o].pos)
      BY <2>1, <2>5, <3>1 DEF Unrepeatable, Stmt
    <3>3. Before(o, p) <=> p[1] <= version
      BY <1>0, <2>4, <3>1, <3>2 DEF Before
    <3>4. Passed(p) <=> Before(o, p)
      BY <2>1, <2>2 DEF Passed
    <3>5. Passed(p)' <=> p[1] <= version
      BY <2>1, <2>3 DEF Passed
    <3> QED
      BY <3>3, <3>4, <3>5
  <2>6. NotAhead' /\ Filled'
    BY <2>1, <2>5 DEF Orderly, NotAhead, Filled, Stmt
  <2>7. NoneFailed' /\ AtTheEnd'
    BY <2>1, <2>2, <2>3 DEF Orderly, NoneFailed, AtTheEnd, At
  <2> QED
    BY <2>3, <2>6, <2>7 DEF Orderly, Alone, InStep
<1>8. CASE UNCHANGED vars
  BY <1>8 DEF vars, Orderly, Alone, NoneFailed, AtTheEnd, InStep, NotAhead, Filled,
              Passed, Before, Migrating, At, Stmt
<1> QED
  BY <1>1, <1>2, <1>3, <1>4, <1>5, <1>6, <1>7, <1>8 DEF Next

\* As long as no migration meets another one or dies where its step cannot be
\* repeated, every store opens and then has one current row per source, for
\* every script that adds each column once and fills the history once, in the
\* step that first makes its table (CarefulAssumption, FillAssumption).
THEOREM StoresOpen == Spec => []UndisturbedOpens
<1>1. Init => Undisturbed
  BY InvInit, OrderlyInit DEF Undisturbed
<1>2. Undisturbed => UndisturbedOpens
  <2> SUFFICES ASSUME Inv, Orderly, NEW o \in Openers, At(o, "open"), NEW s \in Sources
               PROVE  current[s] = IF s \in known THEN 1 ELSE 0
    BY DEF Undisturbed, Orderly, NoneFailed, UndisturbedOpens
  <2>1. PICK i \in DOMAIN Script : \E j \in DOMAIN Script[i] : Script[i][j].kind = "backfill"
    BY FillAssumption
  <2>2. PICK j \in DOMAIN Script[i] : Script[i][j].kind = "backfill"
    BY <2>1
  <2>3. i \in 1 .. Last
    BY ScriptAssumption DEF Last
  <2>4. <<i, j>> \in Places /\ Stmt(<<i, j>>).kind = "backfill"
    BY <2>2, <2>3, PlaceFacts DEF Stmt
  <2>5. Passed(<<i, j>>)
    BY <2>3 DEF Orderly, AtTheEnd, Passed
  <2> QED
    BY <2>4, <2>5 DEF Orderly, Filled
<1> QED
  BY <1>1, <1>2, OrderlyNext, PTL DEF Spec
============================================================================
