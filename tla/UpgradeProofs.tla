--------------------------- MODULE UpgradeProofs ---------------------------
(***************************************************************************)
(* Theorems of Upgrade, for every set of server processes and of helpers:  *)
(* the types with one server on the port, the truth of what the dashboard  *)
(* says, and that it says it once.                                         *)
(***************************************************************************)
EXTENDS Upgrade, FiniteSetTheorems, TLAPS

\* A helper's record keeps its type under the updates the actions make.
LEMMA HelperFields ==
  \A r \in HelperStates, l \in HelperSteps, ok, b \in BOOLEAN :
    /\ [r EXCEPT !.step = l] \in HelperStates
    /\ [r EXCEPT !.step = l, !.ok = ok] \in HelperStates
    /\ [r EXCEPT !.step = l, !.restarted = b] \in HelperStates
    /\ [r EXCEPT !.step = l, !.linked = b] \in HelperStates
BY DEF HelperStates

\* The types, and one server on the port, in every state of the protocol:
\* a booting server looks at the port before it takes it.
THEOREM UpgradeTypes == Spec => []TypeOK
<1>1. Init => TypeOK
  <2> SUFFICES ASSUME Init PROVE TypeOK
    OBVIOUS
  <2>1. gets \in [Clients -> Gets]
    <3>1. NoGet \in Gets
      BY DEF NoGet, Gets
    <3> QED
      BY <3>1 DEF Init
  <2>2. app \in [Apps -> AppStates]
    BY DEF Init, AppStates
  <2>3. helper \in [Helpers -> HelperStates] /\ parent \in [Helpers -> Apps \cup {NoApp}]
    BY DEF Init, HelperStates, HelperSteps
  <2>4. \A a, b \in Apps : app[a] = "up" /\ app[b] = "up" => a = b
    BY DEF Init
  <2> QED
    BY <2>1, <2>2, <2>3, <2>4 DEF Init, TypeOK
<1>2. TypeOK /\ [Next]_vars => TypeOK'
  <2> SUFFICES ASSUME TypeOK, [Next]_vars PROVE TypeOK'
    OBVIOUS
  <2> USE DEF TypeOK
  <2>a. \A l \in {"absent", "waiting", "running", "restart", "open", "write", "done"} :
          l \in HelperSteps
    BY DEF HelperSteps
  <2>b. \A l \in {"none", "booting", "up", "stopping", "gone"} : l \in AppStates
    BY DEF AppStates
  <2>c. NoGet \in Gets
    BY DEF NoGet, Gets
  <2>1. ASSUME NEW a \in Apps, Exit(a) PROVE TypeOK'
    BY <2>1, <2>b DEF Exit
  <2>2. ASSUME NEW a \in Apps, ForceExit(a) PROVE TypeOK'
    BY <2>2, <2>b, <2>c DEF ForceExit
  <2>3. ASSUME NEW a \in Apps, Boot(a) PROVE TypeOK'
    BY <2>3, <2>b DEF Boot, Serving
  <2>4. ASSUME NEW a \in Apps, StartByHand(a) PROVE TypeOK'
    BY <2>4, <2>b DEF StartByHand
  <2>5. ASSUME NEW h \in Helpers, NEW a \in Apps, PostUpgrade(h, a) PROVE TypeOK'
    BY <2>5, <2>a, HelperFields DEF PostUpgrade, HelperGoto
  <2>6. ASSUME NEW h \in Helpers, ShutDown(h) PROVE TypeOK'
    <3>1. app' \in [Apps -> AppStates]
      BY <2>6, <2>b DEF ShutDown
    <3>2. \A x, y \in Apps : app'[x] = "up" /\ app'[y] = "up" => x = y
      BY <2>6 DEF ShutDown
    <3> QED
      BY <2>6, <3>1, <3>2 DEF ShutDown
  <2>7. ASSUME NEW h \in Helpers, HelperStep(h) PROVE TypeOK'
    <3>1. CASE WaitEnds(h)
      BY <3>1, <2>a, HelperFields DEF WaitEnds, HelperGoto
    <3>2. CASE Install(h)
      <4>1. PICK ok \in BOOLEAN : CommandsRun(h, ok)
        BY <3>2 DEF Install
      <4>2. helper' \in [Helpers -> HelperStates]
        BY <4>1, <2>a, HelperFields DEF CommandsRun
      <4> QED
        BY <4>1, <4>2 DEF CommandsRun
    <3>3. CASE RestartFails(h)
      BY <3>3, <2>a, HelperFields DEF RestartFails, HelperGoto
    <3>4. ASSUME NEW a \in Apps, Restart(h, a) PROVE TypeOK'
      <4>1. helper' \in [Helpers -> HelperStates]
        BY <3>4, <2>a, HelperFields DEF Restart
      <4>2. /\ app' \in [Apps -> AppStates]
            /\ \A x, y \in Apps : app'[x] = "up" /\ app'[y] = "up" => x = y
        BY <3>4, <2>b DEF Restart
      <4> QED
        BY <3>4, <4>1, <4>2 DEF Restart
    <3>5. CASE OpenStatus(h)
      BY <3>5, <2>a, HelperFields DEF OpenStatus
    <3>6. CASE WriteStatus(h)
      <4>1. helper' \in [Helpers -> HelperStates]
        BY <3>6, <2>a, HelperFields DEF WriteStatus
      <4>2. Outcome(h) \in Outcomes
        BY DEF Outcome, Outcomes
      <4>3. Overwritten(Outcome(h)) \subseteq {"none", "torn"} \cup Outcomes
        BY <4>2 DEF Overwritten, Outcomes
      <4>4. status' \in {"none", "torn"} \cup Outcomes
        <5>1. status' \in Overwritten(Outcome(h)) \/ status' \in {status}
          BY <3>6, Zenon DEF WriteStatus
        <5> QED
          BY <5>1, <4>3
      <4>5. app' = app /\ parent' = parent /\ polling' = polling /\ gets' = gets /\ shown' = shown /\ told' = told
        BY <3>6, Zenon DEF WriteStatus
      <4>6. polling' \in BOOLEAN
        BY <4>5, Zenon
      <4> QED
        BY <4>1, <4>4, <4>5, <4>6
    <3> QED
      BY <2>7, <3>1, <3>2, <3>3, <3>4, <3>5, <3>6 DEF HelperStep, Relaunch
  <2>8. ASSUME NEW c \in Clients, Dashboard(c) PROVE TypeOK'
    <3>1. CASE ReadStatus(c)
      BY <3>1 DEF ReadStatus, Gets, Clients, Outcomes
    <3>2. CASE UnlinkStatus(c)
      <4>0. \A h \in Helpers : [helper[h] EXCEPT !.linked = FALSE] \in HelperStates
        BY DEF HelperStates
      <4>1. helper' \in [Helpers -> HelperStates]
        BY <3>2, <4>0 DEF UnlinkStatus
      <4>2. gets' \in [Clients -> Gets]
        BY <3>2 DEF UnlinkStatus, Gets
      <4> QED
        BY <3>2, <4>1, <4>2 DEF UnlinkStatus
    <3>3. CASE Render(c)
      <4>1. gets' \in [Clients -> Gets]
        BY <3>3, <2>c DEF Render
      <4>2. gets[c] \in Gets
        OBVIOUS
      <4>3. shown' \subseteq Outcomes /\ polling' \in BOOLEAN
        <5>1. CASE c = "user"
          <6>1. /\ polling' = polling
                /\ shown' = shown \cup ({gets[c].read} \ {"none"})
            BY <3>3, <5>1, Zenon DEF Render
          <6>2. polling' \in BOOLEAN
            BY <6>1, Zenon
          <6>3. shown' \subseteq Outcomes
            BY <6>1, <4>2 DEF Gets
          <6> QED
            BY <6>2, <6>3
        <5>2. CASE c # "user"
          <6>1. polling' = FALSE /\ shown' = shown
            BY <3>3, <5>2, Zenon DEF Render
          <6> QED
            BY <6>1
        <5> QED
          BY <5>1, <5>2
      <4>4. told' \in Nat
        BY <3>3 DEF Render
      <4> QED
        BY <3>3, <4>1, <4>3, <4>4 DEF Render
    <3> QED
      BY <2>8, <3>1, <3>2, <3>3 DEF Dashboard
  <2>9. ASSUME NEW c \in Clients, NEW a \in Apps, Request(c, a) PROVE TypeOK'
    BY <2>9 DEF Request, Gets, NoGet, Clients
  <2>10. CASE UNCHANGED vars
    BY <2>10 DEF vars
  <2> QED
    BY <2>1, <2>2, <2>3, <2>4, <2>5, <2>6, <2>7, <2>8, <2>9, <2>10 DEF Next
<1> QED
  BY <1>1, <1>2, PTL DEF Spec

\* A helper that is done stays done, with the outcome it had, and one is done
\* only once it has written the status.
LEMMA HelperMoves ==
  ASSUME TypeOK, [Next]_vars, NEW h \in Helpers
  PROVE  /\ HelperAt(h, "done") => HelperAt(h, "done")' /\ Outcome(h)' = Outcome(h)
         /\ HelperAt(h, "done")' => HelperAt(h, "done") \/ WriteStatus(h)
<1> DEFINE Kept == helper'[h].step = helper[h].step /\ helper'[h].ok = helper[h].ok
           Fine == /\ HelperAt(h, "done") => HelperAt(h, "done")' /\ Outcome(h)' = Outcome(h)
                   /\ HelperAt(h, "done")' => HelperAt(h, "done") \/ WriteStatus(h)
<1>0. Kept => Fine
  BY DEF HelperAt, Outcome
<1> USE DEF TypeOK
<1>a. helper[h] \in HelperStates
  OBVIOUS
<1>1. ASSUME NEW a \in Apps, Exit(a) \/ ForceExit(a) \/ Boot(a) \/ StartByHand(a) PROVE Fine
  BY <1>0, <1>1 DEF Exit, ForceExit, Boot, StartByHand
<1>2. ASSUME NEW k \in Helpers, NEW a \in Apps, PostUpgrade(k, a) PROVE Fine
  <2>1. CASE k = h
    BY <2>1, <1>2, <1>a DEF PostUpgrade, HelperAt, HelperGoto, HelperStates
  <2>2. CASE k # h
    BY <2>2, <1>0, <1>2 DEF PostUpgrade, HelperGoto
  <2> QED
    BY <2>1, <2>2
<1>3. ASSUME NEW k \in Helpers, ShutDown(k) PROVE Fine
  BY <1>0, <1>3 DEF ShutDown
<1>4. ASSUME NEW k \in Helpers, HelperStep(k) PROVE Fine
  <2>1. CASE k # h
    <3>1. helper'[h] = helper[h]
      BY <2>1, <1>4 DEF HelperStep, WaitEnds, Install, CommandsRun, Relaunch, Restart,
                        RestartFails, OpenStatus, WriteStatus, HelperGoto
    <3> QED
      BY <3>1, <1>0
  <2>2. CASE k = h
    <3>1. ~HelperAt(h, "done")
      BY <2>2, <1>4 DEF HelperStep, WaitEnds, Install, CommandsRun, Relaunch, Restart,
                        RestartFails, OpenStatus, WriteStatus, HelperAt
    <3>2. CASE WriteStatus(h)
      BY <3>1, <3>2
    <3>3. CASE HelperStep(h) /\ ~WriteStatus(h)
      <4>1. helper'[h].step # "done"
        <5>1. CASE WaitEnds(h)
          BY <5>1, <1>a DEF WaitEnds, HelperGoto, HelperStates
        <5>2. CASE Install(h)
          BY <5>2, <1>a DEF Install, CommandsRun, HelperStates
        <5>3. CASE Relaunch(h)
          BY <5>3, <1>a DEF Relaunch, Restart, RestartFails, HelperGoto, HelperStates
        <5>4. CASE OpenStatus(h)
          BY <5>4, <1>a DEF OpenStatus, HelperStates
        <5> QED
          BY <3>3, <5>1, <5>2, <5>3, <5>4 DEF HelperStep
      <4> QED
        BY <3>1, <4>1 DEF HelperAt
    <3> QED
      BY <1>4, <2>2, <3>2, <3>3
  <2> QED
    BY <2>1, <2>2
<1>5. ASSUME NEW c \in Clients, Dashboard(c) PROVE Fine
  <2>1. CASE ReadStatus(c) \/ Render(c)
    BY <2>1, <1>0 DEF ReadStatus, Render
  <2>2. CASE UnlinkStatus(c)
    <3>1. Kept
      BY <2>2, <1>a DEF UnlinkStatus, HelperStates
    <3> QED
      BY <3>1, <1>0
  <2> QED
    BY <1>5, <2>1, <2>2 DEF Dashboard
<1>6. ASSUME NEW c \in Clients, NEW a \in Apps, Request(c, a) PROVE Fine
  BY <1>0, <1>6 DEF Request
<1>7. CASE UNCHANGED vars
  BY <1>0, <1>7 DEF vars
<1> QED
  BY <1>1, <1>2, <1>3, <1>4, <1>5, <1>6, <1>7 DEF Next
----------------------------------------------------------------------------
\* An outcome is backed when a helper that is done had it.  The inductive
\* invariant says so of the status file, of what a request has read from it and
\* of what the user has seen.
Backed(o) == \E h \in Helpers : HelperAt(h, "done") /\ o = Outcome(h)
NoticeInv ==
  /\ status \in Outcomes => Backed(status)
  /\ \A c \in Clients : gets[c].read \in Outcomes => Backed(gets[c].read)
  /\ \A o \in shown : Backed(o)

\* A helper that is done stays done, with the outcome it had.
LEMMA BackedStays ==
  ASSUME TypeOK, [Next]_vars
  PROVE  \A o : Backed(o) => Backed(o)'
BY HelperMoves DEF Backed

\* The user never sees an outcome that no helper had: not of a file that is
\* being written, by one helper or by two, and not of one left from before.
THEOREM NoticesAreTrue == Spec => []NoticeIsTrue
<1>1. Init => NoticeInv
  BY DEF Init, NoticeInv, Outcomes, NoGet
<1>2. TypeOK /\ NoticeInv /\ [Next]_vars => NoticeInv'
  <2> SUFFICES ASSUME TypeOK, NoticeInv, [Next]_vars PROVE NoticeInv'
    OBVIOUS
  <2>0. \A o : Backed(o) => Backed(o)'
    BY BackedStays
  <2>a. UNCHANGED <<status, gets, shown>> => NoticeInv'
    BY <2>0 DEF NoticeInv
  <2>1. ASSUME NEW a \in Apps, Exit(a) \/ Boot(a) \/ StartByHand(a) PROVE NoticeInv'
    BY <2>1, <2>a DEF Exit, Boot, StartByHand
  <2>2. ASSUME NEW a \in Apps, ForceExit(a) PROVE NoticeInv'
    BY <2>2, <2>0 DEF ForceExit, NoticeInv, NoGet, Outcomes
  <2>3. ASSUME NEW h \in Helpers, NEW a \in Apps, PostUpgrade(h, a) PROVE NoticeInv'
    BY <2>3, <2>a DEF PostUpgrade
  <2>4. ASSUME NEW h \in Helpers, ShutDown(h) PROVE NoticeInv'
    BY <2>4, <2>a DEF ShutDown
  <2>5. ASSUME NEW h \in Helpers, HelperStep(h) PROVE NoticeInv'
    <3>1. CASE WaitEnds(h) \/ Install(h) \/ Relaunch(h)
      BY <3>1, <2>a DEF WaitEnds, Install, CommandsRun, Relaunch, Restart, RestartFails
    <3>2. CASE OpenStatus(h)
      BY <3>2, <2>0 DEF OpenStatus, NoticeInv, Outcomes
    <3>3. CASE WriteStatus(h)
      <4>1. Backed(Outcome(h))'
        <5>1. helper[h] \in HelperStates /\ helper \in [Helpers -> HelperStates]
          BY DEF TypeOK
        <5>2. HelperAt(h, "done")' /\ Outcome(h)' = Outcome(h)
          BY <3>3, <5>1 DEF WriteStatus, HelperAt, Outcome, HelperStates
        <5> QED
          BY <5>2 DEF Backed
      <4>a. Overwritten(Outcome(h)) \subseteq {"torn", Outcome(h)}
        BY DEF Overwritten, Outcome
      <4>2. status' \in Outcomes => status' = status \/ status' = Outcome(h)
        <5>1. CASE helper[h].linked
          BY <5>1, <3>3, <4>a DEF WriteStatus, Outcomes
        <5>2. CASE ~helper[h].linked
          BY <5>2, <3>3 DEF WriteStatus
        <5> QED
          BY <5>1, <5>2
      <4>3. status' \in Outcomes => Backed(status)'
        <5>1. CASE status' = status
          BY <5>1, <2>0 DEF NoticeInv, Backed
        <5>2. CASE status' = Outcome(h)
          <6>1. Outcome(h)' = status'
            BY <5>2, <3>3 DEF WriteStatus, Outcome, TypeOK, HelperStates
          <6> QED
            BY <6>1, <4>1, <5>2 DEF Backed
        <5> QED
          BY <4>2, <5>1, <5>2
      <4> QED
        BY <3>3, <4>3, <2>0 DEF WriteStatus, NoticeInv
    <3> QED
      BY <2>5, <3>1, <3>2, <3>3 DEF HelperStep
  <2>6. ASSUME NEW c \in Clients, Dashboard(c) PROVE NoticeInv'
    <3>0. /\ gets \in [Clients -> Gets]
          /\ \A d \in Clients : gets[d].read \in {"none"} \cup Outcomes
      BY DEF TypeOK, Gets
    <3>1. CASE ReadStatus(c)
      <4>1. \A d \in Clients : gets'[d].read \in {"none", status, gets[d].read}
        BY <3>1, <3>0 DEF ReadStatus, Gets
      <4> QED
        BY <4>1, <3>1, <2>0 DEF ReadStatus, NoticeInv, Outcomes
    <3>2. CASE UnlinkStatus(c)
      <4>1. \A d \in Clients : gets'[d].read = gets[d].read
        BY <3>2, <3>0 DEF UnlinkStatus, Gets
      <4> QED
        BY <4>1, <3>2, <2>0 DEF UnlinkStatus, NoticeInv, Outcomes
    <3>3. CASE Render(c)
      <4>1. \A d \in Clients : gets'[d].read \in {"none", gets[d].read}
        BY <3>3, <3>0 DEF Render, NoGet
      <4>2. \A o \in shown' : o \in shown \/ (o = gets[c].read /\ o # "none")
        <5>1. CASE c = "user"
          BY <3>3, <5>1 DEF Render
        <5>2. CASE c # "user"
          BY <3>3, <5>2 DEF Render
        <5> QED
          BY <5>1, <5>2
      <4>3. \A o \in shown' : Backed(o)'
        BY <4>2, <3>0, <2>0 DEF NoticeInv
      <4> QED
        BY <4>1, <4>3, <3>3, <2>0 DEF Render, NoticeInv, Outcomes
    <3> QED
      BY <2>6, <3>1, <3>2, <3>3 DEF Dashboard
  <2>7. ASSUME NEW c \in Clients, NEW a \in Apps, Request(c, a) PROVE NoticeInv'
    <3>1. \A d \in Clients : gets'[d].read \in {"none", gets[d].read}
      BY <2>7 DEF Request, NoGet, TypeOK
    <3> QED
      BY <3>1, <2>7, <2>0 DEF Request, NoticeInv, Outcomes
  <2>8. CASE UNCHANGED vars
    BY <2>8, <2>a DEF vars
  <2> QED
    BY <2>1, <2>2, <2>3, <2>4, <2>5, <2>6, <2>7, <2>8 DEF Next
<1>3. NoticeInv => NoticeIsTrue
  BY DEF NoticeInv, NoticeIsTrue, Backed
<1> QED
  BY <1>1, <1>2, <1>3, UpgradeTypes, PTL DEF Spec
----------------------------------------------------------------------------
\* A notice is on its way to the user in the file, unless the user's own request
\* has read that and will unlink it, and in what that request has read.
Filed == IF status \in Outcomes /\ gets["user"].step # "unlink" THEN 1 ELSE 0
Read == IF gets["user"].read \in Outcomes THEN 1 ELSE 0

\* The inductive invariant counts those notices with the ones that were shown; a
\* request that has not looked at the file has none.
CountInv ==
  /\ told + Filed + Read <= Cardinality(Done)
  /\ gets["user"].step \in {"idle", "read"} => gets["user"].read = "none"

\* The helpers that are done are finitely many, and only a write adds one.
LEMMA DoneGrows ==
  ASSUME TypeOK, [Next]_vars
  PROVE  /\ Cardinality(Done) \in Nat
         /\ Cardinality(Done)' \in Nat
         /\ Cardinality(Done)' >= Cardinality(Done)
         /\ \A h \in Helpers : WriteStatus(h) => Cardinality(Done)' >= Cardinality(Done) + 1
<1>1. Done \subseteq Helpers /\ Done' \subseteq Helpers
  BY DEF Done
<1>2. IsFiniteSet(Done) /\ IsFiniteSet(Done')
  BY <1>1, HelperAssumption, FS_Subset
<1>3. Done \subseteq Done'
  BY HelperMoves DEF Done
<1>4. Cardinality(Done) \in Nat /\ Cardinality(Done') \in Nat
  BY <1>2, FS_CardinalityType
<1>5. Cardinality(Done) <= Cardinality(Done')
  BY <1>2, <1>3, FS_Subset
<1>6. ASSUME NEW h \in Helpers, WriteStatus(h) PROVE Cardinality(Done') >= Cardinality(Done) + 1
  <2>1. h \notin Done /\ HelperAt(h, "done")'
    BY <1>6 DEF WriteStatus, Done, HelperAt, TypeOK, HelperStates
  <2>2. Done \cup {h} \subseteq Done'
    BY <2>1, <1>3 DEF Done
  <2>3. Cardinality(Done \cup {h}) = Cardinality(Done) + 1 /\ IsFiniteSet(Done \cup {h})
    BY <2>1, <1>2, FS_AddElement
  <2>4. Cardinality(Done \cup {h}) <= Cardinality(Done')
    BY <2>2, <1>2, FS_Subset
  <2> QED
    BY <2>3, <2>4, <1>4
<1>7. Cardinality(Done)' = Cardinality(Done')
  OBVIOUS
<1> QED
  BY <1>4, <1>5, <1>6, <1>7

\* Numbers that do not become more stay below a bound that does not become less.
LEMMA StaysBelow ==
  \A a, b, c, n, d, e, f, m \in Nat :
    a + b + c <= n /\ d + e + f <= a + b + c /\ n <= m => d + e + f <= m
OBVIOUS

\* Every upgrade is announced to the user once at most: whatever helpers write
\* over each other's file, and whoever reads and unlinks it in between.
THEOREM NoticesOnce == Spec => []NoticeOnce
<1>1. Init => CountInv
  <2> SUFFICES ASSUME Init PROVE CountInv
    OBVIOUS
  <2>1. Done = {}
    BY DEF Init, Done, HelperAt
  <2>2. gets["user"] = NoGet /\ status = "none" /\ told = 0
    BY DEF Init, Clients
  <2>3. Filed = 0 /\ Read = 0
    BY <2>2 DEF Filed, Read, NoGet, Outcomes
  <2>4. Cardinality(Done) = 0
    BY <2>1, FS_EmptySet
  <2> QED
    BY <2>2, <2>3, <2>4 DEF CountInv, NoGet
<1>2. TypeOK /\ CountInv /\ [Next]_vars => CountInv'
  <2> SUFFICES ASSUME TypeOK, CountInv, [Next]_vars PROVE CountInv'
    OBVIOUS
  <2> DEFINE me == gets["user"]
             Unread(g) == g.step \in {"idle", "read"} => g.read = "none"
             Fewer == told' + Filed' + Read' <= told + Filed + Read
  <2>a. /\ Cardinality(Done) \in Nat /\ Cardinality(Done)' \in Nat
        /\ Cardinality(Done)' >= Cardinality(Done)
        /\ \A h \in Helpers : WriteStatus(h) => Cardinality(Done)' >= Cardinality(Done) + 1
    BY DoneGrows
  <2>b. told \in Nat /\ Filed \in {0, 1} /\ Read \in {0, 1} /\ Filed' \in {0, 1} /\ Read' \in {0, 1}
    BY DEF TypeOK, Filed, Read
  <2>c. told + Filed + Read <= Cardinality(Done) /\ Unread(me)
    BY DEF CountInv
  <2>d. me \in Gets /\ "user" \in Clients /\ DOMAIN gets = Clients /\ gets \in [Clients -> Gets]
    BY DEF TypeOK, Clients
  \* It is enough that the notices on their way do not become more.
  <2>e. Fewer /\ told' \in Nat /\ Unread(me)' => CountInv'
    <3> SUFFICES ASSUME Fewer, told' \in Nat, Unread(me)' PROVE CountInv'
      OBVIOUS
    <3>a. \A x \in {0, 1} : x \in Nat
      OBVIOUS
    <3>b. /\ told \in Nat /\ Filed \in Nat /\ Read \in Nat
          /\ told' \in Nat /\ Filed' \in Nat /\ Read' \in Nat
      BY <3>a, <2>b
    <3>c. Cardinality(Done) <= Cardinality(Done)'
      BY <2>a
    <3>1. told' + Filed' + Read' <= Cardinality(Done)'
      BY <3>b, <3>c, <2>a, <2>c, StaysBelow
    <3> QED
      BY <3>1 DEF CountInv
  <2>f. UNCHANGED <<told, status>> /\ me' = me => CountInv'
    <3> SUFFICES ASSUME UNCHANGED <<told, status>>, me' = me PROVE CountInv'
      OBVIOUS
    <3>1. Filed' = Filed /\ Read' = Read
      BY DEF Filed, Read
    <3> QED
      BY <3>1, <2>b, <2>c, <2>e
  <2>1. ASSUME NEW a \in Apps, Exit(a) \/ Boot(a) \/ StartByHand(a) PROVE CountInv'
    BY <2>1, <2>f DEF Exit, Boot, StartByHand
  <2>2. ASSUME NEW a \in Apps, ForceExit(a) PROVE CountInv'
    <3>1. told' = told /\ status' = status
      BY <2>2 DEF ForceExit
    <3>2. CASE me.on = a
      <4>1. me.step = "render" /\ me' = NoGet
        BY <3>2, <2>2, <2>d DEF ForceExit
      <4>2. Read' = 0 /\ Filed' = Filed /\ Unread(me)'
        BY <4>1, <3>1 DEF Read, Filed, NoGet, Outcomes
      <4> QED
        BY <4>2, <3>1, <2>b, <2>e
    <3>3. CASE me.on # a
      <4>1. me' = me
        BY <3>3, <2>2, <2>d DEF ForceExit
      <4> QED
        BY <4>1, <3>1, <2>f
    <3> QED
      BY <3>2, <3>3
  <2>3. ASSUME NEW h \in Helpers, NEW a \in Apps, PostUpgrade(h, a) PROVE CountInv'
    BY <2>3, <2>f DEF PostUpgrade
  <2>4. ASSUME NEW h \in Helpers, ShutDown(h) PROVE CountInv'
    BY <2>4, <2>f DEF ShutDown
  <2>5. ASSUME NEW h \in Helpers, HelperStep(h) PROVE CountInv'
    <3>1. CASE WaitEnds(h) \/ Install(h) \/ Relaunch(h)
      BY <3>1, <2>f DEF WaitEnds, Install, CommandsRun, Relaunch, Restart, RestartFails
    <3>2. CASE OpenStatus(h)
      <4>1. told' = told /\ gets' = gets /\ status' = "torn"
        BY <3>2 DEF OpenStatus
      <4>2. Filed' = 0 /\ Read' = Read /\ Unread(me)'
        BY <4>1, <2>c DEF Filed, Read, Outcomes
      <4> QED
        BY <4>1, <4>2, <2>b, <2>e
    <3>3. CASE WriteStatus(h)
      <4>1. told' = told /\ gets' = gets
        BY <3>3 DEF WriteStatus
      <4>2. Read' = Read /\ Unread(me)'
        BY <4>1, <2>c DEF Read
      <4>3. told' + Filed' + Read' <= Cardinality(Done)'
        BY <4>1, <4>2, <3>3, <2>a, <2>b, <2>c
      <4> QED
        BY <4>2, <4>3 DEF CountInv
    <3> QED
      BY <2>5, <3>1, <3>2, <3>3 DEF HelperStep
  <2>6. ASSUME NEW c \in Clients, Dashboard(c) PROVE CountInv'
    <3>1. CASE c # "user"
      <4>1. me' = me /\ told' = told /\ status' \in {status, "none"}
        BY <2>6, <3>1, <2>d DEF Dashboard, ReadStatus, UnlinkStatus, Render
      <4>2. Read' = Read /\ Filed' <= Filed /\ Unread(me)'
        BY <4>1, <2>c DEF Read, Filed, Outcomes
      <4>3. Fewer
        <5> HIDE DEF me, Unread
        <5>1. told \in Nat /\ Filed \in Nat /\ Read \in Nat /\ Filed' \in Nat
          BY <2>b
        <5>2. \A k, m, n, p \in Nat : m <= n => k + m + p <= k + n + p
          OBVIOUS
        <5>3. told + Filed' + Read <= told + Filed + Read
          BY <5>1, <5>2, <4>2
        <5> QED
          BY <4>1, <4>2, <5>3
      <4> QED
        BY <4>1, <4>2, <4>3, <2>b, <2>e
    <3>2. CASE c = "user" /\ ReadStatus(c)
      <4>1. told' = told /\ status' = status /\ me.step = "read"
        BY <3>2 DEF ReadStatus
      <4>2. /\ me'.step = IF status = "none" THEN "render" ELSE "unlink"
            /\ me'.read = IF status = "torn" THEN "none" ELSE status
        BY <3>2, <2>d DEF ReadStatus, Gets
      <4>3. Read = 0 /\ Unread(me)'
        BY <4>1, <4>2, <2>c DEF Read, Outcomes
      <4>4. Read' + Filed' <= Filed
        BY <4>1, <4>2, <2>d DEF Read, Filed, Outcomes
      <4>5. Fewer
        <5> HIDE DEF me, Unread
        <5>1. told' = told /\ Read = 0
          BY <4>1, <4>3
        <5>2. told \in Nat /\ Filed \in Nat /\ Read' \in Nat /\ Filed' \in Nat
          BY <2>b
        <5>3. told' + Filed' + Read' <= told + Filed + 0
          <6>1. \A k, m, n, p \in Nat : m + n <= p => k + n + m <= k + p + 0
            OBVIOUS
          <6>2. told + Filed' + Read' <= told + Filed + 0
            BY <5>2, <4>4, <6>1
          <6> QED
            BY <5>1, <6>2
        <5> QED
          BY <5>1, <5>3
      <4> QED
        BY <4>1, <4>3, <4>5, <2>b, <2>e
    <3>3. CASE c = "user" /\ UnlinkStatus(c)
      <4>1. told' = told /\ status' = "none"
        BY <3>3 DEF UnlinkStatus
      <4>2. me'.step = "render" /\ me'.read = me.read
        BY <3>3, <2>d DEF UnlinkStatus, Gets
      <4>3. Read' = Read /\ Filed' = 0 /\ Unread(me)'
        BY <4>1, <4>2 DEF Read, Filed, Outcomes
      <4> QED
        BY <4>1, <4>3, <2>b, <2>e
    <3>4. CASE c = "user" /\ Render(c)
      <4>1. /\ told' = IF me.read = "none" THEN told ELSE told + 1
            /\ status' = status /\ me' = NoGet /\ me.step = "render"
        BY <3>4, <2>d DEF Render
      <4>2. me.read \in {"none"} \cup Outcomes
        BY <2>d DEF Gets
      <4>3. Read' = 0 /\ Filed' = Filed /\ Unread(me)'
        BY <4>1 DEF Read, Filed, NoGet, Outcomes
      <4>4. told' + Read' <= told + Read /\ told' \in Nat
        BY <4>1, <4>2, <4>3, <2>b DEF Read, Outcomes
      <4>5. Fewer
        <5> HIDE DEF me, Unread
        <5>1. told \in Nat /\ told' \in Nat /\ Read \in Nat /\ Read' \in Nat /\ Filed \in Nat
          BY <2>b, <4>4
        <5>2. \A k, m, n, p, q \in Nat : k + m <= n + p => k + q + m <= n + q + p
          OBVIOUS
        <5>3. told' + Filed + Read' <= told + Filed + Read
          BY <5>1, <5>2, <4>4
        <5> QED
          BY <4>3, <5>3
      <4> QED
        BY <4>3, <4>4, <4>5, <2>e
    <3> QED
      BY <2>6, <3>1, <3>2, <3>3, <3>4 DEF Dashboard
  <2>7. ASSUME NEW c \in Clients, NEW a \in Apps, Request(c, a) PROVE CountInv'
    <3>1. told' = told /\ status' = status
      BY <2>7 DEF Request
    <3>2. CASE c = "user"
      <4>1. me = NoGet /\ me'.step = "read" /\ me'.read = "none"
        BY <2>7, <3>2, <2>d DEF Request, NoGet, Gets
      <4>2. Read' = Read /\ Filed' = Filed /\ Unread(me)'
        BY <4>1, <3>1 DEF Read, Filed, NoGet, Outcomes
      <4> QED
        BY <4>2, <3>1, <2>b, <2>e
    <3>3. CASE c # "user"
      BY <2>7, <3>1, <3>3, <2>d, <2>f DEF Request
    <3> QED
      BY <3>2, <3>3
  <2>8. CASE UNCHANGED vars
    BY <2>8, <2>f DEF vars
  <2> QED
    BY <2>1, <2>2, <2>3, <2>4, <2>5, <2>6, <2>7, <2>8 DEF Next
<1>3. TypeOK /\ CountInv => NoticeOnce
  <2> SUFFICES ASSUME TypeOK, CountInv PROVE NoticeOnce
    OBVIOUS
  <2>1. Cardinality(Done) \in Nat
    <3>1. Done \subseteq Helpers
      BY DEF Done
    <3>2. IsFiniteSet(Done)
      BY <3>1, HelperAssumption, FS_Subset
    <3> QED
      BY <3>2, FS_CardinalityType
  <2>2. told \in Nat /\ Filed \in {0, 1} /\ Read \in {0, 1}
    BY DEF TypeOK, Filed, Read
  <2> QED
    BY <2>1, <2>2 DEF CountInv, NoticeOnce
<1> QED
  BY <1>1, <1>2, <1>3, UpgradeTypes, PTL DEF Spec
============================================================================
