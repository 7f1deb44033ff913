------------------------------ MODULE Upgrade ------------------------------
(***************************************************************************)
(* The one-click upgrade: POST /upgrade (plane/routes/updates.py), the     *)
(* detached helper and the one-shot status file (upgrade/spawn.py), the    *)
(* restarted server (plane/__main__.py) and the browser's "Upgrading..."   *)
(* page.  Servers, helpers and browser are processes of their own;         *)
(* uvicorn, the installer commands and the user are the environment.  Each *)
(* POST spawns a helper, also a second one before the server has shut down.*)
(* At most one request per client is open at a time.                       *)
(***************************************************************************)
EXTENDS Naturals, FiniteSets

CONSTANTS Apps,      \* server processes a behaviour may start
          First,     \* the one that runs at the beginning
          NoApp,
          Helpers,   \* the helpers, one for each POST
          Lingering, \* may open requests hold up the exit beyond 60 seconds?
          Manual     \* does the user ever start a server by hand?

ASSUME AppAssumption == First \in Apps /\ NoApp \notin Apps
ASSUME HelperAssumption == IsFiniteSet(Helpers)
ASSUME FlagAssumption == Lingering \in BOOLEAN /\ Manual \in BOOLEAN

VARIABLES
  app,     \* server processes: "none", "booting", "up", "stopping", "gone"
  helper,  \* helpers: where one stands, whether commands and Popen succeeded, and
           \* whether the file it has open is still the one in the directory
  parent,  \* the server that spawned each
  status,  \* the status file: "none", "torn" while written, "ok", "failed"
  polling, \* does an "Upgrading..." page poll the server?
  gets,    \* per client, the dashboard request being served
  shown,   \* history: outcomes the user has seen on a page
  told     \* history: how often a page has told the user of an outcome
vars == <<app, helper, parent, status, polling, gets, shown, told>>

AppStates == {"none", "booting", "up", "stopping", "gone"}
HelperSteps == {"absent", "waiting", "running", "restart", "open", "write",
                "done"}
Outcomes == {"ok", "failed"}
HelperStates == [step : HelperSteps, ok : BOOLEAN, restarted : BOOLEAN,
                 linked : BOOLEAN]
Clients == {"user", "script"}
NoGet == [step |-> "idle", on |-> NoApp, read |-> "none"]
Gets == [step : {"idle", "read", "unlink", "render"}, on : Apps \cup {NoApp},
         read : {"none"} \cup Outcomes]

Init ==
  /\ app = [a \in Apps |-> IF a = First THEN "up" ELSE "none"]
  /\ helper = [h \in Helpers |-> [step |-> "absent", ok |-> TRUE, restarted |-> FALSE,
                                  linked |-> FALSE]]
  /\ parent = [h \in Helpers |-> NoApp]
  /\ status = "none" /\ polling = FALSE /\ shown = {} /\ told = 0
  /\ gets = [c \in Clients |-> NoGet]

Alive(a) == app[a] \in {"booting", "up", "stopping"}
Unstarted == {a \in Apps : app[a] = "none"}
\* Processes are told apart by the order in which they start.
NewApp == CHOOSE a \in Apps : app[a] = "none"
NewHelper == CHOOSE h \in Helpers : helper[h].step = "absent"
Serving == \E a \in Apps : app[a] = "up"
ParentGone(h) == app[parent[h]] = "gone"
HelperAt(h, l) == helper[h].step = l
HelperGoto(h, l) == helper' = [helper EXCEPT ![h].step = l]
Outcome(h) == IF helper[h].ok THEN "ok" ELSE "failed"
\* The helpers that will need a process for a new server; Apps has one for each.
Restarting == {h \in Helpers : helper[h].step \in {"waiting", "running", "restart"}}
Spare == Cardinality(Unstarted) > Cardinality(Restarting)
----------------------------------------------------------------------------
(* The servers *)

\* _perform_upgrade: spawn_detached_upgrade, then the "Upgrading..." page.
PostUpgrade(h, a) ==
  /\ app[a] = "up" /\ HelperAt(h, "absent") /\ h = NewHelper /\ Spare
  /\ HelperGoto(h, "waiting")
  /\ parent' = [parent EXCEPT ![h] = a]
  /\ polling' = TRUE
  /\ UNCHANGED <<app, status, gets, shown, told>>

\* The timer of schedule_shutdown: SIGINT, and uvicorn closes its socket.
ShutDown(h) ==
  /\ parent[h] # NoApp /\ app[parent[h]] = "up"
  /\ app' = [app EXCEPT ![parent[h]] = "stopping"]
  /\ UNCHANGED <<helper, parent, status, polling, gets, shown, told>>

\* The last open request has been answered and the process ends.
Exit(a) ==
  /\ app[a] = "stopping"
  /\ \A c \in Clients : gets[c].on # a
  /\ app' = [app EXCEPT ![a] = "gone"]
  /\ UNCHANGED <<helper, parent, status, polling, gets, shown, told>>

\* The timer of a second POST: uvicorn takes another SIGINT to mean that it is
\* not to send the open responses; Python still joins the threads behind them.
ForceExit(a) ==
  /\ app[a] = "stopping"
  /\ \E h, k \in Helpers : h # k /\ parent[h] = a /\ parent[k] = a
  /\ \A c \in Clients : gets[c].on = a => gets[c].step = "render"
  /\ app' = [app EXCEPT ![a] = "gone"]
  /\ gets' = [c \in Clients |-> IF gets[c].on = a THEN NoGet ELSE gets[c]]
  /\ UNCHANGED <<helper, parent, status, polling, shown, told>>

\* Mutant: the port is shared with the server that has it.
BootShared(a) ==
  /\ app[a] = "booting"
  /\ app' = [app EXCEPT ![a] = "up"]
  /\ UNCHANGED <<helper, parent, status, polling, gets, shown, told>>

\* uvicorn.run: a server that finds the port taken ends.
Boot(a) ==
  /\ app[a] = "booting"
  /\ app' = [app EXCEPT ![a] = IF Serving THEN "gone" ELSE "up"]
  /\ UNCHANGED <<helper, parent, status, polling, gets, shown, told>>

\* The user runs the command the page offers for copying.
StartByHand(a) ==
  /\ Manual /\ polling /\ a \in Unstarted /\ a = NewApp /\ Spare
  /\ app' = [app EXCEPT ![a] = "booting"]
  /\ UNCHANGED <<helper, parent, status, polling, gets, shown, told>>
----------------------------------------------------------------------------
(* The helper: _HELPER_SOURCE *)

\* Mutant: the helper waits for the parent without a deadline.
WaitForever(h) ==
  /\ HelperAt(h, "waiting") /\ ParentGone(h)
  /\ HelperGoto(h, "running")
  /\ UNCHANGED <<app, parent, status, polling, gets, shown, told>>

\* while pid_alive(parent) and time.time() < deadline; the deadline of 60
\* seconds is far beyond the 0.7 seconds of schedule_shutdown.
WaitEnds(h) ==
  /\ HelperAt(h, "waiting")
  /\ ParentGone(h) \/ (Lingering /\ app[parent[h]] = "stopping")
  /\ HelperGoto(h, "running")
  /\ UNCHANGED <<app, parent, status, polling, gets, shown, told>>

\* The installer commands have run; the first that fails ends the loop.
CommandsRun(h, ok) ==
  /\ HelperAt(h, "running")
  /\ helper' = [helper EXCEPT ![h].step = IF ok THEN "restart" ELSE "open", ![h].ok = ok]
  /\ UNCHANGED <<app, parent, status, polling, gets, shown, told>>

\* Mutant: the new server is started in the helper's own session, and ends
\* with it before it ever answers.
RestartAttached(h, a) ==
  /\ HelperAt(h, "restart") /\ a \in Unstarted /\ a = NewApp
  /\ app' = [app EXCEPT ![a] = "gone"]
  /\ helper' = [helper EXCEPT ![h].step = "open", ![h].restarted = TRUE]
  /\ UNCHANGED <<parent, status, polling, gets, shown, told>>

\* Popen(restart_command), in a session of its own.
Restart(h, a) ==
  /\ HelperAt(h, "restart") /\ a \in Unstarted /\ a = NewApp
  /\ app' = [app EXCEPT ![a] = "booting"]
  /\ helper' = [helper EXCEPT ![h].step = "open", ![h].restarted = TRUE]
  /\ UNCHANGED <<parent, status, polling, gets, shown, told>>

\* Popen raises: the log says so, and the status is still written.
RestartFails(h) ==
  /\ HelperAt(h, "restart")
  /\ HelperGoto(h, "open")
  /\ UNCHANGED <<app, parent, status, polling, gets, shown, told>>

\* open(cfg["status"], "w") empties the file before json.dump fills it; another
\* helper may have the same file open.
OpenStatus(h) ==
  /\ HelperAt(h, "open")
  /\ status' = "torn"
  /\ helper' = [helper EXCEPT ![h].step = "write", ![h].linked = TRUE]
  /\ UNCHANGED <<app, parent, polling, gets, shown, told>>

\* What the file says after out is written over it from its beginning: {"ok":
\* true, ...} is the shorter text, and the rest of a longer one stays behind it.
Overwritten(out) ==
  CASE out = "ok" /\ status = "failed" -> {"torn"}
    [] out = "ok" /\ status = "ok" -> {"ok", "torn"}
    [] OTHER -> {out}

\* Mutant: the dump reports the restart and not the commands.
WriteOk(h) ==
  /\ HelperAt(h, "write")
  /\ status' \in IF helper[h].linked THEN Overwritten("ok") ELSE {status}
  /\ helper' = [helper EXCEPT ![h].step = "done", ![h].linked = FALSE]
  /\ UNCHANGED <<app, parent, polling, gets, shown, told>>

\* json.dump; a file unlinked since it was opened gets no name back.
WriteStatus(h) ==
  /\ HelperAt(h, "write")
  /\ status' \in IF helper[h].linked THEN Overwritten(Outcome(h)) ELSE {status}
  /\ helper' = [helper EXCEPT ![h].step = "done", ![h].linked = FALSE]
  /\ UNCHANGED <<app, parent, polling, gets, shown, told>>
----------------------------------------------------------------------------
(* GET /: the dashboard, with read_status *)

\* The user opens the dashboard, or the script of the page polls it.
Request(c, a) ==
  /\ app[a] = "up" /\ gets[c] = NoGet
  /\ c = "script" => polling
  /\ gets' = [gets EXCEPT ![c] = [NoGet EXCEPT !.step = "read", !.on = a]]
  /\ UNCHANGED <<app, helper, parent, status, polling, shown, told>>

\* path.exists(), then json.loads(path.read_text()): a torn file is None.
ReadStatus(c) ==
  /\ gets[c].step = "read"
  /\ gets' = [gets EXCEPT ![c].step = IF status = "none" THEN "render"
                                      ELSE "unlink",
                          ![c].read = IF status = "torn" THEN "none"
                                      ELSE status]
  /\ UNCHANGED <<app, helper, parent, status, polling, shown, told>>

\* Mutant: a file that has been read is left for the next page.
LeaveStatus(c) ==
  /\ gets[c].step = "unlink"
  /\ gets' = [gets EXCEPT ![c].step = "render"]
  /\ UNCHANGED <<app, helper, parent, status, polling, shown, told>>

\* finally: path.unlink(missing_ok=True), also when the file did not parse; a
\* helper that has it open writes to a file without a name.
UnlinkStatus(c) ==
  /\ gets[c].step = "unlink"
  /\ status' = "none"
  /\ helper' = [h \in Helpers |-> [helper[h] EXCEPT !.linked = FALSE]]
  /\ gets' = [gets EXCEPT ![c].step = "render"]
  /\ UNCHANGED <<app, parent, polling, shown, told>>

\* The user sees the page; the script drops it and sends the browser to "/".
Render(c) ==
  /\ gets[c].step = "render"
  /\ IF c = "user"
       THEN /\ shown' = shown \cup ({gets[c].read} \ {"none"})
            /\ told' = IF gets[c].read = "none" THEN told ELSE told + 1
            /\ UNCHANGED polling
       ELSE polling' = FALSE /\ UNCHANGED <<shown, told>>
  /\ gets' = [gets EXCEPT ![c] = NoGet]
  /\ UNCHANGED <<app, helper, parent, status>>
----------------------------------------------------------------------------
Install(h) == \E ok \in BOOLEAN : CommandsRun(h, ok)
Relaunch(h) == RestartFails(h) \/ \E a \in Apps : Restart(h, a)
HelperStep(h) ==
  WaitEnds(h) \/ Install(h) \/ Relaunch(h) \/ OpenStatus(h) \/ WriteStatus(h)
Dashboard(c) == ReadStatus(c) \/ UnlinkStatus(c) \/ Render(c)

Next ==
  \/ \E a \in Apps : Exit(a) \/ ForceExit(a) \/ Boot(a) \/ StartByHand(a)
  \/ \E h \in Helpers, a \in Apps : PostUpgrade(h, a)
  \/ \E h \in Helpers : ShutDown(h) \/ HelperStep(h)
  \/ \E c \in Clients : Dashboard(c) \/ \E a \in Apps : Request(c, a)

\* Threads, timers and helpers run on; the installer ends.  The user and the
\* poll owe nothing, and a server whose requests linger need never exit.
Fairness ==
  /\ \A h \in Helpers : WF_vars(ShutDown(h)) /\ WF_vars(HelperStep(h))
  /\ \A c \in Clients : WF_vars(Dashboard(c))
  /\ \A a \in Apps : WF_vars(Boot(a)) /\ (Lingering \/ WF_vars(Exit(a)))

Spec == Init /\ [][Next]_vars /\ Fairness
----------------------------------------------------------------------------
(* Properties *)

\* The variables have their types, and at most one server holds the port.
TypeOK ==
  /\ app \in [Apps -> AppStates]
  /\ helper \in [Helpers -> HelperStates]
  /\ parent \in [Helpers -> Apps \cup {NoApp}]
  /\ status \in {"none", "torn"} \cup Outcomes
  /\ polling \in BOOLEAN /\ shown \subseteq Outcomes /\ told \in Nat
  /\ gets \in [Clients -> Gets]
  /\ \A a, b \in Apps : app[a] = "up" /\ app[b] = "up" => a = b

\* What the dashboard tells the user of an upgrade is what the commands of a
\* helper that is done did: no torn file, no file that two helpers write at
\* once and none read before its helper was done misleads.
NoticeIsTrue ==
  \A o \in shown : \E h \in Helpers : HelperAt(h, "done") /\ o = Outcome(h)

\* read_status is one-shot ("the file is gone, so a second read is None",
\* tests/upgrade/test_spawn.py:9): the user is not told more often than helpers
\* have ended, although the file can be read while a helper writes over it, by
\* the page's script as well, and be unlinked after the next helper opened it.
Done == {h \in Helpers : HelperAt(h, "done")}
NoticeOnce == told <= Cardinality(Done)

\* A helper that was spawned gets to its end, whatever the server does: the
\* deadline of _HELPER_SOURCE keeps it from waiting for a server that lingers.
UpgradeEnds ==
  \A h \in Helpers : HelperAt(h, "waiting") ~> HelperAt(h, "done")

\* When a helper has launched the new server, a server answers again, unless
\* that is asked for an upgrade in its turn: the old one may linger, and another
\* helper or the user may have started one that has the port.
ServesAgain ==
  \A h \in Helpers :
    (/\ HelperAt(h, "open") /\ helper[h].restarted
     /\ \A k \in Helpers : parent[k] \in {NoApp, parent[h]}) ~> Serving
============================================================================
