------------------------- MODULE ControlRunsProofs -------------------------
(***************************************************************************)
(* Theorems about ControlRuns, for any controls, pipelines, requests,      *)
(* contents, edits and deaths: its types, that no run loses its control,   *)
(* that the run history is a ledger, and about what a run leaves behind: a *)
(* fan-out that answered is complete, every whole deliverable shows stored *)
(* runs, and the files a request wrote with no other writer are of it.     *)
(***************************************************************************)
EXTENDS ControlRuns, SequenceTheorems, FiniteSetTheorems, TLAPS

ReadSteps == {"project", "pipeline"}
TestSteps == {"load", "hash", "insert"}
PaperSteps == {"html", "md", "evidence", "aggregate"}

\* Where a request stands in its fan-out.
Placed(q) ==
  /\ q.step \in Steps \ {"project"} => q.ctl \in Control
  /\ q.step \in ReadSteps \/ (q.step = "samples" /\ IsPipeline(q)) => q.n = 1
  /\ q.step \in ReadSteps \cup {"samples", "insert"} => q.k = 1
  /\ q.step \in TestSteps => q.n \in 1 .. Len(ProcsOf(q))
  /\ q.step \in {"load", "hash"} => q.k \in 1 .. Len(ChecksOf[ProcAt(q)])
  /\ q.step = "hash" => q.seen \in Contents
  /\ q.step = "aggregate" => IsPipeline(q)

\* The rows that the request has stored so far.
Stored(q, rows) ==
  \A i \in DOMAIN rows : rows[i].id.at = q.at =>
    /\ q.step \notin ReadSteps
    /\ ~(q.step = "samples" /\ IsPipeline(q))
    /\ q.step \in TestSteps => \E m \in 1 .. q.n - 1 : rows[i].id.proc = ProcsOf(q)[m]
    /\ q.step \in PaperSteps /\ IsPipeline(q) => rows[i].id.proc # Whole

\* Every request has a time of its own, and no row is from the future.
Timed ==
  /\ \A r \in Requests : req[r] # NoRequest => req[r].at <= clock
  /\ \A r, s \in Requests :
       req[r] # NoRequest /\ req[s] # NoRequest /\ req[r].at = req[s].at => r = s
  /\ \A i \in DOMAIN runs : runs[i].id.at <= clock

\* What a request does next depends on its own record and on the rows.
Fits(q, rows) == q \in RequestRec => Placed(q) /\ Stored(q, rows)

IInv ==
  /\ TypeOK
  /\ Timed
  /\ NoOrphanRuns
  /\ \A r \in Requests : Fits(req[r], runs)
----------------------------------------------------------------------------
(* Records and rows *)

LEMMA NoRequestIsNone == NoRequest \notin RequestRec
BY DEF NoRequest, RequestRec, Steps, Ended

LEMMA ProcsTyped ==
  ASSUME NEW q \in RequestRec, q.ctl \in Control
  PROVE /\ ProcsOf(q) \in Seq(Procs \cup {Whole})
        /\ IsPipeline(q) => /\ ProcsOf(q) \in Seq(Procs)
                            /\ \A i, j \in 1 .. Len(ProcsOf(q)) :
                                 ProcsOf(q)[i] = ProcsOf(q)[j] => i = j
        /\ ~IsPipeline(q) => ProcsOf(q) = <<Whole>>
<1>1. CASE IsPipeline(q)
  <2>1. q.ctl.procs \in Pipelines
    BY <1>1 DEF IsPipeline, Control
  <2>2. ProcsOf(q) \in Seq(Procs)
    BY <1>1, <2>1, PipelineAssumption DEF ProcsOf
  <2>3. ProcsOf(q) \in Seq(Procs \cup {Whole})
    BY <2>2, SeqMonotonic
  <2> QED BY <1>1, <2>1, <2>2, <2>3, PipelineAssumption DEF ProcsOf
<1>2. CASE ~IsPipeline(q)
  BY <1>2 DEF ProcsOf
<1> QED BY <1>1, <1>2

LEMMA ProcTyped ==
  ASSUME NEW q \in RequestRec, q.ctl \in Control, q.n \in 1 .. Len(ProcsOf(q))
  PROVE /\ ProcAt(q) \in Procs \cup {Whole}
        /\ ChecksOf[ProcAt(q)] \in Seq(Checks) /\ 1 \in 1 .. Len(ChecksOf[ProcAt(q)])
<1>1. ProcAt(q) \in Procs \cup {Whole}
  BY ProcsTyped, ElementOfSeq DEF ProcAt
<1>2. ChecksOf[ProcAt(q)] \in Seq(Checks) /\ Len(ChecksOf[ProcAt(q)]) > 0
  BY <1>1, CheckAssumption
<1>3. Len(ChecksOf[ProcAt(q)]) \in Nat
  BY <1>2, LenProperties
<1> QED BY <1>1, <1>2, <1>3

\* An id that no row has yet is appended.
LEMMA FreshIsAppended ==
  ASSUME NEW r, \A i \in DOMAIN runs : runs[i].id # r.id
  PROVE InsertRun(runs, r) = Append(runs, r)
BY DEF InsertRun

LEMMA AppendRow ==
  ASSUME runs \in Seq(Run), NEW x \in Run
  PROVE /\ Append(runs, x) \in Seq(Run)
        /\ DOMAIN Append(runs, x) = DOMAIN runs \cup {Len(runs) + 1}
        /\ \A i \in DOMAIN runs : Append(runs, x)[i] = runs[i]
        /\ Append(runs, x)[Len(runs) + 1] = x
BY AppendProperties, LenProperties
----------------------------------------------------------------------------
(* A request that moves on *)

LEMMA Moves ==
  ASSUME IInv, NEW r \in Requests, NEW q \in RequestRec,
         req[r] \in RequestRec, q.at = req[r].at, req' = [req EXCEPT ![r] = q],
         Fits(q, runs),
         UNCHANGED <<controls, live, runs, clock, edits, crashes>>,
         papers' \in [Ids -> [html : Papers, md : Papers, evidence : Evidence]],
         unsettled' \subseteq Ids, shared' \subseteq Ids
  PROVE IInv'
<1>1. req' \in [Requests -> RequestRec \cup {NoRequest}]
      /\ req'[r] = q /\ \A s \in Requests \ {r} : req'[s] = req[s]
  BY DEF IInv, TypeOK
<1>2. TypeOK'
  BY <1>1 DEF IInv, TypeOK
<1>3. Timed'
  BY <1>1, NoRequestIsNone DEF IInv, Timed
<1>4. NoOrphanRuns'
  BY DEF IInv, NoOrphanRuns, RunSet
<1>5. \A s \in Requests : Fits(req'[s], runs')
  BY <1>1 DEF IInv
<1> QED BY <1>2, <1>3, <1>4, <1>5 DEF IInv

\* The same, with a row of the request stored.
LEMMA MovesWithRow ==
  ASSUME IInv, NEW r \in Requests, NEW q \in RequestRec, NEW x \in Run,
         req[r] \in RequestRec, q.at = req[r].at, req' = [req EXCEPT ![r] = q],
         x.id.at = q.at, controls[x.owner] # NoControl, runs' = Append(runs, x),
         Fits(q, runs'),
         UNCHANGED <<controls, live, papers, clock, edits, crashes, unsettled, shared>>
  PROVE IInv'
<1>1. req' \in [Requests -> RequestRec \cup {NoRequest}]
      /\ req'[r] = q /\ \A s \in Requests \ {r} : req'[s] = req[s]
  BY DEF IInv, TypeOK
<1>2. /\ runs' \in Seq(Run) /\ DOMAIN runs' = DOMAIN runs \cup {Len(runs) + 1}
      /\ \A i \in DOMAIN runs : runs'[i] = runs[i]
      /\ runs'[Len(runs) + 1] = x
  BY AppendRow DEF IInv, TypeOK
<1>3. TypeOK'
  BY <1>1, <1>2 DEF IInv, TypeOK
<1>4. Timed'
  BY <1>1, <1>2, NoRequestIsNone DEF IInv, Timed
<1>5. NoOrphanRuns'
  BY <1>2 DEF IInv, NoOrphanRuns, RunSet
<1>6. ASSUME NEW s \in Requests \ {r}, req[s] \in RequestRec PROVE Stored(req[s], runs')
  <2>1. req[s].at # x.id.at
    BY <1>6, NoRequestIsNone DEF IInv, Timed
  <2> QED BY <1>2, <1>6, <2>1 DEF IInv, Fits, Stored
<1>7. \A s \in Requests : Fits(req'[s], runs')
  BY <1>1, <1>6 DEF IInv, Fits
<1> QED BY <1>3, <1>4, <1>5, <1>7 DEF IInv
----------------------------------------------------------------------------
(* The steps of a run *)

LEMMA InitInv == Init => IInv
<1> SUFFICES ASSUME Init PROVE IInv
  OBVIOUS
<1>1. controls \in [Ids -> Control \cup {NoControl}]
  BY RowAssumption DEF Init
<1>2. papers \in [Ids -> [html : Papers, md : Papers, evidence : Evidence]]
  <2>1. [html |-> NoPaper, md |-> NoPaper, evidence |-> NoPaper]
          \in [html : Papers, md : Papers, evidence : Evidence]
    BY DEF Papers, Evidence, NotWhole
  <2> QED BY <2>1 DEF Init
<1>3. runs \in Seq(Run) /\ DOMAIN runs = {}
  BY EmptySeq DEF Init
<1>4. TypeOK
  BY <1>1, <1>2, <1>3 DEF Init, TypeOK
<1>5. \A r \in Requests : req[r] = NoRequest
  BY DEF Init
<1>6. \A r \in Requests : Fits(req[r], runs)
  BY <1>5, NoRequestIsNone DEF Fits
<1> QED BY <1>3, <1>4, <1>5, <1>6 DEF IInv, Timed, NoOrphanRuns, RunSet

\* A step other than the first is one of a request that was started.
LEMMA Started ==
  ASSUME IInv, NEW r \in Requests, NEW l \in Steps, At(r, l)
  PROVE /\ req[r] \in RequestRec /\ req[r].step = l
        /\ Placed(req[r]) /\ Stored(req[r], runs)
<1>1. req[r] # NoRequest
  BY DEF At, NoRequest, Steps
<1> QED BY <1>1 DEF IInv, TypeOK, Fits, At

LEMMA EndsFit ==
  ASSUME NEW q \in RequestRec, q.step \in Ended
  PROVE Fits(q, runs)
BY DEF Fits, Placed, Stored, Ended, Steps, ReadSteps, TestSteps, PaperSteps

LEMMA FailMoves ==
  ASSUME IInv, NEW r \in Requests, NEW l \in Steps, At(r, l), Fail(r),
         UNCHANGED <<controls, live, runs, papers, clock, edits, crashes, unsettled, shared>>
  PROVE IInv'
<1> DEFINE q == [req[r] EXCEPT !.step = "failed"]
<1>1. req[r] \in RequestRec
  BY Started
<1>2. q \in RequestRec /\ q.at = req[r].at /\ q.step = "failed"
  BY <1>1 DEF RequestRec, Ended
<1>3. req' = [req EXCEPT ![r] = q]
  BY DEF Fail, Goto
<1>4. Fits(q, runs)
  BY <1>2, EndsFit DEF Ended
<1> HIDE DEF q
<1> QED BY <1>1, <1>2, <1>3, <1>4, Moves DEF IInv, TypeOK

LEMMA StartRunKeeps ==
  ASSUME IInv, NEW r \in Requests, NEW c \in Ids, StartRun(r, c)
  PROVE IInv'
<1> DEFINE q == [step |-> "project", id |-> c, at |-> clock + 1, ctl |-> NoControl,
                 n |-> 1, k |-> 1, seen |-> NoData, prov |-> NoData, items |-> {},
                 out |-> <<>>, open |-> FALSE]
<1>1. clock \in Nat /\ clock' = clock + 1 /\ req' = [req EXCEPT ![r] = q]
      /\ UNCHANGED <<controls, live, runs, papers, edits, crashes, unsettled, shared>>
  BY DEF IInv, TypeOK, StartRun
<1>2. q \in RequestRec
  BY <1>1, EmptySeq DEF RequestRec, Steps, Snapshots
<1>3. q.at = clock + 1 /\ q.step = "project" /\ q.n = 1 /\ q.k = 1
  OBVIOUS
<1> HIDE DEF q
<1>4. req' \in [Requests -> RequestRec \cup {NoRequest}]
      /\ req'[r] = q /\ \A s \in Requests \ {r} : req'[s] = req[s]
  BY <1>1, <1>2 DEF IInv, TypeOK
<1>5. TypeOK'
  BY <1>1, <1>4 DEF IInv, TypeOK
<1>6. Timed'
  <2>1. \A s \in Requests : req[s] # NoRequest => req[s].at \in Nat /\ req[s].at <= clock
    BY DEF IInv, TypeOK, Timed, RequestRec
  <2>2. \A i \in DOMAIN runs : runs[i].id.at \in Nat /\ runs[i].id.at <= clock
    <3>1. \A i \in DOMAIN runs : runs[i] \in Run
      BY LenProperties, ElementOfSeq DEF IInv, TypeOK
    <3> QED BY <3>1 DEF IInv, Timed, Run, RunIds
  <2> QED BY <1>1, <1>3, <1>4, <2>1, <2>2 DEF IInv, Timed
<1>7. NoOrphanRuns'
  BY <1>1 DEF IInv, NoOrphanRuns, RunSet
<1>8. Placed(q)
  BY <1>3 DEF Placed, ReadSteps, TestSteps
<1>9. Stored(q, runs)
  <2>1. \A i \in DOMAIN runs : runs[i].id.at # q.at
    <3>1. \A i \in DOMAIN runs : runs[i] \in Run
      BY LenProperties, ElementOfSeq DEF IInv, TypeOK
    <3> QED BY <1>1, <1>3, <3>1 DEF IInv, Timed, Run, RunIds
  <2> QED BY <2>1 DEF Stored
<1>10. \A s \in Requests : Fits(req'[s], runs')
  BY <1>1, <1>4, <1>8, <1>9 DEF IInv, Fits
<1> QED BY <1>5, <1>6, <1>7, <1>10 DEF IInv

LEMMA LoadProjectKeeps ==
  ASSUME IInv, NEW r \in Requests, LoadProject(r)
  PROVE IInv'
<1>1. At(r, "project") /\ "project" \in Steps
  BY DEF LoadProject, Steps
<1>2. req[r] \in RequestRec /\ req[r].step = "project" /\ Placed(req[r]) /\ Stored(req[r], runs)
  BY <1>1, Started
<1>3. CASE controls[req[r].id] = NoControl
  BY <1>1, <1>3, FailMoves DEF LoadProject
<1>4. CASE controls[req[r].id] # NoControl
  <2> DEFINE q == [req[r] EXCEPT !.step = "pipeline", !.ctl = controls[req[r].id]]
  <2>1. controls[req[r].id] \in Control
    BY <1>2, <1>4 DEF IInv, TypeOK, RequestRec
  <2>2. q \in RequestRec
    BY <1>2, <2>1 DEF RequestRec, Steps
  <2>3. q.at = req[r].at /\ q.step = "pipeline" /\ q.ctl \in Control
        /\ q.n = req[r].n /\ q.k = req[r].k
    BY <1>2, <2>1 DEF RequestRec
  <2>4. req' = [req EXCEPT ![r] = q]
    BY <1>4 DEF LoadProject
  <2> HIDE DEF q
  <2>5. Placed(q)
    BY <1>2, <2>3 DEF Placed, ReadSteps, TestSteps
  <2>6. Stored(q, runs)
    BY <1>2, <2>3 DEF Stored, ReadSteps
  <2> QED BY <1>2, <1>4, <2>2, <2>3, <2>4, <2>5, <2>6, Moves DEF LoadProject, Fits, IInv, TypeOK
<1> QED BY <1>3, <1>4

LEMMA LoadPipelineKeeps ==
  ASSUME IInv, NEW r \in Requests, LoadPipeline(r)
  PROVE IInv'
<1>1. At(r, "pipeline") /\ "pipeline" \in Steps
  BY DEF LoadPipeline, Steps
<1>2. req[r] \in RequestRec /\ req[r].step = "pipeline" /\ Placed(req[r]) /\ Stored(req[r], runs)
  BY <1>1, Started
<1>3. req[r].ctl \in Control /\ req[r].n = 1 /\ req[r].k = 1
  BY <1>2 DEF Placed, Steps, ReadSteps
<1> DEFINE raw == controls[req[r].id]
           ctl == IF raw = NoControl
                  THEN [req[r].ctl EXCEPT !.procs = Plain]
                  ELSE [req[r].ctl EXCEPT !.procs = raw.procs, !.own = raw.own]
           step == IF ctl.procs = Plain THEN "load" ELSE "samples"
           q == [req[r] EXCEPT !.ctl = ctl, !.step = step]
<1>4. ctl \in Control
  <2>1. raw \in Control \cup {NoControl}
    BY <1>2 DEF IInv, TypeOK, RequestRec
  <2> QED BY <1>3, <2>1 DEF Control
<1>5. req' = [req EXCEPT ![r] = q]
  BY DEF LoadPipeline
<1> HIDE DEF ctl
<1>6. q \in RequestRec
  BY <1>2, <1>4 DEF RequestRec, Steps
<1>7. q.at = req[r].at /\ q.n = 1 /\ q.k = 1 /\ q.ctl = ctl
      /\ q.step = IF ctl.procs = Plain THEN "load" ELSE "samples"
  BY <1>2, <1>3 DEF RequestRec
<1> HIDE DEF q
<1>8. Placed(q)
  <2>1. CASE ctl.procs = Plain
    <3>1. ProcsOf(q) = <<Whole>> /\ q.step = "load" /\ q.n \in 1 .. Len(ProcsOf(q))
      BY <1>7, <2>1 DEF ProcsOf, IsPipeline
    <3>2. q.k \in 1 .. Len(ChecksOf[ProcAt(q)])
      BY <1>4, <1>6, <1>7, <3>1, ProcTyped
    <3> QED BY <1>4, <1>7, <3>1, <3>2 DEF Placed, ReadSteps, TestSteps
  <2>2. CASE ctl.procs # Plain
    BY <1>4, <1>7, <2>2 DEF Placed, ReadSteps, TestSteps
  <2> QED BY <2>1, <2>2
<1>9. Stored(q, runs)
  BY <1>2, <1>7 DEF Stored, ReadSteps
<1> QED BY <1>2, <1>5, <1>6, <1>7, <1>8, <1>9, Moves DEF LoadPipeline, Fits, IInv, TypeOK

LEMMA CollectSamplesKeeps ==
  ASSUME IInv, NEW r \in Requests, CollectSamples(r)
  PROVE IInv'
<1>1. At(r, "samples") /\ "samples" \in Steps
  BY DEF CollectSamples, Steps
<1>2. req[r] \in RequestRec /\ req[r].step = "samples" /\ Placed(req[r]) /\ Stored(req[r], runs)
  BY <1>1, Started
<1>3. req[r].ctl \in Control /\ req[r].k = 1 /\ (IsPipeline(req[r]) => req[r].n = 1)
  BY <1>2 DEF Placed, Steps
<1>4. CASE live \in Unreadable
  BY <1>1, <1>4, FailMoves DEF CollectSamples
<1>5. CASE live \notin Unreadable /\ IsPipeline(req[r]) /\ ProcsOf(req[r]) # <<>>
  <2> DEFINE q == [req[r] EXCEPT !.step = "load"]
  <2>1. req' = [req EXCEPT ![r] = q]
    BY <1>5 DEF CollectSamples, Goto
  <2>2. q \in RequestRec
    BY <1>2 DEF RequestRec, Steps
  <2>3. q.at = req[r].at /\ q.step = "load" /\ q.n = 1 /\ q.k = 1 /\ q.ctl = req[r].ctl
    BY <1>2, <1>3, <1>5 DEF RequestRec
  <2> HIDE DEF q
  <2>4. q.n \in 1 .. Len(ProcsOf(q))
    <3>1. ProcsOf(q) \in Seq(Procs \cup {Whole}) /\ ProcsOf(q) # <<>>
      BY <1>3, <1>5, <2>2, <2>3, ProcsTyped DEF ProcsOf, IsPipeline
    <3> QED BY <2>3, <3>1, EmptySeq
  <2>5. q.k \in 1 .. Len(ChecksOf[ProcAt(q)])
    BY <1>3, <2>2, <2>3, <2>4, ProcTyped
  <2>6. Placed(q)
    BY <1>3, <2>3, <2>4, <2>5 DEF Placed, ReadSteps, TestSteps
  <2>7. Stored(q, runs)
    BY <1>2, <1>5, <2>3 DEF Stored
  <2> QED BY <1>2, <1>5, <2>1, <2>2, <2>3, <2>6, <2>7, Moves
             DEF CollectSamples, Fits, IInv, TypeOK
<1>6. CASE live \notin Unreadable /\ ~(IsPipeline(req[r]) /\ ProcsOf(req[r]) # <<>>)
  <2> DEFINE q == [req[r] EXCEPT !.step = "html"]
  <2>1. req' = [req EXCEPT ![r] = q]
    BY <1>6 DEF CollectSamples, Goto
  <2>2. q \in RequestRec
    BY <1>2 DEF RequestRec, Steps
  <2>3. q.at = req[r].at /\ q.step = "html" /\ q.ctl = req[r].ctl
    BY <1>2 DEF RequestRec
  <2> HIDE DEF q
  <2>4. Placed(q)
    BY <1>3, <2>3 DEF Placed, ReadSteps, TestSteps
  <2>5. Stored(q, runs)
    BY <1>2, <2>3 DEF Stored, ReadSteps, TestSteps, PaperSteps, IsPipeline
  <2> QED BY <1>2, <1>6, <2>1, <2>2, <2>3, <2>4, <2>5, Moves
             DEF CollectSamples, Fits, IInv, TypeOK
<1> QED BY <1>4, <1>5, <1>6

LEMMA LoadCheckKeeps ==
  ASSUME IInv, NEW r \in Requests, LoadCheck(r)
  PROVE IInv'
<1>1. At(r, "load") /\ "load" \in Steps
  BY DEF LoadCheck, Steps
<1>2. req[r] \in RequestRec /\ req[r].step = "load" /\ Placed(req[r]) /\ Stored(req[r], runs)
  BY <1>1, Started
<1>3. CASE live \in Unreadable
  BY <1>1, <1>3, FailMoves DEF LoadCheck
<1>4. CASE live \notin Unreadable
  <2> DEFINE q == [req[r] EXCEPT !.step = "hash", !.seen = live]
  <2>1. req' = [req EXCEPT ![r] = q]
    BY <1>4 DEF LoadCheck
  <2>2. live \in Contents /\ q \in RequestRec
    BY <1>2 DEF RequestRec, Steps, Snapshots, IInv, TypeOK
  <2>3. q.at = req[r].at /\ q.step = "hash" /\ q.ctl = req[r].ctl /\ q.seen = live
        /\ q.n = req[r].n /\ q.k = req[r].k
    BY <1>2 DEF RequestRec
  <2> HIDE DEF q
  <2>4. ProcsOf(q) = ProcsOf(req[r]) /\ ProcAt(q) = ProcAt(req[r])
    BY <2>3 DEF ProcAt, ProcsOf, IsPipeline
  <2>5. Placed(q)
    BY <1>2, <2>2, <2>3, <2>4 DEF Placed, ReadSteps, TestSteps, Steps
  <2>6. Stored(q, runs)
    BY <1>2, <2>3, <2>4 DEF Stored, ReadSteps, TestSteps, PaperSteps
  <2> QED BY <1>2, <1>4, <2>1, <2>2, <2>3, <2>5, <2>6, Moves DEF LoadCheck, Fits, IInv, TypeOK
<1> QED BY <1>3, <1>4

LEMMA HashCheckKeeps ==
  ASSUME IInv, NEW r \in Requests, HashCheck(r)
  PROVE IInv'
<1>1. At(r, "hash") /\ "hash" \in Steps
  BY DEF HashCheck, Steps
<1>2. req[r] \in RequestRec /\ req[r].step = "hash" /\ Placed(req[r]) /\ Stored(req[r], runs)
  BY <1>1, Started
<1>3. /\ req[r].ctl \in Control /\ req[r].seen \in Contents
      /\ req[r].n \in 1 .. Len(ProcsOf(req[r]))
      /\ req[r].k \in 1 .. Len(ChecksOf[ProcAt(req[r])])
  BY <1>2 DEF Placed, TestSteps, Steps
<1>4. CASE CheckAt(req[r]) \in Failing[req[r].seen]
  BY <1>1, <1>4, FailMoves DEF HashCheck
<1>5. CASE CheckAt(req[r]) \notin Failing[req[r].seen]
  <2> DEFINE found == Found[req[r].seen][CheckAt(req[r])]
             last == LastCheck(req[r])
             q == [req[r] EXCEPT !.prov = live, !.items = MergeItems(@, found),
                                 !.k = IF last THEN 1 ELSE @ + 1,
                                 !.step = IF last THEN "insert" ELSE "load"]
  <2>1. req' = [req EXCEPT ![r] = q]
    BY <1>5 DEF HashCheck
  <2>2. CheckAt(req[r]) \in Checks
    BY <1>2, <1>3, ProcTyped, ElementOfSeq DEF CheckAt
  <2>3. found \subseteq Items
    BY <1>3, <2>2, ResultAssumption
  <2>4. live \in Contents
    BY DEF IInv, TypeOK
  <2>5. req[r].k \in Nat /\ Len(ChecksOf[ProcAt(req[r])]) \in Nat
    BY <1>2, <1>3, ProcTyped, LenProperties DEF RequestRec
  <2> HIDE DEF found, last
  <2>6. q \in RequestRec
    <3>1. \A m \in SUBSET Items, k \in Nat, l \in {"insert", "load"} :
            [req[r] EXCEPT !.prov = live, !.items = m, !.k = k, !.step = l] \in RequestRec
      BY <1>2, <2>4 DEF RequestRec, Steps, Snapshots
    <3>2. MergeItems(req[r].items, found) \in SUBSET Items
      BY <1>2, <2>3 DEF RequestRec, MergeItems
    <3>3. (IF last THEN 1 ELSE req[r].k + 1) \in Nat
      BY <2>5
    <3>4. (IF last THEN "insert" ELSE "load") \in {"insert", "load"}
      OBVIOUS
    <3>5. q = [req[r] EXCEPT !.prov = live, !.items = MergeItems(req[r].items, found),
                             !.k = IF last THEN 1 ELSE req[r].k + 1,
                             !.step = IF last THEN "insert" ELSE "load"]
      BY <1>2 DEF RequestRec
    <3> QED BY <3>1, <3>2, <3>3, <3>4, <3>5
  <2>7. /\ q.at = req[r].at /\ q.ctl = req[r].ctl /\ q.n = req[r].n
        /\ q.step = (IF last THEN "insert" ELSE "load")
        /\ q.k = (IF last THEN 1 ELSE req[r].k + 1)
    BY <1>2 DEF RequestRec
  <2> HIDE DEF q
  <2>8. ProcsOf(q) = ProcsOf(req[r]) /\ ProcAt(q) = ProcAt(req[r])
    BY <2>7 DEF ProcAt, ProcsOf, IsPipeline
  <2>9. Placed(q)
    BY <1>2, <1>3, <2>5, <2>7, <2>8
       DEF Placed, ReadSteps, TestSteps, Steps, last, LastCheck
  <2>10. Stored(q, runs)
    BY <1>2, <2>7, <2>8 DEF Stored, ReadSteps, TestSteps, PaperSteps
  <2> QED BY <1>2, <1>5, <2>1, <2>6, <2>7, <2>9, <2>10, Moves DEF HashCheck, Fits, IInv, TypeOK
<1> QED BY <1>4, <1>5

\* The row of a procedure: its id is new, as the request's time is its own and
\* it has stored rows of earlier procedures only.
LEMMA InsertProcRunKeeps ==
  ASSUME IInv, NEW r \in Requests, InsertProcRun(r)
  PROVE IInv' /\ (UNCHANGED runs \/ \E x \in Run : /\ runs' = Append(runs, x)
                                                    /\ \A i \in DOMAIN runs : runs[i].id # x.id)
<1>1. At(r, "insert") /\ "insert" \in Steps
  BY DEF InsertProcRun, Steps
<1>2. req[r] \in RequestRec /\ req[r].step = "insert" /\ Placed(req[r]) /\ Stored(req[r], runs)
  BY <1>1, Started
<1>3. /\ req[r].ctl \in Control /\ req[r].k = 1
      /\ req[r].n \in 1 .. Len(ProcsOf(req[r]))
  BY <1>2 DEF Placed, TestSteps, Steps
<1>4. CASE ~HasControl(req[r].id)
  BY <1>1, <1>4, FailMoves DEF InsertProcRun
<1>5. CASE HasControl(req[r].id)
  <2> DEFINE p == ProcAt(req[r])
             id == RunId(req[r].id, req[r].at, req[r].prov, p)
             x == [id |-> id, owner |-> req[r].id, items |-> req[r].items]
             sec == [id |-> id, items |-> req[r].items, limit |-> LimitOf(req[r].ctl, p)]
             n == IF LastProc(req[r]) THEN req[r].n ELSE req[r].n + 1
             step == CASE ~IsPipeline(req[r]) -> "samples"
                       [] IsPipeline(req[r]) /\ LastProc(req[r]) -> "html"
                       [] OTHER -> "load"
             q == [req[r] EXCEPT !.out = Append(@, sec), !.items = {}, !.n = n, !.step = step]
  <2>1. p \in Procs \cup {Whole}
    BY <1>2, <1>3, ProcTyped
  <2>2. id \in RunIds /\ id.at = req[r].at /\ id.proc = p
    BY <1>2, <2>1 DEF RunId, RunIds, RequestRec
  <2>3. LimitOf(req[r].ctl, p) \in Limits
    BY <1>3, <2>1 DEF LimitOf, Control
  <2> HIDE DEF id, p
  <2>4. x \in Run /\ x.id = id /\ x.owner = req[r].id
    BY <1>2, <2>2 DEF Run, RequestRec
  <2>5. sec \in Section
    BY <1>2, <2>2, <2>3 DEF Section, RequestRec
  <2>6. runs' = InsertRun(runs, x) /\ req' = [req EXCEPT ![r] = q]
        /\ UNCHANGED <<controls, live, papers, clock, edits, crashes, unsettled, shared>>
    BY <1>5 DEF InsertProcRun, id, p
  <2> HIDE DEF x, sec
  <2>7. \A i \in DOMAIN runs : runs[i].id # id
    <3> SUFFICES ASSUME NEW i \in DOMAIN runs, runs[i].id = id PROVE FALSE
      OBVIOUS
    <3>1. PICK m \in 1 .. req[r].n - 1 : id.proc = ProcsOf(req[r])[m]
      BY <1>2, <2>2 DEF Stored, TestSteps
    <3>2. ProcsOf(req[r])[m] = ProcsOf(req[r])[req[r].n]
      BY <2>2, <3>1 DEF p, ProcAt
    <3>3. Len(ProcsOf(req[r])) \in Nat
      BY <1>2, <1>3, ProcsTyped, LenProperties
    <3>4. CASE IsPipeline(req[r])
      BY <1>2, <1>3, <3>2, <3>3, <3>4, ProcsTyped
    <3>5. CASE ~IsPipeline(req[r])
      <4>1. ProcsOf(req[r]) = <<Whole>>
        BY <1>2, <1>3, <3>5, ProcsTyped
      <4>2. req[r].n \in 1 .. 1
        BY <1>3, <4>1
      <4> QED BY <4>2
    <3> QED BY <3>4, <3>5
  <2>8. runs' = Append(runs, x)
    BY <2>4, <2>6, <2>7, FreshIsAppended
  <2>9. n \in Nat /\ step \in {"samples", "html", "load"}
    BY <1>2 DEF RequestRec
  <2>10. q \in RequestRec
    <3>1. Append(req[r].out, sec) \in Seq(Section)
      BY <1>2, <2>5, AppendProperties DEF RequestRec
    <3>2. \A o \in Seq(Section), m \in Nat, l \in {"samples", "html", "load"} :
            [req[r] EXCEPT !.out = o, !.items = {}, !.n = m, !.step = l] \in RequestRec
      BY <1>2 DEF RequestRec, Steps
    <3> HIDE DEF n, step
    <3>3. q = [req[r] EXCEPT !.out = Append(req[r].out, sec), !.items = {}, !.n = n,
                             !.step = step]
      BY <1>2 DEF RequestRec
    <3> QED BY <2>9, <3>1, <3>2, <3>3
  <2>11. q.at = req[r].at /\ q.ctl = req[r].ctl /\ q.n = n /\ q.k = 1 /\ q.step = step
    <3> HIDE DEF n, step
    <3> QED BY <1>2, <1>3 DEF RequestRec
  <2> HIDE DEF q
  <2>12. ProcsOf(q) = ProcsOf(req[r]) /\ IsPipeline(q) = IsPipeline(req[r])
    BY <2>11 DEF ProcsOf, IsPipeline
  <2>13. step = "load" => n \in 1 .. Len(ProcsOf(q)) /\ n = req[r].n + 1
    <3>1. Len(ProcsOf(q)) \in Nat
      BY <1>2, <1>3, <2>12, ProcsTyped, LenProperties
    <3> QED BY <1>3, <2>12, <3>1 DEF LastProc
  <2>14. Placed(q)
    <3>1. step = "load" => q.k \in 1 .. Len(ChecksOf[ProcAt(q)])
      BY <1>3, <2>10, <2>11, <2>13, ProcTyped
    <3>2. step = "samples" => ~IsPipeline(q)
      BY <2>12
    <3> QED BY <1>3, <2>9, <2>11, <2>13, <3>1, <3>2 DEF Placed, ReadSteps, TestSteps
  <2>15. Stored(q, runs')
    <3>1. ASSUME NEW i \in DOMAIN runs', runs'[i].id.at = q.at
          PROVE \E m \in 1 .. req[r].n : runs'[i].id.proc = ProcsOf(q)[m]
      <4>1. CASE i \in DOMAIN runs
        <5>1. runs'[i] = runs[i]
          BY <2>4, <2>8, <4>1, AppendRow DEF IInv, TypeOK
        <5>2. PICK m \in 1 .. req[r].n - 1 : runs[i].id.proc = ProcsOf(req[r])[m]
          BY <1>2, <2>11, <3>1, <4>1, <5>1 DEF Stored, TestSteps
        <5> QED BY <1>3, <2>12, <5>1, <5>2
      <4>2. CASE i \notin DOMAIN runs
        <5>1. runs'[i] = x
          BY <2>4, <2>8, <3>1, <4>2, AppendRow DEF IInv, TypeOK
        <5>2. x.id.proc = ProcsOf(q)[req[r].n] /\ req[r].n \in 1 .. req[r].n
          BY <1>3, <2>2, <2>4, <2>12 DEF p, ProcAt
        <5> QED BY <5>1, <5>2
      <4> QED BY <4>1, <4>2
    <3>2. step \notin ReadSteps /\ (step = "samples" => ~IsPipeline(q))
          /\ (step \in TestSteps => step = "load") /\ (step \in PaperSteps => step = "html")
      BY <2>9, <2>12 DEF ReadSteps, TestSteps, PaperSteps
    <3>3. ASSUME NEW m \in 1 .. req[r].n, IsPipeline(q) PROVE ProcsOf(q)[m] # Whole
      <4>1. ProcsOf(q) \in Seq(Procs) /\ m \in 1 .. Len(ProcsOf(q))
        <5>1. Len(ProcsOf(q)) \in Nat
          BY <1>2, <1>3, <2>12, ProcsTyped, LenProperties
        <5> QED BY <1>3, <2>10, <2>11, <2>12, <3>3, <5>1, ProcsTyped
      <4> QED BY <4>1, ElementOfSeq, KindAssumption
    <3>4. step = "load" => q.n - 1 = req[r].n
      BY <1>3, <2>11, <2>13
    <3> HIDE DEF step, n
    <3> QED BY <2>11, <3>1, <3>2, <3>3, <3>4 DEF Stored
  <2> HIDE DEF n, step
  <2>16. controls[x.owner] # NoControl
    BY <1>5, <2>4 DEF HasControl
  <2>17. IInv'
    BY <1>2, <2>2, <2>4, <2>6, <2>8, <2>10, <2>11, <2>14, <2>15, <2>16, MovesWithRow DEF Fits
  <2> QED BY <2>4, <2>7, <2>8, <2>17
<1> QED BY <1>4, <1>5

LEMMA PapersTyped ==
  ASSUME NEW q \in RequestRec, q.ctl \in Control
  PROVE Workpaper(q) \in WholePaper /\ EvidenceOf(q) \in WholeEvidence
<1>1. q.out \in Seq(Section) /\ q.ctl.limit \in Limits /\ q.at \in Nat
  BY DEF RequestRec, Control
<1>2. UnionOf(q.out) \subseteq Items
  <2>1. \A i \in DOMAIN q.out : q.out[i] \in Section
    BY <1>1, LenProperties, ElementOfSeq
  <2> QED BY <2>1 DEF UnionOf, Section
<1> QED BY <1>1, <1>2 DEF Workpaper, WholePaper, EvidenceOf, WholeEvidence, EvidenceItems

\* A file is opened or written.
FileAct(r) == OpenFile(r) \/ WriteHtml(r) \/ WriteMarkdown(r) \/ WriteEvidence(r)
PaperTable == [Ids -> [html : Papers, md : Papers, evidence : Evidence]]

\* What may be in the file l of the request q after such a step.
Outcomes(q, l) == {Torn, Mixed, IF l = "evidence" THEN EvidenceOf(q) ELSE Workpaper(q)}
After == {"html", "md", "evidence", "aggregate", "done"}

LEMMA PaperField ==
  ASSUME papers \in PaperTable, NEW i \in Ids, NEW l \in Files, NEW v,
         papers' = [papers EXCEPT ![i][l] = v]
  PROVE /\ papers'[i].html = (IF l = "html" THEN v ELSE papers[i].html)
        /\ papers'[i].md = (IF l = "md" THEN v ELSE papers[i].md)
        /\ papers'[i].evidence = (IF l = "evidence" THEN v ELSE papers[i].evidence)
        /\ \A c \in Ids \ {i} : papers'[c] = papers[c]
<1>1. CASE l = "html"
  BY <1>1 DEF PaperTable
<1>2. CASE l = "md"
  BY <1>2 DEF PaperTable
<1>3. CASE l = "evidence"
  BY <1>3 DEF PaperTable
<1> QED BY <1>1, <1>2, <1>3 DEF Files

LEMMA FileActs ==
  ASSUME IInv, NEW r \in Requests, FileAct(r)
  PROVE \E l \in Files, k \in After, b \in BOOLEAN :
          /\ At(r, l) /\ l \in Steps
          /\ req[r] \in RequestRec /\ req[r].step = l /\ req[r].ctl \in Control
          /\ Placed(req[r]) /\ Stored(req[r], runs)
          /\ \E v \in Outcomes(req[r], l) : papers' = [papers EXCEPT ![req[r].id][l] = v]
          /\ req' = [req EXCEPT ![r].step = k, ![r].open = b]
          /\ k = "aggregate" => IsPipeline(req[r])
          /\ k = "done" => ~IsPipeline(req[r])
          /\ l = "evidence" /\ ~b => k \in {"aggregate", "done"}
          /\ b => k = l
          /\ UNCHANGED <<controls, live, runs, clock, edits, crashes>>
          /\ unsettled' \subseteq Ids /\ shared' \subseteq Ids
<1>1. PICK l \in Files : At(r, l)
  BY DEF FileAct, OpenFile, WriteHtml, WriteMarkdown, WriteEvidence, Files, At
<1>2. /\ l \in Steps /\ req[r] \in RequestRec /\ req[r].step = l
      /\ Placed(req[r]) /\ Stored(req[r], runs)
  BY <1>1, Started DEF Files, Steps
<1>3. req[r].ctl \in Control /\ req[r].id \in Ids /\ req[r].open \in BOOLEAN
  BY <1>2 DEF Placed, Steps, Files, RequestRec
<1>4. CASE OpenFile(r)
  <2>1. /\ papers' = [papers EXCEPT ![req[r].id][l] = Torn]
        /\ UNCHANGED <<controls, live, runs, clock, edits, crashes>>
    BY <1>2, <1>4 DEF OpenFile
  <2>2. req' = [req EXCEPT ![r].step = l, ![r].open = TRUE]
    <3>1. req' = [req EXCEPT ![r].open = TRUE]
      BY <1>4 DEF OpenFile
    <3>2. req \in [Requests -> RequestRec \cup {NoRequest}]
      BY DEF IInv, TypeOK
    <3> QED BY <1>2, <3>1, <3>2 DEF RequestRec
  <2>3. unsettled' \subseteq Ids /\ shared' \subseteq Ids
    BY <1>3, <1>4 DEF OpenFile, IInv, TypeOK
  <2>4. l \in After
    BY DEF Files, After
  <2> QED BY <1>1, <1>2, <1>3, <2>1, <2>2, <2>3, <2>4 DEF Outcomes, Files
<1>5. ASSUME NEW new, NEW k \in After, WriteFile(r, new, k),
             new = (IF l = "evidence" THEN EvidenceOf(req[r]) ELSE Workpaper(req[r]))
      PROVE /\ \E v \in Outcomes(req[r], l) : papers' = [papers EXCEPT ![req[r].id][l] = v]
            /\ req' = [req EXCEPT ![r].step = k, ![r].open = FALSE]
            /\ UNCHANGED <<controls, live, runs, clock, edits, crashes>>
            /\ shared' \subseteq Ids
  <2>1. PICK f \in Result(r, new) : papers' = [papers EXCEPT ![req[r].id][l] = f]
    BY <1>2, <1>5 DEF WriteFile
  <2>2. f \in Outcomes(req[r], l)
    BY <1>5 DEF Result, Outcomes
  <2> QED BY <1>5, <2>1, <2>2 DEF WriteFile, IInv, TypeOK
<1>6. CASE WriteHtml(r) \/ WriteMarkdown(r)
  <2>1. PICK k \in {"md", "evidence"} : WriteFile(r, Workpaper(req[r]), k)
    BY <1>6 DEF WriteHtml, WriteMarkdown
  <2>2. l # "evidence" /\ UNCHANGED unsettled
    BY <1>2, <1>6 DEF WriteHtml, WriteMarkdown, At
  <2>3. k \in After /\ unsettled' \subseteq Ids
    BY <2>2 DEF After, IInv, TypeOK
  <2> QED BY <1>1, <1>2, <1>3, <1>5, <2>1, <2>2, <2>3
<1>7. CASE WriteEvidence(r)
  <2> DEFINE k == IF IsPipeline(req[r]) THEN "aggregate" ELSE "done"
  <2>1. WriteFile(r, EvidenceOf(req[r]), k) /\ l = "evidence"
    BY <1>2, <1>7 DEF WriteEvidence, At
  <2>2. /\ k \in After /\ k \in {"aggregate", "done"} /\ unsettled' \subseteq Ids
        /\ k = "aggregate" => IsPipeline(req[r])
        /\ k = "done" => ~IsPipeline(req[r])
    BY <1>7 DEF WriteEvidence, After, IInv, TypeOK
  <2> HIDE DEF k
  <2> QED BY <1>1, <1>2, <1>3, <1>5, <2>1, <2>2
<1> QED BY <1>4, <1>6, <1>7 DEF FileAct

LEMMA FileActKeeps ==
  ASSUME IInv, NEW r \in Requests, FileAct(r)
  PROVE IInv'
<1>1. PICK l \in Files, k \in After, b \in BOOLEAN :
        /\ At(r, l) /\ l \in Steps
        /\ req[r] \in RequestRec /\ req[r].step = l /\ req[r].ctl \in Control
        /\ Placed(req[r]) /\ Stored(req[r], runs)
        /\ \E v \in Outcomes(req[r], l) : papers' = [papers EXCEPT ![req[r].id][l] = v]
        /\ req' = [req EXCEPT ![r].step = k, ![r].open = b]
        /\ k = "aggregate" => IsPipeline(req[r])
        /\ UNCHANGED <<controls, live, runs, clock, edits, crashes>>
        /\ unsettled' \subseteq Ids /\ shared' \subseteq Ids
  BY FileActs
<1> DEFINE q == [req[r] EXCEPT !.step = k, !.open = b]
<1>2. q \in RequestRec
  BY <1>1 DEF RequestRec, After, Steps, Ended
<1>3. q.at = req[r].at /\ q.step = k /\ q.ctl = req[r].ctl
  BY <1>1 DEF RequestRec
<1>4. req' = [req EXCEPT ![r] = q]
  BY <1>1
<1> HIDE DEF q
<1>5. Placed(q)
  BY <1>1, <1>3 DEF Placed, ReadSteps, TestSteps, IsPipeline, After
<1>6. Stored(q, runs)
  BY <1>1, <1>3 DEF Stored, ReadSteps, TestSteps, PaperSteps, IsPipeline, After, Files
<1>7. papers' \in PaperTable
  <2>1. req[r].id \in Ids /\ papers \in PaperTable
    BY <1>1 DEF IInv, TypeOK, RequestRec, PaperTable
  <2>2. PICK v \in Outcomes(req[r], l) : papers' = [papers EXCEPT ![req[r].id][l] = v]
    BY <1>1
  <2>3. v \in (IF l = "evidence" THEN Evidence ELSE Papers)
    BY <1>1, PapersTyped DEF Outcomes, Papers, Evidence, NotWhole
  <2>4. CASE l = "html"
    BY <2>1, <2>2, <2>3, <2>4 DEF PaperTable
  <2>5. CASE l = "md"
    BY <2>1, <2>2, <2>3, <2>5 DEF PaperTable
  <2>6. CASE l = "evidence"
    BY <2>1, <2>2, <2>3, <2>6 DEF PaperTable
  <2> QED BY <2>4, <2>5, <2>6 DEF Files
<1> QED BY <1>1, <1>2, <1>3, <1>4, <1>5, <1>6, <1>7, Moves DEF Fits, PaperTable

\* The row of the control as a whole: the request has stored none yet.
LEMMA AggregateRunKeeps ==
  ASSUME IInv, NEW r \in Requests, AggregateRun(r)
  PROVE IInv' /\ (UNCHANGED runs \/ \E x \in Run : /\ runs' = Append(runs, x)
                                                    /\ \A i \in DOMAIN runs : runs[i].id # x.id)
<1>1. At(r, "aggregate") /\ "aggregate" \in Steps
  BY DEF AggregateRun, Steps
<1>2. /\ req[r] \in RequestRec /\ req[r].step = "aggregate"
      /\ Placed(req[r]) /\ Stored(req[r], runs) /\ IsPipeline(req[r])
  BY <1>1, Started DEF Placed
<1> DEFINE q == [req[r] EXCEPT !.step = "done"]
<1>3. q \in RequestRec /\ q.at = req[r].at /\ q.step = "done"
  BY <1>2 DEF RequestRec, Ended
<1>4. \A rows : Stored(q, rows) /\ Placed(q)
  BY <1>3 DEF Stored, Placed, ReadSteps, TestSteps, PaperSteps, Steps
<1>5. CASE ~NeedsAggregate(req[r])
  <2>1. req' = [req EXCEPT ![r] = q]
    BY <1>5 DEF AggregateRun, Goto
  <2> HIDE DEF q
  <2> QED BY <1>2, <1>3, <1>4, <1>5, <2>1, Moves DEF AggregateRun, Fits, IInv, TypeOK
<1>6. CASE NeedsAggregate(req[r]) /\ ~HasControl(req[r].id)
  BY <1>1, <1>6, FailMoves DEF AggregateRun
<1>7. CASE NeedsAggregate(req[r]) /\ HasControl(req[r].id)
  <2> DEFINE id == AggregateId(req[r])
             x == [id |-> id, owner |-> req[r].id, items |-> UnionOf(req[r].out)]
  <2>1. req' = [req EXCEPT ![r] = q] /\ runs' = InsertRun(runs, x)
        /\ UNCHANGED <<controls, live, papers, clock, edits, crashes, unsettled, shared>>
    BY <1>7 DEF AggregateRun, Goto
  <2>2. req[r].out \in Seq(Section)
    BY <1>2 DEF RequestRec
  <2>3. \A i \in DOMAIN req[r].out : req[r].out[i] \in Section
    BY <2>2, LenProperties, ElementOfSeq
  <2>4. id \in RunIds /\ id.at = req[r].at /\ id.proc = Whole
    <3>1. CASE req[r].out = <<>>
      BY <1>2, <3>1 DEF AggregateId, RunId, RunIds, RequestRec, Snapshots
    <3>2. CASE req[r].out # <<>>
      <4>1. req[r].out[1] \in Section
        BY <2>2, <2>3, <3>2, EmptySeq, LenProperties
      <4>2. req[r].out[1].id.prov \in Snapshots
        BY <4>1 DEF Section, RunIds
      <4> QED BY <1>2, <3>2, <4>2 DEF AggregateId, RunId, RunIds, RequestRec
    <3> QED BY <3>1, <3>2
  <2>5. UnionOf(req[r].out) \subseteq Items
    BY <2>3 DEF UnionOf, Section
  <2> HIDE DEF id, q
  <2>6. x \in Run /\ x.id = id /\ x.owner = req[r].id
    BY <1>2, <2>4, <2>5 DEF Run, RequestRec
  <2> HIDE DEF x
  <2>7. \A i \in DOMAIN runs : runs[i].id # id
    BY <1>2, <2>4 DEF Stored, PaperSteps
  <2>8. runs' = Append(runs, x)
    BY <2>1, <2>6, <2>7, FreshIsAppended
  <2>9. IInv'
    BY <1>2, <1>3, <1>4, <1>7, <2>1, <2>4, <2>6, <2>8, MovesWithRow DEF Fits, HasControl
  <2> QED BY <2>6, <2>7, <2>8, <2>9
<1> QED BY <1>5, <1>6, <1>7
----------------------------------------------------------------------------
(* The rest of the server *)

\* A save leaves the runs of the control with a control.
LEMMA SaveControlKeeps ==
  ASSUME IInv, NEW c \in Ids, NEW row \in Rows, SaveControl(c, row)
  PROVE IInv'
<1>1. /\ controls' = [controls EXCEPT ![c] = row] /\ row \in Control /\ row # NoControl
      /\ edits' = edits + 1
      /\ UNCHANGED <<live, runs, papers, req, clock, crashes, unsettled, shared>>
  BY RowAssumption DEF SaveControl, Edit
<1>2. TypeOK'
  BY <1>1 DEF IInv, TypeOK
<1>3. NoOrphanRuns'
  BY <1>1 DEF IInv, TypeOK, NoOrphanRuns, RunSet
<1>4. Timed' /\ \A r \in Requests : Fits(req'[r], runs')
  BY <1>1 DEF IInv, Timed
<1> QED BY <1>2, <1>3, <1>4 DEF IInv

LEMMA MovedRuns ==
  ASSUME runs \in Seq(Run), NEW c \in Ids, NEW d \in Ids
  PROVE /\ MoveRuns(runs, c, d) \in Seq(Run)
        /\ DOMAIN MoveRuns(runs, c, d) = DOMAIN runs
        /\ \A i \in DOMAIN runs :
             /\ MoveRuns(runs, c, d)[i].id = runs[i].id
             /\ MoveRuns(runs, c, d)[i].owner = IF runs[i].owner = c THEN d ELSE runs[i].owner
<1>1. Len(runs) \in Nat /\ DOMAIN runs = 1 .. Len(runs)
      /\ \A i \in DOMAIN runs : runs[i] \in Run
  BY LenProperties, ElementOfSeq
<1>2. \A i \in DOMAIN runs : MoveRuns(runs, c, d)[i] = IF runs[i].owner = c
                               THEN [runs[i] EXCEPT !.owner = d] ELSE runs[i]
  BY DEF MoveRuns
<1>3. \A i \in DOMAIN runs :
        /\ [runs[i] EXCEPT !.owner = d] \in Run
        /\ [runs[i] EXCEPT !.owner = d].id = runs[i].id
        /\ [runs[i] EXCEPT !.owner = d].owner = d
  BY <1>1 DEF Run
<1>4. \A i \in DOMAIN runs : MoveRuns(runs, c, d)[i] \in Run
  BY <1>1, <1>2, <1>3
<1>5. MoveRuns(runs, c, d) \in [1 .. Len(runs) -> Run]
  BY <1>1, <1>4 DEF MoveRuns
<1> QED BY <1>1, <1>2, <1>3, <1>5, SeqDef

\* A rename moves the runs to the id the control has now.
LEMMA RenameControlKeeps ==
  ASSUME IInv, NEW c \in Ids, NEW d \in Ids, RenameControl(c, d)
  PROVE IInv'
<1>1. /\ controls[c] # NoControl /\ controls[d] = NoControl
      /\ controls' = [controls EXCEPT ![d] = controls[c], ![c] = NoControl]
      /\ edits' = edits + 1
      /\ UNCHANGED <<live, papers, req, clock, crashes, unsettled, shared>>
  BY DEF RenameControl, Edit
<1>2. /\ runs' \in Seq(Run) /\ DOMAIN runs' = DOMAIN runs
      /\ \A i \in DOMAIN runs :
           /\ runs'[i].id = runs[i].id
           /\ runs'[i].owner = IF runs[i].owner = c THEN d ELSE runs[i].owner
  <2>1. runs \in Seq(Run) /\ runs' = MoveRuns(runs, c, d)
    BY DEF RenameControl, IInv, TypeOK
  <2>2. /\ MoveRuns(runs, c, d) \in Seq(Run)
        /\ DOMAIN MoveRuns(runs, c, d) = DOMAIN runs
        /\ \A i \in DOMAIN runs :
             /\ MoveRuns(runs, c, d)[i].id = runs[i].id
             /\ MoveRuns(runs, c, d)[i].owner = IF runs[i].owner = c THEN d ELSE runs[i].owner
    BY <2>1, MovedRuns
  <2> QED BY <2>1, <2>2
<1>3. TypeOK'
  BY <1>1, <1>2 DEF IInv, TypeOK
<1>4. NoOrphanRuns'
  <2> SUFFICES ASSUME NEW i \in DOMAIN runs PROVE controls'[runs'[i].owner] # NoControl
    BY <1>2 DEF NoOrphanRuns, RunSet
  <2>1. runs[i] \in Run /\ controls[runs[i].owner] # NoControl
    BY LenProperties, ElementOfSeq DEF IInv, TypeOK, NoOrphanRuns, RunSet
  <2>2. runs[i].owner \in Ids
    BY <2>1 DEF Run
  <2> QED BY <1>1, <1>2, <2>1, <2>2 DEF IInv, TypeOK
<1>5. Timed'
  BY <1>1, <1>2 DEF IInv, Timed
<1>6. ASSUME NEW r \in Requests PROVE Fits(req'[r], runs')
  BY <1>1, <1>2 DEF IInv, Fits, Stored
<1> QED BY <1>3, <1>4, <1>5, <1>6 DEF IInv

LEMMA ReplaceDataKeeps ==
  ASSUME IInv, NEW v \in Contents, ReplaceData(v)
  PROVE IInv'
<1>1. live' = v /\ edits' = edits + 1
      /\ UNCHANGED <<controls, runs, papers, req, clock, crashes, unsettled, shared>>
  BY DEF ReplaceData, Edit
<1>2. TypeOK' /\ NoOrphanRuns' /\ Timed'
  BY <1>1 DEF IInv, TypeOK, NoOrphanRuns, RunSet, Timed
<1>3. \A r \in Requests : Fits(req'[r], runs')
  BY <1>1 DEF IInv
<1> QED BY <1>2, <1>3 DEF IInv

LEMMA CrashKeeps == ASSUME IInv, Crash PROVE IInv'
<1>1. /\ req' = [r \in Requests |-> IF Running(r) THEN [req[r] EXCEPT !.step = "dead"] ELSE req[r]]
      /\ crashes' = crashes + 1
      /\ UNCHANGED <<controls, live, runs, clock, edits>>
  BY DEF Crash
<1>2. ASSUME NEW r \in Requests, Running(r)
      PROVE /\ req[r] \in RequestRec /\ req'[r] \in RequestRec
            /\ req'[r].step = "dead" /\ req'[r].at = req[r].at
  <2>1. req[r] \in RequestRec
    BY <1>2 DEF IInv, TypeOK, Running, NoRequest, Steps
  <2> QED BY <1>1, <1>2, <2>1 DEF RequestRec, Ended
<1>3. \A r \in Requests : ~Running(r) => req'[r] = req[r]
  BY <1>1
<1>4. req' \in [Requests -> RequestRec \cup {NoRequest}]
  BY <1>1, <1>2, <1>3 DEF IInv, TypeOK
<1>5. papers' \in PaperTable
  <2>1. papers \in PaperTable /\ Mixed \in Papers /\ Mixed \in Evidence
    BY DEF IInv, TypeOK, PaperTable, Papers, Evidence, NotWhole
  <2>2. ASSUME NEW r \in Requests, TornWrite(r) PROVE papers' \in PaperTable
    <3>1. papers' = [papers EXCEPT ![req[r].id][req[r].step] = Mixed] /\ req[r].step \in Files
      BY <2>2 DEF TornWrite
    <3>2. CASE req[r].step = "html"
      BY <2>1, <3>1, <3>2 DEF PaperTable
    <3>3. CASE req[r].step = "md"
      BY <2>1, <3>1, <3>3 DEF PaperTable
    <3>4. CASE req[r].step = "evidence"
      BY <2>1, <3>1, <3>4 DEF PaperTable
    <3> QED BY <3>1, <3>2, <3>3, <3>4 DEF Files
  <2> QED BY <2>1, <2>2 DEF Crash
<1>6. UNCHANGED <<unsettled, shared>>
  BY DEF Crash
<1>7. TypeOK'
  BY <1>1, <1>4, <1>5, <1>6 DEF IInv, TypeOK, PaperTable
<1>8. NoOrphanRuns'
  BY <1>1 DEF IInv, NoOrphanRuns, RunSet
<1>9. Timed'
  <2>1. \A r \in Requests : req'[r] # NoRequest => req[r] # NoRequest /\ req'[r].at = req[r].at
    BY <1>2, <1>3, NoRequestIsNone
  <2> QED BY <1>1, <2>1 DEF IInv, Timed
<1>10. ASSUME NEW r \in Requests PROVE Fits(req'[r], runs')
  BY <1>1, <1>2, <1>3, <1>10, EndsFit DEF IInv, Ended
<1> QED BY <1>7, <1>8, <1>9, <1>10 DEF IInv
----------------------------------------------------------------------------
(* The theorems *)

\* What a step does to the ledger.
LedgerStep ==
  \/ UNCHANGED runs
  \/ \E x \in Run : runs' = Append(runs, x) /\ \A i \in DOMAIN runs : runs[i].id # x.id
  \/ \E c, d \in Ids : runs' = MoveRuns(runs, c, d)

LEMMA NextKeeps == IInv /\ [Next]_vars => IInv' /\ LedgerStep
<1> SUFFICES ASSUME IInv, [Next]_vars PROVE IInv' /\ LedgerStep
  OBVIOUS
<1>1. ASSUME NEW r \in Requests, LoadProject(r) \/ LoadPipeline(r) \/ CollectSamples(r)
                                  \/ LoadCheck(r) \/ HashCheck(r)
      PROVE IInv' /\ UNCHANGED runs
  <2>1. UNCHANGED runs
    BY <1>1 DEF LoadProject, LoadPipeline, CollectSamples, LoadCheck, HashCheck
  <2> QED BY <1>1, <2>1, LoadProjectKeeps, LoadPipelineKeeps, CollectSamplesKeeps,
             LoadCheckKeeps, HashCheckKeeps
<1>2. ASSUME NEW r \in Requests, FileAct(r)
      PROVE IInv' /\ UNCHANGED runs
  BY <1>2, FileActKeeps, FileActs
<1>3. ASSUME NEW r \in Requests, InsertProcRun(r) \/ AggregateRun(r)
      PROVE IInv' /\ LedgerStep
  BY <1>3, InsertProcRunKeeps, AggregateRunKeeps DEF LedgerStep
<1>4. ASSUME NEW r \in Requests, NEW c \in Ids, StartRun(r, c) PROVE IInv' /\ UNCHANGED runs
  BY <1>4, StartRunKeeps DEF StartRun
<1>5. ASSUME NEW c \in Ids, NEW row \in Rows, SaveControl(c, row) PROVE IInv' /\ UNCHANGED runs
  BY <1>5, SaveControlKeeps DEF SaveControl
<1>6. ASSUME NEW c \in Ids, NEW d \in Ids, RenameControl(c, d) PROVE IInv' /\ LedgerStep
  BY <1>6, RenameControlKeeps DEF RenameControl, LedgerStep
<1>7. ASSUME NEW v \in Contents, ReplaceData(v) PROVE IInv' /\ UNCHANGED runs
  BY <1>7, ReplaceDataKeeps DEF ReplaceData
<1>8. CASE Crash
  BY <1>8, CrashKeeps DEF Crash, LedgerStep
<1>9. CASE Quiet \/ UNCHANGED vars
  <2>1. UNCHANGED vars
    BY <1>9 DEF Quiet
  <2>2. TypeOK' /\ NoOrphanRuns' /\ Timed'
    BY <2>1 DEF vars, IInv, TypeOK, NoOrphanRuns, RunSet, Timed
  <2>3. \A r \in Requests : Fits(req'[r], runs')
    BY <2>1 DEF vars, IInv
  <2> QED BY <2>1, <2>2, <2>3 DEF vars, IInv, LedgerStep
<1> QED
  BY <1>1, <1>2, <1>3, <1>4, <1>5, <1>6, <1>7, <1>8, <1>9
     DEF Next, RunStep, FileAct, Editor, LedgerStep

LEMMA Invariant == Spec => []IInv
<1>1. IInv /\ [Next]_vars => IInv'
  BY NextKeeps
<1> QED BY InitInv, <1>1, PTL DEF Spec

\* Every variable of the run requests, the store and the files stays in its set.
THEOREM RunTypes == Spec => []TypeOK
<1>1. IInv => TypeOK
  BY DEF IInv
<1> QED BY <1>1, Invariant, PTL

\* However runs overlap with saves, renames, the reuse of an id, and deaths, no
\* stored run is left without its control.
THEOREM RunsHaveControls == Spec => []NoOrphanRuns
<1>1. IInv => NoOrphanRuns
  BY DEF IInv
<1> QED BY <1>1, Invariant, PTL

\* ControlRuns implements RunLedger: INSERT OR REPLACE never replaces a run,
\* since a request's time and the procedures it has stored tell its rows apart.
THEOREM HistoryIsALedger == Spec => RunsAreALedger
<1>1. Init => Ledger!LedgerInit
  BY DEF Init, Ledger!LedgerInit, RunSet
<1>2. ASSUME IInv, [Next]_vars PROVE [Ledger!LedgerNext]_RunSet
  <2>1. LedgerStep /\ runs \in Seq(Run)
    BY <1>2, NextKeeps DEF IInv, TypeOK
  <2>2. CASE UNCHANGED runs
    BY <2>2 DEF RunSet
  <2>3. ASSUME NEW x \in Run, runs' = Append(runs, x), \A i \in DOMAIN runs : runs[i].id # x.id
        PROVE Ledger!LedgerNext
    <3>1. RunSet' = RunSet \cup {x}
      BY <2>1, <2>3, AppendRow DEF RunSet
    <3>2. \A f \in RunSet : f.id # x.id
      BY <2>3 DEF RunSet
    <3>3. x \in RunSet' \ RunSet
      BY <3>1, <3>2
    <3>4. Ledger!Record(x)
      BY <3>1, <3>2 DEF Ledger!Record, Ledger!Entry, Run
    <3> QED BY <3>3, <3>4 DEF Ledger!LedgerNext
  <2>4. ASSUME NEW c \in Ids, NEW d \in Ids, runs' = MoveRuns(runs, c, d)
        PROVE Ledger!LedgerNext
    <3>1. RunSet' = {IF e.owner = c THEN [e EXCEPT !.owner = d] ELSE e : e \in RunSet}
      <4> DEFINE refiled(e) == IF e.owner = c THEN [e EXCEPT !.owner = d] ELSE e
      <4>1. /\ DOMAIN runs' = DOMAIN runs
            /\ \A i \in DOMAIN runs : runs'[i] = refiled(runs[i])
        BY <2>4 DEF MoveRuns
      <4> HIDE DEF refiled
      <4>2. RunSet' = {refiled(e) : e \in RunSet}
        BY <4>1 DEF RunSet
      <4> QED BY <4>2 DEF refiled
    <3> QED BY <3>1 DEF Ledger!LedgerNext, Ledger!Refile
  <2> QED BY <2>1, <2>2, <2>3, <2>4 DEF LedgerStep
<1>3. [][Next]_vars /\ []IInv => [][Ledger!LedgerNext]_RunSet
  BY <1>2, PTL
<1> QED BY <1>1, <1>3, Invariant, PTL DEF Spec, RunsAreALedger, Ledger!LedgerSpec
-----------------------------------------------------------------------------
(* What a control run leaves behind *)

\* How many sections the request has made.
Made(q) ==
  IF q.step \in ReadSteps \/ (q.step = "samples" /\ IsPipeline(q)) THEN 0
  ELSE IF q.step \in TestSteps THEN q.n - 1
  ELSE Len(ProcsOf(q))

\* The row of the control as a whole, beside those of its procedures.
Aggregated(q) == q.step = "done" /\ IsPipeline(q) /\ NeedsAggregate(q)

SectionStored(q, m, rows) ==
  /\ q.out[m].id.at = q.at
  /\ q.out[m].id.proc = ProcsOf(q)[m]
  /\ \E i \in DOMAIN rows : rows[i].id = q.out[m].id /\ rows[i].items = q.out[m].items

\* A row of the request is one of its sections, or the aggregate.
Accounted(q, row) ==
  \/ \E m \in DOMAIN q.out : row.id = q.out[m].id /\ row.items = q.out[m].items
  \/ Aggregated(q) /\ row.id = AggregateId(q) /\ row.items = UnionOf(q.out)

\* The sections of a request that has not failed, and its rows, match.
Fanned(q, rows) ==
  /\ q.step # "project" => q.ctl \in Control
  /\ Len(q.out) = Made(q)
  /\ \A m \in DOMAIN q.out : SectionStored(q, m, rows)
  /\ \A i \in DOMAIN rows : rows[i].id.at = q.at => Accounted(q, rows[i])
  /\ Aggregated(q) => \E i \in DOMAIN rows :
       rows[i].id = AggregateId(q) /\ rows[i].items = UnionOf(q.out)
Fans(q, rows) == q \in RequestRec /\ q.step \in Steps \cup {"done"} => Fanned(q, rows)

IdsUnique == \A i, j \in DOMAIN runs : runs[i].id = runs[j].id => i = j

FanInv == IInv /\ IdsUnique /\ \A r \in Requests : Fans(req[r], runs)
FansKept == IdsUnique' /\ \A s \in Requests : Fans(req'[s], runs')
----------------------------------------------------------------------------
(* How a request moves on *)

LEMMA ActiveFans ==
  ASSUME FanInv, NEW r \in Requests, NEW l \in Steps, At(r, l)
  PROVE /\ req[r] \in RequestRec /\ req[r].step = l
        /\ Placed(req[r]) /\ Stored(req[r], runs) /\ Fanned(req[r], runs)
<1>1. req[r] \in RequestRec /\ req[r].step = l /\ Placed(req[r]) /\ Stored(req[r], runs)
  BY Started DEF FanInv
<1> QED BY <1>1 DEF FanInv, Fans

LEMMA NoSections ==
  ASSUME NEW q \in RequestRec, Len(q.out) = 0
  PROVE q.out = <<>> /\ DOMAIN q.out = {}
BY EmptySeq, LenProperties DEF RequestRec

\* A record with the sections of another one is fanned out as it is.
LEMMA Carries ==
  ASSUME NEW q \in RequestRec, NEW p \in RequestRec, NEW rows, q.step \in Steps,
         Fanned(q, rows), p.out = q.out, p.at = q.at,
         q.out = <<>> \/ p.ctl.procs = q.ctl.procs,
         p.step # "project" => p.ctl \in Control,
         Len(p.out) = Made(p), ~Aggregated(p)
  PROVE Fanned(p, rows)
<1>1. ~Aggregated(q)
  BY DEF Aggregated, Steps
<1>2. \A m \in DOMAIN q.out : ProcsOf(p)[m] = ProcsOf(q)[m]
  BY EmptySeq DEF ProcsOf, IsPipeline
<1>3. \A m \in DOMAIN q.out : SectionStored(q, m, rows)
  BY DEF Fanned
<1>4. \A m \in DOMAIN p.out : SectionStored(p, m, rows)
  BY <1>2, <1>3 DEF SectionStored
<1>5. \A i \in DOMAIN rows : rows[i].id.at = p.at => Accounted(p, rows[i])
  BY <1>1 DEF Fanned, Accounted
<1> QED BY <1>4, <1>5 DEF Fanned

\* A step of a request that stores no row.
LEMMA MovesFanned ==
  ASSUME FanInv, NEW r \in Requests, NEW p, req' = [req EXCEPT ![r] = p],
         UNCHANGED runs, Fans(p, runs)
  PROVE FansKept
<1>1. req'[r] = p /\ \A s \in Requests \ {r} : req'[s] = req[s]
  BY DEF FanInv, IInv, TypeOK
<1>2. IdsUnique'
  BY DEF FanInv, IdsUnique
<1> QED BY <1>1, <1>2 DEF FanInv, FansKept

LEMMA FailFanned ==
  ASSUME FanInv, NEW r \in Requests, Fail(r), UNCHANGED runs
  PROVE FansKept
<1> DEFINE p == [req[r] EXCEPT !.step = "failed"]
<1>1. req' = [req EXCEPT ![r] = p]
  BY DEF Fail, Goto
<1>2. Fans(p, runs)
  BY DEF Fans, Steps, RequestRec
<1> QED BY <1>1, <1>2, MovesFanned

\* A step of a request that stores a row: the rows of others are untouched.
LEMMA RowFanned ==
  ASSUME FanInv, NEW r \in Requests, req[r] \in RequestRec, NEW p, NEW x \in Run,
         x.id.at = req[r].at, req' = [req EXCEPT ![r] = p], runs' = Append(runs, x),
         \A i \in DOMAIN runs : runs[i].id # x.id, Fans(p, runs')
  PROVE FansKept
<1>1. req'[r] = p /\ \A s \in Requests \ {r} : req'[s] = req[s]
  BY DEF FanInv, IInv, TypeOK
<1>2. /\ DOMAIN runs' = DOMAIN runs \cup {Len(runs) + 1}
      /\ \A i \in DOMAIN runs : runs'[i] = runs[i]
      /\ runs'[Len(runs) + 1] = x
  BY AppendRow DEF FanInv, IInv, TypeOK
<1>3. IdsUnique'
  BY <1>2 DEF FanInv, IdsUnique
<1>4. ASSUME NEW s \in Requests \ {r}, req[s] \in RequestRec,
             req[s].step \in Steps \cup {"done"}
      PROVE Fanned(req[s], runs')
  <2>1. req[s].at # x.id.at
    BY <1>4, NoRequestIsNone DEF FanInv, IInv, Timed
  <2>2. Fanned(req[s], runs)
    BY <1>4 DEF FanInv, Fans
  <2>3. \A m \in DOMAIN req[s].out : SectionStored(req[s], m, runs')
    BY <1>2, <2>2 DEF Fanned, SectionStored
  <2>4. \A i \in DOMAIN runs' : runs'[i].id.at = req[s].at => Accounted(req[s], runs'[i])
    BY <1>2, <2>1, <2>2 DEF Fanned
  <2>5. Aggregated(req[s]) => \E i \in DOMAIN runs' :
          runs'[i].id = AggregateId(req[s]) /\ runs'[i].items = UnionOf(req[s].out)
    BY <1>2, <2>2 DEF Fanned
  <2> QED BY <2>2, <2>3, <2>4, <2>5 DEF Fanned
<1> QED BY <1>1, <1>3, <1>4 DEF Fans, FansKept
----------------------------------------------------------------------------
(* The steps of a run *)

LEMMA LoadProjectFans ==
  ASSUME FanInv, NEW r \in Requests, LoadProject(r) PROVE FansKept
<1>1. At(r, "project") /\ "project" \in Steps /\ UNCHANGED runs
  BY DEF LoadProject, Steps
<1>2. /\ req[r] \in RequestRec /\ req[r].step = "project"
      /\ Placed(req[r]) /\ Fanned(req[r], runs)
  BY <1>1, ActiveFans
<1>3. CASE controls[req[r].id] = NoControl
  BY <1>1, <1>3, FailFanned DEF LoadProject
<1>4. CASE controls[req[r].id] # NoControl
  <2> DEFINE p == [req[r] EXCEPT !.step = "pipeline", !.ctl = controls[req[r].id]]
  <2>1. controls[req[r].id] \in Control
    BY <1>2, <1>4 DEF FanInv, IInv, TypeOK, RequestRec
  <2>2. p \in RequestRec /\ req' = [req EXCEPT ![r] = p]
    BY <1>2, <1>4, <2>1 DEF LoadProject, RequestRec, Steps
  <2>3. p.at = req[r].at /\ p.step = "pipeline" /\ p.ctl \in Control /\ p.out = req[r].out
    BY <1>2, <2>1 DEF RequestRec
  <2> HIDE DEF p
  <2>4. Len(req[r].out) = 0 /\ Made(p) = 0
    BY <1>2, <2>3 DEF Fanned, Made, ReadSteps
  <2>5. req[r].out = <<>>
    BY <1>2, <2>4, NoSections
  <2>6. Fanned(p, runs)
    BY <1>2, <2>2, <2>3, <2>4, <2>5, Carries DEF Steps, Aggregated
  <2> QED BY <1>1, <2>2, <2>6, MovesFanned DEF Fans
<1> QED BY <1>3, <1>4

LEMMA LoadPipelineFans ==
  ASSUME FanInv, NEW r \in Requests, LoadPipeline(r) PROVE FansKept
<1>1. At(r, "pipeline") /\ "pipeline" \in Steps /\ UNCHANGED runs
  BY DEF LoadPipeline, Steps
<1>2. /\ req[r] \in RequestRec /\ req[r].step = "pipeline"
      /\ Placed(req[r]) /\ Fanned(req[r], runs)
  BY <1>1, ActiveFans
<1>3. req[r].ctl \in Control /\ req[r].n = 1
  BY <1>2 DEF Placed, Steps, ReadSteps
<1> DEFINE raw == controls[req[r].id]
           ctl == IF raw = NoControl
                  THEN [req[r].ctl EXCEPT !.procs = Plain]
                  ELSE [req[r].ctl EXCEPT !.procs = raw.procs, !.own = raw.own]
           p == [req[r] EXCEPT !.ctl = ctl,
                               !.step = IF ctl.procs = Plain THEN "load" ELSE "samples"]
<1>4. ctl \in Control
  <2>1. raw \in Control \cup {NoControl}
    BY <1>2 DEF FanInv, IInv, TypeOK, RequestRec
  <2> QED BY <1>3, <2>1 DEF Control
<1>5. req' = [req EXCEPT ![r] = p]
  BY DEF LoadPipeline
<1> HIDE DEF ctl
<1>6. p \in RequestRec
  BY <1>2, <1>4 DEF RequestRec, Steps
<1>7. p.at = req[r].at /\ p.n = 1 /\ p.ctl = ctl /\ p.out = req[r].out
      /\ p.step = IF ctl.procs = Plain THEN "load" ELSE "samples"
  BY <1>2, <1>3 DEF RequestRec
<1> HIDE DEF p
<1>8. Len(req[r].out) = 0
  BY <1>2 DEF Fanned, Made, ReadSteps
<1>9. Made(p) = 0
  BY <1>7 DEF Made, ReadSteps, TestSteps, IsPipeline
<1>10. req[r].out = <<>>
  BY <1>2, <1>8, NoSections
<1>11. Fanned(p, runs)
  BY <1>2, <1>4, <1>6, <1>7, <1>8, <1>9, <1>10, Carries DEF Steps, Aggregated
<1> QED BY <1>1, <1>5, <1>11, MovesFanned DEF Fans

LEMMA CollectSamplesFans ==
  ASSUME FanInv, NEW r \in Requests, CollectSamples(r) PROVE FansKept
<1>1. At(r, "samples") /\ "samples" \in Steps /\ UNCHANGED runs
  BY DEF CollectSamples, Steps
<1>2. /\ req[r] \in RequestRec /\ req[r].step = "samples"
      /\ Placed(req[r]) /\ Fanned(req[r], runs)
  BY <1>1, ActiveFans
<1>3. req[r].ctl \in Control /\ (IsPipeline(req[r]) => req[r].n = 1)
  BY <1>2 DEF Placed, Steps
<1>4. CASE live \in Unreadable
  BY <1>1, <1>4, FailFanned DEF CollectSamples
<1>5. ASSUME NEW l \in {"load", "html"}, Goto(r, l),
             l = "load" => IsPipeline(req[r]),
             l = "html" => ~IsPipeline(req[r]) \/ ProcsOf(req[r]) = <<>>
      PROVE FansKept
  <2> DEFINE p == [req[r] EXCEPT !.step = l]
  <2>1. p \in RequestRec /\ req' = [req EXCEPT ![r] = p]
    BY <1>2, <1>5 DEF Goto, RequestRec, Steps
  <2>2. p.at = req[r].at /\ p.step = l /\ p.ctl = req[r].ctl /\ p.out = req[r].out
        /\ p.n = req[r].n
    BY <1>2 DEF RequestRec
  <2> HIDE DEF p
  <2>3. ProcsOf(p) = ProcsOf(req[r]) /\ IsPipeline(p) = IsPipeline(req[r])
    BY <2>2 DEF ProcsOf, IsPipeline
  <2>4. Made(p) = Made(req[r])
    <3>1. CASE l = "load"
      BY <1>2, <1>3, <1>5, <2>2, <3>1 DEF Made, ReadSteps, TestSteps
    <3>2. CASE l = "html"
      <4>1. Made(p) = Len(ProcsOf(req[r]))
        BY <2>2, <2>3, <3>2 DEF Made, ReadSteps, TestSteps
      <4>2. CASE IsPipeline(req[r])
        <5>1. Made(req[r]) = 0 /\ ProcsOf(req[r]) = <<>>
          BY <1>2, <1>5, <3>2, <4>2 DEF Made
        <5> QED BY <4>1, <5>1, EmptySeq
      <4>3. CASE ~IsPipeline(req[r])
        BY <1>2, <4>1, <4>3 DEF Made, ReadSteps, TestSteps
      <4> QED BY <4>2, <4>3
    <3> QED BY <3>1, <3>2
  <2>5. Len(p.out) = Made(p)
    BY <1>2, <2>2, <2>4 DEF Fanned
  <2>6. Fanned(p, runs)
    BY <1>2, <1>3, <2>1, <2>2, <2>5, Carries DEF Steps, Aggregated
  <2> QED BY <1>1, <2>1, <2>6, MovesFanned DEF Fans
<1> QED BY <1>4, <1>5 DEF CollectSamples

LEMMA ChecksFan ==
  ASSUME FanInv, NEW r \in Requests, LoadCheck(r) \/ HashCheck(r) PROVE FansKept
<1>1. PICK l \in {"load", "hash"} : At(r, l)
  BY DEF LoadCheck, HashCheck
<1>2. /\ req[r] \in RequestRec /\ req[r].step = l /\ l \in Steps
      /\ Placed(req[r]) /\ Fanned(req[r], runs) /\ UNCHANGED runs
  BY <1>1, ActiveFans DEF LoadCheck, HashCheck, Steps
<1>3. req[r].ctl \in Control
  BY <1>2 DEF Placed, Steps
<1>4. CASE Fail(r)
  BY <1>2, <1>4, FailFanned
<1>5. CASE ~Fail(r)
  <2>1. IInv'
    BY LoadCheckKeeps, HashCheckKeeps DEF FanInv
  <2>2. PICK p : /\ req' = [req EXCEPT ![r] = p] /\ p.step \in TestSteps
                 /\ p.at = req[r].at /\ p.n = req[r].n /\ p.ctl = req[r].ctl
                 /\ p.out = req[r].out
    <3>1. CASE LoadCheck(r)
      <4> DEFINE p == [req[r] EXCEPT !.step = "hash", !.seen = live]
      <4>1. req' = [req EXCEPT ![r] = p]
        BY <1>5, <3>1 DEF LoadCheck
      <4>2. /\ p.step = "hash" /\ p.at = req[r].at /\ p.n = req[r].n
            /\ p.ctl = req[r].ctl /\ p.out = req[r].out
        BY <1>2 DEF RequestRec
      <4> HIDE DEF p
      <4> QED BY <4>1, <4>2 DEF TestSteps
    <3>2. CASE HashCheck(r)
      <4> DEFINE last == LastCheck(req[r])
                 items == MergeItems(req[r].items, Found[req[r].seen][CheckAt(req[r])])
                 p == [req[r] EXCEPT !.prov = live, !.items = items,
                                     !.k = IF last THEN 1 ELSE req[r].k + 1,
                                     !.step = IF last THEN "insert" ELSE "load"]
      <4>1. req' = [req EXCEPT ![r] = p]
        BY <1>2, <1>5, <3>2 DEF HashCheck, RequestRec
      <4> HIDE DEF last, items
      <4>2. /\ p.step \in {"insert", "load"} /\ p.at = req[r].at /\ p.n = req[r].n
            /\ p.ctl = req[r].ctl /\ p.out = req[r].out
        BY <1>2 DEF RequestRec
      <4> HIDE DEF p
      <4> QED BY <4>1, <4>2 DEF TestSteps
    <3> QED BY <3>1, <3>2
  <2>3. p \in RequestRec
    <3>1. req'[r] = p /\ req'[r] \in RequestRec \cup {NoRequest}
      BY <2>1, <2>2 DEF FanInv, IInv, TypeOK
    <3> QED BY <2>2, <3>1 DEF NoRequest, TestSteps
  <2>4. Made(p) = Made(req[r])
    BY <1>2, <2>2 DEF Made, ReadSteps, TestSteps
  <2>5. Fanned(p, runs)
    <3>1. Len(p.out) = Made(p)
      BY <1>2, <2>2, <2>4 DEF Fanned
    <3>2. ~Aggregated(p)
      BY <2>2 DEF Aggregated, TestSteps
    <3> QED BY <1>2, <1>3, <2>2, <2>3, <3>1, <3>2, Carries
  <2> QED BY <1>2, <2>2, <2>5, MovesFanned DEF Fans
<1> QED BY <1>4, <1>5

LEMMA FileActsFan ==
  ASSUME FanInv, NEW r \in Requests, FileAct(r)
  PROVE FansKept
<1>1. PICK l \in Files, k \in After, b \in BOOLEAN :
        /\ At(r, l) /\ l \in Steps /\ req[r].ctl \in Control
        /\ req' = [req EXCEPT ![r].step = k, ![r].open = b]
        /\ k = "done" => ~IsPipeline(req[r])
        /\ UNCHANGED runs
  BY FileActs DEF FanInv
<1>2. /\ req[r] \in RequestRec /\ req[r].step = l
      /\ Placed(req[r]) /\ Fanned(req[r], runs)
  BY <1>1, ActiveFans
<1>3. l \in PaperSteps \ {"aggregate"} /\ k \in PaperSteps \cup {"done"}
  BY DEF PaperSteps, Files, After
<1> DEFINE p == [req[r] EXCEPT !.step = k, !.open = b]
<1>5. p \in RequestRec /\ req' = [req EXCEPT ![r] = p]
  BY <1>1, <1>2 DEF RequestRec, After, Steps, Ended
<1>6. p.at = req[r].at /\ p.step = k /\ p.ctl = req[r].ctl /\ p.out = req[r].out
      /\ p.id = req[r].id
  BY <1>2 DEF RequestRec
<1> HIDE DEF p
<1>7. ProcsOf(p) = ProcsOf(req[r]) /\ IsPipeline(p) = IsPipeline(req[r])
  BY <1>6 DEF ProcsOf, IsPipeline
<1>8. Made(p) = Made(req[r])
  BY <1>2, <1>3, <1>6, <1>7 DEF Made, ReadSteps, TestSteps, PaperSteps
<1>9. Len(p.out) = Made(p) /\ ~Aggregated(p)
  BY <1>1, <1>2, <1>6, <1>7, <1>8 DEF Fanned, Aggregated
<1>10. Fanned(p, runs)
  BY <1>1, <1>2, <1>3, <1>5, <1>6, <1>9, Carries DEF PaperSteps
<1> QED BY <1>1, <1>2, <1>5, <1>10, MovesFanned DEF Fans

\* No two places of a fan-out have the same procedure, and none is the control
\* as a whole.
LEMMA ProcsDistinct ==
  ASSUME NEW q \in RequestRec, q.ctl \in Control
  PROVE /\ Len(ProcsOf(q)) \in Nat /\ DOMAIN ProcsOf(q) = 1 .. Len(ProcsOf(q))
        /\ \A i, j \in 1 .. Len(ProcsOf(q)) : ProcsOf(q)[i] = ProcsOf(q)[j] => i = j
        /\ IsPipeline(q) => \A i \in 1 .. Len(ProcsOf(q)) : ProcsOf(q)[i] # Whole
        /\ ~IsPipeline(q) => Len(ProcsOf(q)) = 1 /\ ProcsOf(q)[1] = Whole
<1>1. ProcsOf(q) \in Seq(Procs \cup {Whole})
  BY ProcsTyped
<1>2. Len(ProcsOf(q)) \in Nat /\ DOMAIN ProcsOf(q) = 1 .. Len(ProcsOf(q))
  BY <1>1, LenProperties
<1>3. CASE IsPipeline(q)
  <2>1. ProcsOf(q) \in Seq(Procs)
    BY <1>3, ProcsTyped
  <2>2. \A i \in 1 .. Len(ProcsOf(q)) : ProcsOf(q)[i] # Whole
    BY <2>1, ElementOfSeq, KindAssumption
  <2> QED BY <1>2, <1>3, <2>2, ProcsTyped
<1>4. CASE ~IsPipeline(q)
  <2>1. ProcsOf(q) = <<Whole>>
    BY <1>4, ProcsTyped
  <2> QED BY <1>2, <1>4, <2>1
<1> QED BY <1>3, <1>4

LEMMA SectionPlaces ==
  ASSUME NEW q \in RequestRec
  PROVE DOMAIN q.out = 1 .. Len(q.out) /\ Len(q.out) \in Nat
BY LenProperties DEF RequestRec

\* A step of a request stores no row, or appends one of its own.
AddsRow(r) ==
  UNCHANGED runs \/ \E x \in Run : x.id.at = req[r].at /\ runs' = Append(runs, x)

LEMMA InsertFans ==
  ASSUME FanInv, NEW r \in Requests, InsertProcRun(r) PROVE FansKept /\ AddsRow(r)
<1>1. At(r, "insert") /\ "insert" \in Steps
  BY DEF InsertProcRun, Steps
<1> DEFINE q == req[r]
           P == ProcsOf(q)
<1>2. /\ q \in RequestRec /\ q.step = "insert"
      /\ Placed(q) /\ Fanned(q, runs)
  BY <1>1, ActiveFans
<1>3. q.ctl \in Control /\ q.n \in 1 .. Len(P) /\ Len(P) \in Nat
  BY <1>2, ProcsDistinct DEF Placed, TestSteps, Steps
<1>4. CASE ~HasControl(q.id)
  BY <1>4, FailFanned DEF InsertProcRun, AddsRow
<1>5. CASE HasControl(q.id)
  <2> DEFINE id == RunId(q.id, q.at, q.prov, ProcAt(q))
             x == [id |-> id, owner |-> q.id, items |-> q.items]
             sec == [id |-> id, items |-> q.items, limit |-> LimitOf(q.ctl, ProcAt(q))]
             n == IF LastProc(q) THEN q.n ELSE q.n + 1
             step == CASE ~IsPipeline(q) -> "samples"
                       [] IsPipeline(q) /\ LastProc(q) -> "html"
                       [] OTHER -> "load"
             p == [q EXCEPT !.out = Append(@, sec), !.items = {}, !.n = n, !.step = step]
  <2>1. /\ runs' = InsertRun(runs, x) /\ req' = [req EXCEPT ![r] = p]
        /\ step \in {"samples", "html", "load"}
    BY <1>5 DEF InsertProcRun
  <2>2. /\ id \in RunIds /\ id.at = q.at /\ id.proc = P[q.n]
        /\ sec \in Section
    <3>1. ProcAt(q) \in Procs \cup {Whole}
      BY <1>2, <1>3, ProcTyped
    <3>2. LimitOf(q.ctl, ProcAt(q)) \in Limits
      BY <1>3, <3>1 DEF LimitOf, Control
    <3> QED BY <1>2, <3>1, <3>2 DEF RunId, RunIds, RequestRec, Section, ProcAt
  <2>3. x \in Run /\ x.id = id /\ x.items = q.items /\ sec.id = id /\ sec.items = q.items
    BY <1>2, <2>2 DEF Run, RequestRec
  <2>4. p.out = Append(q.out, sec) /\ p.at = q.at /\ p.ctl = q.ctl /\ p.n = n /\ p.step = step
    <3> HIDE DEF n, step, sec
    <3> QED BY <1>2 DEF RequestRec
  <2> HIDE DEF id, x, sec, p
  <2>5. Len(q.out) = q.n - 1 /\ q.n \in Nat
    BY <1>2, <1>3 DEF Fanned, Made, ReadSteps, TestSteps
  <2>6. DOMAIN q.out = 1 .. q.n - 1 /\ q.out \in Seq(Section)
    BY <1>2, <2>5, SectionPlaces DEF RequestRec
  <2>7. /\ Len(p.out) = q.n /\ DOMAIN p.out = 1 .. q.n
        /\ \A m \in 1 .. q.n - 1 : p.out[m] = q.out[m]
        /\ p.out[q.n] = sec
    BY <2>2, <2>4, <2>5, <2>6, AppendProperties, LenProperties
  <2>8. \A i \in DOMAIN runs : runs[i].id.at = q.at =>
          \E m \in 1 .. q.n - 1 : runs[i].id = q.out[m].id /\ runs[i].items = q.out[m].items
    BY <1>2, <2>6 DEF Fanned, Accounted, Aggregated
  <2>9. \A m \in 1 .. q.n - 1 : SectionStored(q, m, runs)
    BY <1>2, <2>6 DEF Fanned
  <2>10. \A i \in DOMAIN runs : runs[i].id # id
    <3> SUFFICES ASSUME NEW i \in DOMAIN runs, runs[i].id = id PROVE FALSE
      OBVIOUS
    <3>1. PICK m \in 1 .. q.n - 1 : runs[i].id = q.out[m].id
      BY <2>2, <2>8
    <3>2. P[m] = P[q.n]
      BY <2>2, <2>9, <3>1 DEF SectionStored
    <3> QED BY <1>2, <1>3, <3>1, <3>2, ProcsDistinct
  <2>11. runs' = Append(runs, x)
    BY <2>1, <2>3, <2>10, FreshIsAppended
  <2>12. /\ DOMAIN runs' = DOMAIN runs \cup {Len(runs) + 1}
         /\ \A i \in DOMAIN runs : runs'[i] = runs[i]
         /\ runs'[Len(runs) + 1] = x
    BY <2>3, <2>11, AppendRow DEF FanInv, IInv, TypeOK
  <2>13. ProcsOf(p) = P /\ IsPipeline(p) = IsPipeline(q)
    BY <2>4 DEF ProcsOf, IsPipeline
  <2>14. Made(p) = q.n
    <3>1. CASE ~IsPipeline(q)
      <4>1. Len(P) = 1 /\ q.n = 1 /\ step = "samples"
        BY <1>2, <1>3, <3>1, ProcsDistinct
      <4> HIDE DEF step
      <4> QED BY <2>4, <2>13, <3>1, <4>1 DEF Made, ReadSteps, TestSteps
    <3>2. CASE IsPipeline(q) /\ LastProc(q)
      BY <2>4, <2>13, <3>2 DEF Made, ReadSteps, TestSteps, LastProc
    <3>3. CASE IsPipeline(q) /\ ~LastProc(q)
      BY <1>3, <2>4, <3>3 DEF Made, ReadSteps, TestSteps
    <3> QED BY <3>1, <3>2, <3>3
  <2>15. \A m \in DOMAIN p.out : SectionStored(p, m, runs')
    <3>1. ASSUME NEW m \in 1 .. q.n - 1 PROVE SectionStored(p, m, runs')
      BY <2>4, <2>7, <2>9, <2>12, <2>13 DEF SectionStored
    <3>2. SectionStored(p, q.n, runs')
      BY <2>2, <2>3, <2>4, <2>7, <2>12, <2>13 DEF SectionStored
    <3> QED BY <2>5, <2>7, <3>1, <3>2
  <2>16. ASSUME NEW i \in DOMAIN runs', runs'[i].id.at = p.at PROVE Accounted(p, runs'[i])
    <3>1. CASE i \in DOMAIN runs
      <4>1. PICK m \in 1 .. q.n - 1 : runs[i].id = q.out[m].id /\ runs[i].items = q.out[m].items
        BY <2>4, <2>8, <2>12, <2>16, <3>1
      <4>2. m \in DOMAIN p.out /\ p.out[m] = q.out[m] /\ runs'[i] = runs[i]
        BY <2>5, <2>7, <2>12, <3>1
      <4> QED BY <4>1, <4>2 DEF Accounted
    <3>2. CASE i \notin DOMAIN runs
      <4>1. runs'[i] = x /\ q.n \in DOMAIN p.out
        BY <1>3, <2>5, <2>7, <2>12, <2>16, <3>2
      <4> QED BY <2>3, <2>7, <4>1 DEF Accounted
    <3> QED BY <3>1, <3>2
  <2>17. Fanned(p, runs')
    <3>1. ~Aggregated(p)
      BY <2>1, <2>4 DEF Aggregated
    <3> QED BY <1>3, <2>4, <2>7, <2>14, <2>15, <2>16, <3>1 DEF Fanned
  <2>18. AddsRow(r)
    BY <2>2, <2>3, <2>11 DEF AddsRow
  <2> HIDE DEF n, step
  <2> QED BY <1>2, <2>1, <2>2, <2>3, <2>10, <2>11, <2>17, <2>18, RowFanned DEF Fans
<1> QED BY <1>4, <1>5

LEMMA AggregateFans ==
  ASSUME FanInv, NEW r \in Requests, AggregateRun(r) PROVE FansKept /\ AddsRow(r)
<1>1. At(r, "aggregate") /\ "aggregate" \in Steps
  BY DEF AggregateRun, Steps
<1> DEFINE q == req[r]
           p == [q EXCEPT !.step = "done"]
<1>2. /\ q \in RequestRec /\ q.step = "aggregate" /\ q.ctl \in Control /\ IsPipeline(q)
      /\ Fanned(q, runs)
  BY <1>1, ActiveFans DEF Placed, Steps
<1>3. p \in RequestRec
  BY <1>2 DEF RequestRec, Ended
<1>4. /\ p.at = q.at /\ p.id = q.id /\ p.step = "done" /\ p.ctl = q.ctl
      /\ p.out = q.out
  BY <1>2 DEF RequestRec
<1> HIDE DEF p
<1>5. /\ ProcsOf(p) = ProcsOf(q) /\ IsPipeline(p) /\ NeedsAggregate(p) = NeedsAggregate(q)
      /\ AggregateId(p) = AggregateId(q)
  BY <1>2, <1>4 DEF ProcsOf, IsPipeline, NeedsAggregate, AggregateId
<1>6. Made(p) = Made(q) /\ Len(p.out) = Made(p)
  BY <1>2, <1>4, <1>5 DEF Fanned, Made, ReadSteps, TestSteps
<1>7. CASE ~NeedsAggregate(q)
  <2>1. req' = [req EXCEPT ![r] = p] /\ UNCHANGED runs
    BY <1>7 DEF AggregateRun, Goto, p
  <2>2. Fanned(p, runs)
    BY <1>2, <1>3, <1>4, <1>5, <1>6, <1>7, Carries DEF Steps, Aggregated
  <2> QED BY <2>1, <2>2, MovesFanned DEF Fans, AddsRow
<1>8. CASE NeedsAggregate(q) /\ ~HasControl(q.id)
  BY <1>8, FailFanned DEF AggregateRun, AddsRow
<1>9. CASE NeedsAggregate(q) /\ HasControl(q.id)
  <2> DEFINE x == [id |-> AggregateId(q), owner |-> q.id, items |-> UnionOf(q.out)]
  <2>1. req' = [req EXCEPT ![r] = p] /\ runs' = InsertRun(runs, x)
    BY <1>9 DEF AggregateRun, Goto, p
  <2>2. q.out \in Seq(Section) /\ \A m \in DOMAIN q.out : q.out[m] \in Section
    BY <1>2, LenProperties, ElementOfSeq DEF RequestRec
  <2>3. AggregateId(q) \in RunIds /\ AggregateId(q).at = q.at /\ AggregateId(q).proc = Whole
    <3>1. CASE q.out = <<>>
      BY <1>2, <3>1 DEF AggregateId, RunId, RunIds, RequestRec, Snapshots
    <3>2. CASE q.out # <<>>
      <4>1. q.out[1].id.prov \in Snapshots
        BY <2>2, <3>2, EmptySeq, LenProperties DEF Section, RunIds
      <4> QED BY <1>2, <3>2, <4>1 DEF AggregateId, RunId, RunIds, RequestRec
    <3> QED BY <3>1, <3>2
  <2>4. UnionOf(q.out) \subseteq Items
    BY <2>2 DEF UnionOf, Section
  <2>5. x \in Run /\ x.id = AggregateId(q) /\ x.items = UnionOf(q.out)
    BY <1>2, <2>3, <2>4 DEF Run, RequestRec
  <2> HIDE DEF x
  <2>6. Len(q.out) = Len(ProcsOf(q)) /\ DOMAIN q.out = 1 .. Len(ProcsOf(q))
    BY <1>2, SectionPlaces DEF Fanned, Made, ReadSteps, TestSteps
  <2>7. \A i \in DOMAIN runs : runs[i].id.at = q.at =>
          \E m \in DOMAIN q.out : runs[i].id = q.out[m].id /\ runs[i].items = q.out[m].items
    BY <1>2 DEF Fanned, Accounted, Aggregated
  <2>8. \A i \in DOMAIN runs : runs[i].id # AggregateId(q)
    <3> SUFFICES ASSUME NEW i \in DOMAIN runs, runs[i].id = AggregateId(q) PROVE FALSE
      OBVIOUS
    <3>1. PICK m \in DOMAIN q.out : runs[i].id = q.out[m].id
      BY <2>3, <2>7
    <3>2. SectionStored(q, m, runs)
      BY <1>2, <3>1 DEF Fanned
    <3>3. ProcsOf(q)[m] = Whole
      BY <2>3, <3>1, <3>2 DEF SectionStored
    <3> QED BY <1>2, <2>6, <3>1, <3>3, ProcsDistinct
  <2>9. runs' = Append(runs, x)
    BY <2>1, <2>5, <2>8, FreshIsAppended
  <2>10. /\ DOMAIN runs' = DOMAIN runs \cup {Len(runs) + 1}
         /\ \A i \in DOMAIN runs : runs'[i] = runs[i]
         /\ runs'[Len(runs) + 1] = x
    BY <2>5, <2>9, AppendRow DEF FanInv, IInv, TypeOK
  <2>11. Aggregated(p)
    BY <1>4, <1>5, <1>9 DEF Aggregated
  <2>12. \A m \in DOMAIN p.out : SectionStored(p, m, runs')
    <3> SUFFICES ASSUME NEW m \in DOMAIN q.out PROVE SectionStored(p, m, runs')
      BY <1>4
    <3>1. SectionStored(q, m, runs)
      BY <1>2 DEF Fanned
    <3> QED BY <1>4, <1>5, <2>10, <3>1 DEF SectionStored
  <2>13. ASSUME NEW i \in DOMAIN runs', runs'[i].id.at = p.at PROVE Accounted(p, runs'[i])
    <3>1. CASE i \in DOMAIN runs
      BY <1>4, <2>7, <2>10, <2>13, <3>1 DEF Accounted
    <3>2. CASE i \notin DOMAIN runs
      <4>1. runs'[i] = x
        BY <2>10, <2>13, <3>2
      <4> QED BY <1>4, <1>5, <2>5, <2>11, <4>1 DEF Accounted
    <3> QED BY <3>1, <3>2
  <2>14. \E i \in DOMAIN runs' :
           runs'[i].id = AggregateId(p) /\ runs'[i].items = UnionOf(p.out)
    BY <1>4, <1>5, <2>5, <2>10
  <2>15. Fanned(p, runs')
    BY <1>2, <1>4, <1>6, <2>12, <2>13, <2>14 DEF Fanned
  <2>16. AddsRow(r)
    BY <2>3, <2>5, <2>9 DEF AddsRow
  <2> QED BY <1>2, <2>1, <2>3, <2>5, <2>8, <2>9, <2>15, <2>16, RowFanned DEF Fans
<1> QED BY <1>7, <1>8, <1>9
----------------------------------------------------------------------------
(* The rest of the server *)

LEMMA InitFans == Init => FanInv
<1> SUFFICES ASSUME Init PROVE FanInv
  OBVIOUS
<1>1. IdsUnique
  BY EmptySeq DEF Init, IdsUnique
<1>2. \A r \in Requests : Fans(req[r], runs)
  BY NoRequestIsNone DEF Init, Fans
<1> QED BY <1>1, <1>2, InitInv DEF FanInv

LEMMA StartRunFans ==
  ASSUME FanInv, NEW r \in Requests, NEW c \in Ids, StartRun(r, c) PROVE FansKept
<1> DEFINE p == [step |-> "project", id |-> c, at |-> clock + 1, ctl |-> NoControl,
                 n |-> 1, k |-> 1, seen |-> NoData, prov |-> NoData, items |-> {},
                 out |-> <<>>, open |-> FALSE]
<1>1. req' = [req EXCEPT ![r] = p] /\ UNCHANGED runs /\ clock \in Nat
  BY DEF FanInv, IInv, TypeOK, StartRun
<1>2. p.step = "project" /\ p.at = clock + 1 /\ p.out = <<>>
  OBVIOUS
<1> HIDE DEF p
<1>3. \A i \in DOMAIN runs : runs[i].id.at # p.at
  <2>1. \A i \in DOMAIN runs : runs[i] \in Run
    BY LenProperties, ElementOfSeq DEF FanInv, IInv, TypeOK
  <2> QED BY <1>1, <1>2, <2>1 DEF FanInv, IInv, Timed, Run, RunIds
<1>4. Len(p.out) = Made(p) /\ DOMAIN p.out = {} /\ ~Aggregated(p)
  BY <1>2, EmptySeq DEF Made, ReadSteps, Aggregated
<1>5. Fanned(p, runs)
  BY <1>2, <1>3, <1>4 DEF Fanned
<1> QED BY <1>1, <1>5, MovesFanned DEF Fans

\* A rename changes neither the id nor the items of a row.
LEMMA RenameFans ==
  ASSUME FanInv, NEW c \in Ids, NEW d \in Ids, RenameControl(c, d) PROVE FansKept
<1>1. UNCHANGED req /\ runs' = MoveRuns(runs, c, d)
  BY DEF RenameControl
<1>2. \A i \in DOMAIN runs : runs[i] \in Run
  BY LenProperties, ElementOfSeq DEF FanInv, IInv, TypeOK
<1>3. /\ DOMAIN runs' = DOMAIN runs
      /\ \A i \in DOMAIN runs : runs'[i] = IF runs[i].owner = c
                                  THEN [runs[i] EXCEPT !.owner = d] ELSE runs[i]
  BY <1>1 DEF MoveRuns
<1>4. \A i \in DOMAIN runs : runs'[i].id = runs[i].id /\ runs'[i].items = runs[i].items
  BY <1>2, <1>3 DEF Run
<1>5. IdsUnique'
  BY <1>3, <1>4 DEF FanInv, IdsUnique
<1>6. ASSUME NEW s \in Requests, Fanned(req[s], runs) PROVE Fanned(req[s], runs')
  <2>1. \A m \in DOMAIN req[s].out : SectionStored(req[s], m, runs')
    BY <1>3, <1>4, <1>6 DEF Fanned, SectionStored
  <2>2. \A i \in DOMAIN runs' : runs'[i].id.at = req[s].at => Accounted(req[s], runs'[i])
    BY <1>3, <1>4, <1>6 DEF Fanned, Accounted
  <2>3. Aggregated(req[s]) => \E i \in DOMAIN runs' :
          runs'[i].id = AggregateId(req[s]) /\ runs'[i].items = UnionOf(req[s].out)
    BY <1>3, <1>4, <1>6 DEF Fanned
  <2> QED BY <1>6, <2>1, <2>2, <2>3 DEF Fanned
<1> QED BY <1>1, <1>5, <1>6 DEF FanInv, Fans, FansKept

LEMMA UntouchedFans ==
  ASSUME FanInv, UNCHANGED <<req, runs>> PROVE FansKept
BY DEF FanInv, FansKept, IdsUnique

LEMMA CrashFans == ASSUME FanInv, Crash PROVE FansKept
<1>1. /\ req' = [r \in Requests |-> IF Running(r) THEN [req[r] EXCEPT !.step = "dead"] ELSE req[r]]
      /\ UNCHANGED runs
  BY DEF Crash
<1>2. IdsUnique'
  BY <1>1 DEF FanInv, IdsUnique
<1>3. ASSUME NEW r \in Requests PROVE Fans(req'[r], runs')
  <2>1. CASE Running(r)
    <3>1. req'[r] = [req[r] EXCEPT !.step = "dead"]
      BY <1>1, <2>1
    <3> QED BY <3>1 DEF Fans, Steps, RequestRec
  <2>2. CASE ~Running(r)
    BY <1>1, <2>2 DEF FanInv
  <2> QED BY <2>1, <2>2
<1> QED BY <1>2, <1>3 DEF FansKept

LEMMA FanNext == FanInv /\ [Next]_vars => FanInv'
<1> SUFFICES ASSUME FanInv, [Next]_vars PROVE FansKept
  BY NextKeeps DEF FanInv, FansKept
<1>1. ASSUME NEW r \in Requests, RunStep(r) PROVE FansKept
  BY <1>1, LoadProjectFans, LoadPipelineFans, CollectSamplesFans, ChecksFan, InsertFans,
     FileActsFan, AggregateFans DEF RunStep, FileAct
<1>2. ASSUME NEW r \in Requests, NEW c \in Ids, StartRun(r, c) PROVE FansKept
  BY <1>2, StartRunFans
<1>3. ASSUME NEW c \in Ids, NEW d \in Ids, RenameControl(c, d) PROVE FansKept
  BY <1>3, RenameFans
<1>4. CASE \/ \E c \in Ids, row \in Rows : SaveControl(c, row)
           \/ \E v \in Contents : ReplaceData(v)
           \/ Quiet \/ UNCHANGED vars
  BY <1>4, UntouchedFans DEF SaveControl, ReplaceData, Quiet, vars
<1>5. CASE Crash
  BY <1>5, CrashFans
<1> QED BY <1>1, <1>2, <1>3, <1>4, <1>5 DEF Next, Editor
----------------------------------------------------------------------------
(* The theorem *)

LEMMA RowsFinite ==
  ASSUME runs \in Seq(Run), NEW t
  PROVE IsFiniteSet(RunsAt(t))
<1>1. Len(runs) \in Nat /\ DOMAIN runs = 1 .. Len(runs)
  BY LenProperties
<1>2. IsFiniteSet(1 .. Len(runs))
  BY <1>1, FS_Interval
<1> DEFINE f == [i \in 1 .. Len(runs) |-> runs[i]]
<1>3. f \in Surjection(1 .. Len(runs), RunSet)
  BY <1>1 DEF Surjection, RunSet
<1>4. IsFiniteSet(RunSet)
  BY <1>2, <1>3, FS_Surjection
<1> QED BY <1>4, FS_Subset DEF RunsAt

\* A sequence without repetition has one element when it has one place.
LEMMA OneProcedure ==
  ASSUME NEW P, Len(P) \in Nat, DOMAIN P = 1 .. Len(P),
         \A i, j \in 1 .. Len(P) : P[i] = P[j] => i = j
  PROVE Cardinality({P[n] : n \in DOMAIN P}) = 1 <=> Len(P) = 1
<1> DEFINE S == {P[n] : n \in DOMAIN P}
           f == [n \in 1 .. Len(P) |-> P[n]]
<1>1. f \in Bijection(1 .. Len(P), S)
  BY DEF Bijection, Injection, Surjection, IsInjective
<1>2. ExistsBijection(1 .. Len(P), S)
  BY <1>1 DEF ExistsBijection
<1>3. IsFiniteSet(1 .. Len(P)) /\ Cardinality(1 .. Len(P)) = Len(P)
  BY FS_Interval
<1> QED BY <1>2, <1>3, FS_Bijection

LEMMA FanCompletes == FanInv => FanOutComplete
<1> SUFFICES ASSUME FanInv, NEW r \in Requests, At(r, "done")
             PROVE LET q == req[r]
                       rows == RunsAt(q.at)
                       procs == {ProcsOf(q)[n] : n \in DOMAIN ProcsOf(q)}
                   IN /\ {x.id.proc : x \in rows} =
                           procs \cup (IF Cardinality(procs) = 1 THEN {} ELSE {Whole})
                      /\ Cardinality(rows) = Cardinality({x.id.proc : x \in rows})
                      /\ \A x \in rows : x.id.proc = Whole =>
                           x.items = UNION {y.items : y \in PartsAt(q.at)}
  BY DEF FanOutComplete
<1> DEFINE q == req[r]
           P == ProcsOf(q)
           rows == RunsAt(q.at)
           procs == {P[n] : n \in DOMAIN P}
           kinds == {x.id.proc : x \in rows}
<1>1. q \in RequestRec /\ q.step = "done" /\ Fanned(q, runs)
  <2>1. q \in RequestRec
    BY DEF At, NoRequest, FanInv, IInv, TypeOK
  <2> QED BY <2>1 DEF At, FanInv, Fans
<1>2. q.ctl \in Control
  BY <1>1 DEF Fanned
<1>3. /\ Len(P) \in Nat /\ DOMAIN P = 1 .. Len(P)
      /\ \A i, j \in 1 .. Len(P) : P[i] = P[j] => i = j
      /\ IsPipeline(q) => \A i \in 1 .. Len(P) : P[i] # Whole
      /\ ~IsPipeline(q) => Len(P) = 1 /\ P[1] = Whole
  BY <1>1, <1>2, ProcsDistinct
<1>4. Len(q.out) = Len(P) /\ DOMAIN q.out = 1 .. Len(P)
  BY <1>1, SectionPlaces DEF Fanned, Made, ReadSteps, TestSteps
<1>5. Aggregated(q) <=> Len(P) # 1
  BY <1>1, <1>3, <1>4 DEF Aggregated, NeedsAggregate
<1>6. /\ \A m \in 1 .. Len(P) : SectionStored(q, m, runs)
      /\ \A i \in DOMAIN runs : runs[i].id.at = q.at => Accounted(q, runs[i])
      /\ Aggregated(q) => \E i \in DOMAIN runs :
           runs[i].id = AggregateId(q) /\ runs[i].items = UnionOf(q.out)
  BY <1>1, <1>4 DEF Fanned
<1>7. AggregateId(q).proc = Whole /\ AggregateId(q).at = q.at
  BY DEF AggregateId, RunId
<1>8. Cardinality(procs) = 1 <=> Len(P) = 1
  BY <1>3, OneProcedure
<1>9. ASSUME NEW x \in rows
      PROVE /\ \E i \in DOMAIN runs : x = runs[i]
            /\ \/ \E m \in 1 .. Len(P) : /\ x.id = q.out[m].id /\ x.items = q.out[m].items
                                        /\ x.id.proc = P[m]
               \/ Len(P) # 1 /\ x.id = AggregateId(q) /\ x.items = UnionOf(q.out)
  <2>1. PICK i \in DOMAIN runs : x = runs[i] /\ runs[i].id.at = q.at
    BY DEF RunsAt, RunSet
  <2> QED BY <1>4, <1>5, <1>6, <2>1 DEF Accounted, SectionStored
<1>10. ASSUME NEW m \in 1 .. Len(P)
       PROVE \E x \in rows : x.id = q.out[m].id /\ x.items = q.out[m].items /\ x.id.proc = P[m]
  <2>1. PICK i \in DOMAIN runs : runs[i].id = q.out[m].id /\ runs[i].items = q.out[m].items
    BY <1>6 DEF SectionStored
  <2>2. runs[i] \in rows /\ runs[i].id.proc = P[m]
    BY <1>6, <2>1 DEF SectionStored, RunsAt, RunSet
  <2> QED BY <2>1, <2>2
<1>11. Len(P) # 1 => \E x \in rows : x.id = AggregateId(q)
  BY <1>5, <1>6, <1>7 DEF RunsAt, RunSet
<1> HIDE DEF q, P, rows
<1>12. kinds = procs \cup (IF Cardinality(procs) = 1 THEN {} ELSE {Whole})
  <2>1. \A x \in rows : x.id.proc \in procs \/ (Len(P) # 1 /\ x.id.proc = Whole)
    BY <1>3, <1>7, <1>9
  <2>2. \A m \in DOMAIN P : P[m] \in kinds
    BY <1>3, <1>10
  <2>3. Len(P) # 1 => Whole \in kinds
    BY <1>7, <1>11
  <2> QED BY <1>8, <2>1, <2>2, <2>3
<1>13. Cardinality(rows) = Cardinality(kinds)
  <2> DEFINE f == [x \in rows |-> x.id.proc]
  <2>1. ASSUME NEW x \in rows, NEW y \in rows, x.id.proc = y.id.proc PROVE x = y
    <3>1. x.id = y.id
      <4>1. CASE Len(P) = 1
        BY <1>9, <4>1
      <4>2. CASE Len(P) # 1
        <5>1. \A m \in 1 .. Len(P) : P[m] # Whole
          BY <1>3, <4>2
        <5> QED BY <1>3, <1>7, <1>9, <2>1, <5>1
      <4> QED BY <4>1, <4>2
    <3> QED BY <1>9, <3>1 DEF FanInv, IdsUnique
  <2>2. f \in Bijection(rows, kinds)
    BY <2>1 DEF Bijection, Injection, Surjection, IsInjective
  <2>3. ExistsBijection(rows, kinds)
    BY <2>2 DEF ExistsBijection
  <2>4. IsFiniteSet(rows)
    BY RowsFinite DEF FanInv, IInv, TypeOK, rows
  <2> QED BY <2>3, <2>4, FS_Bijection
<1>14. ASSUME NEW x \in rows, x.id.proc = Whole
       PROVE x.items = UNION {y.items : y \in PartsAt(q.at)}
  <2> DEFINE parts == {y \in rows : y.id.proc # Whole}
  <2>1. PartsAt(q.at) = IF parts = {} THEN rows ELSE parts
    BY DEF PartsAt, rows
  <2>2. CASE Len(P) = 1
    <3>1. CASE P[1] = Whole
      <4>1. \A y \in rows : y.id.proc = Whole /\ y.items = q.out[1].items
        BY <1>3, <1>9, <2>2, <3>1
      <4>2. PartsAt(q.at) = rows
        BY <2>1, <4>1
      <4> QED BY <4>1, <4>2
    <3>2. CASE P[1] # Whole
      BY <1>9, <1>14, <2>2, <3>2
    <3> QED BY <3>1, <3>2
  <2>3. CASE Len(P) # 1
    <3>1. \A m \in 1 .. Len(P) : P[m] # Whole
      BY <1>3, <2>3
    <3>2. x.items = UnionOf(q.out)
      BY <1>9, <1>14, <3>1
    <3>3. \A y \in parts : \E m \in 1 .. Len(P) : y.items = q.out[m].items
      BY <1>7, <1>9
    <3>4. \A m \in 1 .. Len(P) : \E y \in parts : y.items = q.out[m].items
      BY <1>10, <3>1
    <3>5. UnionOf(q.out) = UNION {y.items : y \in parts}
      BY <1>4, <3>3, <3>4 DEF UnionOf
    <3>6. CASE parts = {}
      <4>1. \A y \in rows : y.items = UnionOf(q.out)
        BY <1>9, <3>1, <3>6
      <4> QED BY <2>1, <3>2, <3>6, <4>1
    <3>7. CASE parts # {}
      BY <2>1, <3>2, <3>5, <3>7
    <3> QED BY <3>6, <3>7
  <2> QED BY <2>2, <2>3
<1> QED BY <1>12, <1>13, <1>14 DEF q, P, rows

\* A run request that answered has stored one row per procedure it found and,
\* unless there is just one, a row of the whole control with the exceptions of
\* all, whatever ran, was renamed or died at the same time.
THEOREM FanOutsComplete == Spec => []FanOutComplete
<1>1. Spec => []FanInv
  BY InitFans, FanNext, PTL DEF Spec
<1> QED BY <1>1, FanCompletes, PTL
----------------------------------------------------------------------------
(* The files *)

\* The rows of PartsAt(t), by their places in a history.
PartPlaces(rows, t) ==
  LET parts == {i \in DOMAIN rows : rows[i].id.at = t /\ rows[i].id.proc # Whole}
  IN IF parts = {} THEN {i \in DOMAIN rows : rows[i].id.at = t} ELSE parts
ItemsIn(rows, t) == UNION {rows[i].items : i \in PartPlaces(rows, t)}

PaperBacked(f, rows) ==
  \A m \in DOMAIN f.sections : \E i \in DOMAIN rows :
    rows[i].id = f.sections[m].id /\ rows[i].items = f.sections[m].items

\* Evidence shows the parts of a request that stores no further part.
EvidenceBacked(e, rows, reqs, now) ==
  /\ e.items = ItemsIn(rows, e.at)
  /\ e.at \in 0 .. now
  /\ \A r \in Requests : reqs[r] # NoRequest /\ reqs[r].at = e.at =>
       reqs[r].step \in {"aggregate"} \cup Ended

FilesBacked ==
  \A c \in Ids :
    /\ \A f \in {papers[c].html, papers[c].md} \ NotWhole : PaperBacked(f, runs)
    /\ papers[c].evidence \notin NotWhole =>
         EvidenceBacked(papers[c].evidence, runs, req, clock)

FileInv == FanInv /\ FilesBacked

LEMMA ItemsOfParts ==
  ASSUME NEW t PROVE UNION {x.items : x \in PartsAt(t)} = ItemsIn(runs, t)
<1> DEFINE parts == {x \in RunsAt(t) : x.id.proc # Whole}
           places == {i \in DOMAIN runs : runs[i].id.at = t /\ runs[i].id.proc # Whole}
<1>1. /\ \A x \in RunsAt(t) : \E i \in DOMAIN runs : x = runs[i] /\ runs[i].id.at = t
      /\ \A i \in DOMAIN runs : runs[i].id.at = t => runs[i] \in RunsAt(t)
  BY DEF RunsAt, RunSet
<1>2. parts = {} <=> places = {}
  BY <1>1
<1>3. /\ \A x \in PartsAt(t) : \E i \in PartPlaces(runs, t) : x = runs[i]
      /\ \A i \in PartPlaces(runs, t) : runs[i] \in PartsAt(t)
  BY <1>1, <1>2 DEF PartsAt, PartPlaces
<1> QED BY <1>3 DEF ItemsIn

\* A request that has made all its sections: its parts show their items.
LEMMA PartsAreSections ==
  ASSUME NEW q \in RequestRec, NEW rows, Fanned(q, rows),
         q.step \in {"evidence", "aggregate", "done"}
  PROVE ItemsIn(rows, q.at) = UnionOf(q.out)
<1> DEFINE P == ProcsOf(q)
           parts == {i \in DOMAIN rows : rows[i].id.at = q.at /\ rows[i].id.proc # Whole}
<1>1. q.ctl \in Control
  BY DEF Fanned
<1>2. /\ Len(P) \in Nat
      /\ IsPipeline(q) => \A m \in 1 .. Len(P) : P[m] # Whole
      /\ ~IsPipeline(q) => Len(P) = 1 /\ P[1] = Whole
  BY <1>1, ProcsDistinct
<1>3. DOMAIN q.out = 1 .. Len(P)
  BY SectionPlaces DEF Fanned, Made, ReadSteps, TestSteps
<1>4. \A i \in DOMAIN rows : rows[i].id.at = q.at =>
        \/ \E m \in 1 .. Len(P) : rows[i].items = q.out[m].items /\ rows[i].id.proc = P[m]
        \/ IsPipeline(q) /\ rows[i].id.proc = Whole /\ rows[i].items = UnionOf(q.out)
  BY <1>3 DEF Fanned, Accounted, SectionStored, Aggregated, AggregateId, RunId
<1>5. \A m \in 1 .. Len(P) : \E i \in DOMAIN rows :
        rows[i].id.at = q.at /\ rows[i].id.proc = P[m] /\ rows[i].items = q.out[m].items
  BY <1>3 DEF Fanned, SectionStored
<1> HIDE DEF P
<1>6. PartPlaces(rows, q.at) = IF parts = {} THEN {i \in DOMAIN rows : rows[i].id.at = q.at}
                                             ELSE parts
  BY DEF PartPlaces
<1>7. CASE ~IsPipeline(q)
  <2>1. \A i \in DOMAIN rows : rows[i].id.at = q.at =>
          rows[i].items = q.out[1].items /\ rows[i].id.proc = Whole
    BY <1>2, <1>4, <1>7
  <2>2. PartPlaces(rows, q.at) = {i \in DOMAIN rows : rows[i].id.at = q.at}
    BY <1>6, <2>1
  <2>3. \E i \in DOMAIN rows : rows[i].id.at = q.at /\ rows[i].items = q.out[1].items
    BY <1>2, <1>5, <1>7
  <2>4. UnionOf(q.out) = q.out[1].items
    BY <1>2, <1>3, <1>7 DEF UnionOf
  <2> QED BY <2>1, <2>2, <2>3, <2>4 DEF ItemsIn
<1>8. CASE IsPipeline(q)
  <2>1. \A m \in 1 .. Len(P) : P[m] # Whole
    BY <1>2, <1>8
  <2>2. \A i \in parts : \E m \in 1 .. Len(P) : rows[i].items = q.out[m].items
    BY <1>4
  <2>3. \A m \in 1 .. Len(P) : \E i \in parts : rows[i].items = q.out[m].items
    BY <1>5, <2>1
  <2>4. UnionOf(q.out) = UNION {rows[i].items : i \in parts}
    <3>1. UnionOf(q.out) = UNION {q.out[m].items : m \in 1 .. Len(P)}
      BY <1>3 DEF UnionOf
    <3> HIDE DEF parts
    <3> QED BY <2>2, <2>3, <3>1
  <2>5. CASE parts = {}
    <3>1. \A i \in PartPlaces(rows, q.at) : rows[i].items = UnionOf(q.out)
      BY <1>4, <1>6, <2>1, <2>5
    <3>2. UnionOf(q.out) = {}
      BY <2>4, <2>5
    <3> QED BY <3>1, <3>2 DEF ItemsIn
  <2>6. CASE parts # {}
    BY <1>6, <2>4, <2>6 DEF ItemsIn
  <2> QED BY <2>5, <2>6
<1> QED BY <1>7, <1>8

\* Rows keep their places, ids and items when a row is added or runs move.
Extends(rows, more) ==
  \A i \in DOMAIN rows :
    i \in DOMAIN more /\ more[i].id = rows[i].id /\ more[i].items = rows[i].items

LEMMA PapersStayBacked ==
  ASSUME NEW f, NEW rows, NEW more, PaperBacked(f, rows), Extends(rows, more)
  PROVE PaperBacked(f, more)
BY DEF PaperBacked, Extends

LEMMA OthersItems ==
  ASSUME NEW rows, NEW more, NEW t, Extends(rows, more),
         \A i \in DOMAIN more : i \in DOMAIN rows \/ more[i].id.at # t
  PROVE ItemsIn(more, t) = ItemsIn(rows, t)
<1>1. PartPlaces(more, t) = PartPlaces(rows, t)
  <2>1. {i \in DOMAIN more : more[i].id.at = t} = {i \in DOMAIN rows : rows[i].id.at = t}
    BY DEF Extends
  <2>2. {i \in DOMAIN more : more[i].id.at = t /\ more[i].id.proc # Whole}
          = {i \in DOMAIN rows : rows[i].id.at = t /\ rows[i].id.proc # Whole}
    BY DEF Extends
  <2> QED BY <2>1, <2>2 DEF PartPlaces
<1>2. \A i \in PartPlaces(rows, t) : more[i].items = rows[i].items
  BY DEF PartPlaces, Extends
<1> QED BY <1>1, <1>2 DEF ItemsIn

----------------------------------------------------------------------------
(* Every step keeps the files backed *)

\* Enough that rows keep their places, that new files are backed, and that
\* evidence stays so.
LEMMA FilesMove ==
  ASSUME FilesBacked, Extends(runs, runs'),
         \A c \in Ids : \A f \in {papers'[c].html, papers'[c].md} :
           f \in {papers[c].html, papers[c].md} \cup NotWhole \/ PaperBacked(f, runs'),
         \A c \in Ids :
           \/ papers'[c].evidence \in {papers[c].evidence} \cup NotWhole
           \/ EvidenceBacked(papers'[c].evidence, runs', req', clock'),
         \A e : EvidenceBacked(e, runs, req, clock) => EvidenceBacked(e, runs', req', clock')
  PROVE FilesBacked'
<1> SUFFICES ASSUME NEW c \in Ids
             PROVE /\ \A f \in {papers'[c].html, papers'[c].md} \ NotWhole :
                        PaperBacked(f, runs')
                   /\ papers'[c].evidence \notin NotWhole =>
                        EvidenceBacked(papers'[c].evidence, runs', req', clock')
  BY DEF FilesBacked
<1>1. ASSUME NEW f \in {papers'[c].html, papers'[c].md} \ NotWhole PROVE PaperBacked(f, runs')
  <2>1. CASE f \in {papers[c].html, papers[c].md}
    <3>1. PaperBacked(f, runs)
      BY <1>1, <2>1 DEF FilesBacked
    <3> QED BY <3>1, PapersStayBacked
  <2> QED BY <1>1, <2>1
<1>2. ASSUME papers'[c].evidence \notin NotWhole
      PROVE EvidenceBacked(papers'[c].evidence, runs', req', clock')
  BY <1>2 DEF FilesBacked
<1> QED BY <1>1, <1>2

LEMMA SameRows == ASSUME UNCHANGED runs PROVE Extends(runs, runs')
BY DEF Extends

\* A request keeps its time, and no other request moves.
LEMMA StepsKeepTimes ==
  ASSUME FanInv, NEW r \in Requests, RunStep(r)
  PROVE /\ req[r] \in RequestRec /\ req'[r].at = req[r].at /\ UNCHANGED clock
        /\ \A s \in Requests \ {r} : req'[s] = req[s]
<1>1. req[r] \in RequestRec
  <2>1. CASE LoadProject(r) \/ LoadPipeline(r) \/ CollectSamples(r)
    BY <2>1, ActiveFans DEF LoadProject, LoadPipeline, CollectSamples, Steps
  <2>2. CASE LoadCheck(r) \/ HashCheck(r) \/ InsertProcRun(r)
    BY <2>2, ActiveFans DEF LoadCheck, HashCheck, InsertProcRun, Steps
  <2>3. CASE AggregateRun(r)
    BY <2>3, ActiveFans DEF AggregateRun, Steps
  <2>4. CASE FileAct(r)
    BY <2>4, FileActs DEF FanInv
  <2> QED BY <2>1, <2>2, <2>3, <2>4 DEF RunStep, FileAct
<1>2. req \in [Requests -> RequestRec \cup {NoRequest}]
  BY DEF FanInv, IInv, TypeOK
<1>3. ASSUME NEW l, Goto(r, l)
      PROVE req'[r].at = req[r].at /\ \A s \in Requests \ {r} : req'[s] = req[s]
  BY <1>1, <1>2, <1>3 DEF Goto, RequestRec
<1>4. CASE LoadProject(r) \/ LoadPipeline(r) \/ CollectSamples(r)
  BY <1>1, <1>2, <1>3, <1>4 DEF LoadProject, LoadPipeline, CollectSamples, Fail, RequestRec
<1>5. CASE LoadCheck(r) \/ HashCheck(r)
  BY <1>1, <1>2, <1>3, <1>5 DEF LoadCheck, HashCheck, Fail, RequestRec
<1>6. CASE InsertProcRun(r)
  BY <1>1, <1>2, <1>3, <1>6 DEF InsertProcRun, Fail, RequestRec
<1>7. CASE FileAct(r)
  <2>1. PICK k \in After, b \in BOOLEAN : req' = [req EXCEPT ![r].step = k, ![r].open = b]
        /\ UNCHANGED clock
    BY <1>7, FileActs DEF FanInv
  <2> QED BY <1>1, <1>2, <2>1 DEF RequestRec
<1>8. CASE AggregateRun(r)
  BY <1>1, <1>3, <1>8 DEF AggregateRun, Fail
<1> QED BY <1>4, <1>5, <1>6, <1>7, <1>8 DEF RunStep, FileAct

\* Evidence stays backed while the parts it shows stay as they are.
LEMMA EvidenceStays ==
  ASSUME FanInv, NEW r \in Requests, RunStep(r), NEW e, EvidenceBacked(e, runs, req, clock),
         req[r].at = e.at => req'[r].step \in {"aggregate"} \cup Ended,
         ItemsIn(runs', e.at) = ItemsIn(runs, e.at)
  PROVE EvidenceBacked(e, runs', req', clock')
<1>1. /\ req[r] # NoRequest /\ req'[r].at = req[r].at /\ UNCHANGED clock
      /\ \A s \in Requests \ {r} : req'[s] = req[s]
  BY StepsKeepTimes, NoRequestIsNone
<1> QED BY <1>1 DEF EvidenceBacked

\* A request that is not past its evidence has none on disk.
LEMMA NoEvidenceYet ==
  ASSUME FanInv, NEW r \in Requests, NEW l \in Steps \ {"aggregate"}, At(r, l),
         NEW e, EvidenceBacked(e, runs, req, clock)
  PROVE req[r].at # e.at
BY DEF EvidenceBacked, At, NoRequest, Steps, Ended

LEMMA ReadFiles ==
  ASSUME FileInv, NEW r \in Requests,
         \/ LoadProject(r) \/ LoadPipeline(r) \/ CollectSamples(r)
         \/ LoadCheck(r) \/ HashCheck(r)
  PROVE FilesBacked'
<1>1. RunStep(r) /\ UNCHANGED <<runs, papers>>
  BY DEF RunStep, LoadProject, LoadPipeline, CollectSamples, LoadCheck, HashCheck
<1>2. PICK l \in Steps \ {"aggregate"} : At(r, l)
  BY DEF LoadProject, LoadPipeline, CollectSamples, LoadCheck, HashCheck, Steps
<1>3. \A e : EvidenceBacked(e, runs, req, clock) => EvidenceBacked(e, runs', req', clock')
  BY <1>1, <1>2, NoEvidenceYet, EvidenceStays DEF FileInv
<1> QED BY <1>1, <1>3, SameRows, FilesMove DEF FileInv

LEMMA InsertFiles ==
  ASSUME FileInv, NEW r \in Requests, InsertProcRun(r) PROVE FilesBacked'
<1>1. At(r, "insert") /\ "insert" \in Steps \ {"aggregate"} /\ RunStep(r) /\ UNCHANGED papers
  BY DEF InsertProcRun, RunStep, Steps
<1>2. CASE UNCHANGED runs
  <2>1. \A e : EvidenceBacked(e, runs, req, clock) => EvidenceBacked(e, runs', req', clock')
    BY <1>1, <1>2, NoEvidenceYet, EvidenceStays DEF FileInv
  <2> QED BY <1>1, <1>2, <2>1, SameRows, FilesMove DEF FileInv
<1>3. CASE ~UNCHANGED runs
  <2>1. PICK x \in Run : x.id.at = req[r].at /\ runs' = Append(runs, x)
    BY <1>3, InsertFans DEF FileInv, AddsRow
  <2>2. Extends(runs, runs') /\ \A i \in DOMAIN runs' :
          i \in DOMAIN runs \/ runs'[i].id.at = req[r].at
    BY <2>1, AppendRow DEF FileInv, FanInv, IInv, TypeOK, Extends
  <2>3. ASSUME NEW e, EvidenceBacked(e, runs, req, clock)
        PROVE EvidenceBacked(e, runs', req', clock')
    <3>1. req[r].at # e.at
      BY <1>1, <2>3, NoEvidenceYet DEF FileInv
    <3>2. ItemsIn(runs', e.at) = ItemsIn(runs, e.at)
      BY <2>2, <3>1, OthersItems
    <3> QED BY <1>1, <2>3, <3>1, <3>2, EvidenceStays DEF FileInv
  <2> QED BY <1>1, <2>2, <2>3, FilesMove DEF FileInv
<1> QED BY <1>2, <1>3

LEMMA AggregateFiles ==
  ASSUME FileInv, NEW r \in Requests, AggregateRun(r) PROVE FilesBacked'
<1>1. At(r, "aggregate") /\ "aggregate" \in Steps /\ RunStep(r) /\ UNCHANGED papers
  BY DEF AggregateRun, RunStep, Steps
<1>2. req'[r].step \in Ended
  <2>1. req \in [Requests -> RequestRec \cup {NoRequest}] /\ req[r] \in RequestRec
    BY <1>1, StepsKeepTimes DEF FileInv, FanInv, IInv, TypeOK
  <2> QED BY <2>1 DEF AggregateRun, Fail, Goto, Ended, RequestRec
<1>3. CASE UNCHANGED runs
  <2>1. \A e : EvidenceBacked(e, runs, req, clock) => EvidenceBacked(e, runs', req', clock')
    BY <1>1, <1>2, <1>3, EvidenceStays DEF FileInv
  <2> QED BY <1>1, <1>3, <2>1, SameRows, FilesMove DEF FileInv
<1>4. CASE ~UNCHANGED runs
  <2>1. PICK x \in Run : x.id.at = req[r].at /\ runs' = Append(runs, x)
    BY <1>4, AggregateFans DEF FileInv, AddsRow
  <2>2. Extends(runs, runs') /\ \A i \in DOMAIN runs' :
          i \in DOMAIN runs \/ runs'[i].id.at = req[r].at
    BY <2>1, AppendRow DEF FileInv, FanInv, IInv, TypeOK, Extends
  <2>3. ItemsIn(runs', req[r].at) = ItemsIn(runs, req[r].at)
    <3>1. req[r] \in RequestRec /\ req[r].step = "aggregate" /\ Fanned(req[r], runs)
      BY <1>1, ActiveFans DEF FileInv
    <3>2. req' = [req EXCEPT ![r].step = "done"] /\ req[r] \in RequestRec
      BY <1>4, <3>1 DEF AggregateRun, Fail, Goto
    <3>3. /\ req'[r] \in RequestRec /\ req'[r].step = "done"
          /\ req'[r].at = req[r].at /\ req'[r].out = req[r].out
      BY <3>2 DEF FileInv, FanInv, IInv, TypeOK, RequestRec, Ended
    <3>4. Fanned(req'[r], runs')
      BY <3>3, AggregateFans DEF FileInv, FansKept, Fans
    <3>5. /\ ItemsIn(runs, req[r].at) = UnionOf(req[r].out)
          /\ ItemsIn(runs', req'[r].at) = UnionOf(req'[r].out)
      BY <3>1, <3>3, <3>4, PartsAreSections
    <3> QED BY <3>3, <3>5
  <2>4. ASSUME NEW e, EvidenceBacked(e, runs, req, clock)
        PROVE EvidenceBacked(e, runs', req', clock')
    <3>1. ItemsIn(runs', e.at) = ItemsIn(runs, e.at)
      BY <2>2, <2>3, OthersItems
    <3> QED BY <1>1, <1>2, <2>4, <3>1, EvidenceStays DEF FileInv
  <2> QED BY <1>1, <2>2, <2>4, FilesMove DEF FileInv
<1> QED BY <1>3, <1>4

\* A workpaper shows the sections, whose rows are stored.
LEMMA WrittenPaper ==
  ASSUME FanInv, NEW r \in Requests, At(r, "html") \/ At(r, "md")
  PROVE PaperBacked(Workpaper(req[r]), runs)
<1>1. Fanned(req[r], runs)
  BY ActiveFans DEF Steps
<1> QED BY <1>1 DEF Fanned, SectionStored, Workpaper, PaperBacked

\* The evidence shows the parts of its request, which stores no other.
LEMMA WrittenEvidence ==
  ASSUME FanInv, NEW r \in Requests, At(r, "evidence"), RunStep(r), UNCHANGED runs,
         req'[r].step \in {"aggregate"} \cup Ended
  PROVE EvidenceBacked(EvidenceOf(req[r]), runs', req', clock')
<1> DEFINE e == EvidenceOf(req[r])
<1>1. /\ req[r] \in RequestRec /\ req[r].step = "evidence" /\ Fanned(req[r], runs)
      /\ req \in [Requests -> RequestRec \cup {NoRequest}]
  BY ActiveFans DEF FanInv, IInv, TypeOK, Steps
<1>2. e.at = req[r].at /\ e.items = ItemsIn(runs', e.at)
  BY <1>1, PartsAreSections DEF EvidenceOf, EvidenceItems
<1> HIDE DEF e
<1>3. /\ req'[r].at = req[r].at /\ clock' = clock
      /\ \A s \in Requests \ {r} : req'[s] = req[s]
  BY StepsKeepTimes
<1>4. /\ req[r] # NoRequest /\ req[r].at \in 0 .. clock
      /\ \A s \in Requests \ {r} : req[s] # NoRequest => req[s].at # req[r].at
  BY <1>1, NoRequestIsNone DEF FanInv, IInv, TypeOK, Timed, RequestRec
<1>5. EvidenceBacked(e, runs', req', clock')
  BY <1>2, <1>3, <1>4 DEF EvidenceBacked
<1> QED BY <1>5 DEF e

\* What a request opens or writes is not whole, or it is backed.
LEMMA FileActFiles ==
  ASSUME FileInv, NEW r \in Requests, FileAct(r) PROVE FilesBacked'
<1>1. PICK l \in Files, k \in After, b \in BOOLEAN :
        /\ At(r, l) /\ l \in Steps /\ req[r] \in RequestRec
        /\ \E v \in Outcomes(req[r], l) : papers' = [papers EXCEPT ![req[r].id][l] = v]
        /\ req' = [req EXCEPT ![r].step = k, ![r].open = b]
        /\ l = "evidence" /\ ~b => k \in {"aggregate", "done"}
        /\ UNCHANGED runs
  BY FileActs DEF FileInv, FanInv
<1>2. PICK v \in Outcomes(req[r], l) : papers' = [papers EXCEPT ![req[r].id][l] = v]
  BY <1>1
<1>3. l \in Steps \ {"aggregate"} /\ RunStep(r)
  BY <1>1 DEF Files, RunStep, FileAct
<1>4. \A e : EvidenceBacked(e, runs, req, clock) => EvidenceBacked(e, runs', req', clock')
  BY <1>1, <1>3, NoEvidenceYet, EvidenceStays DEF FileInv
<1>5. papers \in PaperTable /\ req[r].id \in Ids /\ req[r].open \in BOOLEAN
      /\ req \in [Requests -> RequestRec \cup {NoRequest}]
  BY <1>1 DEF FileInv, FanInv, IInv, TypeOK, PaperTable, RequestRec
<1>6. l # "evidence" => v \in NotWhole \/ PaperBacked(v, runs')
  BY <1>1, <1>2, WrittenPaper DEF Outcomes, NotWhole, FileInv, Files
<1>7. l = "evidence" => v \in NotWhole \/ EvidenceBacked(v, runs', req', clock')
  <2> SUFFICES ASSUME l = "evidence", v = EvidenceOf(req[r])
               PROVE v \in NotWhole \/ EvidenceBacked(v, runs', req', clock')
    BY <1>2 DEF Outcomes, NotWhole
  <2>1. CASE OpenFile(r)
    <3>1. papers' = [papers EXCEPT ![req[r].id][l] = Torn]
      BY <1>1, <2>1 DEF OpenFile, At
    <3>2. papers'[req[r].id].evidence = Torn /\ papers'[req[r].id].evidence = v
      BY <1>2, <1>5, <3>1, PaperField
    <3> QED BY <3>2 DEF NotWhole
  <2>2. CASE WriteEvidence(r)
    <3>1. req'[r].step \in {"aggregate", "done"}
      BY <1>1, <1>5, <2>2 DEF WriteEvidence, WriteFile, RequestRec
    <3> QED BY <1>1, <1>3, <3>1, WrittenEvidence DEF FileInv, Ended
  <2> QED BY <1>1, <2>1, <2>2 DEF FileAct, WriteHtml, WriteMarkdown, At
<1>8. ASSUME NEW c \in Ids
      PROVE /\ \A f \in {papers'[c].html, papers'[c].md} :
                 f \in {papers[c].html, papers[c].md} \cup NotWhole \/ PaperBacked(f, runs')
            /\ \/ papers'[c].evidence \in {papers[c].evidence} \cup NotWhole
               \/ EvidenceBacked(papers'[c].evidence, runs', req', clock')
  <2>1. CASE c = req[r].id
    BY <1>2, <1>5, <1>6, <1>7, <2>1, PaperField
  <2>2. CASE c # req[r].id
    <3>1. papers'[c] = papers[c]
      BY <1>2, <1>5, <2>2, PaperField
    <3> QED BY <3>1
  <2> QED BY <2>1, <2>2
<1> QED BY <1>1, <1>4, <1>8, SameRows, FilesMove DEF FileInv

LEMMA StartFiles ==
  ASSUME FileInv, NEW r \in Requests, NEW c \in Ids, StartRun(r, c) PROVE FilesBacked'
<1>1. /\ req \in [Requests -> RequestRec \cup {NoRequest}] /\ clock \in Nat
      /\ UNCHANGED <<runs, papers>> /\ clock' = clock + 1
  BY DEF FileInv, FanInv, IInv, TypeOK, StartRun
<1>2. req'[r].at = clock + 1 /\ \A s \in Requests \ {r} : req'[s] = req[s]
  BY <1>1 DEF StartRun
<1>3. ASSUME NEW e, EvidenceBacked(e, runs, req, clock)
      PROVE EvidenceBacked(e, runs', req', clock')
  BY <1>1, <1>2, <1>3 DEF EvidenceBacked
<1> QED BY <1>1, <1>3, SameRows, FilesMove DEF FileInv

\* A rename moves the papers' rows to another owner, not their ids or items.
LEMMA RenameFiles ==
  ASSUME FileInv, NEW c \in Ids, NEW d \in Ids, RenameControl(c, d) PROVE FilesBacked'
<1>1. UNCHANGED <<papers, req, clock>> /\ runs' = MoveRuns(runs, c, d)
  BY DEF RenameControl
<1>2. \A i \in DOMAIN runs : runs[i] \in Run
  BY LenProperties, ElementOfSeq DEF FileInv, FanInv, IInv, TypeOK
<1>3. DOMAIN runs' = DOMAIN runs /\ Extends(runs, runs')
  BY <1>1, <1>2 DEF MoveRuns, Run, Extends
<1>4. \A t : ItemsIn(runs', t) = ItemsIn(runs, t)
  BY <1>3, OthersItems
<1>5. \A e : EvidenceBacked(e, runs, req, clock) => EvidenceBacked(e, runs', req', clock')
  BY <1>1, <1>4 DEF EvidenceBacked
<1> QED BY <1>1, <1>3, <1>5, FilesMove DEF FileInv

\* A death takes at most a file that was being written.
LEMMA CrashFiles == ASSUME FileInv, Crash PROVE FilesBacked'
<1>1. /\ req' = [r \in Requests |-> IF Running(r) THEN [req[r] EXCEPT !.step = "dead"] ELSE req[r]]
      /\ UNCHANGED <<runs, clock>>
  BY DEF Crash
<1>2. req \in [Requests -> RequestRec \cup {NoRequest}]
      /\ papers \in [Ids -> [html : Papers, md : Papers, evidence : Evidence]]
  BY DEF FileInv, FanInv, IInv, TypeOK
<1>3. ASSUME NEW e, EvidenceBacked(e, runs, req, clock)
      PROVE EvidenceBacked(e, runs', req', clock')
  <2>1. ASSUME NEW r \in Requests, req'[r] # NoRequest, req'[r].at = e.at
        PROVE req'[r].step \in {"aggregate"} \cup Ended
    <3>1. CASE Running(r)
      <4>1. req[r] \in RequestRec
        BY <1>2, <3>1 DEF Running, NoRequest, Steps
      <4> QED BY <1>1, <3>1, <4>1 DEF RequestRec, Ended
    <3>2. CASE ~Running(r)
      BY <1>1, <1>3, <2>1, <3>2 DEF EvidenceBacked
    <3> QED BY <3>1, <3>2
  <2> QED BY <1>1, <1>3, <2>1 DEF EvidenceBacked
<1>4. ASSUME NEW c \in Ids
      PROVE /\ papers'[c].html \in {papers[c].html, Mixed}
            /\ papers'[c].md \in {papers[c].md, Mixed}
            /\ papers'[c].evidence \in {papers[c].evidence, Mixed}
  <2>1. CASE UNCHANGED papers
    BY <2>1
  <2>2. ASSUME NEW r \in Requests, TornWrite(r)
        PROVE /\ papers'[c].html \in {papers[c].html, Mixed}
              /\ papers'[c].md \in {papers[c].md, Mixed}
              /\ papers'[c].evidence \in {papers[c].evidence, Mixed}
    <3>1. /\ papers' = [papers EXCEPT ![req[r].id][req[r].step] = Mixed]
          /\ req[r].step \in Files /\ req[r].id \in Ids /\ papers \in PaperTable
      <4>1. req[r] \in RequestRec
        BY <1>2, <2>2 DEF TornWrite, Files, NoRequest
      <4> QED BY <1>2, <2>2, <4>1 DEF TornWrite, RequestRec, PaperTable
    <3>2. CASE c = req[r].id
      BY <3>1, <3>2, PaperField
    <3>3. CASE c # req[r].id
      <4>1. papers'[c] = papers[c]
        BY <3>1, <3>3, PaperField
      <4> QED BY <4>1
    <3> QED BY <3>2, <3>3
  <2> QED BY <2>1, <2>2 DEF Crash
<1> QED BY <1>1, <1>3, <1>4, SameRows, FilesMove DEF FileInv, NotWhole

LEMMA UntouchedFiles ==
  ASSUME FileInv, UNCHANGED <<papers, req, runs, clock>> PROVE FilesBacked'
BY DEF FileInv, FilesBacked

LEMMA FileNext == FileInv /\ [Next]_vars => FileInv'
<1> SUFFICES ASSUME FileInv, [Next]_vars PROVE FilesBacked'
  BY FanNext DEF FileInv
<1>1. ASSUME NEW r \in Requests, RunStep(r) PROVE FilesBacked'
  BY <1>1, ReadFiles, InsertFiles, FileActFiles, AggregateFiles DEF RunStep, FileAct
<1>2. ASSUME NEW r \in Requests, NEW c \in Ids, StartRun(r, c) PROVE FilesBacked'
  BY <1>2, StartFiles
<1>3. ASSUME NEW c \in Ids, NEW d \in Ids, RenameControl(c, d) PROVE FilesBacked'
  BY <1>3, RenameFiles
<1>4. CASE \/ \E c \in Ids, row \in Rows : SaveControl(c, row)
           \/ \E v \in Contents : ReplaceData(v)
           \/ Quiet \/ UNCHANGED vars
  BY <1>4, UntouchedFiles DEF SaveControl, ReplaceData, Quiet, vars
<1>5. CASE Crash
  BY <1>5, CrashFiles
<1> QED BY <1>1, <1>2, <1>3, <1>4, <1>5 DEF Next, Editor

LEMMA InitFiles == Init => FileInv
<1> SUFFICES ASSUME Init PROVE FilesBacked
  BY InitFans DEF FileInv
<1>1. \A c \in Ids : /\ papers[c].html = NoPaper /\ papers[c].md = NoPaper
                     /\ papers[c].evidence = NoPaper
  BY DEF Init
<1> QED BY <1>1 DEF FilesBacked, NotWhole

LEMMA BackedFiles == FileInv => DeliverablesBacked
<1> SUFFICES ASSUME FileInv, NEW c \in Ids
    PROVE /\ \A f \in {papers[c].html, papers[c].md} \ NotWhole :
               \A i \in DOMAIN f.sections : \E x \in RunSet :
                 x.id = f.sections[i].id /\ x.items = f.sections[i].items
          /\ papers[c].evidence \notin NotWhole =>
               papers[c].evidence.items =
                 UNION {x.items : x \in PartsAt(papers[c].evidence.at)}
  BY DEF DeliverablesBacked
<1>1. \A f \in {papers[c].html, papers[c].md} \ NotWhole : PaperBacked(f, runs)
  BY DEF FileInv, FilesBacked
<1>2. papers[c].evidence \notin NotWhole =>
        papers[c].evidence.items = ItemsIn(runs, papers[c].evidence.at)
  BY DEF FileInv, FilesBacked, EvidenceBacked
<1> QED BY <1>1, <1>2, ItemsOfParts DEF PaperBacked, RunSet

\* Every section of a workpaper that is whole is a stored run, and evidence that
\* is whole shows the exceptions of the stored parts of its request, whatever
\* wrote the same file, ran, was edited, renamed or died at the same time.
THEOREM FilesAreBacked == Spec => []DeliverablesBacked
<1>1. Spec => []FileInv
  BY InitFiles, FileNext, PTL DEF Spec
<1> QED BY <1>1, BackedFiles, PTL
----------------------------------------------------------------------------
(* The files of one control *)

Agree(p) ==
  /\ p.html = p.md
  /\ p.html = NoPaper <=> p.evidence = NoPaper
  /\ p.html # NoPaper =>
       /\ p.html \notin NotWhole /\ p.evidence \notin NotWhole
       /\ p.html.at = p.evidence.at

\* What the only writer q of the files f of a control has written so far.
Written(q, f) ==
  /\ q.step \in {"md", "evidence"} => f.html = Workpaper(q)
  /\ q.step = "evidence" => f.md = Workpaper(q)
  /\ q.open => f[q.step] = Torn

\* Where no two requests write at once there is one writer, which has written
\* what is there; the files of every writer are in doubt, and no others.
Writers(q, p, doubtful, joint) ==
  /\ \A r \in Requests : q[r].step \in Steps \ Files => ~q[r].open
  /\ \A r \in Requests : Writing(q[r]) => q[r].id \in doubtful
  /\ \A r, s \in Requests :
       Writing(q[r]) /\ Writing(q[s]) /\ q[r].id = q[s].id /\ q[r].id \notin joint => r = s
  /\ \A r \in Requests : Writing(q[r]) /\ q[r].id \notin joint => Written(q[r], p[q[r].id])
  /\ \A c \in Ids \ doubtful : Agree(p[c])

WriteInv == FanInv /\ Writers(req, papers, unsettled, shared)
WritersKept == Writers(req', papers', unsettled', shared')

LEMMA NoneWrites == ~Writing(NoRequest)
BY DEF Writing, NoRequest

\* A step that writes no file.
LEMMA QuietWriters ==
  ASSUME WriteInv, NEW r \in Requests, \A s \in Requests \ {r} : req'[s] = req[s],
         ~Writing(req'[r]), req'[r].step \in Steps \ Files => ~req'[r].open,
         UNCHANGED <<papers, unsettled, shared>>
  PROVE WritersKept
BY DEF WriteInv, Writers, WritersKept

\* A step on the files of the request's control: those of the others are as they
\* were, and those of this one are in doubt or agree.
LEMMA MovesWriter ==
  ASSUME WriteInv, NEW r \in Requests, NEW c \in Ids, req[r].id = c, req'[r].id = c,
         \A s \in Requests \ {r} : req'[s] = req[s],
         \A d \in Ids \ {c} : papers'[d] = papers[d],
         \A d \in Ids \ {c} : d \in shared' <=> d \in shared,
         \A d \in Ids \ {c} : d \in unsettled' <=> d \in unsettled,
         \A s \in Requests : req[s] # NoRequest => req[s].id \in Ids,
         req'[r].step \in Steps \ Files => ~req'[r].open,
         \A s \in Requests : Writing(req'[s]) /\ req'[s].id = c => c \in unsettled',
         c \notin shared' => \A s \in Requests : Writing(req'[s]) /\ req'[s].id = c => s = r,
         c \notin shared' /\ Writing(req'[r]) => Written(req'[r], papers'[c]),
         c \in unsettled' \/ Agree(papers'[c])
  PROVE WritersKept
<1>1. \A s \in Requests : Writing(req'[s]) => req'[s].id \in Ids
  BY NoneWrites
<1>2. \A s \in Requests : req'[s].step \in Steps \ Files => ~req'[s].open
  BY DEF WriteInv, Writers
<1>3. \A s \in Requests : Writing(req'[s]) => req'[s].id \in unsettled'
  BY <1>1 DEF WriteInv, Writers
<1>4. \A s, t \in Requests :
        Writing(req'[s]) /\ Writing(req'[t]) /\ req'[s].id = req'[t].id
          /\ req'[s].id \notin shared' => s = t
  BY <1>1 DEF WriteInv, Writers
<1>5. \A s \in Requests :
        Writing(req'[s]) /\ req'[s].id \notin shared' => Written(req'[s], papers'[req'[s].id])
  BY <1>1 DEF WriteInv, Writers
<1>6. \A d \in Ids \ unsettled' : Agree(papers'[d])
  BY DEF WriteInv, Writers
<1> QED BY <1>2, <1>3, <1>4, <1>5, <1>6 DEF WritersKept, Writers

\* What a step at a file starts from.
LEMMA FileWriter ==
  ASSUME WriteInv, NEW r \in Requests, FileAct(r)
  PROVE /\ req[r] \in RequestRec /\ req[r].id \in Ids /\ req[r].step \in Files
        /\ req[r].ctl \in Control /\ papers \in PaperTable
        /\ req \in [Requests -> RequestRec \cup {NoRequest}]
        /\ \A s \in Requests \ {r} : req'[s] = req[s]
        /\ \A s \in Requests : req[s] # NoRequest => req[s].id \in Ids
        /\ unsettled \subseteq Ids /\ shared \subseteq Ids
<1>1. req[r] \in RequestRec /\ req[r].step \in Files /\ req[r].ctl \in Control
  BY FileActs DEF WriteInv, FanInv
<1>2. \A s \in Requests \ {r} : req'[s] = req[s]
  BY StepsKeepTimes DEF WriteInv, RunStep, FileAct
<1> QED BY <1>1, <1>2 DEF WriteInv, FanInv, IInv, TypeOK, PaperTable, RequestRec

LEMMA OpenWriters ==
  ASSUME WriteInv, NEW r \in Requests, OpenFile(r) PROVE WritersKept
<1> DEFINE q == req[r]
           c == q.id
<1>1. /\ q \in RequestRec /\ c \in Ids /\ q.step \in Files
      /\ papers \in PaperTable /\ req \in [Requests -> RequestRec \cup {NoRequest}]
      /\ \A s \in Requests \ {r} : req'[s] = req[s]
      /\ \A s \in Requests : req[s] # NoRequest => req[s].id \in Ids
  BY FileWriter DEF FileAct
<1>2. /\ req' = [req EXCEPT ![r].open = TRUE]
      /\ papers' = [papers EXCEPT ![c][q.step] = Torn]
      /\ unsettled' = unsettled \cup {c} /\ ~q.open
  BY DEF OpenFile
<1>3. /\ req'[r].id = c /\ req'[r].step = q.step /\ req'[r].open
      /\ Workpaper(req'[r]) = Workpaper(q)
  BY <1>1, <1>2 DEF RequestRec, Workpaper
<1>4. /\ papers'[c].html = (IF q.step = "html" THEN Torn ELSE papers[c].html)
      /\ papers'[c].md = (IF q.step = "md" THEN Torn ELSE papers[c].md)
      /\ papers'[c].evidence = (IF q.step = "evidence" THEN Torn ELSE papers[c].evidence)
      /\ \A d \in Ids \ {c} : papers'[d] = papers[d]
  BY <1>1, <1>2, PaperField
<1>5. \A d \in Ids \ {c} : d \in shared' <=> d \in shared
  BY DEF OpenFile
<1>6. ASSUME c \notin shared'
      PROVE \A s \in Requests : Writing(req'[s]) /\ req'[s].id = c => s = r
  <2>1. CASE q.step = "html"
    <3>1. \A x \in Others(r) : ~Writing(req[x])
      BY <1>6, <2>1 DEF OpenFile, At
    <3>2. ASSUME NEW s \in Requests \ {r}, Writing(req'[s]), req'[s].id = c PROVE s \in Others(r)
      BY <1>1, <3>2 DEF Others, Writing
    <3> QED BY <1>1, <3>1, <3>2
  <2>2. CASE q.step # "html"
    <3>1. c \notin shared /\ Writing(q)
      BY <1>1, <1>6, <2>2 DEF OpenFile, At, Writing, Files
    <3>2. \A s \in Requests \ {r} : Writing(req[s]) /\ req[s].id = c => FALSE
      BY <3>1 DEF WriteInv, Writers
    <3> QED BY <1>1, <3>2
  <2> QED BY <2>1, <2>2
<1>7. ASSUME c \notin shared' PROVE Written(req'[r], papers'[c])
  <2>1. q.step # "html" => Written(q, papers[c])
    BY <1>1, <1>7 DEF OpenFile, At, Writing, Files, WriteInv, Writers
  <2>2. papers'[c][q.step] = Torn
    BY <1>1, <1>4 DEF Files
  <2>3. papers'[c].html = papers[c].html \/ q.step = "html"
    BY <1>4
  <2>4. papers'[c].md = papers[c].md \/ q.step # "evidence"
    BY <1>4
  <2> QED BY <1>1, <1>3, <2>1, <2>2, <2>3, <2>4 DEF Written, Files
<1>8. req'[r].step \in Steps \ Files => ~req'[r].open
  BY <1>1, <1>3
<1> QED BY <1>1, <1>2, <1>3, <1>4, <1>5, <1>6, <1>7, <1>8, MovesWriter

\* The only writer of a file it has open writes it whole.
LEMMA AloneWritten ==
  ASSUME WriteInv, NEW r \in Requests, FileAct(r), req[r].open, req[r].id \notin shared,
         NEW new
  PROVE /\ Writing(req[r]) /\ Written(req[r], papers[req[r].id])
        /\ \A s \in Requests \ {r} : ~(Writing(req[s]) /\ req[s].id = req[r].id)
        /\ Result(r, new) = {new}
<1>1. req[r].step \in Files
  BY FileWriter
<1>2. Writing(req[r])
  BY <1>1 DEF Writing, Files
<1>3. \A s \in Requests \ {r} : ~(Writing(req[s]) /\ req[s].id = req[r].id)
  BY <1>2 DEF WriteInv, Writers
<1>4. Written(req[r], papers[req[r].id])
  BY <1>2 DEF WriteInv, Writers
<1>5. papers[req[r].id][req[r].step] = Torn
  BY <1>4 DEF Written
<1>6. \A x \in Others(r) : ~(req[x].step = req[r].step /\ req[x].open)
  BY <1>1, <1>3 DEF Others, Writing, Files
<1> QED BY <1>2, <1>3, <1>4, <1>5, <1>6 DEF Result

LEMMA PaperWriters ==
  ASSUME WriteInv, NEW r \in Requests, WriteHtml(r) \/ WriteMarkdown(r) PROVE WritersKept
<1> DEFINE q == req[r]
           c == q.id
           l == q.step
           k == IF l = "html" THEN "md" ELSE "evidence"
<1>1. /\ q \in RequestRec /\ c \in Ids
      /\ papers \in PaperTable /\ req \in [Requests -> RequestRec \cup {NoRequest}]
      /\ \A s \in Requests \ {r} : req'[s] = req[s]
      /\ \A s \in Requests : req[s] # NoRequest => req[s].id \in Ids
  BY FileWriter DEF FileAct
<1>2. /\ l \in {"html", "md"} /\ q.open
      /\ \E f \in Result(r, Workpaper(q)) : papers' = [papers EXCEPT ![c][l] = f]
      /\ req' = [req EXCEPT ![r].step = k, ![r].open = FALSE]
      /\ UNCHANGED <<unsettled, shared>>
  BY DEF WriteHtml, WriteMarkdown, WriteFile, At
<1>3. PICK f \in Result(r, Workpaper(q)) : papers' = [papers EXCEPT ![c][l] = f]
  BY <1>2
<1>4. /\ req'[r].id = c /\ req'[r].step = k /\ ~req'[r].open
      /\ Workpaper(req'[r]) = Workpaper(q)
  BY <1>1, <1>2 DEF RequestRec, Workpaper
<1>5. /\ papers'[c].html = (IF l = "html" THEN f ELSE papers[c].html)
      /\ papers'[c].md = (IF l = "md" THEN f ELSE papers[c].md)
      /\ \A d \in Ids \ {c} : papers'[d] = papers[d]
  <2>1. l \in Files /\ l # "evidence"
    BY <1>2 DEF Files
  <2>2. l = "md" \/ l = "html"
    BY <1>2
  <2> HIDE DEF l, c
  <2>3. c \in Ids /\ papers' = [papers EXCEPT ![c][l] = f]
    BY <1>1, <1>3
  <2>4. /\ papers'[c].html = (IF l = "html" THEN f ELSE papers[c].html)
        /\ papers'[c].md = (IF l = "md" THEN f ELSE papers[c].md)
        /\ papers'[c].evidence = (IF l = "evidence" THEN f ELSE papers[c].evidence)
        /\ \A d \in Ids \ {c} : papers'[d] = papers[d]
    <3>1. papers \in PaperTable
      BY <1>1
    <3> QED BY <2>1, <2>3, <3>1, PaperField
  <2> QED BY <2>4
<1>6. ASSUME c \notin shared
      PROVE /\ Written(req'[r], papers'[c])
            /\ \A s \in Requests : Writing(req'[s]) /\ req'[s].id = c => s = r
  <2>1. /\ Written(q, papers[c]) /\ Result(r, Workpaper(q)) = {Workpaper(q)}
        /\ \A s \in Requests \ {r} : ~(Writing(req[s]) /\ req[s].id = c)
    BY <1>2, <1>6, AloneWritten DEF FileAct
  <2>2. f = Workpaper(q)
    BY <1>3, <2>1
  <2> HIDE DEF k
  <2>3. Written(req'[r], papers'[c])
    <3>1. CASE l = "html"
      BY <1>4, <1>5, <2>2, <3>1 DEF Written, k
    <3>2. CASE l = "md"
      BY <1>4, <1>5, <2>1, <2>2, <3>2 DEF Written, k
    <3> QED BY <1>2, <3>1, <3>2
  <2> QED BY <1>1, <2>1, <2>3
<1>7. c \in unsettled
  BY <1>2 DEF WriteInv, Writers, Writing
<1>8. req'[r].step \in Steps \ Files => ~req'[r].open
  BY <1>4
<1> QED BY <1>1, <1>2, <1>4, <1>5, <1>6, <1>7, <1>8, MovesWriter

LEMMA EvidenceWriters ==
  ASSUME WriteInv, NEW r \in Requests, WriteEvidence(r) PROVE WritersKept
<1> DEFINE q == req[r]
           c == q.id
           k == IF IsPipeline(q) THEN "aggregate" ELSE "done"
           e == EvidenceOf(q)
<1>1. /\ q \in RequestRec /\ c \in Ids /\ q.ctl \in Control
      /\ papers \in PaperTable /\ req \in [Requests -> RequestRec \cup {NoRequest}]
      /\ \A s \in Requests \ {r} : req'[s] = req[s]
      /\ \A s \in Requests : req[s] # NoRequest => req[s].id \in Ids
  BY FileWriter DEF FileAct
<1>2. /\ q.step = "evidence" /\ q.open
      /\ \E f \in Result(r, e) : papers' = [papers EXCEPT ![c]["evidence"] = f]
      /\ req' = [req EXCEPT ![r].step = k, ![r].open = FALSE]
      /\ unsettled' = (IF c \in shared THEN unsettled ELSE unsettled \ {c})
      /\ UNCHANGED shared
  BY DEF WriteEvidence, WriteFile, At
<1>3. PICK f \in Result(r, e) : papers' = [papers EXCEPT ![c]["evidence"] = f]
  BY <1>2
<1>4. /\ req'[r].id = c /\ ~Writing(req'[r]) /\ ~req'[r].open
  BY <1>1, <1>2 DEF RequestRec, Writing
<1>5. /\ papers'[c].html = papers[c].html /\ papers'[c].md = papers[c].md
      /\ papers'[c].evidence = f
      /\ \A d \in Ids \ {c} : papers'[d] = papers[d]
  <2>1. "evidence" \in Files
    BY DEF Files
  <2> HIDE DEF c, e
  <2>2. /\ papers'[c].html = (IF "evidence" = "html" THEN f ELSE papers[c].html)
        /\ papers'[c].md = (IF "evidence" = "md" THEN f ELSE papers[c].md)
        /\ papers'[c].evidence = (IF "evidence" = "evidence" THEN f ELSE papers[c].evidence)
        /\ \A d \in Ids \ {c} : papers'[d] = papers[d]
    BY <1>1, <1>3, <2>1, PaperField
  <2> QED BY <2>2
<1>6. ASSUME c \notin shared
      PROVE /\ Agree(papers'[c])
            /\ \A s \in Requests : ~(Writing(req'[s]) /\ req'[s].id = c)
  <2>1. /\ Written(q, papers[c]) /\ Result(r, e) = {e}
        /\ \A s \in Requests \ {r} : ~(Writing(req[s]) /\ req[s].id = c)
    BY <1>2, <1>6, AloneWritten DEF FileAct
  <2>2. f = e /\ papers'[c].html = Workpaper(q) /\ papers'[c].md = Workpaper(q)
    BY <1>2, <1>3, <1>5, <2>1 DEF Written
  <2>3. /\ Workpaper(q) \notin NotWhole /\ e \notin NotWhole
        /\ Workpaper(q).at = e.at
    BY <1>1, PapersTyped, PaperAssumption DEF Workpaper, EvidenceOf
  <2> HIDE DEF e
  <2>4. Agree(papers'[c])
    BY <1>5, <2>2, <2>3 DEF Agree, NotWhole
  <2> QED BY <1>1, <1>4, <2>1, <2>4
<1>7. c \in unsettled
  BY <1>2 DEF WriteInv, Writers, Writing
<1>8. req'[r].step \in Steps \ Files => ~req'[r].open
  BY <1>4
<1> QED BY <1>1, <1>2, <1>4, <1>5, <1>6, <1>7, <1>8, MovesWriter

\* The steps before the files leave a request with no file open.
LEMMA OtherStepsWrite ==
  ASSUME WriteInv, NEW r \in Requests,
         \/ LoadProject(r) \/ LoadPipeline(r) \/ CollectSamples(r)
         \/ LoadCheck(r) \/ HashCheck(r) \/ InsertProcRun(r) \/ AggregateRun(r)
  PROVE WritersKept
<1>1. /\ req[r] \in RequestRec /\ req \in [Requests -> RequestRec \cup {NoRequest}]
      /\ \A s \in Requests \ {r} : req'[s] = req[s]
  BY StepsKeepTimes DEF WriteInv, FanInv, IInv, TypeOK, RunStep
<1>2. UNCHANGED <<papers, unsettled, shared>>
  BY DEF LoadProject, LoadPipeline, CollectSamples, LoadCheck, HashCheck, InsertProcRun,
         AggregateRun
<1>3. req[r].step \in Steps \ Files
  BY DEF LoadProject, LoadPipeline, CollectSamples, LoadCheck, HashCheck, InsertProcRun,
         AggregateRun, At, Steps, Files
<1>4. ~req[r].open
  BY <1>3 DEF WriteInv, Writers
<1>5. CASE LoadProject(r) \/ LoadPipeline(r) \/ CollectSamples(r)
  <2>1. req'[r].step \notin {"md", "evidence"} /\ ~req'[r].open
    BY <1>1, <1>4, <1>5 DEF LoadProject, LoadPipeline, CollectSamples, Fail, Goto, RequestRec
  <2> QED BY <1>1, <1>2, <2>1, QuietWriters DEF Writing
<1>6. CASE LoadCheck(r) \/ HashCheck(r)
  <2>1. req'[r].step \notin {"md", "evidence"} /\ ~req'[r].open
    BY <1>1, <1>4, <1>6 DEF LoadCheck, HashCheck, Fail, Goto, RequestRec
  <2> QED BY <1>1, <1>2, <2>1, QuietWriters DEF Writing
<1>7. CASE InsertProcRun(r) \/ AggregateRun(r)
  <2>1. req'[r].step \notin {"md", "evidence"} /\ ~req'[r].open
    BY <1>1, <1>4, <1>7 DEF InsertProcRun, AggregateRun, Fail, Goto, RequestRec
  <2> QED BY <1>1, <1>2, <2>1, QuietWriters DEF Writing
<1> QED BY <1>5, <1>6, <1>7

LEMMA StartWriters ==
  ASSUME WriteInv, NEW r \in Requests, NEW c \in Ids, StartRun(r, c) PROVE WritersKept
<1>1. /\ UNCHANGED <<papers, unsettled, shared>>
      /\ req'[r].step = "project" /\ ~req'[r].open
      /\ \A s \in Requests \ {r} : req'[s] = req[s]
  BY DEF StartRun, WriteInv, FanInv, IInv, TypeOK
<1> QED BY <1>1, QuietWriters DEF Writing

\* A death leaves what was being written in doubt, and touches no other file.
LEMMA CrashWriters == ASSUME WriteInv, Crash PROVE WritersKept
<1>1. /\ req' = [r \in Requests |-> IF Running(r) THEN [req[r] EXCEPT !.step = "dead"] ELSE req[r]]
      /\ UNCHANGED <<unsettled, shared>>
  BY DEF Crash
<1>2. ASSUME NEW r \in Requests PROVE req'[r].step \notin Steps
  <2>1. CASE Running(r)
    <3>1. req[r] \in RequestRec
      BY <2>1 DEF WriteInv, FanInv, IInv, TypeOK, Running, NoRequest, Steps
    <3> QED BY <1>1, <2>1, <3>1 DEF RequestRec, Steps
  <2>2. CASE ~Running(r)
    BY <1>1, <2>2 DEF Running
  <2> QED BY <2>1, <2>2
<1>3. \A r \in Requests : ~Writing(req'[r])
  BY <1>2 DEF Writing, Steps
<1>4. ASSUME NEW c \in Ids \ unsettled PROVE papers'[c] = papers[c]
  <2>1. ASSUME NEW r \in Requests, TornWrite(r) PROVE papers'[c] = papers[c]
    <3>1. /\ papers' = [papers EXCEPT ![req[r].id][req[r].step] = Mixed]
          /\ req[r].step \in Files /\ req[r].open
      BY <2>1 DEF TornWrite
    <3>2. req[r].id \in unsettled
      BY <3>1 DEF WriteInv, Writers, Writing, Files
    <3> QED BY <1>4, <3>1, <3>2 DEF WriteInv, FanInv, IInv, TypeOK
  <2> QED BY <2>1 DEF Crash
<1> QED BY <1>1, <1>2, <1>3, <1>4 DEF WriteInv, Writers, WritersKept

LEMMA UntouchedWriters ==
  ASSUME WriteInv, UNCHANGED <<papers, req, unsettled, shared>> PROVE WritersKept
BY DEF WriteInv, WritersKept

LEMMA WritersNext == WriteInv /\ [Next]_vars => WriteInv'
<1> SUFFICES ASSUME WriteInv, [Next]_vars PROVE WritersKept
  BY FanNext DEF WriteInv, WritersKept
<1>1. ASSUME NEW r \in Requests, RunStep(r) PROVE WritersKept
  BY <1>1, OtherStepsWrite, OpenWriters, PaperWriters, EvidenceWriters DEF RunStep
<1>2. ASSUME NEW r \in Requests, NEW c \in Ids, StartRun(r, c) PROVE WritersKept
  BY <1>2, StartWriters
<1>3. CASE Editor \/ Quiet \/ UNCHANGED vars
  BY <1>3, UntouchedWriters
     DEF Editor, SaveControl, RenameControl, ReplaceData, Quiet, vars
<1>4. CASE Crash
  BY <1>4, CrashWriters
<1> QED BY <1>1, <1>2, <1>3, <1>4 DEF Next

LEMMA InitWriters == Init => WriteInv
<1> SUFFICES ASSUME Init PROVE Writers(req, papers, unsettled, shared)
  BY InitFans DEF WriteInv
<1>1. \A r \in Requests : req[r] = NoRequest /\ ~Writing(req[r]) /\ req[r].step \notin Steps
  BY DEF Init, Writing, NoRequest, Steps
<1>2. \A c \in Ids : Agree(papers[c])
  BY DEF Init, Agree
<1> QED BY <1>1, <1>2 DEF Writers

\* Whatever overlapped, tore or mixed the files of a control before: once one
\* request has written all three with no other one writing them at the same
\* time, they are whole and all of that run.
THEOREM FilesAgree == Spec => []DeliverablesAgree
<1>1. Spec => []WriteInv
  BY InitWriters, WritersNext, PTL DEF Spec
<1>2. WriteInv => DeliverablesAgree
  BY DEF WriteInv, Writers, DeliverablesAgree, Agree
<1> QED BY <1>1, <1>2, PTL
=============================================================================
