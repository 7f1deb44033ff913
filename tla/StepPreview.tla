---------------------------- MODULE StepPreview ----------------------------
(***************************************************************************)
(* The preview of a pipeline's steps over the full data, and the cache of  *)
(* step frames that all requests of the server share (plane/routes/        *)
(* pipeline.py, _materialize_full; pipeline/materialize.py).               *)
(*                                                                         *)
(* The pages run in the thread pool, so that one preview may overlap       *)
(* others, saves of the graph, and the three writes by which a confirmed   *)
(* refresh replaces a file.  A frame is abstracted to what it was computed *)
(* from: the steps, and the file of each source.  That columns may be      *)
(* edited, which no key shows, and that custom code may change the frame   *)
(* it is given in place, are left out.                                     *)
(***************************************************************************)
EXTENDS Pipelines

CONSTANTS
  Graphs,     \* the graphs an author may save
  Requests,   \* the threads that serve previews
  MaxAsked,   \* bound on the previews asked for
  Cap,        \* _CACHE_MAX
  MaxFiles,   \* bound on the contents a source's file gets
  Unreadable, \* the contents, as <<source, version>>, that do not load or are not there
  Faults      \* the frames that cannot be computed: the code of their step raises

ASSUME CacheAssumption ==
  /\ {Cap, MaxAsked, MaxFiles} \subseteq Nat
  /\ IsFiniteSet(Requests) /\ Cardinality(Requests) <= Cap
  /\ \A g \in Graphs : Parses(g) /\ \A n \in Ids(g) : g.node[n] \in Node

VARIABLES
  source,  \* per source: the stage of its current row, and its file
  cache,   \* _STEP_CACHE, the least recently used entry first
  req,     \* the preview each thread is at
  asked,   \* how many previews have been asked for
  raced    \* history: the versions that were read before the file they name
vars == <<source, cache, req, asked, raced>>

Gone == 0  \* the version of a source without a current row
Files == 1..MaxFiles
----------------------------------------------------------------------------
(* Frames and keys *)

Closure(g, n) == [m \in Ancestors(g, n) |-> g.node[m]]
SourcesOf(g, n) == {g.node[m].source : m \in {m \in Ancestors(g, n) : TypeOf(g, m) = "import"}}

\* What node n computes from the frames of its inputs, or loads.
Compute(g, n, load, out) ==
  IF TypeOf(g, n) = "import"
  THEN [steps |-> Closure(g, n), data |-> {<<g.node[n].source, load[g.node[n].source]>>}]
  ELSE [steps |-> [m \in {n} \cup UNION {DOMAIN out[i].steps : i \in InputsOf(g, n)} |->
                     IF m = n THEN g.node[n]
                     ELSE LET i == CHOOSE i \in InputsOf(g, n) : m \in DOMAIN out[i].steps
                          IN out[i].steps[m]],
        data |-> UNION {out[i].data : i \in InputsOf(g, n)}]

\* Mutant: a key without the steps above its node.
OwnKey(g, at, n) == [steps |-> [m \in {n} |-> g.node[m]],
                     at |-> [s \in SourcesOf(g, n) |-> at[s]]]
\* _step_keys: the node and its ancestors, and the versions of their sources.
StepKey(g, at, n) == [steps |-> Closure(g, n), at |-> [s \in SourcesOf(g, n) |-> at[s]]]

Cached(k) == \E i \in DOMAIN cache : cache[i].key = k
Place(k) == CHOOSE i \in DOMAIN cache : cache[i].key = k
Without(i) == SubSeq(cache, 1, i - 1) \o SubSeq(cache, i + 1, Len(cache))
----------------------------------------------------------------------------
(* The rest of the server *)

Nothing == <<>>  \* the function with an empty domain
Idle == [pc |-> "idle", g |-> Nothing, todo |-> <<>>, load |-> Nothing,
         at |-> Nothing, recompute |-> {}, seed |-> Nothing, out |-> Nothing,
         alone |-> TRUE, lacks |-> FALSE, raised |-> FALSE]

Init ==
  /\ source = [s \in Sources |-> [row |-> "current", file |-> 1]]
  /\ cache = <<>>
  /\ req = [r \in Requests |-> Idle]
  /\ asked = 0
  /\ raced = {}

\* _confirm_refresh: archive the current row, write the file, record a row.
\* The content of a file that is half written counts as a content of its own.
ArchiveRow(s) ==
  /\ source[s].row = "current"
  /\ source[s].file < MaxFiles
  /\ source' = [source EXCEPT ![s].row = "archived"]
  /\ UNCHANGED <<cache, req, asked, raced>>
WriteFile(s) ==
  /\ source[s].row # "current"
  /\ source[s].file < MaxFiles
  /\ source' = [source EXCEPT ![s].row = "written", ![s].file = @ + 1]
  /\ UNCHANGED <<cache, req, asked, raced>>
RecordRow(s) ==
  /\ source[s].row = "written"
  /\ source' = [source EXCEPT ![s].row = "current"]
  /\ UNCHANGED <<cache, req, asked, raced>>
----------------------------------------------------------------------------
(* A preview *)

Running(r) == req[r].pc \notin {"idle", "done"}
At(r, pc) == req[r].pc = pc
More(r) == Tail(req[r].todo)
Current(r) == Head(req[r].todo)
HasRow(s) == source[s].row = "current"
\* Goes on with the rest of a loop at pc, or after it at next, over todo.
Loop(r, pc, next, todo, changed) ==
  req' = [req EXCEPT ![r] = [changed EXCEPT !.pc = IF More(r) = <<>> THEN next ELSE pc,
                                            !.todo = IF More(r) = <<>> THEN todo ELSE More(r)]]
\* Any failure degrades to {}.
Fail(r) == req' = [req EXCEPT ![r] = [Idle EXCEPT !.pc = "done", !.alone = req[r].alone]]
Lack(r) == req' = [req EXCEPT ![r] = [Idle EXCEPT !.pc = "done", !.lacks = TRUE]]
Raise(r) == req' = [req EXCEPT ![r] = [Idle EXCEPT !.pc = "done", !.raised = TRUE]]

\* step_data, step_export, steps_export: the page reads the control and parses
\* the graph that an author saved last.
Ask(r) ==
  /\ ~Running(r)
  /\ asked < MaxAsked
  /\ asked' = asked + 1
  /\ \E g \in Graphs :
       req' = [q \in Requests |->
         IF q = r THEN [Idle EXCEPT !.pc = "row", !.g = g, !.todo = ImportSources(g),
                                    !.alone = ~\E p \in Requests : Running(p)]
         ELSE [req[q] EXCEPT !.alone = @ /\ ~Running(q)]]
  /\ UNCHANGED <<source, cache, raced>>

\* _load_source_populations: the rows of the next source.  Without a current
\* one materialize_steps will not have all frames it needs.
ReadRow(r) ==
  /\ At(r, "row")
  /\ LET s == Current(r) IN
       \/ ~HasRow(s) /\ Lack(r)
       \/ HasRow(s) /\ req' = [req EXCEPT ![r].pc = "file"]
  /\ UNCHANGED <<source, cache, asked, raced>>
\* load: the file that is there now, if it can be read; a half written one may
\* not be.
ReadFile(r) ==
  /\ At(r, "file")
  /\ LET s == Current(r) IN
       \/ /\ ~HasRow(s) \/ <<s, source[s].file>> \in Unreadable
          /\ Lack(r)
       \/ /\ <<s, source[s].file>> \notin Unreadable
          /\ Loop(r, "row", "stat", ImportSources(req[r].g),
                  [req[r] EXCEPT !.load = Put(@, s, source[s].file)])
  /\ UNCHANGED <<source, cache, asked, raced>>

\* Mutant: no version.
NoVersion(s) == Gone
\* The token of _source_versions; what names no current row has none.
Version(s) == IF HasRow(s) THEN source[s].file ELSE Gone
\* _source_versions for the next source.
StatFile(r) ==
  /\ At(r, "stat")
  /\ LET s == Current(r) IN
       /\ Loop(r, "stat", "missing", req[r].g.order,
               [req[r] EXCEPT !.at = Put(@, s, Version(s))])
       /\ raced' = IF HasRow(s) /\ source[s].file = req[r].load[s] THEN raced
                   ELSE raced \cup {<<s, Version(s)>>}
  /\ UNCHANGED <<source, cache, asked>>

Key(r, n) == StepKey(req[r].g, req[r].at, n)
\* Mutant: only what was edited itself is missing.
Edited(r, n) == ~\E i \in DOMAIN cache : n \in DOMAIN cache[i].key.steps
                                         /\ cache[i].key.steps[n] = req[r].g.node[n]
Missing(r, n) == ~Cached(Key(r, n))
\* _plan_recompute, the first of three loops over the nodes in declared order:
\* those to recompute.
PlanMissing(r) ==
  /\ At(r, "missing")
  /\ Loop(r, "missing", "seed", req[r].g.order,
          IF Missing(r, Current(r)) THEN [req[r] EXCEPT !.recompute = @ \cup {Current(r)}]
          ELSE req[r])
  /\ UNCHANGED <<source, cache, asked, raced>>
\* The second and the third: is the key in the cache ...
PlanReuse(r) ==
  /\ \/ At(r, "seed")
     \/ At(r, "touch")
  /\ IF Cached(Key(r, Current(r)))
     THEN req' = [req EXCEPT ![r].pc = IF @ = "seed" THEN "reuse" ELSE "move"]
     ELSE IF At(r, "seed") THEN Loop(r, "seed", "touch", req[r].g.order, req[r])
                           ELSE Loop(r, "touch", "exec", <<>>, req[r])
  /\ UNCHANGED <<source, cache, asked, raced>>
\* ... then take its frame, or make it the most recently used.  When another
\* request evicted it in between, that raises.
Reuse(r) ==
  /\ At(r, "reuse")
  /\ LET n == Current(r)
         k == Key(r, n)
     IN \/ ~Cached(k) /\ Fail(r)
        \/ Cached(k) /\ Loop(r, "seed", "touch", req[r].g.order,
                             [req[r] EXCEPT !.seed = Put(@, n, cache[Place(k)].frame)])
  /\ UNCHANGED <<source, cache, asked, raced>>
MoveToEnd(r) ==
  /\ At(r, "move")
  /\ LET k == Key(r, Current(r)) IN
       \/ ~Cached(k) /\ Fail(r) /\ UNCHANGED cache
       \/ /\ Cached(k)
          /\ cache' = Append(Without(Place(k)), cache[Place(k)])
          /\ Loop(r, "touch", "exec", <<>>, req[r])
  /\ UNCHANGED <<source, asked, raced>>

AfterStore(left) == IF left = {} THEN "evict" ELSE "store"
\* _emit_materialize_body: the frames after the first i nodes of order; a node to
\* recompute computes, the others have been seeded.
Frames(g, order, recompute, load, seed) ==
  LET upTo[i \in 0..Len(order)] ==
        IF i = 0 THEN Nothing
        ELSE LET n == order[i]
                 before == upTo[i - 1]
                 frame == IF n \in recompute THEN Compute(g, n, load, before) ELSE seed[n]
             IN Put(before, n, frame)
  IN upTo
\* _exec_materialize, over all steps.  A step raises when its code does, or when
\* a condition of it names another source, which nothing defines here.
Execute(r) ==
  /\ At(r, "exec")
  /\ LET g == req[r].g
         order == Topological(g)
         seeded == Ids(g) \ req[r].recompute \subseteq DOMAIN req[r].seed
         upTo == Frames(g, order, req[r].recompute, req[r].load, req[r].seed)
         out == upTo[Len(order)]
         faulty == \E n \in req[r].recompute : out[n] \in Faults
     IN \/ ~seeded /\ Fail(r)
        \/ seeded /\ faulty /\ Raise(r)
        \/ /\ seeded /\ ~faulty
           /\ req' = [req EXCEPT ![r].pc = AfterStore(req[r].recompute), ![r].out = out,
                                 ![r].load = Nothing, ![r].seed = Nothing]
  /\ UNCHANGED <<source, cache, asked, raced>>

\* _update_cache: the recomputed frames, in any order ...
Store(r) ==
  /\ At(r, "store")
  /\ \E n \in req[r].recompute :
       LET entry == [key |-> Key(r, n), frame |-> req[r].out[n]]
           left == req[r].recompute \ {n}
       IN /\ cache' = IF Cached(entry.key) THEN [cache EXCEPT ![Place(entry.key)] = entry]
                      ELSE Append(cache, entry)
          /\ req' = [req EXCEPT ![r].pc = AfterStore(left), ![r].recompute = left]
  /\ UNCHANGED <<source, asked, raced>>
\* ... and while there are too many entries
CheckSize(r) ==
  /\ At(r, "evict")
  /\ req' = [req EXCEPT ![r].pc = IF Len(cache) > Cap THEN "pop" ELSE "done"]
  /\ UNCHANGED <<source, cache, asked, raced>>
\* Mutant: one entry leaves, however many are too many.
EvictOnce == "done"
AfterEvict == "evict"
\* the least recently used one leaves.
Evict(r) ==
  /\ At(r, "pop")
  /\ cache' = Tail(cache)
  /\ req' = [req EXCEPT ![r].pc = AfterEvict]
  /\ UNCHANGED <<source, asked, raced>>

Confirm(s) == ArchiveRow(s) \/ WriteFile(s) \/ RecordRow(s)
Server == \E s \in Sources : Confirm(s)
Preview(r) ==
  \/ Ask(r) \/ ReadRow(r) \/ ReadFile(r) \/ StatFile(r)
  \/ PlanMissing(r) \/ PlanReuse(r) \/ Reuse(r) \/ MoveToEnd(r)
  \/ Execute(r) \/ Store(r) \/ CheckSize(r) \/ Evict(r)
Next == Server \/ \E r \in Requests : Preview(r)
Spec == Init /\ [][Next]_vars
----------------------------------------------------------------------------
(* Properties *)

Honest(frame, key) ==
  /\ frame.steps = key.steps
  /\ {d[1] : d \in frame.data} = DOMAIN key.at
  /\ \A d \in frame.data :
       \/ <<d[1], key.at[d[1]]>> \in raced
       \/ d[2] = key.at[d[1]]

\* An entry of the cache holds the frame its key describes: of these steps and
\* that file.  Only a preview during which the file was replaced can leave
\* another one, and only under the version that it read.
CacheHonest == \A i \in DOMAIN cache : Honest(cache[i].frame, cache[i].key)

Shows(r) == req[r].pc \in {"store", "evict", "pop", "done"}
\* A preview shows all steps of the graph it was asked for, each of the files
\* it found, whatever other requests put into the cache or evicted; or none.
PreviewHonest ==
  \A r \in Requests : Shows(r) /\ req[r].out # Nothing =>
    /\ DOMAIN req[r].out = Ids(req[r].g)
    /\ \A n \in Ids(req[r].g) : Honest(req[r].out[n], Key(r, n))

\* "{}" is shown only when a source lacks a file that can be read, a step that had
\* to run raised, or another preview overlaps: the cache alone, with what edits
\* and evictions have left in it, never takes a preview away.
PreviewGiven ==
  \A r \in Requests : At(r, "done") =>
    \/ req[r].out # Nothing
    \/ req[r].lacks \/ req[r].raised
    \/ ~req[r].alone

\* No key is cached twice, and between previews the cache keeps to its bound.
CacheBounded ==
  /\ \A i, j \in DOMAIN cache : cache[i].key = cache[j].key => i = j
  /\ (\A r \in Requests : ~Running(r)) => Len(cache) <= Cap
============================================================================
