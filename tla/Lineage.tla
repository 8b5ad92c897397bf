------------------------------ MODULE Lineage -------------------------------
(***************************************************************************)
(* The dependency ledger (impact-service.ts): edges from what was derived  *)
(* to what it was derived from, each with the fingerprint its upstream had *)
(* when it was registered; the sweep that invalidates everything           *)
(* downstream of a node; the reconciliation that looks for changed         *)
(* fingerprints; and the check a checkpoint must pass before it is rerun.  *)
(*                                                                         *)
(* A run writes its ledger at the end of execute (experiment-runner.ts):   *)
(* an edge to each of its inputs, the checkpoint, an edge from the         *)
(* checkpoint to each of these inputs again, and one to the run.           *)
(*                                                                         *)
(* One action is one database statement.  Sweeps, ledgers, edits of        *)
(* records and a crash interleave between any two of them.  The lists a    *)
(* ledger or a reconciliation goes through are taken in an order that is   *)
(* fixed and not specified; a sweep takes nodes and edges in any order.    *)
(* A record may change any number of times, also back to what it was.      *)
(* Artifact files and their hashes are left out.                           *)
(***************************************************************************)
EXTENDS Naturals, FiniteSets

CONSTANTS
  Records,     \* papers, evidence, repositories, uploads: rows with contents
  Contents,    \* what the row of a record may hold, as far as a fingerprint tells
  First,       \* what it holds at first (and what a node without contents "holds")
  Sources,     \* the records a record was extracted from (paper_evidence)
  Fixed,       \* git commits and Idea versions: their fingerprint never changes
  Runs,        \* experiments that have succeeded
  Inputs,      \* the records and fixed nodes a run depends on
  Workers,     \* requests that are served concurrently
  MaxChanges,  \* bound: changes of records over all
  MaxRequests, \* bound: requests over all
  MaxCrashes,  \* bound: how often the server dies
  None

ASSUME SourcesAssumption == Sources \in [Records -> SUBSET Records]
ASSUME InputsAssumption == Inputs \in [Runs -> SUBSET (Records \cup Fixed)]
ASSUME ContentsAssumption == First \in Contents
ASSUME WorkersAssumption == IsFiniteSet(Workers)
ASSUME BoundsAssumption == MaxChanges \in Nat /\ MaxRequests \in Nat /\ MaxCrashes \in Nat
ASSUME NodesAssumption ==
  /\ Records \cap Fixed = {}
  /\ Runs \cap (Records \cup Fixed) = {}

Point(r) == <<"checkpoint", r>>
Points == {Point(r) : r \in Runs}
Nodes == Records \cup Fixed \cup Runs \cup Points

ASSUME PointsAssumption == Points \cap (Records \cup Fixed \cup Runs) = {}

Down(e) == e[1]
Up(e) == e[2]

RunEdges(r) == {<<r, u>> : u \in Inputs[r]}
PointEdges(r) == {<<Point(r), u>> : u \in Inputs[r] \cup {r}}
SourceEdges == {e \in Records \X Records : Up(e) \in Sources[Down(e)]}
Edges == SourceEdges \cup UNION {RunEdges(r) \cup PointEdges(r) : r \in Runs}

ASSUME NoneAssumption == None \notin Runs \cup Edges

VARIABLES
  version,     \* the contents of a record
  touched,     \* history: records whose contents were ever changed
  superseded,  \* fixed nodes an approval has replaced
  standing,    \* experiments.status and checkpoints.valid
  edge,        \* lineage_dependencies: absent, valid or invalid ...
  print,       \* ... and upstream_fingerprint
  ledger,      \* where execute is with the ledger of a run
  worker,      \* the requests in flight
  late,        \* history: edges registered on what a sweep had already reached
  lost,        \* history: sweeps that a crash interrupted
  changes,
  requests,
  crashes

rowVars == <<version, touched, superseded>>
edgeVars == <<edge, print>>
boundVars == <<changes, requests, crashes>>
vars == <<rowVars, standing, edgeVars, ledger, worker, late, lost, boundVars>>

Prints == Contents \X {"absent", "valid", "invalid"}

\* fingerprintNode: contents and status of a row, or only its identity.
Fingerprint(n) ==
  <<IF n \in Records THEN version[n] ELSE First, IF n \in Runs THEN standing[n] ELSE "valid">>

Idle == [pc |-> "idle", run |-> None, todo |-> {}, stale |-> {}, queue |-> {},
         visited |-> {}, rest |-> {}, hit |-> None, had |-> {}]
WorkerRecord ==
  [pc : {"idle", "select", "scan", "pop", "edges", "mark", "point", "source"},
   run : Runs \cup {None}, todo : SUBSET (Edges \X Prints), stale : SUBSET Nodes,
   queue : SUBSET Nodes, visited : SUBSET Nodes, rest : SUBSET Edges,
   hit : Nodes \cup {None}, had : SUBSET Edges]
LedgerRecord ==
  [pc : {"inputs", "insert", "point", "done"}, left : SUBSET Edges,
   cur : Edges \cup {None}, fp : Prints]

TypeOK ==
  /\ version \in [Records -> Contents]
  /\ touched \subseteq Records
  /\ superseded \subseteq Fixed
  /\ standing \in [Runs \cup Points -> {"absent", "valid", "invalid"}]
  /\ edge \in [Edges -> {"none", "valid", "invalid"}]
  /\ print \in [Edges -> Prints]
  /\ ledger \in [Runs -> LedgerRecord]
  /\ worker \in [Workers -> WorkerRecord]
  /\ late \subseteq Edges
  /\ lost \in Nat
  /\ changes \in 0..MaxChanges
  /\ requests \in 0..MaxRequests
  /\ crashes \in 0..MaxCrashes

\* The records were extracted before; the runs have just succeeded.
Init ==
  /\ version = [u \in Records |-> First]
  /\ touched = {}
  /\ superseded = {}
  /\ standing = [x \in Runs \cup Points |-> IF x \in Runs THEN "valid" ELSE "absent"]
  /\ edge = [e \in Edges |-> IF e \in SourceEdges THEN "valid" ELSE "none"]
  /\ print = [e \in Edges |-> <<First, "valid">>]
  /\ ledger = [r \in Runs |->
       [pc |-> "inputs", left |-> RunEdges(r), cur |-> None, fp |-> <<First, "valid">>]]
  /\ worker = [w \in Workers |-> Idle]
  /\ late = {}
  /\ lost = 0
  /\ changes = 0
  /\ requests = 0
  /\ crashes = 0

\* The row of an upstream record is written: the text of a paper, the
\* verification of a repository, the index status of an upload.  (What a recovery
\* had found drifted when it came is no longer so if the change undoes it.)
Change(u) ==
  \E c \in Contents \ {version[u]} :
    /\ changes < MaxChanges
    /\ changes' = changes + 1
    /\ version' = [version EXCEPT ![u] = c]
    /\ touched' = touched \cup {u}
    /\ worker' = [w \in Workers |-> [worker[w] EXCEPT !.had =
                    {e \in @ : Up(e) = u => print[e] # <<c, "valid">>}]]
    /\ UNCHANGED <<superseded, standing, edgeVars, ledger, late, lost, requests, crashes>>

-----------------------------------------------------------------------------
(* registerLineageDependencies, called twice by execute.                   *)

\* SELECT the fingerprint of the next upstream of the list ...
ReadUpstream(r) ==
  LET e == CHOOSE x \in ledger[r].left : TRUE IN
  /\ ledger[r].pc \in {"inputs", "point"} /\ ledger[r].cur = None
  /\ ledger[r].left # {}
  /\ ledger' = [ledger EXCEPT ![r].cur = e, ![r].fp = Fingerprint(Up(e)),
                              ![r].left = @ \ {e}]
  /\ UNCHANGED <<rowVars, standing, edgeVars, worker, late, lost, boundVars>>

IsSwept(n) == \E e \in Edges : Down(e) = n /\ edge[e] = "invalid"

\* ... and INSERT the edge, valid whatever has become of the upstream.
InsertEdge(r) ==
  LET e == ledger[r].cur IN
  /\ e # None
  /\ edge' = [edge EXCEPT ![e] = "valid"]
  /\ print' = [print EXCEPT ![e] = ledger[r].fp]
  /\ late' = IF IsSwept(Up(e)) \/ \E w \in Workers : Up(e) \in worker[w].visited
                THEN late \cup {e} ELSE late
  /\ ledger' = [ledger EXCEPT ![r].cur = None,
       ![r].pc = IF ledger[r].left # {} THEN @ ELSE IF @ = "inputs" THEN "insert" ELSE "done"]
  /\ UNCHANGED <<rowVars, standing, worker, lost, boundVars>>

InsertCheckpoint(r) ==
  /\ ledger[r].pc = "insert"
  /\ standing' = [standing EXCEPT ![Point(r)] = "valid"]
  /\ ledger' = [ledger EXCEPT ![r].pc = "point", ![r].left = PointEdges(r)]
  /\ UNCHANGED <<rowVars, edgeVars, worker, late, lost, boundVars>>

-----------------------------------------------------------------------------
(* The requests: an inspection of the project, the recovery of a           *)
(* checkpoint, and an approval that replaces a commit or an Idea version.  *)

\* What has changed under a run and its checkpoint (seen by no one yet).
Drifted(r) ==
  {e \in RunEdges(r) \cup PointEdges(r) :
     Up(e) \in Records /\ edge[e] # "none" /\ print[e] # Fingerprint(Up(e))}

Begins(w, record) ==
  /\ worker[w].pc = "idle"
  /\ requests < MaxRequests
  /\ requests' = requests + 1
  /\ worker' = [worker EXCEPT ![w] = record]
  /\ UNCHANGED <<version, touched, standing, edgeVars, ledger, late, lost, changes, crashes>>

Inspect(w) == Begins(w, [Idle EXCEPT !.pc = "select"]) /\ UNCHANGED superseded

\* (A recovery that trusts the last inspection.)
FirstStep_Trusting == "point"
FirstStep == "select"

\* (The id of a checkpoint is drawn when its row is inserted: no request names it
\* before.)
Recover(w, r) ==
  /\ standing[Point(r)] # "absent"
  /\ Begins(w, [Idle EXCEPT !.pc = FirstStep, !.run = r, !.had = Drifted(r)])
  /\ UNCHANGED superseded

Supersede(w, g) ==
  /\ g \notin superseded
  /\ superseded' = superseded \cup {g}
  /\ Begins(w, [Idle EXCEPT !.pc = "pop", !.queue = {g}])

Becomes(w, record) ==
  /\ worker' = [worker EXCEPT ![w] = record]
  /\ UNCHANGED <<rowVars, ledger, late, lost, boundVars>>

\* reconcileProjectLineage is done: a recovery goes on, all others answer.
Reconciled(w) ==
  IF worker[w].run = None THEN Idle
  ELSE [Idle EXCEPT !.pc = "point", !.run = worker[w].run, !.had = worker[w].had]

\* What is left of a scan: rows to compare, or else a sweep from the stale nodes.
Scan(w, todo, stale) ==
  IF todo # {} THEN [worker[w] EXCEPT !.pc = "scan", !.todo = todo, !.stale = stale]
  ELSE IF stale = {} THEN Reconciled(w)
  ELSE [worker[w] EXCEPT !.pc = "pop", !.todo = {}, !.stale = {}, !.queue = stale]

Select(w) ==
  /\ worker[w].pc = "select"
  /\ Becomes(w, Scan(w, {<<e, print[e]>> : e \in {f \in Edges : edge[f] = "valid"}}, {}))
  /\ UNCHANGED <<standing, edgeVars>>

\* The rows are compared in the order in which they were returned.
Compare(w) ==
  LET row == CHOOSE x \in worker[w].todo : TRUE
      u == Up(row[1])
  IN
  /\ worker[w].pc = "scan"
  /\ Becomes(w, Scan(w, worker[w].todo \ {row},
       IF Fingerprint(u) # row[2] THEN worker[w].stale \cup {u} ELSE worker[w].stale))
  /\ UNCHANGED <<standing, edgeVars>>

\* What is left of a sweep: edges of this node, or else nodes to visit.
Sweep(w, queue, visited, rest) ==
  IF rest # {} THEN [worker[w] EXCEPT !.pc = "edges", !.hit = None, !.queue = queue,
                       !.visited = visited, !.rest = rest]
  ELSE IF queue \ visited # {}
    THEN [worker[w] EXCEPT !.pc = "pop", !.hit = None, !.queue = queue \ visited,
            !.visited = visited, !.rest = {}]
  ELSE Reconciled(w)

\* invalidateFromNodes: the valid edges of the next node that was not visited,
\* (the wrong way round: the edges of what it was derived from) ...
Dependants_Upstream(u) == {e \in Edges : Down(e) = u /\ edge[e] = "valid"}
Dependants(u) == {e \in Edges : Up(e) = u /\ edge[e] = "valid"}

Pop(w) ==
  /\ worker[w].pc = "pop"
  /\ \E u \in worker[w].queue :
       Becomes(w, Sweep(w, worker[w].queue \ {u}, worker[w].visited \cup {u}, Dependants(u)))
  /\ UNCHANGED <<standing, edgeVars>>

\* ... are invalidated one after the other ...
InvalidateEdge(w) ==
  /\ worker[w].pc = "edges"
  /\ \E e \in worker[w].rest :
       /\ edge' = [edge EXCEPT ![e] = "invalid"]
       /\ Becomes(w, [worker[w] EXCEPT !.pc = "mark", !.hit = Down(e), !.rest = @ \ {e}])
  /\ UNCHANGED <<standing, print>>

\* ... each with the row it leads to, if that has a status to invalidate.
\* (Nothing is looked for behind a row that has none.)
Behind_Materialized(n) == IF n \in Runs \cup Points THEN {n} ELSE {}
Behind(n) == {n}

\* (The reason is not the status.)
Voided_Reason == "dependency_invalidated"
Voided == "invalid"

MarkNode(w) ==
  LET n == worker[w].hit IN
  /\ worker[w].pc = "mark"
  /\ standing' = IF n \in Runs \cup Points THEN [standing EXCEPT ![n] = Voided] ELSE standing
  /\ Becomes(w, Sweep(w, worker[w].queue \cup Behind(n), worker[w].visited, worker[w].rest))
  /\ UNCHANGED edgeVars

\* assertCheckpointRecoverable: the checkpoint, then its source run.
CheckPoint(w) ==
  /\ worker[w].pc = "point"
  /\ Becomes(w, IF standing[Point(worker[w].run)] = "valid"
                THEN [worker[w] EXCEPT !.pc = "source"] ELSE Idle)
  /\ UNCHANGED <<standing, edgeVars>>

\* The rerun is granted if the source run is still succeeded.
SourceIsGood(r) == standing[r] = "valid"
CheckSource(w) ==
  /\ worker[w].pc = "source"
  /\ Becomes(w, Idle)
  /\ UNCHANGED <<standing, edgeVars>>

\* The server dies: ledgers stay as they are, sweeps are not resumed.
Sweeping(w) == worker[w].pc \in {"pop", "edges", "mark"}
Crash ==
  /\ crashes < MaxCrashes
  /\ crashes' = crashes + 1
  /\ lost' = lost + Cardinality({w \in Workers : Sweeping(w)})
  /\ worker' = [w \in Workers |-> Idle]
  /\ ledger' = [r \in Runs |-> [ledger[r] EXCEPT !.pc = "done", !.left = {}, !.cur = None]]
  /\ UNCHANGED <<rowVars, standing, edgeVars, late, changes, requests>>

WorkerStep(w) ==
  \/ Select(w) \/ Compare(w)
  \/ Pop(w) \/ InvalidateEdge(w) \/ MarkNode(w)
  \/ CheckPoint(w) \/ CheckSource(w)

Next ==
  \/ \E u \in Records : Change(u)
  \/ \E r \in Runs : ReadUpstream(r) \/ InsertEdge(r) \/ InsertCheckpoint(r)
  \/ \E w \in Workers :
       \/ Inspect(w)
       \/ \E r \in Runs : Recover(w, r)
       \/ \E g \in Fixed : Supersede(w, g)
       \/ WorkerStep(w)
  \/ Crash

Spec == Init /\ [][Next]_vars

-----------------------------------------------------------------------------
(* Properties.                                                             *)

\* A recovery whose checkpoint and source are about to be found good.
Granted(w) ==
  /\ worker[w].pc = "point" /\ standing[Point(worker[w].run)] = "valid"
  /\ SourceIsGood(worker[w].run)

\* What the documents say: changed dependencies produce a conflict and no run, so a
\* checkpoint under which a record had changed when the request came, and has not
\* changed back, is not granted.  The code does not keep it: an edge is invalidated
\* one statement before the row it leads to, and a recovery that comes between looks
\* at valid edges and at rows only.
GrantIsFresh == \A w \in Workers : Granted(w) => worker[w].had = {}

\* What the code does keep of it: run and checkpoint each have their own edge to
\* the record, and both rows are checked, so it takes as many sweeps that are at or
\* were cut at such a place as there are edges to that record, counted when the
\* checkpoint is read.  (The row of the source is read later, and does not become
\* good in between.)
Unfinished == lost + Cardinality({v \in Workers : worker[v].pc = "mark"})
GrantIsSound ==
  \A w \in Workers : Granted(w) =>
    \A u \in Records : Cardinality({e \in worker[w].had : Up(e) = u}) <= Unfinished

\* When no sweep is under way and none was interrupted, whatever was derived
\* from an invalidated node is invalidated too, through nodes that have no
\* status of their own and under concurrent sweeps that stop at each other's
\* edges.  Only what was registered later escapes.
NothingIsMissed ==
  lost = 0 /\ (\A w \in Workers : ~Sweeping(w)) =>
    \A e, f \in Edges :
      edge[e] = "invalid" /\ Up(f) = Down(e) /\ edge[f] = "valid" => f \in late

\* Nothing is invalidated without a cause upstream: a record that was changed, a
\* replaced commit or Idea version, or another invalidated edge.
InvalidForAReason ==
  /\ \A e \in Edges : edge[e] = "invalid" =>
       \/ Up(e) \in superseded
       \/ Up(e) \in touched
       \/ IsSwept(Up(e))
  /\ \A n \in Runs \cup Points : standing[n] = "invalid" => IsSwept(n)

-----------------------------------------------------------------------------
\* An edge is inserted once, and those of a checkpoint after its row.
LedgerInOrder(r) ==
  LET q == ledger[r] IN
  /\ q.left \cup ({q.cur} \ {None}) \subseteq
       IF q.pc = "inputs" THEN RunEdges(r) ELSE IF q.pc = "point" THEN PointEdges(r) ELSE {}
  /\ q.cur \notin q.left
  /\ \A e \in q.left \cup ({q.cur} \ {None}) : edge[e] = "none"
  /\ q.pc \in {"inputs", "insert"} => \A e \in PointEdges(r) : edge[e] = "none"

\* Contents or a fingerprint other than the first one have a reason: the record was
\* changed, or the run is invalid.
PrintIsCaused(e, p) ==
  /\ p[1] # First => Up(e) \in touched
  /\ p[2] # "valid" => Up(e) \in Runs /\ standing[Up(e)] = "invalid"
PrintsAreCaused ==
  /\ \A u \in Records : version[u] # First => u \in touched
  /\ \A e \in Edges : PrintIsCaused(e, print[e])
  /\ \A r \in Runs : ledger[r].cur # None => PrintIsCaused(ledger[r].cur, ledger[r].fp)
  /\ \A r \in Runs : standing[r] # "absent"

\* What a sweep may start from, or reach.
Caused(n) == n \in superseded \cup touched \/ IsSwept(n)
WorkerIsCaused(q) ==
  /\ \A row \in q.todo : PrintIsCaused(row[1], row[2])
  /\ \A n \in q.stale \cup q.queue \cup q.visited : Caused(n)
  /\ \A e \in q.rest : Caused(Up(e))
  /\ q.pc = "mark" => q.hit \in Nodes /\ IsSwept(q.hit)

\* Where a request is.  A visited node has no valid edge left, but those the sweep
\* is at and those registered since.
InSweep(q) == q.pc \in {"pop", "edges", "mark"}
WorkerInOrder(q) ==
  /\ q.pc = "scan" => q.todo # {}
  /\ q.pc # "scan" => q.todo = {}
  /\ ~InSweep(q) => q.queue = {} /\ q.visited = {} /\ q.rest = {}
  /\ q.pc = "pop" => q.rest = {}
  /\ q.pc = "edges" => q.rest # {}
  /\ q.pc \in {"point", "source"} => q.run \in Runs
  /\ q.run = None => q.had = {}
  /\ \A e \in q.rest : edge[e] # "none"
  /\ \A f \in Edges : Up(f) \in q.visited /\ edge[f] = "valid" /\ f \notin late => f \in q.rest

\* The drifted edges of a recovery are found by its scan and swept.
Found(q, e) ==
  CASE q.pc = "scan"  -> <<e, print[e]>> \in q.todo \/ Up(e) \in q.stale
    [] InSweep(q)     -> e \in q.rest \/ Up(e) \in q.queue \ q.visited
    [] q.pc = "point" -> FALSE
    [] OTHER          -> TRUE
HadIsFound(q) ==
  \A e \in q.had :
    /\ Down(e) \in {q.run, Point(q.run)} /\ edge[e] # "none"
    /\ Up(e) \in touched /\ print[e] # Fingerprint(Up(e))
    /\ edge[e] = "invalid" \/ Found(q, e)

\* What is behind an invalid edge is reached by a sweep that is under way.
Reaches(q, f) ==
  \/ q.pc = "mark" /\ q.hit = Up(f)
  \/ InSweep(q) /\ (Up(f) \in q.queue \/ f \in q.rest)
SweepIsComplete ==
  lost = 0 =>
    \A e, f \in Edges :
      edge[e] = "invalid" /\ Up(f) = Down(e) /\ edge[f] = "valid" /\ f \notin late =>
        \E w \in Workers : Reaches(worker[w], f)

\* An invalid edge whose row is not invalid is owed by a sweep of its own, which is
\* about to mark that row or was interrupted: for every set of rows.
Owed(S) == {e \in Edges : edge[e] = "invalid" /\ Down(e) \in S /\ standing[Down(e)] # "invalid"}
Marking(S) == {v \in Workers : worker[v].pc = "mark" /\ worker[v].hit \in S}
MarksAreOwed ==
  \A S \in SUBSET (Runs \cup Points) :
    IsFiniteSet(Owed(S)) /\ Cardinality(Owed(S)) <= lost + Cardinality(Marking(S))

\* The inductive invariant.
IInv ==
  /\ TypeOK
  /\ \A r \in Runs : LedgerInOrder(r)
  /\ PrintsAreCaused
  /\ \A w \in Workers : WorkerIsCaused(worker[w])
  /\ \A w \in Workers : WorkerInOrder(worker[w])
  /\ \A w \in Workers : HadIsFound(worker[w])
  /\ InvalidForAReason
  /\ SweepIsComplete
  /\ MarksAreOwed
=============================================================================
