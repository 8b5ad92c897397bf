--------------------------- MODULE ExperimentRun ----------------------------
(***************************************************************************)
(* The experiment supervisor of apps/server: POST /api/experiments and its *)
(* cancel endpoint (index.ts), execute and cancelRun (experiment-runner.ts)*)
(* pausing, resuming and cancelling the project, approved code patches     *)
(* that move the project's Git HEAD, and a restart of the server.          *)
(*                                                                         *)
(* One project.  An action is the code between two awaits: what follows a  *)
(* database answer or an exit event, up to and including the next database *)
(* statement.  Rows survive a crash, and so does a child process, which is *)
(* spawned detached; the map activeRuns and all coroutines do not.         *)
(***************************************************************************)
EXTENDS Naturals

CONSTANTS
  Runs,        \* experiments that may be requested
  NumFiles,    \* output files a successful run leaves in its directory
  Admins,      \* requests to /state that may be in progress at once
  MaxPatches,  \* bound: approved code patches
  MaxCrashes,  \* bound: how often the server dies
  None

ASSUME NumFilesAssumption == NumFiles \in Nat \ {0}
ASSUME BoundsAssumption == MaxPatches \in Nat /\ MaxCrashes \in Nat
ASSUME NoneAssumption == None \notin Nat

VARIABLES
  project,    \* column projects.status
  row,        \* column experiments.status; "absent" before the INSERT
  at,         \* where the request and then execute(runId) is
  active,     \* the keys of activeRuns
  child,      \* the supervised process
  files,      \* rows of artifacts inserted for the run
  ckpt,       \* a row of checkpoints names the run
  ranAt,      \* the Git commit checked out when the child was spawned
  bound,      \* the Git commit execute read for the ledger
  edge,       \* the edge git_commit -> run: "none", "valid", "invalid"
  cancel,     \* the cancel endpoint: "idle", "checked", "told" (replied)
  admin,      \* requests to /state
  head,       \* the project's HEAD: number of approved patches so far
  sweep,      \* replaced commits whose dependants are still to be invalidated
  mode,       \* "up", or "down" between a crash and the end of the startup
  crashes

runVars == <<row, at, active, child, files, ckpt, ranAt, bound, edge>>
apiVars == <<project, cancel, admin>>
gitVars == <<head, sweep>>
procVars == <<mode, crashes>>
vars == <<runVars, apiVars, gitVars, procVars>>

Statuses ==
  {"absent", "queued", "running", "succeeded", "failed", "cancelled", "invalidated"}
Terminal == Statuses \ {"absent", "queued", "running"}

\* The awaits of the ledger, in order.
Ledger == {"files", "idea", "link", "ckpt", "cklink", "audit"}
\* The awaits of execute, and the request handler before it.
Executing == {"started", "venv", "wait"} \cup Ledger
Places == {"none", "checked", "inserted", "ended"} \cup Executing

\* A child is alive while "running", and also as an "orphan" of a dead server.
Children == {"none", "running", "orphan", "zero", "nonzero", "killed"}
Commits == 0..MaxPatches

IdleAdmin == [pc |-> "idle", action |-> "none", todo |-> {}]
BusyAdmin == [pc : {"read", "written", "stopping"},
              action : {"pause", "resume", "cancel"},
              todo : SUBSET Runs]
AdminRecord == {IdleAdmin} \cup BusyAdmin

TypeOK ==
  /\ project \in {"active", "paused", "cancelled"}
  /\ row \in [Runs -> Statuses]
  /\ at \in [Runs -> Places]
  /\ active \subseteq Runs
  /\ child \in [Runs -> Children]
  /\ files \in [Runs -> 0..NumFiles]
  /\ ckpt \in [Runs -> {"none", "row", "linked"}]
  /\ ranAt \in [Runs -> Commits \cup {None}]
  /\ bound \in [Runs -> Commits \cup {None}]
  /\ edge \in [Runs -> {"none", "valid", "invalid"}]
  /\ cancel \in [Runs -> {"idle", "checked", "told"}]
  /\ admin \in [Admins -> AdminRecord]
  /\ head \in Commits
  /\ sweep \subseteq Commits
  /\ mode \in {"up", "down"}
  /\ crashes \in 0..MaxCrashes

Init ==
  /\ project = "active"
  /\ row = [r \in Runs |-> "absent"]
  /\ at = [r \in Runs |-> "none"]
  /\ active = {}
  /\ child = [r \in Runs |-> "none"]
  /\ files = [r \in Runs |-> 0]
  /\ ckpt = [r \in Runs |-> "none"]
  /\ ranAt = [r \in Runs |-> None]
  /\ bound = [r \in Runs |-> None]
  /\ edge = [r \in Runs |-> "none"]
  /\ cancel = [r \in Runs |-> "idle"]
  /\ admin = [a \in Admins |-> IdleAdmin]
  /\ head = 0
  /\ sweep = {}
  /\ mode = "up"
  /\ crashes = 0

Goto(r, here, there) == at[r] = here /\ at' = [at EXCEPT ![r] = there]
SetRow(r, s) == row' = [row EXCEPT ![r] = s]

-----------------------------------------------------------------------------
(* POST /api/experiments.                                                  *)

\* requireProject(project_id, true).
CheckProject(r) ==
  /\ mode = "up"
  /\ project = "active"
  /\ Goto(r, "none", "checked")
  /\ UNCHANGED <<row, active, child, files, ckpt, ranAt, bound, edge,
                 apiVars, gitVars, procVars>>

\* The proposal was found approved; INSERT the row.
Insert(r) ==
  /\ Goto(r, "checked", "inserted")
  /\ SetRow(r, "queued")
  /\ UNCHANGED <<active, child, files, ckpt, ranAt, bound, edge,
                 apiVars, gitVars, procVars>>

\* submitRun, not awaited: execute up to its first UPDATE.
Start(r) ==
  /\ Goto(r, "inserted", "started")
  /\ SetRow(r, "running")
  /\ UNCHANGED <<active, child, files, ckpt, ranAt, bound, edge,
                 apiVars, gitVars, procVars>>

\* execute calls ensureVenv, which awaits the exit of "python -m venv" unless the
\* project has its environment; compile_latex needs none.  That process has no
\* timeout and no entry in activeRuns.  It ends in Spawn or Throws, or never.
EnsureVenv(r) ==
  /\ Goto(r, "started", "venv")
  /\ UNCHANGED <<row, active, child, files, ckpt, ranAt, bound, edge,
                 apiVars, gitVars, procVars>>

\* Which runs cancelRun and the timeout can reach.
Registered_None(r) == active
Registered(r) == active \cup {r}

Spawn(r) ==
  /\ at[r] \in {"started", "venv"}
  /\ at' = [at EXCEPT ![r] = "wait"]
  /\ active' = Registered(r)
  /\ child' = [child EXCEPT ![r] = "running"]
  /\ ranAt' = [ranAt EXCEPT ![r] = head]
  /\ UNCHANGED <<row, files, ckpt, bound, edge, apiVars, gitVars, procVars>>

\* The process ends by itself; its exit event is still to be delivered.
ChildExits(r) ==
  /\ child[r] \in {"running", "orphan"}
  /\ \E c \in {"zero", "nonzero"} : child' = [child EXCEPT ![r] = c]
  /\ UNCHANGED <<row, at, active, files, ckpt, ranAt, bound, edge,
                 apiVars, gitVars, procVars>>

\* terminateTree: SIGKILL has no effect on a process that has exited.
Killed(r) == [child EXCEPT ![r] = IF @ = "running" THEN "killed" ELSE @]

Timeout(r) ==
  /\ r \in active
  /\ child[r] = "running"
  /\ child' = Killed(r)
  /\ UNCHANGED <<row, at, active, files, ckpt, ranAt, bound, edge,
                 apiVars, gitVars, procVars>>

\* The exit event.  cancelRun deletes the entry before any event can be
\* delivered, so the test for state cancelled is never taken.
\* Exit code 0 and valid results: the row is succeeded and the ledger begins.
ExitSucceeds(r) ==
  /\ child[r] = "zero"
  /\ Goto(r, "wait", "files")
  /\ SetRow(r, "succeeded")
  /\ active' = active \ {r}
  /\ UNCHANGED <<child, files, ckpt, ranAt, bound, edge, apiVars, gitVars, procVars>>

\* Another exit code, or results that readValidatedResults refuses.
ExitFails(r) ==
  /\ child[r] \in {"zero", "nonzero", "killed"}
  /\ Goto(r, "wait", "ended")
  /\ SetRow(r, "failed")
  /\ active' = active \ {r}
  /\ UNCHANGED <<child, files, ckpt, ranAt, bound, edge, apiVars, gitVars, procVars>>

\* One INSERT INTO artifacts per output file.
InsertArtifact(r) ==
  /\ at[r] = "files"
  /\ files[r] < NumFiles
  /\ files' = [files EXCEPT ![r] = @ + 1]
  /\ UNCHANGED <<row, at, active, child, ckpt, ranAt, bound, edge,
                 apiVars, gitVars, procVars>>

AllFiles_Any(r) == files[r] > 0
AllFiles(r) == files[r] = NumFiles

\* Every file is registered and the summary is in Supermemory, if that is
\* enabled; the version of the Idea is looked up.
SelectIdea(r) ==
  /\ AllFiles(r)
  /\ Goto(r, "files", "idea")
  /\ UNCHANGED <<row, active, child, files, ckpt, ranAt, bound, edge,
                 apiVars, gitVars, procVars>>

\* git rev-parse HEAD, and the fingerprint of the first upstream node.
ReadCommit(r) ==
  /\ Goto(r, "idea", "link")
  /\ bound' = [bound EXCEPT ![r] = head]
  /\ UNCHANGED <<row, active, child, files, ckpt, ranAt, edge,
                 apiVars, gitVars, procVars>>

\* registerLineageDependencies for the experiment; of its edges the model
\* keeps the one from the commit.
RegisterRun(r) ==
  /\ Goto(r, "link", "ckpt")
  /\ edge' = [edge EXCEPT ![r] = "valid"]
  /\ UNCHANGED <<row, active, child, files, ckpt, ranAt, bound,
                 apiVars, gitVars, procVars>>

InsertCheckpoint(r) ==
  /\ Goto(r, "ckpt", "cklink")
  /\ ckpt' = [ckpt EXCEPT ![r] = "row"]
  /\ UNCHANGED <<row, active, child, files, ranAt, bound, edge,
                 apiVars, gitVars, procVars>>

\* registerLineageDependencies for the checkpoint.
RegisterCheckpoint(r) ==
  /\ Goto(r, "cklink", "audit")
  /\ ckpt' = [ckpt EXCEPT ![r] = "linked"]
  /\ UNCHANGED <<row, active, child, files, ranAt, bound, edge,
                 apiVars, gitVars, procVars>>

Audited(r) ==
  /\ Goto(r, "audit", "ended")
  /\ UNCHANGED <<row, active, child, files, ckpt, ranAt, bound, edge,
                 apiVars, gitVars, procVars>>

\* Any await of execute but the exit event may throw: a failed venv or spawn,
\* a Supermemory error, an Idea version or lineage node that does not exist.
\* The catch block writes failed whatever the row says.
MayThrow == {"started", "venv"} \cup Ledger
Throws(r) ==
  /\ at[r] \in MayThrow
  /\ at' = [at EXCEPT ![r] = "ended"]
  /\ active' = active \ {r}
  /\ SetRow(r, "failed")
  /\ UNCHANGED <<child, files, ckpt, ranAt, bound, edge, apiVars, gitVars, procVars>>

Execute(r) ==
  \/ Start(r) \/ EnsureVenv(r) \/ Spawn(r) \/ ExitSucceeds(r) \/ ExitFails(r)
  \/ InsertArtifact(r) \/ SelectIdea(r) \/ ReadCommit(r) \/ RegisterRun(r)
  \/ InsertCheckpoint(r) \/ RegisterCheckpoint(r) \/ Audited(r)

-----------------------------------------------------------------------------
(* Cancelling, and the state of the project.                               *)

\* if (!active) return false
Reachable_Row(r) == row[r] # "absent"
Reachable(r) == r \in active

\* cancelRun: there is no event between the kill and the UPDATE.
CancelRun(r) ==
  IF Reachable(r)
    THEN /\ child' = Killed(r)
         /\ active' = active \ {r}
         /\ SetRow(r, "cancelled")
    ELSE UNCHANGED <<child, active, row>>

\* POST /api/experiments/:runId/cancel reads the row ...
CancelCheck(r) ==
  /\ mode = "up"
  /\ cancel[r] = "idle"
  /\ row[r] \in {"queued", "running"}
  /\ cancel' = [cancel EXCEPT ![r] = "checked"]
  /\ UNCHANGED <<runVars, project, admin, gitVars, procVars>>

\* ... and replies status cancelled, whatever cancelRun returned.
CancelApply(r) ==
  /\ cancel[r] = "checked"
  /\ CancelRun(r)
  /\ cancel' = [cancel EXCEPT ![r] = "told"]
  /\ UNCHANGED <<at, files, ckpt, ranAt, bound, edge, project, admin, gitVars, procVars>>

Target_Actions == [pause |-> "paused", resume |-> "resumed", cancel |-> "cancelled"]
Target == [pause |-> "paused", resume |-> "active", cancel |-> "cancelled"]

\* POST /api/projects/:projectId/state reads the project ...
StateRead(a) ==
  /\ mode = "up"
  /\ admin[a].pc = "idle"
  /\ project # "cancelled"
  /\ \E action \in DOMAIN Target :
       /\ action = "resume" => project = "paused"
       /\ admin' = [admin EXCEPT ![a] = [pc |-> "read", action |-> action, todo |-> {}]]
  /\ UNCHANGED <<runVars, project, cancel, gitVars, procVars>>

\* ... writes it, whatever it has become ...
StateWrite(a) ==
  /\ admin[a].pc = "read"
  /\ project' = Target[admin[a].action]
  /\ admin' = [admin EXCEPT ![a] = IF @.action = "resume" THEN IdleAdmin
                                   ELSE [@ EXCEPT !.pc = "written"]]
  /\ UNCHANGED <<runVars, cancel, gitVars, procVars>>

\* ... lists the unfinished runs ...
StateList(a) ==
  /\ admin[a].pc = "written"
  /\ admin' = [admin EXCEPT ![a].pc = "stopping",
                            ![a].todo = {r \in Runs : row[r] \in {"queued", "running"}}]
  /\ UNCHANGED <<runVars, project, cancel, gitVars, procVars>>

\* ... and cancels those that it can reach.
StateStop(a) ==
  /\ admin[a].pc = "stopping"
  /\ \E r \in admin[a].todo :
       /\ CancelRun(r)
       /\ admin' = [admin EXCEPT ![a].todo = @ \ {r}]
  /\ UNCHANGED <<at, files, ckpt, ranAt, bound, edge, project, cancel, gitVars, procVars>>

\* The checkpoint project_paused or project_cancelled, the audit, the reply.
StateReply(a) ==
  /\ admin[a].pc = "stopping"
  /\ admin[a].todo = {}
  /\ admin' = [admin EXCEPT ![a] = IdleAdmin]
  /\ UNCHANGED <<runVars, project, cancel, gitVars, procVars>>

StateStep(a) ==
  StateRead(a) \/ StateWrite(a) \/ StateList(a) \/ StateStop(a) \/ StateReply(a)

-----------------------------------------------------------------------------
(* Approved patches and restarts.                                          *)

\* applyApprovedPatch commits on the HEAD the proposal was reviewed against.
PatchApproved ==
  /\ mode = "up"
  /\ head < MaxPatches
  /\ head' = head + 1
  /\ sweep' = sweep \cup {head}
  /\ UNCHANGED <<runVars, apiVars, procVars>>

\* Runs whose edge from the replaced commit is valid at the time.
Dependants(c) == {r \in Runs : edge[r] = "valid" /\ bound[r] = c}

\* UPDATE ... SET status='invalidated' ... WHERE status='succeeded'
InvalidatedRow(r) == IF row[r] = "succeeded" THEN "invalidated" ELSE row[r]

\* invalidateFromNodes on the replaced commit.
Sweep(c) ==
  /\ c \in sweep
  /\ row' = [r \in Runs |-> IF r \in Dependants(c) THEN InvalidatedRow(r) ELSE row[r]]
  /\ edge' = [r \in Runs |-> IF r \in Dependants(c) THEN "invalid" ELSE edge[r]]
  /\ sweep' = sweep \ {c}
  /\ UNCHANGED <<at, active, child, files, ckpt, ranAt, bound, apiVars, head, procVars>>

\* Requests and coroutines are lost; a detached child lives on.
Crash ==
  /\ mode = "up"
  /\ crashes < MaxCrashes
  /\ mode' = "down"
  /\ crashes' = crashes + 1
  /\ at' = [r \in Runs |-> IF at[r] = "none" THEN "none" ELSE "ended"]
  /\ active' = {}
  /\ child' = [r \in Runs |-> IF child[r] = "running" THEN "orphan" ELSE child[r]]
  /\ cancel' = [r \in Runs |-> IF cancel[r] = "checked" THEN "idle" ELSE cancel[r]]
  /\ admin' = [a \in Admins |-> IdleAdmin]
  /\ sweep' = {}
  /\ UNCHANGED <<project, row, files, ckpt, ranAt, bound, edge, head>>

Interrupted_Running == {r \in Runs : row[r] = "running"}
Interrupted == {r \in Runs : row[r] \in {"queued", "running"}}

\* recoverInterruptedWork, before the server listens.
Recover ==
  /\ mode = "down"
  /\ mode' = "up"
  /\ row' = [r \in Runs |-> IF r \in Interrupted THEN "failed" ELSE row[r]]
  /\ UNCHANGED <<at, active, child, files, ckpt, ranAt, bound, edge,
                 apiVars, gitVars, crashes>>

Next ==
  \/ \E r \in Runs :
       \/ CheckProject(r) \/ Insert(r) \/ Execute(r) \/ Throws(r)
       \/ ChildExits(r) \/ Timeout(r)
       \/ CancelCheck(r) \/ CancelApply(r)
  \/ \E a \in Admins : StateStep(a)
  \/ \E c \in Commits : Sweep(c)
  \/ PatchApproved \/ Crash \/ Recover

(* Every await of a handler or of execute settles, but that of ensureVenv: *)
(* statements are local, Supermemory calls have timeouts, and a child that *)
(* does not exit is killed by the timer of execute.  Nothing ends a process*)
(* at "venv".  Whoever runs the server restarts it.                        *)
Fairness ==
  /\ \A r \in Runs :
       /\ WF_vars(Insert(r))
       /\ WF_vars(at[r] # "venv" /\ (Execute(r) \/ Throws(r)))
       /\ WF_vars(Timeout(r))
       /\ WF_vars(CancelApply(r))
  /\ \A a \in Admins : WF_vars(StateWrite(a) \/ StateList(a) \/ StateStop(a) \/ StateReply(a))
  /\ \A c \in Commits : WF_vars(Sweep(c))
  /\ WF_vars(Recover)

Spec == Init /\ [][Next]_vars
FairSpec == Spec /\ Fairness

-----------------------------------------------------------------------------
(* Properties.                                                             *)

\* The supervisor and the process table agree.  Every entry of activeRuns is
\* a run that waits for its child and whose row says running, so cancelRun
\* never overwrites another status; every child that lives is either in
\* activeRuns, where timeout and cancel reach it, or was left by a crash.
SupervisorKnowsChildren ==
  \A r \in Runs :
    /\ r \in active => at[r] = "wait" /\ row[r] = "running" /\ child[r] # "orphan"
    /\ child[r] = "running" => r \in active
    /\ child[r] = "orphan" => at[r] = "ended"

\* A row that is queued or running has a coroutine that will end it, or the
\* startup is about to fail it.
NoStrandedRow ==
  mode = "up" =>
    \A r \in Runs :
      row[r] \in {"queued", "running"} => at[r] \in {"inserted", "started", "venv", "wait"}

\* A checkpoint of a run is only written when all its artifacts and its
\* lineage edges are in the ledger, whatever happened to the row meanwhile.
CheckpointIsComplete ==
  \A r \in Runs :
    /\ ckpt[r] # "none" => files[r] = NumFiles /\ edge[r] # "none"
    /\ edge[r] # "none" => child[r] = "zero" /\ bound[r] \in ranAt[r]..head

\* A run that ended never is queued or running again, and one that failed
\* stays failed: neither a cancel that comes late, nor invalidation, nor a
\* restart changes it.
EndedStaysEnded ==
  [][\A r \in Runs :
       /\ row[r] \in Terminal => row'[r] \in Terminal
       /\ row[r] = "failed" => row'[r] = "failed"]_vars

\* Every requested run ends, with the timeout for its child and finitely
\* many restarts, unless it waits for its environment for ever, where neither the
\* timeout nor a cancel reaches it.
EveryRunEnds ==
  \A r \in Runs : row[r] = "queued" ~> (row[r] \in Terminal \/ [](at[r] = "venv"))

-----------------------------------------------------------------------------
(* What the code and its documents say, and the code does not keep: each   *)
(* of these is violated, see the runs with expect = violation.             *)

\* index.ts:766: a row that is not queued or running is in a terminal state.
\* cancelRun removes the entry by which execute would know of the cancel, so
\* the exit event of the killed child writes failed over cancelled.
CancelledStays ==
  [][\A r \in Runs : row[r] = "cancelled" => row'[r] = "cancelled"]_vars

-----------------------------------------------------------------------------
(* The inductive invariant behind the theorems of ExperimentRun_proofs.    *)

\* Where execute is determines what the row and the process can be.
PlaceAgrees ==
  \A r \in Runs :
    /\ at[r] \in {"none", "checked"} => row[r] = "absent" /\ child[r] = "none"
    /\ at[r] = "inserted" => row[r] = "queued" /\ child[r] = "none"
    /\ at[r] \in {"started", "venv"} => row[r] = "running" /\ child[r] = "none"
    /\ at[r] = "wait" => /\ row[r] \in {"running", "cancelled"}
                         /\ child[r] \notin {"none", "orphan"}
                         /\ row[r] = "running" => r \in active
                         /\ ranAt[r] \in 0..head
    /\ at[r] \in Ledger => /\ row[r] \in {"succeeded", "invalidated"}
                           /\ child[r] = "zero"
                           /\ ranAt[r] \in 0..head
    /\ mode = "down" => at[r] \in {"none", "ended"}

\* How far the ledger is.
LedgerInOrder ==
  \A r \in Runs :
    /\ at[r] \in Ledger \ {"files"} => files[r] = NumFiles
    /\ at[r] = "link" => bound[r] \in ranAt[r]..head
    /\ at[r] \in {"ckpt", "cklink", "audit"} => edge[r] # "none"
    /\ edge[r] # "none" => /\ at[r] \in {"ckpt", "cklink", "audit", "ended"}
                           /\ files[r] = NumFiles
                           /\ ranAt[r] \in 0..head
    /\ ckpt[r] # "none" => edge[r] # "none"

IInv ==
  /\ TypeOK /\ SupervisorKnowsChildren /\ NoStrandedRow /\ CheckpointIsComplete
  /\ PlaceAgrees /\ LedgerInOrder
=============================================================================
