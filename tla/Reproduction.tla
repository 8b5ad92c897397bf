---------------------------- MODULE Reproduction ----------------------------
(***************************************************************************)
(* The reproduction of a downloaded repository (reproduction-service.ts):  *)
(* dependencies are installed, a run is queued and executed by the task    *)
(* worker, and its outputs are registered, each after a decision of its    *)
(* own (index.ts, POST /api/proposals/:id/decision).                       *)
(*                                                                         *)
(* Decisions overlap each other, the task worker, an invalidation of the   *)
(* repository and a crash.  An action is one statement, or the process     *)
(* that pip or the entrypoint runs in; any of them may throw.  What        *)
(* creates a proposal is one action, and the files of a run are one file.  *)
(***************************************************************************)
EXTENDS Naturals, FiniteSets

CONSTANTS
  Installs,     \* proposals repository_dependency_install
  Plans,        \* proposals repository_reproduction_run
  Writes,       \* proposals repository_artifact_write
  Runs,         \* rows of reproduction_runs
  Requests,     \* decisions in flight
  MaxDecisions, \* bound: decisions over all
  MaxCrashes,   \* bound: how often the server dies
  None

Props == Installs \cup Plans \cup Writes

ASSUME PropsAssumption ==
  /\ Installs \cap Plans = {} /\ Installs \cap Writes = {} /\ Plans \cap Writes = {}
  /\ None \notin Props \cup Runs
ASSUME BoundsAssumption == MaxDecisions \in Nat /\ MaxCrashes \in Nat

VARIABLES
  repro,     \* reproductions.status
  status,    \* proposals.status
  of,        \* the run an artifact proposal is about
  run,       \* reproduction_runs.status ...
  ids,       \* ... and artifact_ids
  task,      \* the task of a run
  body,      \* executeQueuedReproductionRun, in the task worker
  artifacts, \* registered outputs
  linked,    \* runs with an edge to the reproduction
  swept,     \* whether the repository was invalidated
  request,
  mode,
  opened,
  crashes

runVars == <<run, ids, task, body>>
outVars == <<artifacts, linked, swept>>
serverVars == <<request, mode, opened, crashes>>
vars == <<repro, status, of, runVars, outVars, serverVars>>

RunStatuses == {"absent", "queued", "running", "failed", "awaiting_artifact_approval",
                "artifact_rejected", "completed", "invalidated"}
Idle == [pc |-> "idle", prop |-> None, decision |-> "approved", run |-> None, id |-> 0]
RequestRecord ==
  [pc : {"idle", "install", "pip", "load", "insert", "task", "check", "copy", "edges",
         "complete", "audit", "reject", "decide"},
   prop : Props \cup {None}, decision : {"approved", "rejected"},
   run : Runs \cup {None}, id : Nat]
Asleep == [pc |-> "idle", run |-> None]
Unprinted == <<"absent", {}>>
Artifact == [id : Nat, run : Runs, print : RunStatuses \X SUBSET Nat, valid : BOOLEAN]

TypeOK ==
  /\ repro \in {"source_downloaded", "dependency_installing", "dependency_failed", "ready",
                "invalidated"}
  /\ status \in [Props -> {"absent", "pending", "approved", "rejected"}]
  /\ of \in [Writes -> Runs \cup {None}]
  /\ run \in [Runs -> RunStatuses]
  /\ ids \in [Runs -> SUBSET Nat]
  /\ task \in [Runs -> {"absent", "queued", "running", "retrying", "succeeded", "failed"}]
  /\ body \in [pc : {"idle", "load", "start", "process", "await", "propose", "catch", "failed",
                     "done"}, run : Runs \cup {None}]
  /\ artifacts \subseteq Artifact
  /\ linked \subseteq Runs
  /\ swept \in BOOLEAN
  /\ request \in [Requests -> RequestRecord]
  /\ mode \in {"up", "down"}
  /\ opened \in 0..MaxDecisions
  /\ crashes \in 0..MaxCrashes

\* The repository has been downloaded, its dependencies perhaps installed by an
\* earlier decision.
Init ==
  /\ repro \in {"source_downloaded", "ready"}
  /\ status = [p \in Props |-> "absent"]
  /\ of = [p \in Writes |-> None]
  /\ run = [r \in Runs |-> "absent"]
  /\ ids = [r \in Runs |-> {}]
  /\ task = [r \in Runs |-> "absent"]
  /\ body = Asleep
  /\ artifacts = {}
  /\ linked = {}
  /\ swept = FALSE
  /\ request = [h \in Requests |-> Idle]
  /\ mode = "up"
  /\ opened = 0
  /\ crashes = 0

-----------------------------------------------------------------------------
(* Proposals and decisions.                                                *)

Submit(p) ==
  /\ mode = "up" /\ status[p] = "absent"
  /\ status' = [status EXCEPT ![p] = "pending"]
  /\ UNCHANGED <<repro, of, runVars, outVars, serverVars>>

ProposeInstall(p) ==
  /\ repro \in {"source_downloaded", "dependency_failed"}
  /\ \A q \in Installs : status[q] # "pending"
  /\ Submit(p)

ProposeRun(p) ==
  /\ repro = "ready"
  /\ \A q \in Plans : status[q] \notin {"pending", "approved"}
  /\ Submit(p)

FirstStep(p, decision) ==
  CASE decision = "approved" /\ p \in Installs -> "install"
    [] decision = "approved" /\ p \in Plans    -> "load"
    [] decision = "approved" /\ p \in Writes   -> "check"
    [] decision = "rejected" -> IF p \in Writes THEN "reject" ELSE "decide"

Open(h, p, decision) ==
  /\ mode = "up" /\ request[h].pc = "idle" /\ status[p] = "pending"
  /\ opened < MaxDecisions
  /\ opened' = opened + 1
  /\ request' = [request EXCEPT ![h] =
       [pc |-> FirstStep(p, decision), prop |-> p, decision |-> decision,
        run |-> IF p \in Writes THEN of[p] ELSE None, id |-> opened + 1]]
  /\ UNCHANGED <<repro, status, of, runVars, outVars, mode, crashes>>

At(h, pc) == request[h].pc = pc
Goto(h, pc) ==
  /\ request' = [request EXCEPT ![h].pc = pc]
  /\ UNCHANGED <<mode, opened, crashes>>
Leave(h) ==
  /\ request' = [request EXCEPT ![h] = Idle]
  /\ UNCHANGED <<mode, opened, crashes>>

\* The decision is recorded when everything it entails has been done.
Decide(h) ==
  /\ At(h, "decide")
  /\ status' = [status EXCEPT ![request[h].prop] = request[h].decision]
  /\ Leave(h)
  /\ UNCHANGED <<repro, of, runVars, outVars>>

\* installReproductionDependencies looks at no status.
Install(h) ==
  /\ At(h, "install")
  /\ repro' = "dependency_installing"
  /\ Goto(h, "pip")
  /\ UNCHANGED <<status, of, runVars, outVars>>

PipEnds(h) ==
  /\ At(h, "pip")
  /\ \/ repro' = "ready" /\ Goto(h, "decide")
     \/ repro' = "dependency_failed" /\ Leave(h)
  /\ UNCHANGED <<status, of, runVars, outVars>>

\* queueReproductionRun
LoadReproduction(h) ==
  /\ At(h, "load")
  /\ IF repro = "ready" THEN Goto(h, "insert") ELSE Leave(h)
  /\ UNCHANGED <<repro, status, of, runVars, outVars>>

InsertRun(h) ==
  /\ At(h, "insert")
  /\ \E r \in Runs :
       /\ run[r] = "absent"
       /\ run' = [run EXCEPT ![r] = "queued"]
       /\ request' = [request EXCEPT ![h].pc = "task", ![h].run = r]
  /\ UNCHANGED <<repro, status, of, ids, task, body, outVars, mode, opened, crashes>>

InsertTask(h) ==
  /\ At(h, "task")
  /\ task' = [task EXCEPT ![request[h].run] = "queued"]
  /\ Goto(h, "decide")
  /\ UNCHANGED <<repro, status, of, run, ids, body, outVars>>

-----------------------------------------------------------------------------
(* finalizeReproductionArtifacts and rejectReproductionArtifacts.          *)

\* Only a run that awaits it is finalized.
CheckAwaiting(h) ==
  /\ At(h, "check")
  /\ IF run[request[h].run] = "awaiting_artifact_approval" THEN Goto(h, "copy") ELSE Leave(h)
  /\ UNCHANGED <<repro, status, of, runVars, outVars>>

Own(h) == {a \in artifacts : a.id = request[h].id}

Copy(h) ==
  /\ At(h, "copy")
  /\ artifacts' = artifacts \cup
       {[id |-> request[h].id, run |-> request[h].run, print |-> Unprinted, valid |-> TRUE]}
  /\ Goto(h, "edges")
  /\ UNCHANGED <<repro, status, of, runVars, linked, swept>>

\* The fingerprint of a run covers its status and artifact_ids.
RunPrint(r) == <<run[r], ids[r]>>
RegisterEdges(h) ==
  LET r == request[h].run IN
  /\ At(h, "edges")
  /\ artifacts' = (artifacts \ Own(h)) \cup {[a EXCEPT !.print = RunPrint(r)] : a \in Own(h)}
  /\ linked' = linked \cup {r}
  /\ Goto(h, "complete")
  /\ UNCHANGED <<repro, status, of, runVars, swept>>

\* (A task has succeeded, a run is completed.)
Finished_Task == "succeeded"
Finished == "completed"

Complete(h) ==
  LET r == request[h].run IN
  /\ At(h, "complete")
  /\ run' = [run EXCEPT ![r] = Finished]
  /\ ids' = [ids EXCEPT ![r] = {request[h].id}]
  /\ Goto(h, "audit")
  /\ UNCHANGED <<repro, status, of, task, body, outVars>>

Audit(h) ==
  /\ At(h, "audit")
  /\ Goto(h, "decide")
  /\ UNCHANGED <<repro, status, of, runVars, outVars>>

\* Any of it may throw: what this request has registered is deleted.
FinalizeThrows(h) ==
  /\ request[h].pc \in {"copy", "edges", "complete", "audit"}
  /\ artifacts' = artifacts \ Own(h)
  /\ Leave(h)
  /\ UNCHANGED <<repro, status, of, runVars, linked, swept>>

RejectOutputs(h) ==
  LET r == request[h].run IN
  /\ At(h, "reject")
  /\ run' = IF run[r] = "awaiting_artifact_approval"
            THEN [run EXCEPT ![r] = "artifact_rejected"] ELSE run
  /\ Goto(h, "decide")
  /\ UNCHANGED <<repro, status, of, ids, task, body, outVars>>

RequestStep(h) ==
  \/ Decide(h) \/ Install(h) \/ PipEnds(h)
  \/ LoadReproduction(h) \/ InsertRun(h) \/ InsertTask(h)
  \/ CheckAwaiting(h) \/ Copy(h) \/ RegisterEdges(h) \/ Complete(h) \/ Audit(h)
  \/ FinalizeThrows(h) \/ RejectOutputs(h)

-----------------------------------------------------------------------------
(* executeQueuedReproductionRun, called by the task worker.                *)

BodyAt(pc) == mode = "up" /\ body.pc = pc
BodyGoto(pc) == body' = [body EXCEPT !.pc = pc]

\* The task has a single attempt, and one more after each restart.  (None more.)
Claimable_Queued == {"queued"}
Claimable == {"queued", "retrying"}

Claim(r) ==
  /\ BodyAt("idle") /\ task[r] \in Claimable
  /\ task' = [task EXCEPT ![r] = "running"]
  /\ body' = [pc |-> "load", run |-> r]
  /\ UNCHANGED <<repro, status, of, run, ids, outVars, serverVars>>

Load ==
  /\ BodyAt("load")
  /\ BodyGoto(IF repro = "ready" THEN "start" ELSE "catch")
  /\ UNCHANGED <<repro, status, of, run, ids, task, outVars, serverVars>>

\* Whatever the row says by now.
Start ==
  /\ BodyAt("start")
  /\ run' = [run EXCEPT ![body.run] = "running"]
  /\ BodyGoto("process")
  /\ UNCHANGED <<repro, status, of, ids, task, outVars, serverVars>>

ProcessEnds ==
  /\ BodyAt("process")
  /\ BodyGoto("await")
  /\ UNCHANGED <<repro, status, of, run, ids, task, outVars, serverVars>>

Await ==
  /\ BodyAt("await")
  /\ run' = [run EXCEPT ![body.run] = "awaiting_artifact_approval"]
  /\ BodyGoto("propose")
  /\ UNCHANGED <<repro, status, of, ids, task, outVars, serverVars>>

ProposeWrite ==
  /\ BodyAt("propose")
  /\ \E p \in Writes :
       /\ status[p] = "absent"
       /\ status' = [status EXCEPT ![p] = "pending"]
       /\ of' = [of EXCEPT ![p] = body.run]
  /\ BodyGoto("done")
  /\ UNCHANGED <<repro, run, ids, task, outVars, serverVars>>

\* Up to the audit that follows the proposal.
BodyThrows ==
  /\ mode = "up" /\ body.pc \in {"start", "process", "await", "propose", "done"}
  /\ BodyGoto("catch")
  /\ UNCHANGED <<repro, status, of, run, ids, task, outVars, serverVars>>

Catch ==
  /\ BodyAt("catch")
  /\ run' = [run EXCEPT ![body.run] = "failed"]
  /\ BodyGoto("failed")
  /\ UNCHANGED <<repro, status, of, ids, task, outVars, serverVars>>

EndTask ==
  /\ mode = "up" /\ body.pc \in {"failed", "done"}
  /\ task' = [task EXCEPT ![body.run] = IF body.pc = "done" THEN "succeeded" ELSE "failed"]
  /\ body' = Asleep
  /\ UNCHANGED <<repro, status, of, run, ids, outVars, serverVars>>

BodyStep ==
  Load \/ Start \/ ProcessEnds \/ Await \/ ProposeWrite \/ BodyThrows \/ Catch \/ EndTask

-----------------------------------------------------------------------------
(* Invalidation, crash and restart.                                        *)

\* The repository changed: the sweep reaches the reproduction and, once they
\* are linked, its runs and their outputs.
Invalidate ==
  /\ mode = "up" /\ ~swept
  /\ swept' = TRUE
  /\ repro' = "invalidated"
  /\ run' = [r \in Runs |->
       IF r \in linked /\ run[r] \in {"queued", "running", "awaiting_artifact_approval"}
       THEN "invalidated" ELSE run[r]]
  /\ artifacts' = {[a EXCEPT !.valid = @ /\ a.run \notin linked] : a \in artifacts}
  /\ UNCHANGED <<status, of, ids, task, body, linked, serverVars>>

\* Someone opens the project, and fingerprints are compared.
Inspect ==
  /\ mode = "up"
  /\ artifacts' = {[a EXCEPT !.valid = @ /\ a.print \in {Unprinted, RunPrint(a.run)}] : a \in artifacts}
  /\ UNCHANGED <<repro, status, of, runVars, linked, swept, serverVars>>

Crash ==
  /\ mode = "up" /\ crashes < MaxCrashes
  /\ crashes' = crashes + 1
  /\ mode' = "down"
  /\ body' = Asleep
  /\ request' = [h \in Requests |-> Idle]
  /\ UNCHANGED <<repro, status, of, run, ids, task, outVars, opened>>

\* A running row is failed, its task repeated.  (Neither of them is.)
AfterRestart_Kept(s) == s
AfterRestart(s) == IF s = "running" THEN "failed" ELSE s
Retried_Never(s) == IF s = "running" THEN "failed" ELSE s
Retried(s) == IF s = "running" THEN "retrying" ELSE s

Recover ==
  /\ mode = "down"
  /\ mode' = "up"
  /\ task' = [r \in Runs |-> Retried(task[r])]
  /\ run' = [r \in Runs |-> AfterRestart(run[r])]
  /\ UNCHANGED <<repro, status, of, ids, body, outVars, request, opened, crashes>>

Next ==
  \/ \E p \in Installs : ProposeInstall(p)
  \/ \E p \in Plans : ProposeRun(p)
  \/ \E h \in Requests :
       \/ \E p \in Props, decision \in {"approved", "rejected"} : Open(h, p, decision)
       \/ RequestStep(h)
  \/ \E r \in Runs : Claim(r)
  \/ BodyStep
  \/ Invalidate \/ Inspect \/ Crash \/ Recover

\* The worker ticks, its processes have a timeout, and the server restarts.
Fairness ==
  /\ \A r \in Runs : WF_vars(Claim(r))
  /\ WF_vars(BodyStep)
  /\ WF_vars(Recover)

Spec == Init /\ [][Next]_vars
FairSpec == Spec /\ Fairness

-----------------------------------------------------------------------------
(* Properties.                                                             *)

\* A row says running only while the worker is in the body of this run: the
\* restart fails the others before anything is repeated.
RunningHasWorker ==
  mode = "up" =>
    \A r \in Runs : run[r] = "running" =>
      body.run = r /\ body.pc \in {"process", "await", "catch"}

\* A run that awaits approval can be approved or rejected: there is a pending
\* proposal, or one is about to be made, also when the server died between the
\* status and the proposal, for then the task is repeated; and a decision that
\* fails leaves the proposal pending.
AwaitingIsAnswerable ==
  \A r \in Runs : run[r] = "awaiting_artifact_approval" =>
    \/ \E p \in Writes : of[p] = r /\ status[p] = "pending"
    \/ body.run = r /\ body.pc \in {"propose", "catch"}
    \/ task[r] \in {"running", "retrying"}

\* Every queued task ends, and its run does not stay queued or running.
RunEnds ==
  \A r \in Runs :
    task[r] = "queued" ~> /\ task[r] \in {"succeeded", "failed"}
                          /\ run[r] \notin {"queued", "running"}

-----------------------------------------------------------------------------
\* What a decision is about at each of its statements, and of which run.
InOrder(q) ==
  /\ q.pc # "idle" => mode = "up" /\ q.prop \in Props /\ status[q.prop] # "absent"
  /\ q.pc \in {"install", "pip"} => q.prop \in Installs
  /\ q.pc \in {"load", "insert", "task"} => q.prop \in Plans
  /\ q.pc = "task" => q.run \in Runs /\ run[q.run] = "queued" /\ task[q.run] = "absent"
  /\ q.pc \in {"check", "copy", "edges", "complete", "audit", "reject"} =>
       q.prop \in Writes /\ q.run = of[q.prop]
RequestInOrder == \A h \in Requests : InOrder(request[h])

\* A run is inserted by one decision, and its task follows it.
OneTask ==
  \A g, h \in Requests : At(g, "task") /\ At(h, "task") /\ g # h => request[g].run # request[h].run
TaskFollowsRun ==
  /\ \A r \in Runs : run[r] = "absent" => task[r] = "absent"
  /\ \A r \in Runs : task[r] = "absent" => run[r] \in {"absent", "queued"} /\ r \notin linked
  /\ \A p \in Writes : status[p] # "absent" => of[p] \in Runs /\ task[of[p]] # "absent"

\* The worker is in the body of the run whose task is running.
BodyInOrder ==
  /\ body.pc = "idle" => body.run = None
  /\ body.pc # "idle" => mode = "up" /\ body.run \in Runs /\ task[body.run] = "running"
  /\ mode = "up" => \A r \in Runs : task[r] = "running" => body.run = r
  /\ body.pc = "failed" => run[body.run] # "awaiting_artifact_approval"

\* A proposal is open until a decision has had its effect on the run.
OpenFor(p, r) ==
  /\ of[p] = r /\ status[p] = "pending"
  /\ \A h \in Requests : request[h].prop = p => request[h].pc \notin {"audit", "decide"}
AwaitingIsOpen ==
  \A r \in Runs : run[r] = "awaiting_artifact_approval" =>
    \/ \E p \in Writes : OpenFor(p, r)
    \/ body.run = r /\ body.pc \notin {"failed", "done"}
    \/ task[r] = "retrying"
    \/ mode = "down" /\ task[r] = "running"

\* The inductive invariant.
IInv ==
  /\ TypeOK
  /\ RequestInOrder
  /\ OneTask
  /\ TaskFollowsRun
  /\ BodyInOrder
  /\ RunningHasWorker
  /\ AwaitingIsOpen
=============================================================================
