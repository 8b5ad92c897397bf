# Research OS: models, checks and proofs

TLA+ modules for the server of Research OS (`apps/server`): what its handlers,
its workers and its restart do to the rows of the database, to the maps it keeps
in memory, to the child processes and to the Git repositories of projects, and
what can be relied upon when they overlap, fail or are cut short.

Everything is read from the source. Documents are only quoted where they promise
something; three runs, and three more configurations beside them, show a promise
that the code does not keep.

## 1. The system

The server is one Node process: a Hono API (`index.ts`), a task worker driven by
a timer, experiment coroutines and searches that nobody awaits, and an embedded
PostgreSQL (PGlite) that executes one statement at a time. Nothing is locked and
almost nothing is in a transaction: whatever lies between two `await`s is
atomic, and everything else may interleave with everything else. State that
survives a crash is in tables, files, Git and detached child processes; maps,
coroutines and requests do not survive.

| component | state | operations | how it interacts |
|---|---|---|---|
| Durable task queue (`task-worker.ts`, `enqueue` in `project-service.ts`) | rows of `tasks`, the flag `working`, the timers' coroutines, the metadata of an indexed upload | enqueue, claim, body, two finishing updates, recovery | bodies index uploads, call workflows and execute reproduction runs |
| Experiment supervisor (`experiment-runner.ts`) | rows of `experiments`, `artifacts`, `checkpoints`; `activeRuns`; child processes | submit, launch, exit, timeout, cancel, ledger | started by the API and by approved reruns; cancelled by the project's state; reads Git; registers lineage |
| Related-work searches (`related-work/service.ts`) | rows of `related_work_recursive_runs`, `runningControllers`, calls of `startRun` | approve, execute, search, cancel, resume | started by decisions and at startup |
| Proposal decisions (`index.ts`, `patch-service.ts`, `idea-service.ts`) | `proposals`, Git log and work tree, `idea_versions`, `idea.json`, `policies` | decide, with the effects of each kind | invalidates lineage, starts runs of every other component |
| Dependency lineage (`impact-service.ts`) | `lineage_dependencies` with fingerprints, status of experiments, checkpoints, artifacts, reproductions | register, reconcile, sweep, check of a checkpoint | written by runs and imports; read by inspection, decisions and recovery |
| Reproduction of repositories (`reproduction-service.ts`) | `reproductions`, `reproduction_runs`, their tasks, proposals and artifacts | install, queue, execute, register or reject outputs | decisions, task queue and lineage |
| Recursive collection (`related-work/recursive-search.ts`) | seen papers, edges, levels of a search | collect level by level, merge, stop at a limit or an abort | called by a search, asks providers through the cache |
| Request cache (`related-work/cache.ts`, `service.ts`) | rows of `related_work_request_cache` | read, ask, write, expire | shared by the searches of a project |
| Semantic memory (`supermemory-service.ts`) | `memory_links`, the stores of external servers | ingest, search, forget, delete | called by indexing, experiments, feedback, chat, deletion |
| Embedding settings and pools (`project-embedding-settings.ts`, `supermemory-instance.ts`) | two settings files, ports, pid files, child processes | change settings, register and release a pool, start and stop its instance | every call of the semantic memory finds its server here |
| Sessions, uploads and projects (`index.ts`, `project-service.ts`, `project-delete-service.ts`) | `conversation_sessions`, `projects`, `uploaded_files`, files in staging and in projects | chat, confirm, upload, delete; repair at startup | confirmation creates the project and its first task |
| Project state (`index.ts`) | `projects.status` | pause, resume, cancel | cancels experiments |
| Reviews, feedback, candidates (`index.ts`, `related-work`, `research-*`) | one status per row | create, decide | feedback creates proposals |

`PROJECT.json` lists the rest (model gateway, adapters, migrations, settings,
web interface, scripts) with the reason why it is not modelled.

### What is hard here

- A value is read before an `await` and acted upon after it: the status of a
  proposal, of a search, of a project; the version of an Idea; HEAD; the edges of a
  node. Most updates name only the id of the row.
- The truth about one activity is spread over a row, a map, a coroutine and a
  process, and each can be ahead of the others: a child has exited but its
  event is not delivered; a cancel has been answered but the search has not
  looked; a run awaits approval but its proposal does not exist yet.
- The server may die between any two statements. Recovery is three kinds of
  updates at startup (put tasks back, fail experiments and reproduction
  runs, requeue or cancel searches) and has to fit every place a crash can hit.
- Invalidation is a breadth-first sweep in single statements that runs
  concurrently with the registration of new edges and with other sweeps.
- Parts of the state are outside of the database: files are renamed and settings
  rewritten next to updates of rows, and child processes serve a port that may
  have got another owner since it was read.

### What makes each component correct

- Queue: one body at a time, the finishing updates write the row of this
  execution, no task is stranded by a restart, executions are bounded, what has ended stays
  so, everything enqueued ends.
- Experiments: no child escapes supervision, no row is stranded, a checkpoint
  is complete, nothing that has ended runs again, every run ends that does not hang
  before its child exists.
- Searches: a queued or running row is in somebody's hands, an answered cancel is known to the search, every run ends.
- Decisions: a patch is committed once and on its base, an approval is recorded
  when its invalidation is complete, no approved revision is lost, no rerun starts
  from a checkpoint that was invalidated meanwhile.
- Lineage: a grant is not based on changed records (it can be; what holds is that this takes
  several unfinished sweeps at once), a finished sweep leaves
  nothing valid behind, nothing is invalidated without a cause.
- Reproduction: `running` means a worker is running it, a run that awaits
  approval can be approved or rejected, every queued task ends.
- Collection: no two collected records share a key, never more than the limits, edges between collected
  papers, depths that are distances; a search that gives no reason for
  stopping has followed everything. Cache: an answer that an abort cut short is not kept.
- Memory: nothing is stored that the ledger does not know, no ingestion stays
  pending while the server lives. Pools: every override has its pool, no port has two
  owners, what nobody uses is released; a text goes to the store of its own configuration.
- Sessions: the file of an upload is never lost, and is where its row says except around the rename of a
  confirmation; and the first task of a project
  finds a confirmed Idea, a workspace and all its uploads.

## 2. Modules

| module | models | granularity |
|---|---|---|
| `JobQueue` | what the task queue promises, without leases, coroutines or back-off | abstract specification |
| `TaskQueue` | `task-worker.ts`, `enqueue` | code between two awaits |
| `ExperimentRun` | `experiment-runner.ts`, the endpoints for experiments and for the project's state, a patch committed meanwhile | code between two awaits; process and exit event are separate |
| `RelatedWorkRun` | `startRun`, `startRelatedWorkRun`, cancel, resume | code between two awaits |
| `ProposalDecision` | `POST /api/proposals/:id/decision` for patches, revisions, reruns and policies | one database statement, Git calls atomic except for a crash |
| `Lineage` | `impact-service.ts`, the ledger of a run, inspection, recovery of a checkpoint | one database statement |
| `Reproduction` | `reproduction-service.ts` from the download on, its decisions, its task | one database statement or one process |
| `RequestCache` | `cache.ts`, `referencesWithCache`, the outcome of a request | code between two awaits |
| `RecursiveCollect` | `recursiveCollect`, extends `RequestCache` | requests of a level interleave; merging is one reference at a time |
| `EmbeddingPool` | `project-embedding-settings.ts`, `supermemory-instance.ts` | one write of a file (seen by a crash only), processes apart |
| `ProjectMemory` | `supermemory-service.ts`, the settings endpoint, deletion; extends `EmbeddingPool` | code between two awaits |
| `IdeaSession` | chat about an Idea, confirmation, uploads, deletion, repair at startup | code between two awaits |
| `TaskQueue_proofs`, `ExperimentRun_proofs`, `RelatedWork_proofs`, `IdeaSession_proofs`, `ProjectMemory_proofs`, `ProposalDecision_proofs`, `Reproduction_proofs`, `Lineage_proofs` | theorems about the modules (that of `ProjectMemory` covers `EmbeddingPool`, `RelatedWork_proofs` is about `RelatedWorkRun`, `RecursiveCollect` and `RequestCache`) | |
| `MC*` | instances for TLC: values of constants, symmetry sets | |

State and code correspond as follows.

**TaskQueue.** `status`, `attempts`, `lease`, `wait`, `created` are columns of
`tasks`; a task is its idempotency key, so `absent` means that no row has the
key. `tick[k]` is a call of `tick`, alive from the timer to its `finally`, and
`working` is the flag of the module. `StartTick` is the timer, the flag and
`claim`; `BodySucceeds`, `BodyFails` and `MarkFileFailed` are the body and the
metadata written by its `catch`; `FinishSuccess` and `FinishFailure` the finishing
updates, `Delay` the back-off. `LeaseLapses` and `TimePasses` are the clock, in
units of five seconds. `Crash` forgets coroutines and the flag; `Recover` is
`recoverInterruptedWork`, after which the server listens.

**ExperimentRun.** `at` is the program counter of the request that inserts a
run and of `execute` for it; `active` the keys of `activeRuns`; `child` the
process, which may have exited (`zero`, `nonzero`, `killed`) before the event is
delivered (`ExitSucceeds`, `ExitFails`), or live on as `orphan` after a crash.
`files`, `edge`, `ckpt` are what the ledger of the run consists of, `ranAt` and
`bound` the commits that it ran at and that it names. `cancel` is the cancel
endpoint of a run, `admin` a request to the state endpoint, which cancels all active
runs one by one. `Throws` is the `catch` of `execute`, from any await.

**RelatedWorkRun.** `row` and `requested` are columns, `control` is
`runningControllers` (it holds which search registered the entry), `search` the
calls of `startRun`, of which one run may have several, `starter` the requests
in `startRelatedWorkRun`. `completed` also stands for `partial` and
`max_total_reached`, which nothing distinguishes.

**ProposalDecision.** `log` is the Git history (the proposals whose operations
each commit holds), `dirty` the work tree, `versions`, `current`, `file` the Idea.
`request[h]` is a decision in flight. All its awaits are database statements,
and PGlite executes these in the order of issue, so requests proceed in turn
(`turn`); without this order `RerunIsFresh` would have to be shown for delays that cannot
occur. The other modules let a statement wait arbitrarily long, which
only adds behaviours.

**Lineage.** `edge` and `print` are rows of `lineage_dependencies`, `version` the
contents of a record (one of a set of `Contents`; `Change` replaces them any number of times, also by
what they were before), `standing` the status of a run or a checkpoint. `ledger[r]` is
where `execute` is in writing the edges of run `r`; `worker[w]` a request that
reconciles, sweeps, or checks a checkpoint. `touched`, `late` and `lost` are history
variables that the properties use: records that were ever changed, edges registered below an invalidated
node, and sweeps that a crash cut off. A recovery keeps in `had` which edges had drifted when it came and have not
drifted back. A checkpoint is a node `Point(r)`; the two rows that a recovery reads,
those of the checkpoint and of its run, are read by `CheckPoint` and `CheckSource`.

**Reproduction.** `repro`, `run`, `ids`, `task`, `status` are columns;
`request[h]` a decision, `body` the execution in the task worker. An output is
a record with the fingerprint its edge was registered with. The body
is started by whatever the task says, whatever the row of the run says, as in the code.

**RequestCache, RecursiveCollect.** `cache[q]` is the row of a request, `fetch[r][q]`
where search `r` is with it: reading, asking, writing. A row that was written says in
`cut` (history) that an abort had cut its answer short. `stage`, `level`,
`order`, `depthOf`, `pending`, `edges` are the local variables of `recursiveCollect`:
`order` is the array `ordered`, `pending` what a loop has still to look at. The merge
of a level has no await, so while `pending` is not empty no other search moves
(`Merging`). A record is what one provider says of a paper, and `KeysOf` its keys; two
records with a common key are one paper, but which of two collected papers a
record belongs to depends on the order of its keys (`Owners`), and a record that is dropped as known
registers none of its own keys. Depth and total are columns of each search; the
width is one constant, since the limit of a request is in its hash (`service.ts:201`), and searches of
different widths share no row of the cache. `Worlds` are
the citation graphs that the providers may list.

**EmbeddingPool, ProjectMemory.** `override` and `pools` are the two settings
files, `pidFile` the pid file and the route file of a pool, `proc` the
processes. `Writes` lists the files after each write of a change, of which a
live server shows only the last and a crash any. `req[r]` is a request; its
`pool` and `port` are what it has read, which may be out of date by the time it uses
them. `stored` is what the data directory of each configuration holds: `Remote` takes
effect in the store of the process that listens on the port, whoever that is, and
`RemoteFails` may also have taken effect. `Finish` may throw after its UPDATE (the audit
record), which makes `failed` of an ingestion that has succeeded; a deletion whose directory
cannot be removed does not stop the instance it has released.

**IdeaSession.** `session`, `project`, `row` are rows, `place` the directories in
which a file is, `indexed` the tasks that index uploads. `turn[t]`,
`confirm[p]` and `upload[f]` are requests; a confirmation is named after the
project it creates, a draft after the turn that wrote it. `Move` and `UpdatePath`
are the rename of a file and the update of its path. A file has three places to be
in: the session's directory in staging; `artifacts/uploads/<session>` of its project, where
uploads and confirmations put it; and `artifacts/staging/uploads/<session>`, where the repair at startup
(`Restart`, which is `migrateProjectArtifactFiles`) both looks for the file of a row in staging and moves it to.
`DieRepairing` is a death during the repair. `cutOff` (history) are the files that a death found between
rename and `UPDATE`.

## 3. What is checked

Bounds are constants of the modules; their values are in the configurations.

| run | expected | shows | instance |
|---|---|---|---|
| `task_queue` | holds | type, `OneAtATime`, `RunningIsHeld`, `HolderOwnsRow`, `AttemptsBounded`, implements `JobQueue`, `EveryTaskEnds` | 2 indexing tasks with 2 attempts, one task with 1, 2 ticks, 2 crashes |
| `experiment_run` | holds | type, `SupervisorKnowsChildren`, `NoStrandedRow`, `CheckpointIsComplete`, `EndedStaysEnded`, `EveryRunEnds` | 1 experiment, 2 files, 2 state requests, 1 patch, 2 crashes |
| `related_work_run` | holds | type, `NoStrandedRun`, `CancelReachesSearch`, `EveryRunEnds` | 1 proposal, 2 starting requests, 2 searches, 2 crashes |
| `decision` | holds | type, `PatchOnItsBase`, `ApprovedIsSwept`, `RevisionIsNeverLost`, `RerunIsFresh` | 1 patch, 2 revisions, 1 rerun, 1 policy, 2 requests, 3 decisions, 1 crash |
| `lineage` | holds | type, `GrantIsSound`, `NothingIsMissed`, `InvalidForAReason` | a paper, evidence from it, a commit, 1 run, 2 changes, 2 concurrent requests, 1 crash |
| `reproduction` | holds | type, `RunningHasWorker`, `AwaitingIsAnswerable`, `RunEnds` | 1 run, 2 proposals for its outputs, 2 requests, 3 decisions, 1 crash |
| `recursive_collect` | holds | type, `CollectionIsSound`, `CollectionIsComplete` | 2 searches (depths 3 and 2, width 2, totals 3 and 2), 4 records of 3 papers, 2 providers, 2 citation graphs |
| `project_memory` | holds | type, `PoolsMatchUse`, `LedgerKnowsStored`, `PendingIsHeld` | 2 projects, 2 configurations, 2 ports, 2 processes, 2 concurrent requests of 5, 1 crash |
| `idea_session` | holds | type, `FileIsReadable`, `BootstrapFindsAll` | 2 chat turns, 2 confirmations, 2 uploads, 2 crashes |
| `experiment_cancelled` | violated | `CancelledStays` | 1 experiment |
| `lineage_fresh` | violated | `GrantIsFresh` | evidence, a commit, 1 run, 2 changes, 3 requests, 2 at a time, 1 crash |
| `pool_served` | violated | `ServedByOwnPool` | as `project_memory`, no crash |

Three further configurations are not among the runs of `PROJECT.json`. Each states a claim of a
document or a comment, and TLC finds it violated within half a minute: `MCIdeaSessionRepair.cfg` (`RepairFindsAll`),
`MCRecursiveCollectAliases.cfg` (`AliasesConverge`), `MCRecursiveCollectCached.cfg`
(`CancelledNeverCached`). What they show is in section 4.

Why these bounds are enough to see the interesting cases: every race in this code is
between two actors (two ticks, two requests, a cancel and an exit, a sweep and a
ledger), so two of each with a third kind of actor alongside exhibit it. A crash matters by the
place where it hits, and one crash hits every place; two are taken where what
happens after a recovery may be hit again (attempts of tasks, requeued
searches, a repair of files that dies itself). Two attempts distinguish "retry" from "give up"; two files and a
two-step chain of records distinguish "all" from "some" and a direct edge from
recursion. Three decisions are one more than what a single overlap needs;
in `Reproduction`, where a run needs an installation, a run and an output, the model
also starts from an installed repository. The experiments of a project share nothing
but the commit and the requests about it, so that one of them meets every
request; that the safety properties hold for any number is proved (section 5). In
`recursive_collect` totals of three and two with four records make both limits bite in both searches, record 3
shares one key with record 2 and another with record 4, and one world closes a cycle. Five requests
are what the longest story of `project_memory` takes: settings of one project,
an ingestion, deletion, settings of the other, and its ingestion.

Two changes of a record let it change back. Two requests are one too few for the longest story of `lineage`
(section 5): `lineage_fresh` needs three, on a smaller graph, and the theorems hold for any number.

Deadlock is checked in `task_queue`, where ticks never stop; elsewhere the
server may rest when all requests have been made, and the configurations say so.

Symmetry is used for interchangeable runs, requests and proposals of one kind,
in runs without liveness.

**Fairness.** `EveryTaskEnds`: the timer fires, bodies end (the requests and
processes they wait for have timeouts), time passes, the server is restarted.
`EveryRunEnds` of experiments: the coroutine continues, the timeout kills a child
that hangs, exit events are delivered, the restart happens; nothing is assumed
about a child exiting by itself. That goes for `python -m venv` too, which has neither a timeout
nor an entry in `activeRuns`: the step out of the place `venv` has no fairness, and
`EveryRunEnds` says that a queued run ends or stays at that place for ever (section 4, item 7). `EveryRunEnds` of searches: awaits return (provider requests have timeouts), and
the two statements of a cancel are executed. `RunEnds`: the worker ticks and processes have timeouts. No
fairness is assumed of people: decisions, cancels and patches may never come. Crashes
are bounded; a server that dies for ever ends nothing.

## 4. Where the code differs from what is said of it

1. **A cancelled experiment does not stay cancelled**
   (`experiment_cancelled`). `cancelRun` deletes the entry of `activeRuns`
   before the exit event of the killed child arrives, so `execute` cannot see
   `state === 'cancelled'` and writes `failed`, or goes on to `succeeded` if the
   process had just ended. `index.ts:766` calls such a row terminal.
2. **A rerun is granted on a changed record** (`lineage_fresh`). A sweep invalidates an edge in
   one statement and the row behind it in the next (`impact-service.ts:91`, `:92`); reconciliation looks
   at valid edges only (`:103`), and the check of a checkpoint at rows only. In the run, evidence changes, an
   inspection has invalidated the edge from the run to it and is about to mark the run, the edges of the
   checkpoint are not registered yet; a recovery finds no changed valid edge, a good checkpoint and a good
   run. A death at the same place leaves this for ever. `docs/operations.md:134` says that invalid or
   changed dependencies produce a structured conflict and no run is queued, `docs/security.md:21` that they fail closed,
   `README.md:166` that an invalidated dependency returns an error. What the code does keep is `GrantIsSound`:
   the number of sweeps that have to be at, or to be cut at, such a place at once.
3. **A text may be stored with the embedding pool of another configuration**
   (`pool_served`). Whoever answers on the port counts as the instance of the pool
   (`supermemory-instance.ts:76`, `:105`), also when the pool was released
   while a request waited for it and its port given away. `README.md:144` says
   that different configurations get different pools, without contamination.
4. **A cancelled request is cached** (`MCRecursiveCollectCached.cfg`). `aggregateAttempt`
   turns `cancelled` into `failed` (`source-adapters.ts:150`), so the test for
   `cancelled` before the write (`cache.ts:167`) never applies; later searches are
   answered with the failure. `README.md:120` says that a cancelled request
   is never cached.
5. **Which papers are collected depends on the order of the answers**
   (`MCRecursiveCollectAliases.cfg`). The keys of a reference that is dropped as known are never registered
   (`recursive-search.ts:100`, `:166`). Record 3 shares a key with record 2 and another with
   record 4: when 3 comes first, 2 and 4 are both dropped as it; when 2 comes first, 3 is dropped, 4 shares no
   key with what is left, and both are collected, although 3 says that they are one paper. A comment
   (`recursive-search.ts:89`) says that every identity alias is kept pointing at one canonical record, so
   that they converge; `README.md:118` speaks of deterministic deduplication. `CollectionIsSound` says only
   that no two collected records share a key.
6. **The repair at startup does not find what a confirmation has moved**
   (`MCIdeaSessionRepair.cfg`). A confirmation renames the file to `artifacts/uploads/<session>/`
   (`project-service.ts:15`) and updates the row afterwards. For a row that still names `staging/uploads/<session>/`
   the repair puts `artifacts/` before that path (`project-artifact-migration.ts:18`), so after a death between
   rename and `UPDATE` it finds neither its target nor its source (`:26`, `:31`), and the row names nothing for ever,
   though the file is there. (When the rename had to fall back on a copy, the one left in staging is
   moved, and the project has two.) `README.md:40` says that uploads resolve below
   `projects/<project-id>/artifacts/`. `FileIsReadable` says what is left: the file is not lost.
7. **A run may hang where neither timeout nor cancel reaches it.** `python -m venv` is awaited until it
   exits (`experiment-runner.ts:26`), before the run is entered in `activeRuns` (`:127`): the timer is set
   later, and `cancelRun` finds nothing. `README.md:154`, `docs/architecture.md:67` and `docs/security.md:17` list timeout
   and process-tree cancellation without exception. `EveryRunEnds` excuses this place; no run is devoted to
   it, as a step without fairness is all there is to see.

Further behaviours seen while modelling, reachable in the modules unless noted,
to which no run is devoted. The first five contradict a document, or what the code itself refuses elsewhere:

- An experiment may be bound to a commit that it never ran: `rev-parse HEAD` is
  called when the ledger is written (`experiment-runner.ts:173`), and a patch may
  be approved during the run; `docs/security.md:21` says that outputs are bound to the commit.
- A proposal can be decided twice: the status is checked on arrival and
  written unconditionally at the end (`index.ts:707`); `index.ts:633` refuses
  a decided proposal.
- The outputs of every completed reproduction become invalid: their edges are
  registered before the run is completed, and its fingerprint covers status and
  artifact ids (`reproduction-service.ts:582`); the next inspection invalidates them
  although nothing changed. `docs/architecture.md:37` names repository
  changes as what invalidates outputs.
- A failure may replace a success in the request cache, when two searches that both
  found a failed row write after one another (`cache.ts:176`); `README.md:120`
  says that it does not.
- A text may survive its project: a deletion revokes the links that are
  active when it begins, and neither those that are pending or failed nor an
  ingestion under way (`project-delete-service.ts:79`). `README.md:40` says that all
  is deleted.

The others are excluded by no document:

- A cancel of an experiment before its child is registered is answered with
  `cancelled` and has no effect (`index.ts:767`); pausing a project does not reach
  experiments that are still queued (`index.ts:879`).
- After a crash: a run may be `succeeded` without ledger
  (`experiment-runner.ts:139`), a child survives unsupervised, an
  approved policy may never be inserted (`index.ts:712`), an approved search may have
  no run (`index.ts:709`), a reproduction may stay `dependency_installing`
  (`reproduction-service.ts:355`), a reproduction run may have no task
  (`reproduction-service.ts:420`).
- The revision that loses a race restores `current_idea_version` and `idea.json`
  over those of the winner (`idea-service.ts:39`).
- With two searches of one run, the first to end removes the entry of the other,
  which a later cancel then does not abort (`related-work/service.ts:944`);
  `startRun` may write `running` over `cancelled` (`:847`).
- An installation approved after an invalidation makes the reproduction ready
  again (`reproduction-service.ts:337`); a restart executes a run again
  whatever its status; after a failed run no further one can be proposed
  (`:391`); queueing a second run changes the fingerprint that the first run's
  edge recorded (`:422`, not modelled).
- One approved experiment proposal may be submitted any number of times
  (`index.ts:751`), and two overlapping approvals of a rerun queue two runs
  (`index.ts:702`). `git add --all` of a patch commits whatever an overlapping
  revision has left in the work tree (`patch-service.ts:46`, not modelled).
- An edge registered after the sweep of its upstream node has the old meaning and
  a new fingerprint (`impact-service.ts:57`).
- Fresh results are invalidated with stale ones: reconciliation sweeps from the
  changed node and not from the stale edge (`impact-service.ts:88`), so a run
  made with the new contents is invalidated for the reason `upstream_fingerprint_changed`.
- `papers.verified` is set after the edges to the paper were registered
  (`evidence-service.ts:80`, not modelled): the evidence just collected is
  invalidated by the next inspection, by the mechanism of the outputs above.
- Of two searches that ask the same for the first time, the slower INSERT meets the unique
  key, and its request counts as failed although it was answered
  (`cache.ts:201`). The width is applied to the references of all providers
  together, so a paper that two of them list is counted twice
  (`recursive-search.ts:160`).
- Two first requests to a pool both spawn an instance; one of them does not get the port, and
  if it was spawned last the pid file names it, so that `stopPoolInstance` stops the
  wrong process (`supermemory-instance.ts:100`). Deletion and
  settings free the port before the instance is stopped.
- After a change of pool an ingestion of a known text is answered as
  idempotent, and the new store stays empty (`supermemory-service.ts:290`).
- After a crash: a pending link answers 409 for ever (`:291`); a text that was
  deleted remotely, and whose row still says `active`, makes the deletion of
  its project fail (`:396`); a registered pool that nobody uses keeps its port.
- A request for settings that overlaps a deletion writes an override for a project
  that no longer exists (`index.ts:232`).
- A chat turn that ends after the confirmation sets the phase back (`index.ts:175`),
  and the session can be confirmed again, as it can by two confirmations at once;
  deleting the project that the session then names deletes the rows of all its uploads,
  also those of the other project (`project-delete-service.ts:49`).
- A failed workspace or move leaves a half-made project, because the DELETE
  that should take it back meets foreign keys (`index.ts:337`, `:342`); when the
  memory does not answer, the project has no bootstrap task (`index.ts:346`).
- An upload that is scanned while its session is confirmed keeps no project and is
  never indexed; one that is scanned while its project is deleted leaves its file (`index.ts:941`).

## 5. What is proved

The modules `*_proofs` prove with TLAPS, for all values of the constants that
satisfy the named assumptions of their modules, every invariant and action
property that the passing runs check on small instances: the number of tasks, runs,
requests, projects, proposals, ports, records and crashes is arbitrary, and so are the graph of records and
the map from runs to their inputs. Each module defines its inductive invariant (`IInv`, `CollectInv`) beside its properties, as a
conjunction of named parts; it was model-checked before it was proved. A proof has
one lemma per action, and usually one about the frame: what a step leaves alone keeps its
part of the invariant.

**TaskQueue.** `TypeCorrect`, `AtMostOneRunning` (`OneAtATime`),
`NoStrandedTask` (`RunningIsHeld`), `FinishWritesOwnRow` (`HolderOwnsRow`),
`BoundedAttempts` (`AttemptsBounded`), `FinishedStays` (`FinishedIsFinal`, which
no run checks, as the refinement covers it),
`Refinement` (`ImplementsJobQueue`). None of these is inductive alone. `OneAtATime` holds
because the flag `working` admits one coroutine (`FlagGuardsTicks`), because a
coroutine past its claim holds a row that is `running` with the attempts it
read (`HeldRow`), and because every running row is held while the server is up
(`RunningIsHeld`); the bound on attempts needs room for one more execution wherever a claim
may follow (`AttemptsRoom`): a restart gives back an execution that `claim` has counted already.
`IInv` is the conjunction; initial states satisfy it and every action preserves it. The
refinement maps `queued` and `retrying` to `pending` and `running` to
`executing`; each action is a step of `JobQueue` or changes nothing it can see.

**ExperimentRun.** `TypeCorrect`, `NoChildEscapes` (`SupervisorKnowsChildren`),
`NoRowIsStranded` (`NoStrandedRow`), `CheckpointsAreComplete`
(`CheckpointIsComplete`), `EndedStays` (`EndedStaysEnded`). `PlaceAgrees` says
what the row and the child can be at each place of `execute`, which is what
makes a late cancel or a sweep harmless at that place; `LedgerInOrder` how far
artifacts, edges and the checkpoint have come. `IInv` is again their conjunction with the
properties, and was model-checked before it was proved.

**RelatedWorkRun.** `TypeCorrect`, `NoRunIsStranded` (`NoStrandedRun`),
`CancelIsKnown` (`CancelReachesSearch`), with any number of searches of one run.
That some search is alive is too weak to be inductive, since the one that ends need not be
the one that wrote the row: `RowIsHeld` says that behind a running row there is
a search that has yet to save, and behind a queued one a search before its
first write, or the request that has inserted the row. `QueuedIsWanted` is why a restart
resumes every queued row: none of them has been cancelled. `CancelReachesSearch` is inductive
given the types.

**RecursiveCollect.** (In the same module as the theorems about `RelatedWorkRun`.) `CollectTypeCorrect` (`CollectTypeOK`), `CollectedIsSound`
(`CollectionIsSound`), `CollectedIsComplete` (`CollectionIsComplete`), for any papers, keys, providers,
answers, depths, widths and limits and any number of searches that share the cache. That no two collected records
share a key (which is less than that no paper is collected twice, see section 4, item 5) comes from `findSeen`: when it returns nothing, none of the keys is owned (`UnownedIsNew`), whatever key
the owner was found by otherwise. The inductive invariant, `CollectInv`, says where the loop is (`InLevel`: no paper is deeper
than the level that is merged, every pending reference belongs to a paper of the level before); that each
seed is still pending or the same as a collected paper (`SeedsAreKept`); that all references of the levels above
have been followed, those of the level that is merged but for the pending ones (`LevelsAreFollowed`); and
that a search which ends without a reason has no further level (`EndedAtLastLevel`). That the reported depth is the
distance from the seeds, in a graph of any size, speaks of ways of any length; the invariant speaks of one edge
(`SoundByEdge`): no edge leads more than one level down, and one leads to each paper from the level above. Two lemmas take it
from edges to ways, each by the least place at which it would fail (`LowestIndex`): `NoShorterWay` along a way,
`WayOfItsDepth` back to a seed. Steps of other searches cannot
disturb this, because they touch only rows of the cache and requests that are not yet done
(`RequestProceeds`), and the slice of a paper is decided by requests that are (`SliceStays`).

**IdeaSession.** `TypeCorrect`, `FilesAreReadable` (`FileIsReadable`),
`BootstrapIsComplete` (`BootstrapFindsAll`), with any number of confirmations,
uploads and deletions in one session. The file of a row is there because the row is inserted after the
file is written (`UploadInOrder`), because a confirmation moves only files whose
rows name its project, so no other one moves them (`MoveInOrder`), because a
project that is deleted takes its rows with it (`ProjectInOrder`), because no confirmation is under way when
the repair runs (`RepairInOrder`), and because neither the repair nor a death during it takes a file from where
it is without putting it at its target (`FileIsKept`). Where the file is need not be where the row says: the property
excepts, openly, a file that is being moved and one that a death found renamed and not updated
(`cutOff`), which is in the project's directory for uploads instead. The claim without that exception, `RepairFindsAll`, is false
(section 4, item 6). The bootstrap task follows the last move of the request that enqueues it
(`ConfirmInOrder`): once there is a project, no upload in staging is linked to it any more.

**ProjectMemory.** `TypeCorrect`, `PoolsMatchTheirUse` (`PoolsMatchUse`),
`LedgerKnowsWhatIsStored` (`LedgerKnowsStored`), `PendingRowsAreHeld`
(`PendingIsHeld`, of every step). `PoolsMatchUse` is nearly inductive: override and registry
are read and written between two awaits, so it is enough that a request
passes on only a configuration (`RequestInOrder`) and that the lowest free port is free
(`LowestPort`). `LedgerKnowsStored` is not: that a store has the text when `Remote` takes effect
says nothing of the row. `IngestHasRow` adds that an ingestion of a project that exists has
its row from its first statement on, which a deletion can take away only with the project. `PendingIsHeld` speaks of
steps, and holds since each path through an ingestion, a lost answer included, ends in a
write of the row before the ingestion lets go of it.

**ProposalDecision.** `TypeCorrect`, `PatchesAreAppliedOnce` (`PatchOnItsBase`),
`ApprovalsAreSwept` (`ApprovedIsSwept`), `RevisionsAreKept` (`RevisionIsNeverLost`), `RerunsAreFresh`
(`RerunIsFresh`, of every step). A patch is committed once because its base is older than the
commit that holds it (`LogInOrder`), and HEAD only grows. For revisions: a version that was inserted
belongs to its request until it is taken back (`VersionIsOwned`), numbers are
unique, and while nothing was undone they have no gap and each version contains those
before it (`VersionsInOrder`), so that whoever inserts number n has read
number n - 1; an approval is recorded by a request that gives its version up
thereby (`ApprovedIsKept`). `RerunIsFresh` assumes, as `Init` does, that the checkpoints are older than all
proposals of the model.

**Reproduction.** `TypeCorrect`, `RunningRowsHaveWorkers` (`RunningHasWorker`),
`AwaitingRunsAreAnswerable` (`AwaitingIsAnswerable`). That there is a pending proposal is not inductive,
because a decision in flight may be about to make it `approved` or `rejected` while the row still
says that it awaits approval: `AwaitingIsOpen` asks for a proposal that no decision has
carried out, or for a body or a restart that will come back to the run. The body works on the one
run whose task is running (`BodyInOrder`), each run is inserted by one
decision (`OneTask`), and its task follows it (`TaskFollowsRun`).

**Lineage.** `TypeCorrect`, `InvalidationsHaveReasons` (`InvalidForAReason`),
`SweepsReachEverything` (`NothingIsMissed`), `GrantsAreSound` (`GrantIsSound`), for any graph, any
depth, and any number of sweeps. Behind the first: contents or a fingerprint other than those a node starts with
have a cause, a record that was `touched` (`PrintsAreCaused`), which stays true when the record changes back; so what a comparison finds stale has one (`DifferenceIsCaused`), and so has all a
sweep carries with it (`WorkerIsCaused`). Behind the second: what is behind an invalid edge is in the
queue, among the edges, or the next row of some sweep under way (`SweepIsComplete`), because a
sweep that skips a visited node has all its valid edges at hand but the late ones (`WorkerInOrder`). Behind the third:
the edges that a recovery was to find are found by its scan, queued and swept (`HadIsFound`), and an
invalid edge whose row is good is owed by a sweep of its own (`MarksAreOwed`): for every set of rows there are no
more such edges than sweeps that are about to mark a row of the set, or were lost.

`GrantIsSound` is not what the documents promise; that is `GrantIsFresh`, which is false (section 4, item 2). It is the
strongest form of it that holds. Its proof first failed, for a good reason: it used to say that a grant on a
changed record takes one interrupted sweep, counted when the source is read; no
strengthening of it is inductive, and with three requests, two at a time, TLC finds the counterexample that two
requests are too few for: one sweep is lost at the row of the run, and another one is
about to mark the row of the checkpoint while both are read. What is true, and is stated now, is the count: as
many unfinished sweeps as there are edges to the record, at the moment the checkpoint is read.

**Assumptions.** The constants are what their comments say: sets, bounds in
`Nat`, functions between them, a null value outside of the sets
(`NoneAssumption`, `PropsAssumption`), kinds of nodes and of
proposals that do not overlap (`NodesAssumption`, `PointsAssumption`, `KindsAssumption`), ports that are numbers and
a default configuration that is none of the others (`PoolAssumption`), a finite set of concurrent requests in `Lineage`,
where they are counted (`WorkersAssumption`), first contents that are among the possible ones (`ContentsAssumption`); records and providers that are finitely many, at least one
key for every record, as `paperKeys` falls back on title and year (`RecordAssumption`), ranks and limits in
`Nat` (`SearchAssumption`). Nothing is assumed about sizes.
TLC evaluates them in every run.

**What stays with TLC.** Liveness (`EveryTaskEnds`, both `EveryRunEnds`, `RunEnds`): temporal properties under
fairness and `ENABLED` are beyond the prover. The violated claims
have counterexamples and no proofs. The library's induction theorems take an operator, which the
installed provers cannot instantiate; where a least port, a first key, a greatest version or the first
edge of a way has to exist, the proofs use finite sets ordered by strict inclusion, for which the theorem
on least elements takes none.

## 6. Abstractions

- A database statement succeeds or throws; a transaction is one step.
- Data that no property tells apart is left out: contents of messages, plans,
  metrics, error texts, paths, hashes of files. Validation of such data is a step
  that may throw.
- One project: tables are partitioned by `project_id`, and the queue, which is
  not, takes tasks of all projects alike.
- Contents of a record in `Lineage` are members of a set, as far as a fingerprint tells them apart;
  artifact files and their hashes are not in it; files of a
  reproduction run are one file; Git's index is not modelled.
- The creation of a proposal is one step; checks for a second open proposal of
  the same kind are part of it.
- In `RelatedWorkRun` the SELECT between the INSERT of a run and its start
  (`related-work/service.ts:962`) is taken to succeed. If it threw, the queued row would wait for the next
  restart or the next approval, with nobody holding it: `NoStrandedRun` and `EveryRunEnds` do not cover this.
- In `RequestCache` what a provider lists does not change, and the rows of an
  answer are those of the recursive search (queries by text have the same code).
- In `ProjectMemory` each project has one text; a signal ends a process at once
  and no pid is given twice; extraction and embedding inside the server take no time.
- In `IdeaSession` there is one session; the semantic memory is configured and
  its calls succeed or fail; an `UPDATE` that follows a rename does not throw; a deletion that
  the foreign key of another project's memory link (`database.ts:91`) rolls back is not a step;
  chat turns about a project, which change nothing here, are left out.

## 7. Plan

Done, in this order: the task queue with its abstract specification and its
proofs, the experiment supervisor with proofs, searches with proofs, decisions,
lineage, reproduction; the recursive collection over the request cache; the
semantic memory with its pools; sessions, uploads, creation and deletion of
projects, with proofs.

The decisions, the lineage, the reproduction and the semantic memory have their proofs since.

The recursive collection too, with its depths, so that no invariant of a passing run is only model-checked. Next are proofs for what
is modelled next.

To be modelled: the remaining kinds of `ProposalDecision` (download,
revocation, enrichment) and the version pointer of the Idea (`idea-service.ts:39`);
`Reviews` (claim reviews, feedback, gap and comparison candidates); settings and
retries of the voice input.

**Not modelled, and why.** Half of the repository's lines are `apps/web/public/app.js`,
a bundle generated from `apps/web/src`; a good part of the rest is translated text
(`i18n.ts`), types and React components, which call the API and hold no state of the server. Of the
server, parsing of provider answers and of documents, validation of plans,
manifests and metrics, extraction of archives, comparison reports and the
plumbing of HTTP are functions from input to output, in which nothing overlaps; where
they fail, the modules have a step that fails.

## 8. Running

    tlc -workers 2 -config MCTaskQueue.cfg MCTaskQueue
    tlapm TaskQueue_proofs.tla

Each configuration `MC<Module>[<Variant>].cfg` belongs to `MC<Module>.tla`. The largest
instances have one and a half to four and a half million states and take one to three minutes. Configurations
named after a claim (`Cancelled`, `Fresh`, `Served`, `Repair`, `Aliases`, `Cached`) end with its counterexample.
`PROJECT.json` maps every definition to the lines it models, and gives for every property a
mutant: a version of one definition, kept beside it under the name
`<Definition>_<Variant>`, with a plausible bug by which the property fails.
