----------------------------- MODULE TaskQueue ------------------------------
(***************************************************************************)
(* The durable task queue of apps/server: enqueue (project-service.ts),    *)
(* the worker (task-worker.ts: claim, runTask, tick) and what a restart of *)
(* the process does to the table tasks (recoverInterruptedWork).           *)
(*                                                                         *)
(* A task is identified by its idempotency key, so Tasks is the set of     *)
(* keys and status[t] = "absent" says no row has that key.  Everything     *)
(* runs in one Node process: an action is the code between two awaits,     *)
(* ending with the database statement it issues.  A tick is a coroutine    *)
(* started by setInterval; several can be alive, and the flag working is   *)
(* what keeps them apart.                                                  *)
(***************************************************************************)
EXTENDS Naturals

CONSTANTS
  Tasks,          \* idempotency keys
  Material,       \* the keys of tasks of kind material_index
  MaxAttempts,    \* MaxAttempts[t]: the column max_attempts of task t
  Ticks,          \* coroutines setInterval may have alive at once
  MaxCrashes,     \* bound: how often the process dies
  NoTask

ASSUME MaterialAssumption == Material \subseteq Tasks
ASSUME MaxAttemptsAssumption == MaxAttempts \in [Tasks -> Nat \ {0}]
ASSUME NoTaskAssumption == NoTask \notin Tasks
ASSUME MaxCrashesAssumption == MaxCrashes \in Nat

VARIABLES
  status,     \* column status; "absent" when there is no row
  attempts,   \* column attempts
  wait,       \* time until next_attempt_at, in units of 5 seconds
  lease,      \* leased_until: "none" (NULL), "live" or "expired"
  created,    \* column created_at, as an arrival number
  arrivals,   \* rows inserted so far
  indexed,    \* semantic_index_status in the metadata of the uploaded file
  tick,       \* the coroutines: where each is and what it claimed
  working,    \* the module variable working
  mode,       \* "up", or "down" between a crash and the end of the startup
  crashes     \* crashes so far

rowVars == <<status, attempts, wait, lease, created, arrivals>>
procVars == <<mode, crashes>>
vars == <<rowVars, indexed, tick, working, procVars>>

Statuses == {"absent", "queued", "running", "retrying", "succeeded", "failed"}
Finished == {"succeeded", "failed"}

\* The places at which a coroutine holds a claimed task.
Holding == {"body", "done", "caught", "failing"}
TickRecord == [pc : Holding \cup {"idle", "empty", "release"},
               task : Tasks \cup {NoTask},
               attempts : Nat]
IdleTick == [pc |-> "idle", task |-> NoTask, attempts |-> 0]

TypeOK ==
  /\ status \in [Tasks -> Statuses]
  /\ attempts \in [Tasks -> Nat]
  /\ wait \in [Tasks -> Nat]
  /\ lease \in [Tasks -> {"none", "live", "expired"}]
  /\ created \in [Tasks -> Nat]
  /\ arrivals \in Nat
  /\ indexed \in [Tasks -> {"pending", "active", "failed"}]
  /\ tick \in [Ticks -> TickRecord]
  /\ working \in BOOLEAN
  /\ mode \in {"up", "down"}
  /\ crashes \in 0..MaxCrashes

Init ==
  /\ status = [t \in Tasks |-> "absent"]
  /\ attempts = [t \in Tasks |-> 0]
  /\ wait = [t \in Tasks |-> 0]
  /\ lease = [t \in Tasks |-> "none"]
  /\ created = [t \in Tasks |-> 0]
  /\ arrivals = 0
  /\ indexed = [t \in Tasks |-> "pending"]
  /\ tick = [k \in Ticks |-> IdleTick]
  /\ working = FALSE
  /\ mode = "up"
  /\ crashes = 0

-----------------------------------------------------------------------------
(* The back-off of tick, min(300, 5 * 2^max(0, attempts-1)) seconds, in    *)
(* units of 5 seconds.                                                     *)
Doubling == <<1, 2, 4, 8, 16, 32>>
Delay(a) ==
  IF a = 0 THEN 1 ELSE IF a \in 1..6 THEN Doubling[a] ELSE 60

\* The WHERE clause of claim.
Claimable_Failed(t) ==
  status[t] \in {"queued", "retrying", "failed"} /\ wait[t] = 0
Claimable(t) ==
  /\ status[t] \in {"queued", "retrying"}
  /\ wait[t] = 0
  /\ lease[t] \in {"none", "expired"}

\* ORDER BY created_at LIMIT 1
Oldest(t) ==
  /\ Claimable(t)
  /\ \A u \in Tasks : Claimable(u) => created[t] <= created[u]

\* The attempts of the row RETURNING gives to the coroutine.
Returned_Old(t) == attempts[t]
Returned(t) == attempts[t] + 1

\* if (working) return
Free_Always == TRUE
Free == ~working

\* ON CONFLICT (idempotency_key) DO NOTHING: only a new key inserts a row.
NewKey(t) == status[t] = "absent"

Enqueue(t) ==
  /\ mode = "up"
  /\ NewKey(t)
  /\ status' = [status EXCEPT ![t] = "queued"]
  /\ created' = [created EXCEPT ![t] = arrivals]
  /\ arrivals' = arrivals + 1
  /\ UNCHANGED <<attempts, wait, lease, indexed, tick, working, procVars>>

\* A tick that finds working set returns at once; otherwise it sets it and
\* issues the claiming UPDATE before its first await.
StartTick(k) ==
  /\ mode = "up"
  /\ tick[k].pc = "idle"
  /\ Free
  /\ working' = TRUE
  /\ UNCHANGED <<wait, created, arrivals, indexed, procVars>>
  /\ \/ \E t \in Tasks :
          /\ Oldest(t)
          /\ status' = [status EXCEPT ![t] = "running"]
          /\ attempts' = [attempts EXCEPT ![t] = @ + 1]
          /\ lease' = [lease EXCEPT ![t] = "live"]
          /\ tick' = [tick EXCEPT ![k] = [pc |-> "body", task |-> t,
                                          attempts |-> Returned(t)]]
     \/ /\ \A t \in Tasks : ~Claimable(t)
        /\ tick' = [tick EXCEPT ![k].pc = "empty"]
        /\ UNCHANGED <<status, attempts, lease>>

\* The UPDATE of the uploaded file's metadata a material_index task makes.
MarkFile_TaskStatus(k, s) ==
  indexed' = IF tick[k].task \in Material
               THEN [indexed EXCEPT ![tick[k].task] =
                       IF s = "active" THEN "succeeded" ELSE s]
               ELSE indexed
MarkFile(k, s) ==
  indexed' = IF tick[k].task \in Material
               THEN [indexed EXCEPT ![tick[k].task] = s]
               ELSE indexed

\* runTask returned.
BodySucceeds(k) ==
  /\ tick[k].pc = "body"
  /\ tick' = [tick EXCEPT ![k].pc = "done"]
  /\ MarkFile(k, "active")
  /\ UNCHANGED <<rowVars, working, procVars>>

\* runTask threw, at any of its awaits.
BodyFails(k) ==
  /\ tick[k].pc = "body"
  /\ tick' = [tick EXCEPT ![k].pc = "caught"]
  /\ UNCHANGED <<rowVars, indexed, working, procVars>>

\* The catch block first records the failure at the uploaded file.
MarkFileFailed(k) ==
  /\ tick[k].pc = "caught"
  /\ tick' = [tick EXCEPT ![k].pc = "failing"]
  /\ MarkFile(k, "failed")
  /\ UNCHANGED <<rowVars, working, procVars>>

FinishSuccess(k) ==
  LET t == tick[k].task IN
  /\ tick[k].pc = "done"
  /\ status' = [status EXCEPT ![t] = "succeeded"]
  /\ lease' = [lease EXCEPT ![t] = "none"]
  /\ tick' = [tick EXCEPT ![k].pc = "release"]
  /\ UNCHANGED <<attempts, wait, created, arrivals, indexed, working, procVars>>

\* terminal, decided from the attempts captured by the claim.
Terminal_OffByOne(k) == tick[k].attempts > MaxAttempts[tick[k].task]
Terminal(k) == tick[k].attempts >= MaxAttempts[tick[k].task]

FinishFailure(k) ==
  LET t == tick[k].task IN
  /\ tick[k].pc = "failing"
  /\ status' = [status EXCEPT ![t] = IF Terminal(k) THEN "failed" ELSE "retrying"]
  /\ lease' = [lease EXCEPT ![t] = "none"]
  /\ wait' = [wait EXCEPT ![t] = Delay(tick[k].attempts)]
  /\ tick' = [tick EXCEPT ![k].pc = "release"]
  /\ UNCHANGED <<attempts, created, arrivals, indexed, working, procVars>>

\* finally { working = false }, also after a claim that found nothing.
Ended_Worked(k) == tick[k].pc = "release"
Ended(k) == tick[k].pc \in {"empty", "release"}

EndTick(k) ==
  /\ Ended(k)
  /\ tick' = [tick EXCEPT ![k] = IdleTick]
  /\ working' = FALSE
  /\ UNCHANGED <<rowVars, indexed, procVars>>

\* A body that takes longer than two minutes outlives its lease.
LeaseLapses(t) ==
  /\ lease[t] = "live"
  /\ lease' = [lease EXCEPT ![t] = "expired"]
  /\ UNCHANGED <<status, attempts, wait, created, arrivals, indexed, tick,
                 working, procVars>>

TimePasses ==
  /\ \E t \in Tasks : wait[t] > 0
  /\ wait' = [t \in Tasks |-> IF wait[t] > 0 THEN wait[t] - 1 ELSE 0]
  /\ UNCHANGED <<status, attempts, lease, created, arrivals, indexed, tick,
                 working, procVars>>

\* The process dies: coroutines and working are memory, rows are not.
Crash ==
  /\ mode = "up"
  /\ crashes < MaxCrashes
  /\ mode' = "down"
  /\ crashes' = crashes + 1
  /\ tick' = [k \in Ticks |-> IdleTick]
  /\ working' = FALSE
  /\ UNCHANGED <<rowVars, indexed>>

\* The rows recoverInterruptedWork puts back.
Interrupted_Lapsed == {t \in Tasks : status[t] = "running" /\ lease[t] = "expired"}
Interrupted == {t \in Tasks : status[t] = "running"}

\* recoverInterruptedWork, which the startup awaits before it starts ticks.
Recover ==
  /\ mode = "down"
  /\ mode' = "up"
  /\ status' = [t \in Tasks |-> IF t \in Interrupted THEN "retrying" ELSE status[t]]
  /\ lease' = [t \in Tasks |-> IF t \in Interrupted THEN "none" ELSE lease[t]]
  /\ wait' = [t \in Tasks |-> IF t \in Interrupted THEN 0 ELSE wait[t]]
  /\ UNCHANGED <<attempts, created, arrivals, indexed, tick, working, crashes>>

TickStep(k) ==
  \/ StartTick(k) \/ BodySucceeds(k) \/ BodyFails(k) \/ MarkFileFailed(k)
  \/ FinishSuccess(k) \/ FinishFailure(k) \/ EndTick(k)

Next ==
  \/ \E t \in Tasks : Enqueue(t) \/ LeaseLapses(t)
  \/ \E k \in Ticks : TickStep(k)
  \/ TimePasses \/ Crash \/ Recover

(* setInterval keeps firing and every await of a tick settles: the bodies  *)
(* are bounded by the 120 s timeout of the workflow call, the timeouts of  *)
(* Supermemory requests and of reproduction runs.  Whoever runs the server *)
(* starts it again after a crash.  Nobody is obliged to enqueue or crash.  *)
Fairness ==
  /\ WF_vars(\E k \in Ticks : StartTick(k))
  /\ \A k \in Ticks :
       /\ WF_vars(BodySucceeds(k) \/ BodyFails(k))
       /\ WF_vars(MarkFileFailed(k) \/ FinishSuccess(k) \/ FinishFailure(k))
       /\ WF_vars(EndTick(k))
  /\ WF_vars(TimePasses)
  /\ WF_vars(Recover)

Spec == Init /\ [][Next]_vars
FairSpec == Spec /\ Fairness

-----------------------------------------------------------------------------
(* Properties.                                                             *)

Holds(k, t) == tick[k].pc \in Holding /\ tick[k].task = t

\* claim must never take a second task while one is executing, although
\* ticks fire every two seconds and a body may outlive its lease.
OneAtATime ==
  \A t, u \in Tasks : status[t] = "running" /\ status[u] = "running" => t = u

\* A row in status running always has a live coroutine that will finish it,
\* or the startup is about to put it back: no restart strands a task.
RunningIsHeld ==
  mode = "up" =>
    \A t \in Tasks : status[t] = "running" => \E k \in Ticks : Holds(k, t)

\* The finishing UPDATEs name only the id: they are right because the row
\* still is what the claim left, and no other coroutine holds it.
HolderOwnsRow ==
  \A k \in Ticks : \A t \in Tasks :
    Holds(k, t) =>
      /\ status[t] = "running"
      /\ attempts[t] = tick[k].attempts
      /\ \A j \in Ticks : Holds(j, t) => j = k

\* claim ignores max_attempts, so a restart may add an execution; nothing
\* else may: the executions of a task are bounded by its attempts and crashes.
AttemptsBounded ==
  \A t \in Tasks : attempts[t] <= MaxAttempts[t] + crashes

\* A finished task stays finished: neither a second enqueue of its key nor
\* a restart nor a late finishing UPDATE revives it.
FinishedIsFinal ==
  [][\A t \in Tasks : status[t] \in Finished => status'[t] = status[t]]_vars

\* Every task that is enqueued ends, whatever it waits behind, as long as
\* crashes are finitely many.
EveryTaskEnds ==
  \A t \in Tasks : status[t] = "queued" ~> status[t] \in Finished

\* What a status means to the abstract queue.
Meaning == [absent |-> "absent", queued |-> "pending", retrying |-> "pending",
            running |-> "executing", succeeded |-> "done", failed |-> "dead"]

Abstract == INSTANCE JobQueue WITH
  Jobs <- Tasks,
  Budget <- MaxAttempts,
  state <- [t \in Tasks |-> Meaning[status[t]]],
  tries <- attempts

\* Every step of claim, tick, enqueue and recovery is a step of JobQueue or
\* changes nothing JobQueue can see.
ImplementsJobQueue == Abstract!Spec

-----------------------------------------------------------------------------
(* The inductive invariant behind the theorems of TaskQueue_proofs.        *)

\* The flag working and the coroutines agree: at most one is not idle.
FlagGuardsTicks ==
  /\ ~working => \A k \in Ticks : tick[k].pc = "idle"
  /\ \A j, k \in Ticks : tick[j].pc # "idle" /\ tick[k].pc # "idle" => j = k
  /\ mode = "down" => \A k \in Ticks : tick[k].pc = "idle"

HeldRow ==
  \A k \in Ticks : tick[k].pc \in Holding =>
    /\ tick[k].task \in Tasks
    /\ status[tick[k].task] = "running"
    /\ attempts[tick[k].task] = tick[k].attempts

\* The room left for executions: a task that may be claimed has one to spare,
\* and so has a running one once the process that ran it is gone.
AttemptsRoom ==
  \A t \in Tasks :
    /\ attempts[t] <= MaxAttempts[t] + crashes
    /\ status[t] \in {"absent", "queued", "retrying"}
         => attempts[t] < MaxAttempts[t] + crashes
    /\ status[t] = "running" /\ mode = "down"
         => attempts[t] < MaxAttempts[t] + crashes

IInv ==
  TypeOK /\ FlagGuardsTicks /\ HeldRow /\ RunningIsHeld /\ OneAtATime /\ AttemptsRoom
=============================================================================
