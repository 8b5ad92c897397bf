--------------------------- MODULE RelatedWorkRun ---------------------------
(***************************************************************************)
(* Runs of the recursive citation search (related-work/service.ts): the    *)
(* approval that creates one (startRelatedWorkRun), the execute endpoint,  *)
(* the search itself (startRun), its cancellation and what a restart does  *)
(* (recoverInterruptedWork, resumeQueuedRelatedWorkRuns).                  *)
(*                                                                         *)
(* Every proposal has at most one run: the column proposal_id is UNIQUE.   *)
(* An action is the code between two awaits.  The map runningControllers   *)
(* and the searches, which nobody awaits, are memory; rows are not.        *)
(***************************************************************************)
EXTENDS Naturals

CONSTANTS
  Props,       \* proposals of kind related_work_recursive, and their runs
  Starters,    \* requests that may be executing startRelatedWorkRun at once
  Slots,       \* bound: searches of one run that may be alive at once
  MaxCrashes,  \* bound: how often the server dies
  None

ASSUME SlotsAssumption == 1 \in Slots /\ None \notin Slots
ASSUME NoneAssumption == None \notin Props
ASSUME MaxCrashesAssumption == MaxCrashes \in Nat

VARIABLES
  proposal,   \* column proposals.status
  row,        \* column status; "completed" also stands for partial and max_total_reached
  requested,  \* column cancel_requested
  control,    \* runningControllers: the search that owns the entry, or None
  search,     \* the calls of startRun
  starter,    \* requests inside startRelatedWorkRun or about to call it
  cancel,     \* the cancel endpoint: "idle", "checked" or "updated"
  mode,       \* "up", or "down" between a crash and the end of the startup
  crashes

rowVars == <<proposal, row, requested>>
memVars == <<control, search, starter, cancel>>
procVars == <<mode, crashes>>
vars == <<rowVars, memVars, procVars>>

Finished == {"completed", "failed", "cancelled"}
Statuses == {"absent", "queued", "running"} \cup Finished

\* seen: the SELECT of startRun found the cancellation; aborted: its signal.
SearchRecord == [pc : {"idle", "check", "collect", "save", "saved", "finish"},
                 seen : BOOLEAN, aborted : BOOLEAN, result : Finished \cup {None}]
IdleSearch == [pc |-> "idle", seen |-> FALSE, aborted |-> FALSE, result |-> None]

StarterRecord == [pc : {"idle", "decided", "lookup", "found", "inserted"},
                  run : Props \cup {None}, saw : Statuses]
IdleStarter == [pc |-> "idle", run |-> None, saw |-> "absent"]

TypeOK ==
  /\ proposal \in [Props -> {"pending", "approved"}]
  /\ row \in [Props -> Statuses]
  /\ requested \in [Props -> BOOLEAN]
  /\ control \in [Props -> Slots \cup {None}]
  /\ search \in [Props -> [Slots -> SearchRecord]]
  /\ starter \in [Starters -> StarterRecord]
  /\ cancel \in [Props -> {"idle", "checked", "updated"}]
  /\ mode \in {"up", "down"}
  /\ crashes \in 0..MaxCrashes

Init ==
  /\ proposal = [p \in Props |-> "pending"]
  /\ row = [p \in Props |-> "absent"]
  /\ requested = [p \in Props |-> FALSE]
  /\ control = [p \in Props |-> None]
  /\ search = [p \in Props |-> [k \in Slots |-> IdleSearch]]
  /\ starter = [h \in Starters |-> IdleStarter]
  /\ cancel = [p \in Props |-> "idle"]
  /\ mode = "up"
  /\ crashes = 0

Alive(p, k) == search[p][k].pc # "idle"

-----------------------------------------------------------------------------
(* startRun.                                                               *)

\* What the SELECT of startRun tells: cancel_requested or status cancelled.
\* (Of the row it was called with, that is older, it would tell nothing.)
CancelSeen_Argument(p) == FALSE
CancelSeen(p) == requested[p] \/ row[p] = "cancelled"
FreshSearch(p) ==
  [pc |-> "check", seen |-> CancelSeen(p), aborted |-> FALSE, result |-> None]

\* The entry is made before the first await, over one that may be there.
Begin(p, k) ==
  /\ ~Alive(p, k)
  /\ search' = [search EXCEPT ![p][k] = FreshSearch(p)]
  /\ control' = [control EXCEPT ![p] = k]

StopCancelled(p, k) ==
  /\ search[p][k].pc = "check"
  /\ search[p][k].seen
  /\ row' = [row EXCEPT ![p] = "cancelled"]
  /\ search' = [search EXCEPT ![p][k].pc = "finish"]
  /\ UNCHANGED <<proposal, requested, control, starter, cancel, procVars>>

Run(p, k) ==
  /\ search[p][k].pc = "check"
  /\ ~search[p][k].seen
  /\ row' = [row EXCEPT ![p] = "running"]
  /\ search' = [search EXCEPT ![p][k].pc = "collect"]
  /\ UNCHANGED <<proposal, requested, control, starter, cancel, procVars>>

\* recursiveCollect returns.  It looks at the signal between levels and
\* references, so an abort may come too late, or never be looked at (depth 1).
Collect(p, k) ==
  /\ search[p][k].pc = "collect"
  /\ \E result \in {"completed", "failed"}
                     \cup (IF search[p][k].aborted THEN {"cancelled"} ELSE {}) :
       search' = [search EXCEPT ![p][k].pc = "save", ![p][k].result = result]
  /\ UNCHANGED <<rowVars, control, starter, cancel, procVars>>

\* Candidates and edges are stored; the UPDATE names only the id.
Save(p, k) ==
  /\ search[p][k].pc = "save"
  /\ row' = [row EXCEPT ![p] = search[p][k].result]
  /\ search' = [search EXCEPT ![p][k].pc = "saved"]
  /\ UNCHANGED <<proposal, requested, control, starter, cancel, procVars>>

\* Any await may throw, also the audit after the result is stored, and a run
\* without seed candidates does.
Throw(p, k) ==
  /\ search[p][k].pc \in {"check", "collect", "save", "saved"}
  /\ row' = [row EXCEPT ![p] = "failed"]
  /\ search' = [search EXCEPT ![p][k].pc = "finish"]
  /\ UNCHANGED <<proposal, requested, control, starter, cancel, procVars>>

\* finally: the entry of the run is deleted, whichever search made it.
Released(p) == [control EXCEPT ![p] = None]

Finish(p, k) ==
  /\ search[p][k].pc \in {"saved", "finish"}
  /\ search' = [search EXCEPT ![p][k] = IdleSearch]
  /\ control' = Released(p)
  /\ UNCHANGED <<rowVars, starter, cancel, procVars>>

SearchStep(p, k) ==
  StopCancelled(p, k) \/ Run(p, k) \/ Collect(p, k) \/ Save(p, k) \/ Throw(p, k)
    \/ Finish(p, k)

-----------------------------------------------------------------------------
(* startRelatedWorkRun, called by the decision and the execute endpoint.   *)

Decide(h, p) ==
  /\ mode = "up"
  /\ starter[h].pc = "idle"
  /\ proposal[p] = "pending"
  /\ starter' = [starter EXCEPT ![h] = [IdleStarter EXCEPT !.pc = "decided", !.run = p]]
  /\ UNCHANGED <<rowVars, control, search, cancel, procVars>>

Approve(h) ==
  /\ starter[h].pc = "decided"
  /\ proposal' = [proposal EXCEPT ![starter[h].run] = "approved"]
  /\ starter' = [starter EXCEPT ![h].pc = "lookup"]
  /\ UNCHANGED <<row, requested, control, search, cancel, procVars>>

Execute(h, p) ==
  /\ mode = "up"
  /\ starter[h].pc = "idle"
  /\ row[p] # "absent"
  /\ starter' = [starter EXCEPT ![h] = [IdleStarter EXCEPT !.pc = "lookup", !.run = p]]
  /\ UNCHANGED <<rowVars, control, search, cancel, procVars>>

Lookup(h) ==
  /\ starter[h].pc = "lookup"
  /\ starter' = [starter EXCEPT ![h].pc = "found", ![h].saw = row[starter[h].run]]
  /\ UNCHANGED <<rowVars, control, search, cancel, procVars>>

\* An existing run is started when it was queued and nobody executes it.
StartExisting(h) ==
  LET p == starter[h].run IN
  /\ starter[h].pc = "found"
  /\ starter[h].saw # "absent"
  /\ starter' = [starter EXCEPT ![h] = IdleStarter]
  /\ IF starter[h].saw = "queued" /\ control[p] = None
       THEN \E k \in Slots : Begin(p, k)
       ELSE UNCHANGED <<search, control>>
  /\ UNCHANGED <<rowVars, cancel, procVars>>

\* INSERT; a second one for the proposal violates the constraint and throws.
InsertRun(h) ==
  LET p == starter[h].run IN
  /\ starter[h].pc = "found"
  /\ starter[h].saw = "absent"
  /\ IF row[p] = "absent"
       THEN /\ row' = [row EXCEPT ![p] = "queued"]
            /\ starter' = [starter EXCEPT ![h].pc = "inserted"]
       ELSE /\ starter' = [starter EXCEPT ![h] = IdleStarter]
            /\ UNCHANGED row
  /\ UNCHANGED <<proposal, requested, control, search, cancel, procVars>>

\* void startRun(run, actor).  The SELECT before it is taken to succeed; if it threw,
\* the queued row would stay until the next restart or approval.
StartNew(h) ==
  /\ starter[h].pc = "inserted"
  /\ \E k \in Slots : Begin(starter[h].run, k)
  /\ starter' = [starter EXCEPT ![h] = IdleStarter]
  /\ UNCHANGED <<rowVars, cancel, procVars>>

StarterStep(h) ==
  Approve(h) \/ Lookup(h) \/ StartExisting(h) \/ InsertRun(h) \/ StartNew(h)

-----------------------------------------------------------------------------
(* cancelRelatedWorkRun.                                                   *)

CancelRead(p) ==
  /\ mode = "up"
  /\ cancel[p] = "idle"
  /\ row[p] \in {"queued", "running"}
  /\ cancel' = [cancel EXCEPT ![p] = "checked"]
  /\ UNCHANGED <<rowVars, control, search, starter, procVars>>

CancelUpdate(p) ==
  /\ cancel[p] = "checked"
  /\ requested' = [requested EXCEPT ![p] = TRUE]
  /\ row' = [row EXCEPT ![p] = IF @ = "queued" THEN "cancelled" ELSE @]
  /\ cancel' = [cancel EXCEPT ![p] = "updated"]
  /\ UNCHANGED <<proposal, control, search, starter, procVars>>

CancelAbort(p) ==
  /\ cancel[p] = "updated"
  /\ cancel' = [cancel EXCEPT ![p] = "idle"]
  /\ search' = IF control[p] = None THEN search
               ELSE [search EXCEPT ![p][control[p]].aborted = TRUE]
  /\ UNCHANGED <<rowVars, control, starter, procVars>>

-----------------------------------------------------------------------------
(* Crash and restart.                                                      *)

Crash ==
  /\ mode = "up"
  /\ crashes < MaxCrashes
  /\ mode' = "down"
  /\ crashes' = crashes + 1
  /\ control' = [p \in Props |-> None]
  /\ search' = [p \in Props |-> [k \in Slots |-> IdleSearch]]
  /\ starter' = [h \in Starters |-> IdleStarter]
  /\ cancel' = [p \in Props |-> "idle"]
  /\ UNCHANGED rowVars

\* recoverInterruptedWork: a running run is cancelled if that was asked for,
\* and queued again if not.
\* (retrying is what the same function writes to the tasks, not to the runs.)
RecoveredRow_Retrying(p) == IF row[p] = "running" THEN "retrying" ELSE row[p]
RecoveredRow(p) ==
  IF row[p] = "running" THEN IF requested[p] THEN "cancelled" ELSE "queued"
  ELSE row[p]

\* The rows resumeQueuedRelatedWorkRuns starts.
Resumed_Interrupted == {p \in Props : row[p] = "running" /\ ~requested[p]}
Resumed == {p \in Props : RecoveredRow(p) = "queued" /\ ~requested[p]}

\* Both happen before the server listens.
Recover ==
  /\ mode = "down"
  /\ mode' = "up"
  /\ row' = [p \in Props |-> RecoveredRow(p)]
  /\ control' = [p \in Props |-> IF p \in Resumed THEN 1 ELSE None]
  /\ search' = [p \in Props |-> IF p \in Resumed
                                  THEN [search[p] EXCEPT ![1] = [IdleSearch EXCEPT !.pc = "check"]]
                                  ELSE search[p]]
  /\ UNCHANGED <<proposal, requested, starter, cancel, crashes>>

Next ==
  \/ \E p \in Props :
       \/ CancelRead(p) \/ CancelUpdate(p) \/ CancelAbort(p)
       \/ \E k \in Slots : SearchStep(p, k)
       \/ \E h \in Starters : Decide(h, p) \/ Execute(h, p)
  \/ \E h \in Starters : StarterStep(h)
  \/ Crash \/ Recover

(* Every await settles: provider requests have a timeout of 15 seconds and *)
(* a bounded number of retries.  Whoever runs the server restarts it.      *)
Fairness ==
  /\ \A p \in Props :
       /\ \A k \in Slots : WF_vars(SearchStep(p, k))
       /\ WF_vars(CancelUpdate(p) \/ CancelAbort(p))
  /\ \A h \in Starters : WF_vars(StarterStep(h))
  /\ WF_vars(Recover)

Spec == Init /\ [][Next]_vars
FairSpec == Spec /\ Fairness

-----------------------------------------------------------------------------
(* Properties.                                                             *)

\* A run that is queued or running is in somebody's hands: a search, or the
\* request that has inserted it and will start it.  No restart loses one.
NoStrandedRun ==
  mode = "up" =>
    \A p \in Props :
      row[p] \in {"queued", "running"} =>
        \/ \E k \in Slots : Alive(p, k)
        \/ \E h \in Starters : starter[h].pc = "inserted" /\ starter[h].run = p

\* When a cancel request has been answered, the search that owns the entry
\* of the run knows of it, by its first SELECT or by its signal: there is no
\* gap between reading the row and becoming reachable.
CancelReachesSearch ==
  \A p \in Props : \A k \in Slots :
    /\ requested[p]
    /\ cancel[p] # "updated"
    /\ control[p] = k
    /\ search[p][k].pc \in {"check", "collect"}
    => search[p][k].seen \/ search[p][k].aborted

\* Every run that is queued ends, however often it is interrupted.
EveryRunEnds ==
  \A p \in Props : row[p] = "queued" ~> row[p] \in Finished

-----------------------------------------------------------------------------
(* What makes the two invariants inductive.                                *)

\* Memory does not outlive the server; a request names its run, a search that
\* is about to save has a result.
MemoryInOrder ==
  /\ mode = "down" =>
       /\ \A p \in Props : cancel[p] = "idle" /\ \A k \in Slots : ~Alive(p, k)
       /\ \A h \in Starters : starter[h].pc = "idle"
  /\ \A h \in Starters : starter[h].pc # "idle" => starter[h].run \in Props
  /\ \A p \in Props, k \in Slots :
       search[p][k].pc = "save" => search[p][k].result \in Finished

\* Who has written running will write the row again; so will who is to start
\* a run that is queued.
RowIsHeld ==
  mode = "up" =>
    \A p \in Props :
      /\ row[p] = "running" => \E k \in Slots : search[p][k].pc \in {"collect", "save"}
      /\ row[p] = "queued" =>
           \/ \E k \in Slots : search[p][k].pc = "check"
           \/ \E h \in Starters : starter[h].pc = "inserted" /\ starter[h].run = p

\* A run is cancelled after it exists, and never waits when it is.
QueuedIsWanted ==
  \A p \in Props :
    /\ row[p] \in {"absent", "queued"} => ~requested[p]
    /\ cancel[p] = "checked" => row[p] # "absent"

IInv == /\ TypeOK /\ MemoryInOrder /\ RowIsHeld /\ QueuedIsWanted
        /\ CancelReachesSearch
=============================================================================
