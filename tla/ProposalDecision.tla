-------------------------- MODULE ProposalDecision --------------------------
(***************************************************************************)
(* The decision of a human about a proposal (index.ts, POST                *)
(* /api/proposals/:id/decision) and what an approval does before and after *)
(* it is recorded: a code patch (patch-service.ts), an Idea revision       *)
(* (idea-service.ts), the rerun of an experiment from a checkpoint and a   *)
(* change of the policies.  Approvals of the related-work and reproduction *)
(* kinds are in RelatedWorkRun and Reproduction.                           *)
(*                                                                         *)
(* The row is read once, when the request arrives, and written once,       *)
(* without a condition.  Git is called synchronously: a patch is applied   *)
(* and committed within one action, which a crash may cut in two.          *)
(*                                                                         *)
(* All awaits are database statements, and the embedded database executes  *)
(* them one at a time in the order in which they were issued.  So the      *)
(* requests continue in that order, which is the queue turn.               *)
(***************************************************************************)
EXTENDS Naturals, Sequences, FiniteSets

CONSTANTS
  Patches,      \* proposals of kind code_patch
  Revisions,    \* proposals of kind idea_revision
  Reruns,       \* proposals of kind experiment_rerun
  Changes,      \* proposals of kind config_change
  Requests,     \* decision requests that may be in flight at once
  MaxDecisions, \* bound: decision requests over all
  MaxCrashes,   \* bound: how often the server dies
  None

Props == Patches \cup Revisions \cup Reruns \cup Changes

ASSUME NoneAssumption == None \notin Props
ASSUME KindsAssumption ==
  /\ Patches \cap Revisions = {} /\ Patches \cap Reruns = {} /\ Patches \cap Changes = {}
  /\ Revisions \cap Reruns = {} /\ Revisions \cap Changes = {} /\ Reruns \cap Changes = {}
ASSUME BoundsAssumption == MaxDecisions \in Nat /\ MaxCrashes \in Nat

VARIABLES
  status,     \* column proposals.status; "absent" before it is proposed
  base,       \* HEAD (a length of log) and version the proposal, or its checkpoint,
              \* was made for
  log,        \* git log: commit i holds the operations of the proposals log[i]
  dirty,      \* proposals whose operations are in the work tree, uncommitted
  versions,   \* idea_versions: version and the revisions its spec contains
  current,    \* column projects.current_idea_version
  file,       \* idea.json: the revisions it contains
  swept,      \* nodes whose dependants were invalidated
  queued,     \* experiments inserted for a rerun, policies for a change
  request,    \* the requests in flight
  turn,       \* the order of the statements they wait for
  undone,     \* history: whether a failed revision has deleted its version
  opened,     \* decision requests so far
  crashes

treeVars == <<log, dirty>>
ideaVars == <<versions, current, file>>
requestVars == <<request, turn>>
boundVars == <<undone, opened, crashes>>
vars == <<status, base, treeVars, ideaVars, swept, queued, requestVars, boundVars>>

Version == [version : Nat, spec : SUBSET Revisions]
First == [version |-> 1, spec |-> {}]
Node == {"git_commit", "idea_version"} \X Nat

Idle == [pc |-> "idle", prop |-> None, decision |-> None,
         saw |-> First, own |-> FALSE, previous |-> {}]
RequestRecord ==
  [pc : {"idle", "opened", "sweep", "revise", "write", "undo", "reset", "rerun",
         "submit", "update", "policy"},
   prop : Props \cup {None}, decision : {"approved", "rejected", None},
   saw : Version, own : BOOLEAN, previous : SUBSET Revisions]

TypeOK ==
  /\ status \in [Props -> {"absent", "pending", "approved", "rejected"}]
  /\ base \in [Props -> [commit : Nat, version : Nat]]
  /\ log \in Seq(SUBSET Props)
  /\ dirty \subseteq Patches
  /\ versions \subseteq Version
  /\ current \in Nat
  /\ file \subseteq Revisions
  /\ swept \subseteq Node
  /\ queued \in [Props -> Nat]
  /\ request \in [Requests -> RequestRecord]
  /\ turn \in Seq(Requests)
  /\ undone \in BOOLEAN
  /\ opened \in 0..MaxDecisions
  /\ crashes \in 0..MaxCrashes

\* The checkpoints are of experiments that ran before any of the proposals.
Init ==
  /\ status = [p \in Props |-> "absent"]
  /\ base = [p \in Props |-> [commit |-> 0, version |-> 1]]
  /\ log = <<>>
  /\ dirty = {}
  /\ versions = {First}
  /\ current = 1
  /\ file = {}
  /\ swept = {}
  /\ queued = [p \in Props |-> 0]
  /\ request = [h \in Requests |-> Idle]
  /\ turn = <<>>
  /\ undone = FALSE
  /\ opened = 0
  /\ crashes = 0

HEAD == Len(log)
\* A request that goes on issues its next statement.
Continue(h, r) ==
  /\ turn # <<>> /\ h = Head(turn)
  /\ turn' = Append(Tail(turn), h)
  /\ request' = [request EXCEPT ![h] = r]
Go(h, pc) == Continue(h, [request[h] EXCEPT !.pc = pc])

\* A request is answered.
Leave(h) ==
  /\ turn # <<>> /\ h = Head(turn)
  /\ turn' = Tail(turn)
  /\ request' = [request EXCEPT ![h] = Idle]

\* The nodes an experiment, and a checkpoint of it, depends on.
Upstream(b) == {<<"git_commit", b.commit>>, <<"idea_version", b.version>>}
Recoverable(b) == Upstream(b) \cap swept = {}

\* A patch is bound to the HEAD of its time.  A rerun is only proposed while its
\* checkpoint agrees with HEAD and the version and is recoverable.
Propose(p) ==
  LET now == [commit |-> HEAD, version |-> current] IN
  /\ status[p] = "absent"
  /\ p \in Reruns => base[p] = now /\ Recoverable(now)
  /\ base' = [base EXCEPT ![p] = IF p \in Patches THEN now ELSE @]
  /\ status' = [status EXCEPT ![p] = "pending"]
  /\ UNCHANGED <<treeVars, ideaVars, swept, queued, requestVars, boundVars>>

Open(h, p, decision) ==
  /\ request[h].pc = "idle"
  /\ status[p] = "pending"
  /\ opened < MaxDecisions
  /\ opened' = opened + 1
  /\ turn' = Append(turn, h)
  /\ request' = [request EXCEPT ![h] =
       [Idle EXCEPT !.prop = p, !.decision = decision,
          !.pc = IF decision = "approved" /\ p \notin Changes THEN "opened" ELSE "update"]]
  /\ UNCHANGED <<status, base, treeVars, ideaVars, swept, queued, undone, crashes>>

-----------------------------------------------------------------------------
(* applyApprovedPatch, and the invalidation after it.                      *)

\* The work tree must be at the base, and the files as they were reviewed.
Applicable_AnyBase(p) == p \notin dirty
Applicable(p) == base[p].commit = HEAD /\ p \notin dirty

\* git add --all takes whatever is in the work tree.
Patch(h) ==
  LET p == request[h].prop IN
  /\ request[h].pc = "opened" /\ p \in Patches
  /\ Applicable(p)
  /\ log' = Append(log, {p} \cup dirty)
  /\ dirty' = {}
  /\ Go(h, "sweep")
  /\ UNCHANGED <<status, base, ideaVars, swept, queued, boundVars>>

\* Refused, or failed and restored from the backups.
PatchFails(h) ==
  /\ request[h].pc = "opened" /\ request[h].prop \in Patches
  /\ Leave(h)
  /\ UNCHANGED <<status, base, treeVars, ideaVars, swept, queued, boundVars>>

\* What the decision invalidates: the old HEAD, or the version superseded.
Replaced(h) ==
  LET p == request[h].prop IN
  IF p \in Patches THEN <<"git_commit", base[p].commit>>
                   ELSE <<"idea_version", request[h].saw.version>>

Sweep(h) ==
  /\ request[h].pc = "sweep"
  /\ swept' = swept \cup {Replaced(h)}
  /\ Go(h, "update")
  /\ UNCHANGED <<status, base, treeVars, ideaVars, queued, boundVars>>

\* A statement of the invalidation fails, before or after the first UPDATE.
AfterThrow_Ignored(h) == "update"
AfterThrow(h) == IF request[h].prop \in Patches THEN "idle" ELSE "undo"

SweepFails(h) ==
  /\ request[h].pc = "sweep"
  /\ swept' \in {swept, swept \cup {Replaced(h)}}
  /\ IF AfterThrow(h) = "idle" THEN Leave(h) ELSE Go(h, AfterThrow(h))
  /\ UNCHANGED <<status, base, treeVars, ideaVars, queued, boundVars>>

-----------------------------------------------------------------------------
(* applyApprovedIdeaRevision.                                              *)

Newest == CHOOSE v \in versions : \A w \in versions : w.version <= v.version
Revised(h) == [version |-> request[h].saw.version + 1,
               spec |-> request[h].saw.spec \cup {request[h].prop}]

ReadIdea(h) ==
  /\ request[h].pc = "opened" /\ request[h].prop \in Revisions
  /\ Continue(h, [request[h] EXCEPT !.pc = "revise", !.saw = Newest])
  /\ UNCHANGED <<status, base, treeVars, ideaVars, swept, queued, boundVars>>

\* UNIQUE(project_id, version)
Taken_Never(v) == FALSE
Taken(v) == \E w \in versions : w.version = v

\* idea.json is read before the transaction, which inserts and updates.
Revise(h) ==
  /\ request[h].pc = "revise"
  /\ IF Taken(Revised(h).version)
       THEN /\ Continue(h, [request[h] EXCEPT !.pc = "undo", !.previous = file])
            /\ UNCHANGED ideaVars
       ELSE /\ Continue(h, [request[h] EXCEPT !.pc = "write", !.previous = file, !.own = TRUE])
            /\ versions' = versions \cup {Revised(h)}
            /\ current' = Revised(h).version
            /\ UNCHANGED file
  /\ UNCHANGED <<status, base, treeVars, swept, queued, boundVars>>

\* git commit --only takes idea.json alone.
Write(h) ==
  /\ request[h].pc = "write"
  /\ file' = Revised(h).spec
  /\ log' = Append(log, {request[h].prop})
  /\ Go(h, "sweep")
  /\ UNCHANGED <<status, base, dirty, versions, current, swept, queued, boundVars>>

\* The catch: idea.json is restored and the inserted row, if any, deleted ...
Undo(h) ==
  /\ request[h].pc \in {"undo", "write"}
  /\ file' = request[h].previous
  /\ versions' = IF request[h].own THEN versions \ {Revised(h)} ELSE versions
  /\ undone' = (undone \/ request[h].own)
  /\ Go(h, "reset")
  /\ UNCHANGED <<status, base, treeVars, current, swept, queued, opened, crashes>>

\* ... and the project is put back to the version that was read.
Reset(h) ==
  /\ request[h].pc = "reset"
  /\ current' = request[h].saw.version
  /\ Leave(h)
  /\ UNCHANGED <<status, base, treeVars, versions, file, swept, queued, boundVars>>

-----------------------------------------------------------------------------
(* experiment_rerun: the checkpoint must be valid, the version current and  *)
(* HEAD its commit; then the row is inserted and the run submitted.        *)

CheckRerun(h) ==
  LET p == request[h].prop IN
  /\ request[h].pc = "opened" /\ p \in Reruns
  /\ IF Recoverable(base[p]) THEN Go(h, "rerun") ELSE Leave(h)
  /\ UNCHANGED <<status, base, treeVars, ideaVars, swept, queued, boundVars>>

CheckVersion(h) ==
  /\ request[h].pc = "rerun"
  /\ IF current = base[request[h].prop].version THEN Go(h, "submit") ELSE Leave(h)
  /\ UNCHANGED <<status, base, treeVars, ideaVars, swept, queued, boundVars>>

HeadMatches_Unchecked(p) == TRUE
HeadMatches(p) == HEAD = base[p].commit

QueueRerun(h) ==
  LET p == request[h].prop IN
  /\ request[h].pc = "submit"
  /\ IF HeadMatches(p)
       THEN /\ queued' = [queued EXCEPT ![p] = @ + 1]
            /\ Go(h, "update")
       ELSE Leave(h) /\ UNCHANGED queued
  /\ UNCHANGED <<status, base, treeVars, ideaVars, swept, boundVars>>

-----------------------------------------------------------------------------
(* The decision is recorded; a policy is inserted afterwards.              *)

\* (The verb of the request is not the status.)
Recorded_Verb(h) == IF request[h].decision = "approved" THEN "approve" ELSE "reject"
Recorded(h) == request[h].decision

Update(h) ==
  LET p == request[h].prop IN
  /\ request[h].pc = "update"
  /\ status' = [status EXCEPT ![p] = Recorded(h)]
  /\ IF p \in Changes /\ request[h].decision = "approved" THEN Go(h, "policy") ELSE Leave(h)
  /\ UNCHANGED <<base, treeVars, ideaVars, swept, queued, boundVars>>

InsertPolicy(h) ==
  /\ request[h].pc = "policy"
  /\ queued' = [queued EXCEPT ![request[h].prop] = @ + 1]
  /\ Leave(h)
  /\ UNCHANGED <<status, base, treeVars, ideaVars, swept, boundVars>>

\* The invalidation and the check of a checkpoint are several statements.
StatementOfMany(h) ==
  /\ \/ request[h].pc = "sweep"
     \/ request[h].pc = "opened" /\ request[h].prop \in Reruns
  /\ Len(turn) > 1
  /\ Go(h, request[h].pc)
  /\ UNCHANGED <<status, base, treeVars, ideaVars, swept, queued, boundVars>>

\* The server dies between two awaits, or while a patch has written its files
\* and not committed them.
Crash ==
  /\ crashes < MaxCrashes
  /\ crashes' = crashes + 1
  /\ request' = [h \in Requests |-> Idle]
  /\ turn' = <<>>
  /\ \/ UNCHANGED dirty
     \/ \E h \in Requests :
          /\ request[h].pc = "opened" /\ request[h].prop \in Patches
          /\ Applicable(request[h].prop)
          /\ dirty' = dirty \cup {request[h].prop}
  /\ UNCHANGED <<status, base, log, ideaVars, swept, queued, undone, opened>>

Next ==
  \/ \E p \in Props :
       \/ Propose(p)
       \/ \E h \in Requests, decision \in {"approved", "rejected"} : Open(h, p, decision)
  \/ \E h \in Requests :
       \/ Patch(h) \/ PatchFails(h) \/ Sweep(h) \/ SweepFails(h)
       \/ ReadIdea(h) \/ Revise(h) \/ Write(h) \/ Undo(h) \/ Reset(h)
       \/ CheckRerun(h) \/ CheckVersion(h) \/ QueueRerun(h)
       \/ Update(h) \/ InsertPolicy(h) \/ StatementOfMany(h)
  \/ Crash

Spec == Init /\ [][Next]_vars

-----------------------------------------------------------------------------
(* Properties.                                                             *)

\* A patch is committed once, directly on the HEAD it was reviewed against,
\* however many requests approve it and whatever is retried after a crash.
\* (What another patch found uncommitted is in a commit with that patch.)
PatchOnItsBase ==
  \A p \in Patches : \A i \in 1..HEAD : p \in log[i] =>
    /\ log[i] = {p} => base[p].commit = i - 1
    /\ \A j \in 1..HEAD : p \in log[j] => i = j

\* An approved revision is part of the newest version, and stays: approvals
\* that overlap cannot write over it or take it away, for the number of a
\* version is UNIQUE and whoever comes second is undone.  (Once a revision has
\* failed after its INSERT its number is free again, and this is lost too.)
RevisionIsNeverLost ==
  ~undone => \A p \in Revisions : status[p] = "approved" => p \in Newest.spec

\* What an approved patch or revision replaced has been invalidated: the
\* approval is recorded only when the invalidation is complete.
ApprovedIsSwept ==
  /\ \A p \in Patches :
       status[p] = "approved" => <<"git_commit", base[p].commit>> \in swept
  /\ \A p \in Revisions :
       status[p] = "approved" =>
         \E v \in versions : p \in v.spec /\ <<"idea_version", v.version - 1>> \in swept

\* No rerun is queued for a checkpoint that an approval has invalidated, not
\* even by one that happens while the rerun is being decided: HEAD moves
\* before anything is invalidated, and it is compared last.
RerunIsFresh ==
  [][\A p \in Reruns : queued'[p] # queued[p] => Recoverable(base[p])]_vars

-----------------------------------------------------------------------------
\* What a request is about at each of its statements.  Only a revision that has
\* inserted its version owns it; an approval is at its UPDATE after its sweep.
InOrder(q) ==
  /\ q.pc # "idle" =>
       q.prop \in Props /\ q.decision \in {"approved", "rejected"} /\ status[q.prop] # "absent"
  /\ q.pc \in {"opened", "revise", "write", "sweep"} => q.decision = "approved"
  /\ q.pc = "sweep" => q.prop \in Patches \cup Revisions /\ HEAD > 0
  /\ q.pc \in {"revise", "write", "undo", "reset"} => q.prop \in Revisions /\ q.saw.version > 0
  /\ q.pc \in {"rerun", "submit"} => q.prop \in Reruns
  /\ q.pc = "policy" => q.prop \in Changes
  /\ q.own => /\ q.prop \in Revisions /\ q.saw.version > 0
              /\ q.pc \in {"write", "sweep", "update", "undo", "reset"}
  /\ q.pc \in {"write", "sweep"} /\ q.prop \in Revisions => q.own
  /\ q.pc = "update" /\ q.decision = "approved" =>
       /\ q.prop \in Patches => <<"git_commit", base[q.prop].commit>> \in swept
       /\ q.prop \in Revisions => q.own /\ <<"idea_version", q.saw.version>> \in swept
RequestInOrder == \A h \in Requests : InOrder(request[h])

\* The version a request has inserted, until it takes it back, is there and its
\* number is nobody else's.
Owns(h) == request[h].own /\ request[h].pc # "reset"
VersionIsOwned ==
  \A h \in Requests : Owns(h) =>
    /\ Revised(h) \in versions
    /\ \A g \in Requests : g # h /\ Owns(g) => Revised(g).version # Revised(h).version

\* Version numbers are unique.  While none was taken back they have no gap, each
\* version contains the earlier ones, and what a revision has read is still there.
VersionsInOrder ==
  /\ IsFiniteSet(versions) /\ First \in versions
  /\ \A v \in versions : v.version > 0
  /\ \A v, w \in versions : v.version = w.version => v = w
  /\ ~undone =>
       /\ \A v \in versions : \A n \in 1..v.version : \E w \in versions : w.version = n
       /\ \A v, w \in versions : v.version <= w.version => v.spec \subseteq w.spec
       /\ \A h \in Requests : request[h].pc = "revise" => request[h].saw \in versions

\* An approved revision is in a version that no request can take back any more.
ApprovedIsKept ==
  \A p \in Revisions : status[p] = "approved" =>
    \E v \in versions :
      /\ p \in v.spec /\ <<"idea_version", v.version - 1>> \in swept
      /\ \A h \in Requests : Owns(h) => Revised(h) # v

\* A patch that was committed, or waits in the work tree, was bound to an earlier
\* commit, and never both.  What was invalidated was invalidated by a commit.
LogInOrder ==
  /\ \A p \in Patches, i \in 1..HEAD : p \in log[i] =>
       base[p].commit < i /\ status[p] # "absent" /\ p \notin dirty
  /\ \A p \in dirty : base[p].commit <= HEAD /\ status[p] # "absent"
  /\ swept # {} => HEAD > 0
  /\ \A p \in Reruns : base[p].commit = 0

\* The inductive invariant.
IInv ==
  /\ TypeOK
  /\ RequestInOrder
  /\ VersionIsOwned
  /\ VersionsInOrder
  /\ ApprovedIsKept
  /\ LogInOrder
  /\ PatchOnItsBase
  /\ ApprovedIsSwept
=============================================================================
