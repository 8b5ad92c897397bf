----------------------- MODULE ProposalDecision_proofs ----------------------
(***************************************************************************)
(* Theorems about ProposalDecision, for every number of proposals,         *)
(* concurrent requests, decisions and crashes.                             *)
(***************************************************************************)
EXTENDS ProposalDecision, FiniteSetTheorems, WellFoundedInduction, SequenceTheorems, TLAPS

USE DEF treeVars, ideaVars, requestVars, boundVars, vars

-----------------------------------------------------------------------------
(* The newest version.                                                     *)

\* A finite set of versions has one with the highest number: of what lies
\* above each of them one set is minimal, and it is empty.
LEMMA HighestVersion ==
  ASSUME NEW S \in SUBSET Version, IsFiniteSet(S), S # {}
  PROVE  \E v \in S : \A w \in S : w.version <= v.version
<1> DEFINE Above(v) == {w \in S : w.version > v.version}
           Aboves == {Above(v) : v \in S}
           Smaller == StrictSubsetOrdering(S)
<1>1. IsWellFoundedOn(Smaller, FiniteSubsetsOf(S))
  BY FS_StrictSubsetOrderingWellFounded
<1>2. Aboves \subseteq FiniteSubsetsOf(S)
  <2>1. Aboves \subseteq SUBSET S
    OBVIOUS
  <2>2. QED
    BY <2>1, FS_FiniteSubsetsOfFinite
<1>3. Aboves # {}
  OBVIOUS
<1>4. PICK x \in Aboves : \A y \in Aboves : <<y, x>> \notin Smaller
  <2> HIDE DEF Smaller, Aboves
  <2>1. QED
    BY <1>1, <1>2, <1>3, WFMin
<1>5. PICK v \in S : x = Above(v)
  OBVIOUS
<1>6. \A w \in S : w.version \in Nat
  BY DEF Version
<1>7. ASSUME NEW w \in S, w.version > v.version
      PROVE  FALSE
  <2>1. Above(w) \subseteq Above(v)
    BY <1>6, <1>7
  <2>2. w \in Above(v) /\ w \notin Above(w)
    BY <1>6, <1>7
  <2>3. <<Above(w), x>> \in Smaller
    BY <1>5, <2>1, <2>2 DEF StrictSubsetOrdering
  <2>4. QED
    BY <1>4, <2>3
<1>8. QED
  BY <1>6, <1>7

LEMMA NewestIsHighest ==
  ASSUME TypeOK, VersionsInOrder
  PROVE  Newest \in versions /\ \A w \in versions : w.version <= Newest.version
<1>1. \E v \in versions : \A w \in versions : w.version <= v.version
  BY HighestVersion DEF TypeOK, VersionsInOrder
<1>2. QED
  BY <1>1, Zenon DEF Newest

-----------------------------------------------------------------------------
(* The queue and the requests.                                             *)

LEMMA ContinueIsTyped ==
  ASSUME TypeOK, NEW h \in Requests, NEW r \in RequestRecord, Continue(h, r)
  PROVE  /\ turn' \in Seq(Requests)
         /\ request' \in [Requests -> RequestRecord]
         /\ request'[h] = r
         /\ \A g \in Requests : g # h => request'[g] = request[g]
<1>1. turn \in Seq(Requests) /\ turn # <<>> /\ turn' = Append(Tail(turn), h)
  BY DEF Continue, TypeOK
<1>2. turn' \in Seq(Requests)
  BY <1>1, HeadTailProperties, AppendProperties
<1>3. QED
  BY <1>2 DEF Continue, TypeOK

LEMMA GoIsTyped ==
  ASSUME TypeOK, NEW h \in Requests, NEW pc, Go(h, pc),
         pc \in {"idle", "opened", "sweep", "revise", "write", "undo", "reset", "rerun",
                 "submit", "update", "policy"}
  PROVE  /\ turn' \in Seq(Requests)
         /\ request' \in [Requests -> RequestRecord]
         /\ request'[h].pc = pc /\ request'[h].prop = request[h].prop
         /\ request'[h].decision = request[h].decision /\ request'[h].saw = request[h].saw
         /\ request'[h].own = request[h].own /\ request'[h].previous = request[h].previous
         /\ \A g \in Requests : g # h => request'[g] = request[g]
<1> DEFINE r == [request[h] EXCEPT !.pc = pc]
<1>1. request[h] \in RequestRecord
  BY DEF TypeOK
<1>2. /\ r \in RequestRecord /\ r.pc = pc /\ r.prop = request[h].prop
      /\ r.decision = request[h].decision /\ r.saw = request[h].saw
      /\ r.own = request[h].own /\ r.previous = request[h].previous
  BY <1>1 DEF RequestRecord
<1>3. Continue(h, r)
  BY DEF Go
<1> HIDE DEF r
<1>4. QED
  BY <1>2, <1>3, ContinueIsTyped

LEMMA IdleIsTyped ==
  /\ Idle \in RequestRecord /\ Idle.pc = "idle" /\ Idle.own = FALSE
  /\ Idle.saw = First /\ Idle.prop = None /\ Idle.decision = None /\ Idle.previous = {}
BY DEF Idle, RequestRecord, First, Version

LEMMA LeaveIsTyped ==
  ASSUME TypeOK, NEW h \in Requests, Leave(h)
  PROVE  /\ turn' \in Seq(Requests)
         /\ request' \in [Requests -> RequestRecord]
         /\ request'[h].pc = "idle" /\ request'[h].own = FALSE
         /\ \A g \in Requests : g # h => request'[g] = request[g]
<1>1. turn' \in Seq(Requests)
  BY HeadTailProperties DEF Leave, TypeOK
<1>2. QED
  BY <1>1, IdleIsTyped DEF Leave, TypeOK

-----------------------------------------------------------------------------
(* What keeps the parts of the invariant.                                  *)

\* The requests other than h, when proposals and invalidations stay.
LEMMA OthersInOrder ==
  ASSUME IInv, NEW h \in Requests, \A g \in Requests : g # h => request'[g] = request[g],
         InOrder(request[h])',
         \A p \in Props : status[p] # "absent" => status'[p] # "absent" /\ base'[p] = base[p],
         swept \subseteq swept', HEAD > 0 => HEAD' > 0
  PROVE  RequestInOrder'
<1>1. ASSUME NEW g \in Requests, g # h
      PROVE  InOrder(request[g])'
  <2>1. InOrder(request[g]) /\ request'[g] = request[g]
    BY <1>1 DEF IInv, RequestInOrder
  <2>2. QED
    BY <2>1 DEF InOrder, Props
<1>2. QED
  BY <1>1 DEF RequestInOrder

\* The versions, when none is inserted or taken back.
LEMMA VersionsKept ==
  ASSUME IInv, UNCHANGED <<versions, undone>>,
         \A g \in Requests : Owns(g)' =>
           Owns(g) /\ request'[g].saw = request[g].saw /\ request'[g].prop = request[g].prop,
         \A g \in Requests : request'[g].pc = "revise" =>
           \/ request'[g].saw \in versions
           \/ request[g].pc = "revise" /\ request'[g].saw = request[g].saw
  PROVE  VersionIsOwned' /\ VersionsInOrder'
<1>1. VersionIsOwned'
  <2>1. \A g \in Requests : Owns(g)' => Owns(g) /\ Revised(g)' = Revised(g)
    BY DEF Revised
  <2>2. QED
    BY <2>1 DEF IInv, VersionIsOwned
<1>2. VersionsInOrder'
  BY DEF IInv, VersionsInOrder
<1>3. QED
  BY <1>1, <1>2

LEMMA ApprovalsKept ==
  ASSUME IInv, UNCHANGED versions, swept \subseteq swept',
         \A g \in Requests : Owns(g)' =>
           Owns(g) /\ request'[g].saw = request[g].saw /\ request'[g].prop = request[g].prop,
         \A p \in Props : status'[p] = "approved" => status[p] = "approved" /\ base'[p] = base[p]
  PROVE  ApprovedIsKept' /\ ApprovedIsSwept'
<1>1. \A g \in Requests : Owns(g)' => Owns(g) /\ Revised(g)' = Revised(g)
  BY DEF Revised
<1>2. ApprovedIsKept'
  BY <1>1 DEF IInv, ApprovedIsKept, Props
<1>3. ApprovedIsSwept'
  BY DEF IInv, ApprovedIsSwept, Props
<1>4. QED
  BY <1>2, <1>3

LEMMA LogKept ==
  ASSUME IInv, UNCHANGED <<log, dirty>>,
         \A p \in Props : status[p] # "absent" => status'[p] # "absent" /\ base'[p] = base[p],
         \A p \in Reruns : base'[p] = base[p],
         swept' # swept => HEAD > 0
  PROVE  LogInOrder' /\ PatchOnItsBase'
<1>1. HEAD' = HEAD
  BY DEF HEAD
<1>2. \A p \in Patches, i \in 1..HEAD : p \in log[i] => base'[p] = base[p]
  BY DEF IInv, LogInOrder, Props
<1>3. \A p \in dirty : p \in Props
  BY DEF IInv, TypeOK, Props
<1>4. LogInOrder'
  BY <1>1, <1>2, <1>3 DEF IInv, LogInOrder, Props
<1>5. PatchOnItsBase'
  BY <1>1, <1>2 DEF IInv, PatchOnItsBase
<1>6. QED
  BY <1>4, <1>5

\* A statement of request h that changes no proposal, no version and no commit.
LEMMA Quiet ==
  ASSUME IInv, NEW h \in Requests, UNCHANGED <<status, base, treeVars, versions, undone>>,
         TypeOK', \A g \in Requests : g # h => request'[g] = request[g],
         InOrder(request[h])', swept \subseteq swept', swept' # swept => HEAD > 0,
         Owns(h)' =>
           Owns(h) /\ request'[h].saw = request[h].saw /\ request'[h].prop = request[h].prop,
         request'[h].pc = "revise" =>
           \/ request'[h].saw \in versions
           \/ request[h].pc = "revise" /\ request'[h].saw = request[h].saw
  PROVE  IInv'
<1>1. HEAD > 0 => HEAD' > 0
  BY DEF HEAD
<1>2. RequestInOrder'
  BY <1>1, OthersInOrder
<1>3. \A g \in Requests : Owns(g)' =>
        Owns(g) /\ request'[g].saw = request[g].saw /\ request'[g].prop = request[g].prop
  BY DEF Owns
<1>4. VersionIsOwned' /\ VersionsInOrder'
  <2>1. \A g \in Requests : request'[g].pc = "revise" =>
          \/ request'[g].saw \in versions
          \/ request[g].pc = "revise" /\ request'[g].saw = request[g].saw
    OBVIOUS
  <2>2. QED
    BY <1>3, <2>1, VersionsKept
<1>5. ApprovedIsKept' /\ ApprovedIsSwept'
  BY <1>3, ApprovalsKept
<1>6. LogInOrder' /\ PatchOnItsBase'
  BY LogKept
<1>7. QED
  BY <1>2, <1>4, <1>5, <1>6 DEF IInv

\* The answer to a request.
LEMMA QuietLeave ==
  ASSUME IInv, NEW h \in Requests, Leave(h), UNCHANGED <<status, base, treeVars, versions, undone>>,
         swept \subseteq swept', swept' # swept => HEAD > 0, swept' \subseteq Node,
         UNCHANGED <<file, opened, crashes>>, current' \in Nat, queued' \in [Props -> Nat]
  PROVE  IInv'
<1>1. /\ turn' \in Seq(Requests)
      /\ request' \in [Requests -> RequestRecord]
      /\ request'[h].pc = "idle" /\ request'[h].own = FALSE
      /\ \A g \in Requests : g # h => request'[g] = request[g]
  BY LeaveIsTyped DEF IInv
<1>2. TypeOK'
  BY <1>1 DEF IInv, TypeOK
<1>3. InOrder(request[h])' /\ ~Owns(h)'
  BY <1>1 DEF InOrder, Owns
<1>4. QED
  BY <1>1, <1>2, <1>3, Quiet

\* The next statement of a request.
LEMMA QuietGo ==
  ASSUME IInv, NEW h \in Requests, NEW pc, Go(h, pc),
         pc \in {"opened", "sweep", "undo", "rerun", "submit", "update"},
         UNCHANGED <<status, base, treeVars, versions, undone>>,
         swept \subseteq swept', swept' # swept => HEAD > 0, swept' \subseteq Node,
         UNCHANGED <<current, file, opened, crashes>>, queued' \in [Props -> Nat],
         request[h].pc \notin {"idle", "reset"},
         InOrder(request[h])'
  PROVE  IInv'
<1>1. /\ turn' \in Seq(Requests)
      /\ request' \in [Requests -> RequestRecord]
      /\ request'[h].pc = pc /\ request'[h].prop = request[h].prop
      /\ request'[h].saw = request[h].saw /\ request'[h].own = request[h].own
      /\ \A g \in Requests : g # h => request'[g] = request[g]
  BY GoIsTyped DEF IInv
<1>2. TypeOK'
  BY <1>1 DEF IInv, TypeOK
<1>3. Owns(h)' => Owns(h)
  BY <1>1 DEF Owns
<1>4. QED
  BY <1>1, <1>2, <1>3, Quiet

-----------------------------------------------------------------------------
(* The statements.                                                         *)

LEMMA ReplacedIsNode ==
  ASSUME TypeOK, NEW h \in Requests, request[h].prop \in Props
  PROVE  Replaced(h) \in Node
<1>1. base[request[h].prop].commit \in Nat /\ request[h].saw.version \in Nat
  BY DEF TypeOK, RequestRecord, Version
<1>2. QED
  BY <1>1 DEF Replaced, Node

LEMMA SweepStep ==
  ASSUME IInv, NEW h \in Requests, Sweep(h)
  PROVE  IInv'
<1>a. /\ TypeOK /\ InOrder(request[h]) /\ request[h].pc = "sweep"
      /\ Go(h, "update") /\ swept' = swept \cup {Replaced(h)}
      /\ UNCHANGED <<status, base, treeVars, ideaVars, queued, boundVars>>
  BY DEF IInv, RequestInOrder, Sweep
<1>b. /\ request[h].prop \in Props /\ request[h].prop \in Patches \cup Revisions
      /\ request[h].decision = "approved" /\ status[request[h].prop] # "absent" /\ HEAD > 0
      /\ request[h].prop \in Revisions => request[h].own
      /\ request[h].own => request[h].prop \in Revisions /\ request[h].saw.version > 0
  BY <1>a DEF InOrder
<1>1. swept' \subseteq Node
  BY <1>a, <1>b, ReplacedIsNode DEF TypeOK
<1>2. /\ request'[h].pc = "update" /\ request'[h].prop = request[h].prop
      /\ request'[h].decision = request[h].decision /\ request'[h].saw = request[h].saw
      /\ request'[h].own = request[h].own
  BY <1>a, GoIsTyped
<1>3. /\ request[h].prop \in Patches => <<"git_commit", base[request[h].prop].commit>> \in swept'
      /\ request[h].prop \in Revisions => <<"idea_version", request[h].saw.version>> \in swept'
  BY <1>a, KindsAssumption DEF Replaced
<1>4. InOrder(request[h])'
  BY <1>a, <1>b, <1>2, <1>3 DEF InOrder
<1>5. QED
  BY <1>a, <1>b, <1>1, <1>4, QuietGo DEF IInv, TypeOK

LEMMA SweepFailsStep ==
  ASSUME IInv, NEW h \in Requests, SweepFails(h)
  PROVE  IInv'
<1>a. /\ TypeOK /\ InOrder(request[h]) /\ request[h].pc = "sweep"
      /\ UNCHANGED <<status, base, treeVars, ideaVars, queued, boundVars>>
  BY DEF IInv, RequestInOrder, SweepFails
<1>b. /\ request[h].prop \in Props /\ request[h].prop \in Patches \cup Revisions
      /\ request[h].decision = "approved" /\ status[request[h].prop] # "absent" /\ HEAD > 0
      /\ request[h].prop \in Revisions => request[h].own
      /\ request[h].own => request[h].prop \in Revisions /\ request[h].saw.version > 0
  BY <1>a DEF InOrder
<1>1. swept \subseteq swept' /\ swept' \subseteq Node
  BY <1>a, <1>b, ReplacedIsNode DEF SweepFails, TypeOK
<1>2. CASE request[h].prop \in Patches
  <2>1. Leave(h)
    BY <1>2 DEF SweepFails, AfterThrow
  <2>2. QED
    BY <1>a, <1>b, <1>1, <2>1, QuietLeave DEF TypeOK
<1>3. CASE request[h].prop \notin Patches
  <2>1. Go(h, "undo")
    BY <1>3 DEF SweepFails, AfterThrow
  <2>2. /\ request'[h].pc = "undo" /\ request'[h].prop = request[h].prop
        /\ request'[h].decision = request[h].decision /\ request'[h].saw = request[h].saw
        /\ request'[h].own = request[h].own
    BY <1>a, <2>1, GoIsTyped
  <2>3. InOrder(request[h])'
    BY <1>a, <1>b, <1>3, <2>2 DEF InOrder
  <2>4. QED
    BY <1>a, <1>b, <1>1, <2>1, <2>3, QuietGo DEF TypeOK
<1>4. QED
  BY <1>2, <1>3

LEMMA LeavingSteps ==
  ASSUME IInv, NEW h \in Requests, PatchFails(h) \/ Reset(h) \/ InsertPolicy(h)
  PROVE  IInv'
<1>a. /\ TypeOK /\ InOrder(request[h]) /\ Leave(h) /\ request[h] \in RequestRecord
      /\ UNCHANGED <<status, base, treeVars, versions, file, swept, boundVars>>
  BY DEF IInv, RequestInOrder, PatchFails, Reset, InsertPolicy, TypeOK
<1>1. current' \in Nat
  BY <1>a DEF PatchFails, Reset, InsertPolicy, TypeOK, RequestRecord, Version
<1>2. queued' \in [Props -> Nat]
  BY <1>a DEF PatchFails, Reset, InsertPolicy, TypeOK
<1>3. QED
  BY <1>a, <1>1, <1>2, QuietLeave DEF TypeOK

LEMMA ReadIdeaStep ==
  ASSUME IInv, NEW h \in Requests, ReadIdea(h)
  PROVE  IInv'
<1> DEFINE r == [request[h] EXCEPT !.pc = "revise", !.saw = Newest]
<1>a. /\ TypeOK /\ InOrder(request[h]) /\ request[h].pc = "opened" /\ request[h].prop \in Revisions
      /\ request[h] \in RequestRecord
      /\ UNCHANGED <<status, base, treeVars, ideaVars, swept, queued, boundVars>>
  BY DEF IInv, RequestInOrder, ReadIdea, TypeOK
<1>b. Newest \in versions /\ Newest \in Version /\ Newest.version > 0
  BY NewestIsHighest DEF IInv, TypeOK, VersionsInOrder
<1>1. /\ r \in RequestRecord /\ r.pc = "revise" /\ r.saw = Newest /\ r.prop = request[h].prop
      /\ r.decision = request[h].decision /\ r.own = request[h].own
  BY <1>a, <1>b DEF RequestRecord
<1>2. Continue(h, r)
  BY DEF ReadIdea
<1> HIDE DEF r
<1>3. /\ turn' \in Seq(Requests)
      /\ request' \in [Requests -> RequestRecord]
      /\ request'[h] = r
      /\ \A g \in Requests : g # h => request'[g] = request[g]
  BY <1>a, <1>1, <1>2, ContinueIsTyped
<1>4. TypeOK'
  BY <1>a, <1>3 DEF TypeOK
<1>5. InOrder(request[h])' /\ ~Owns(h)'
  BY <1>a, <1>b, <1>1, <1>3 DEF InOrder, Owns
<1>6. QED
  BY <1>a, <1>b, <1>1, <1>3, <1>4, <1>5, Quiet

LEMMA RerunSteps ==
  ASSUME IInv, NEW h \in Requests,
         CheckRerun(h) \/ CheckVersion(h) \/ QueueRerun(h)
  PROVE  IInv'
<1>a. /\ TypeOK /\ InOrder(request[h]) /\ request[h].pc \in {"opened", "rerun", "submit"}
      /\ request[h].prop \in Reruns
      /\ UNCHANGED <<status, base, treeVars, ideaVars, swept, boundVars>>
  BY DEF IInv, RequestInOrder, InOrder, CheckRerun, CheckVersion, QueueRerun
<1>b. /\ request[h].prop \in Props /\ request[h].own = FALSE
      /\ request[h].prop \notin Patches \cup Revisions \cup Changes
      /\ request[h].decision \in {"approved", "rejected"} /\ status[request[h].prop] # "absent"
  BY <1>a, KindsAssumption DEF InOrder, TypeOK, RequestRecord
<1>1. queued' \in [Props -> Nat]
  BY <1>a, <1>b DEF CheckRerun, CheckVersion, QueueRerun, TypeOK
<1>2. CASE Leave(h)
  BY <1>a, <1>1, <1>2, QuietLeave DEF TypeOK
<1>3. ASSUME NEW pc \in {"rerun", "submit", "update"}, Go(h, pc)
      PROVE  IInv'
  <2>1. /\ request'[h].pc = pc /\ request'[h].prop = request[h].prop
        /\ request'[h].decision = request[h].decision /\ request'[h].own = request[h].own
    BY <1>a, <1>3, GoIsTyped
  <2>2. InOrder(request[h])'
    BY <1>a, <1>b, <2>1 DEF InOrder
  <2>3. QED
    BY <1>a, <1>1, <1>3, <2>2, QuietGo DEF TypeOK
<1>4. QED
  BY <1>2, <1>3 DEF CheckRerun, CheckVersion, QueueRerun

LEMMA StatementOfManyStep ==
  ASSUME IInv, NEW h \in Requests, StatementOfMany(h)
  PROVE  IInv'
<1> DEFINE pc == request[h].pc
<1>a. /\ TypeOK /\ InOrder(request[h]) /\ pc \in {"opened", "sweep"} /\ Go(h, pc)
      /\ UNCHANGED <<status, base, treeVars, ideaVars, swept, queued, boundVars>>
  BY DEF IInv, RequestInOrder, StatementOfMany
<1>1. /\ request'[h].pc = pc /\ request'[h].prop = request[h].prop
      /\ request'[h].decision = request[h].decision /\ request'[h].saw = request[h].saw
      /\ request'[h].own = request[h].own
  BY <1>a, GoIsTyped
<1>2. InOrder(request[h])'
  BY <1>a, <1>1 DEF InOrder, HEAD
<1>3. QED
  BY <1>a, <1>2, QuietGo DEF TypeOK

LEMMA ProposeStep ==
  ASSUME IInv, NEW p \in Props, Propose(p)
  PROVE  IInv'
<1> DEFINE now == [commit |-> HEAD, version |-> current]
<1>a. /\ TypeOK /\ status[p] = "absent" /\ status' = [status EXCEPT ![p] = "pending"]
      /\ base' = [base EXCEPT ![p] = IF p \in Patches THEN now ELSE @]
      /\ UNCHANGED <<treeVars, ideaVars, swept, queued, requestVars, boundVars>>
  BY DEF IInv, Propose
<1>b. now \in [commit : Nat, version : Nat] /\ now.commit = HEAD
  BY <1>a, LenProperties DEF TypeOK, HEAD
<1> HIDE DEF now
<1>1. base' \in [Props -> [commit : Nat, version : Nat]]
  BY <1>a, <1>b DEF TypeOK
<1>2. status' \in [Props -> {"absent", "pending", "approved", "rejected"}]
  BY <1>a DEF TypeOK
<1>3. TypeOK'
  BY <1>a, <1>1, <1>2 DEF TypeOK
<1>4. /\ \A q \in Props : status[q] # "absent" => status'[q] # "absent" /\ base'[q] = base[q]
      /\ \A q \in Props : status'[q] = "approved" => status[q] = "approved" /\ base'[q] = base[q]
      /\ \A q \in Reruns : base'[q] = base[q]
  BY <1>a, KindsAssumption DEF TypeOK, Props
<1>5. RequestInOrder'
  <2>1. ASSUME NEW g \in Requests
        PROVE  InOrder(request[g])'
    <3>1. InOrder(request[g]) /\ request'[g] = request[g]
      BY <1>a DEF IInv, RequestInOrder
    <3>2. QED
      BY <1>a, <1>4, <3>1 DEF InOrder, Props, HEAD
  <2>2. QED
    BY <2>1 DEF RequestInOrder
<1>6. \A g \in Requests : Owns(g)' =>
        Owns(g) /\ request'[g].saw = request[g].saw /\ request'[g].prop = request[g].prop
  BY <1>a DEF Owns
<1>7. VersionIsOwned' /\ VersionsInOrder'
  BY <1>a, <1>6, VersionsKept
<1>8. ApprovedIsKept' /\ ApprovedIsSwept'
  BY <1>a, <1>4, <1>6, ApprovalsKept
<1>9. LogInOrder' /\ PatchOnItsBase'
  BY <1>a, <1>4, LogKept
<1>10. QED
  BY <1>3, <1>5, <1>7, <1>8, <1>9 DEF IInv

LEMMA OpenStep ==
  ASSUME IInv, NEW h \in Requests, NEW p \in Props, NEW decision \in {"approved", "rejected"},
         Open(h, p, decision)
  PROVE  IInv'
<1> DEFINE pc == IF decision = "approved" /\ p \notin Changes THEN "opened" ELSE "update"
           r == [Idle EXCEPT !.prop = p, !.decision = decision, !.pc = pc]
<1>a. /\ TypeOK /\ status[p] = "pending"
      /\ turn' = Append(turn, h) /\ request' = [request EXCEPT ![h] = r]
      /\ opened < MaxDecisions /\ opened' = opened + 1
      /\ UNCHANGED <<status, base, treeVars, ideaVars, swept, queued, undone, crashes>>
  BY DEF IInv, Open
<1>1. /\ r \in RequestRecord /\ r.pc = pc /\ r.prop = p /\ r.decision = decision
      /\ r.own = FALSE
  BY DEF Idle, RequestRecord, First, Version
<1> HIDE DEF r
<1>2. /\ request' \in [Requests -> RequestRecord] /\ request'[h] = r
      /\ \A g \in Requests : g # h => request'[g] = request[g]
  BY <1>a, <1>1 DEF TypeOK
<1>3. turn' \in Seq(Requests)
  BY <1>a, AppendProperties DEF TypeOK
<1>4. opened' \in 0..MaxDecisions
  BY <1>a, BoundsAssumption DEF TypeOK
<1>5. TypeOK'
  BY <1>a, <1>2, <1>3, <1>4 DEF TypeOK
<1>6. InOrder(request[h])' /\ ~Owns(h)'
  BY <1>a, <1>1, <1>2, KindsAssumption DEF InOrder, Owns
<1>7. QED
  BY <1>a, <1>1, <1>2, <1>5, <1>6, Quiet

\* The decision is recorded: whoever approved it has made the sweep, and leaves
\* its version to the others.
LEMMA UpdateStep ==
  ASSUME IInv, NEW h \in Requests, Update(h)
  PROVE  IInv'
<1> DEFINE p == request[h].prop
           d == request[h].decision
<1>a. /\ TypeOK /\ InOrder(request[h]) /\ request[h].pc = "update"
      /\ status' = [status EXCEPT ![p] = d]
      /\ UNCHANGED <<base, treeVars, ideaVars, swept, queued, boundVars>>
  BY DEF IInv, RequestInOrder, Update, Recorded
<1>b. /\ p \in Props /\ d \in {"approved", "rejected"} /\ request[h].own \in BOOLEAN
      /\ d = "approved" /\ p \in Patches => <<"git_commit", base[p].commit>> \in swept
      /\ d = "approved" /\ p \in Revisions =>
           request[h].own /\ <<"idea_version", request[h].saw.version>> \in swept
      /\ request[h].own => p \in Revisions
  BY <1>a DEF InOrder, TypeOK, RequestRecord
<1>1. /\ turn' \in Seq(Requests)
      /\ request' \in [Requests -> RequestRecord]
      /\ \/ request'[h].pc = "idle"
         \/ request'[h].pc = "policy" /\ p \in Changes /\ request'[h].prop = p
            /\ request'[h].decision = d
      /\ request'[h].own = FALSE
      /\ \A g \in Requests : g # h => request'[g] = request[g]
  <2>1. CASE p \in Changes /\ Go(h, "policy")
    <3>1. request[h].own = FALSE
      BY <1>b, <2>1, KindsAssumption
    <3>2. QED
      BY <1>a, <2>1, <3>1, GoIsTyped
  <2>2. CASE Leave(h)
    BY <1>a, <2>2, LeaveIsTyped
  <2>3. QED
    BY <2>1, <2>2 DEF Update
<1>2. /\ status' \in [Props -> {"absent", "pending", "approved", "rejected"}]
      /\ \A q \in Props : q # p => status'[q] = status[q]
      /\ status'[p] = d
  BY <1>a, <1>b DEF TypeOK
<1>3. TypeOK'
  BY <1>a, <1>1, <1>2 DEF TypeOK
<1>4. \A q \in Props : status[q] # "absent" => status'[q] # "absent" /\ base'[q] = base[q]
  BY <1>a, <1>b, <1>2
<1>5. RequestInOrder'
  <2>1. InOrder(request[h])'
    BY <1>b, <1>1, <1>2 DEF InOrder
  <2>2. QED
    BY <1>a, <1>1, <1>4, <2>1, OthersInOrder DEF HEAD
<1>6. /\ ~Owns(h)'
      /\ \A g \in Requests : Owns(g)' =>
           Owns(g) /\ request'[g].saw = request[g].saw /\ request'[g].prop = request[g].prop
  BY <1>1 DEF Owns
<1>7. VersionIsOwned' /\ VersionsInOrder'
  BY <1>a, <1>1, <1>6, VersionsKept
<1>8. ApprovedIsKept'
  <2>1. \A g \in Requests : Owns(g)' => Owns(g) /\ g # h /\ Revised(g)' = Revised(g)
    BY <1>6 DEF Revised
  <2>2. ASSUME NEW q \in Revisions, status'[q] = "approved"
        PROVE  \E v \in versions :
                 /\ q \in v.spec /\ <<"idea_version", v.version - 1>> \in swept
                 /\ \A g \in Requests : Owns(g)' => Revised(g)' # v
    <3>1. CASE q # p
      <4>1. status[q] = "approved"
        BY <1>2, <2>2, <3>1 DEF Props
      <4>2. PICK v \in versions :
              /\ q \in v.spec /\ <<"idea_version", v.version - 1>> \in swept
              /\ \A g \in Requests : Owns(g) => Revised(g) # v
        BY <4>1, Zenon DEF IInv, ApprovedIsKept
      <4>3. QED
        BY <2>1, <4>2
    <3>2. CASE q = p
      <4>1. Owns(h) /\ <<"idea_version", request[h].saw.version>> \in swept
        BY <1>a, <1>b, <1>2, <2>2, <3>2 DEF Owns
      <4>2. /\ Revised(h) \in versions
            /\ \A g \in Requests : g # h /\ Owns(g) => Revised(g).version # Revised(h).version
        BY <4>1 DEF IInv, VersionIsOwned
      <4>3. q \in Revised(h).spec /\ Revised(h).version - 1 = request[h].saw.version
        BY <1>a, <3>2 DEF Revised, TypeOK, RequestRecord, Version
      <4>4. \A g \in Requests : Owns(g)' => Revised(g)' # Revised(h)
        BY <2>1, <4>2
      <4>5. QED
        BY <4>1, <4>2, <4>3, <4>4
    <3>3. QED
      BY <3>1, <3>2
  <2>3. QED
    BY <1>a, <2>2 DEF ApprovedIsKept
<1>9. ApprovedIsSwept'
  <2>1. \A q \in Patches : status'[q] = "approved" => <<"git_commit", base'[q].commit>> \in swept'
    BY <1>a, <1>b, <1>2 DEF IInv, ApprovedIsSwept, Props
  <2>2. \A q \in Revisions : status'[q] = "approved" =>
          \E v \in versions' : q \in v.spec /\ <<"idea_version", v.version - 1>> \in swept'
    BY <1>8 DEF ApprovedIsKept
  <2>3. QED
    BY <2>1, <2>2 DEF ApprovedIsSwept
<1>10. LogInOrder' /\ PatchOnItsBase'
  BY <1>a, <1>4, LogKept DEF Props
<1>11. QED
  BY <1>3, <1>5, <1>7, <1>8, <1>9, <1>10 DEF IInv

-----------------------------------------------------------------------------
(* Commits.                                                                *)

LEMMA Committed ==
  ASSUME TypeOK, NEW S \in SUBSET Props, log' = Append(log, S)
  PROVE  /\ log' \in Seq(SUBSET Props)
         /\ HEAD \in Nat /\ HEAD' = HEAD + 1
         /\ \A i \in 1..HEAD : log'[i] = log[i]
         /\ log'[HEAD + 1] = S
<1>1. log \in Seq(SUBSET Props)
  BY DEF TypeOK
<1>2. QED
  BY <1>1, AppendProperties, LenProperties DEF HEAD

\* A commit holds no patch that an earlier one holds, and alone only the patch
\* that was made for the commit before.
LEMMA LogGrows ==
  ASSUME IInv, NEW S \in SUBSET Props, log' = Append(log, S),
         UNCHANGED <<status, base, swept>>, dirty' \subseteq dirty,
         \A q \in Patches : q \in S =>
           /\ status[q] # "absent" /\ q \notin dirty' /\ base[q].commit <= HEAD
           /\ S = {q} => base[q].commit = HEAD
           /\ \A i \in 1..HEAD : q \notin log[i]
  PROVE  LogInOrder' /\ PatchOnItsBase'
<1>1. /\ HEAD \in Nat /\ HEAD' = HEAD + 1
      /\ \A i \in 1..HEAD : log'[i] = log[i]
      /\ log'[HEAD + 1] = S
  BY Committed DEF IInv
<1>2. \A i \in 1..HEAD' : i \in 1..HEAD \/ i = HEAD + 1
  BY <1>1
<1>3. \A q \in Patches : base[q].commit \in Nat
  BY DEF IInv, TypeOK, Props
<1>4. \A q \in dirty : base[q].commit \in Nat
  BY <1>3 DEF IInv, TypeOK
<1>5. LogInOrder'
  <2>1. ASSUME NEW q \in Patches, NEW i \in 1..HEAD', q \in log'[i]
        PROVE  base'[q].commit < i /\ status'[q] # "absent" /\ q \notin dirty'
    <3>1. CASE i \in 1..HEAD
      BY <1>1, <2>1, <3>1 DEF IInv, LogInOrder
    <3>2. CASE i = HEAD + 1
      <4>1. q \in S
        BY <1>1, <2>1, <3>2
      <4>2. QED
        BY <1>1, <1>3, <3>2, <4>1
    <3>3. QED
      BY <1>2, <3>1, <3>2
  <2>2. \A q \in dirty' : base'[q].commit <= HEAD' /\ status'[q] # "absent"
    BY <1>1, <1>4 DEF IInv, LogInOrder
  <2>3. (swept' # {} => HEAD' > 0) /\ \A q \in Reruns : base'[q].commit = 0
    BY <1>1 DEF IInv, LogInOrder
  <2>4. QED
    BY <2>1, <2>2, <2>3 DEF LogInOrder
<1>6. ASSUME NEW q \in Patches, NEW i \in 1..HEAD', q \in log'[i]
      PROVE  /\ log'[i] = {q} => base'[q].commit = i - 1
             /\ \A j \in 1..HEAD' : q \in log'[j] => i = j
  <2>1. CASE i \in 1..HEAD
    <3>1. q \in log[i] /\ q \notin S
      BY <1>1, <1>6, <2>1
    <3>2. QED
      BY <1>1, <1>2, <2>1, <3>1 DEF IInv, PatchOnItsBase
  <2>2. CASE i = HEAD + 1
    <3>1. q \in S /\ log'[i] = S
      BY <1>1, <1>6, <2>2
    <3>2. S = {q} => base'[q].commit = i - 1
      BY <1>1, <2>2, <3>1
    <3>3. ASSUME NEW j \in 1..HEAD', q \in log'[j], i # j
          PROVE  FALSE
      <4>1. j \in 1..HEAD
        BY <1>2, <2>2, <3>3
      <4>2. QED
        BY <1>1, <3>1, <3>3, <4>1
    <3>4. QED
      BY <3>1, <3>2, <3>3
  <2>3. QED
    BY <1>2, <2>1, <2>2
<1>7. PatchOnItsBase'
  BY <1>6 DEF PatchOnItsBase
<1>8. QED
  BY <1>5, <1>7

LEMMA PatchStep ==
  ASSUME IInv, NEW h \in Requests, Patch(h)
  PROVE  IInv'
<1> DEFINE p == request[h].prop
           S == {p} \cup dirty
<1>a. /\ TypeOK /\ InOrder(request[h]) /\ request[h].pc = "opened" /\ p \in Patches
      /\ base[p].commit = HEAD /\ p \notin dirty
      /\ log' = Append(log, S) /\ dirty' = {} /\ Go(h, "sweep")
      /\ UNCHANGED <<status, base, ideaVars, swept, queued, boundVars>>
  BY DEF IInv, RequestInOrder, Patch, Applicable
<1>b. p \in Props /\ status[p] # "absent" /\ request[h].decision = "approved" /\ ~request[h].own
  BY <1>a DEF InOrder
<1>c. S \in SUBSET Props
  BY <1>a, <1>b DEF TypeOK, Props
<1>1. /\ turn' \in Seq(Requests)
      /\ request' \in [Requests -> RequestRecord]
      /\ request'[h].pc = "sweep" /\ request'[h].prop = p
      /\ request'[h].decision = request[h].decision /\ request'[h].own = request[h].own
      /\ \A g \in Requests : g # h => request'[g] = request[g]
  BY <1>a, GoIsTyped
<1>2. log' \in Seq(SUBSET Props) /\ HEAD \in Nat /\ HEAD' = HEAD + 1
  BY <1>a, <1>c, Committed
<1>3. TypeOK'
  BY <1>a, <1>1, <1>2 DEF TypeOK
<1>4. RequestInOrder'
  <2>1. request[h].prop \notin Revisions
    BY <1>a, KindsAssumption
  <2>2. InOrder(request[h])'
    BY <1>a, <1>b, <1>1, <1>2, <2>1 DEF InOrder
  <2>3. QED
    BY <1>a, <1>1, <1>2, <2>2, OthersInOrder
<1>5. \A g \in Requests : Owns(g)' =>
        Owns(g) /\ request'[g].saw = request[g].saw /\ request'[g].prop = request[g].prop
  BY <1>b, <1>1 DEF Owns
<1>6. VersionIsOwned' /\ VersionsInOrder'
  <2>1. \A g \in Requests : request'[g].pc = "revise" =>
          request[g].pc = "revise" /\ request'[g].saw = request[g].saw
    BY <1>1
  <2>2. QED
    BY <1>a, <1>5, <2>1, VersionsKept
<1>7. ApprovedIsKept' /\ ApprovedIsSwept'
  BY <1>a, <1>5, ApprovalsKept
<1>8. LogInOrder' /\ PatchOnItsBase'
  <2> SUFFICES ASSUME NEW q \in Patches, q \in S
               PROVE  /\ status[q] # "absent" /\ base[q].commit <= HEAD
                      /\ S = {q} => base[q].commit = HEAD
                      /\ \A i \in 1..HEAD : q \notin log[i]
    BY <1>a, <1>c, LogGrows
  <2>1. CASE q = p
    BY <1>a, <1>b, <1>2, <2>1 DEF IInv, LogInOrder
  <2>2. CASE q \in dirty
    BY <1>a, <2>2 DEF IInv, LogInOrder
  <2>3. QED
    BY <2>1, <2>2
<1>9. QED
  BY <1>3, <1>4, <1>6, <1>7, <1>8 DEF IInv

LEMMA WriteStep ==
  ASSUME IInv, NEW h \in Requests, Write(h)
  PROVE  IInv'
<1> DEFINE p == request[h].prop
<1>a. /\ TypeOK /\ InOrder(request[h]) /\ request[h] \in RequestRecord /\ request[h].pc = "write"
      /\ file' = Revised(h).spec /\ log' = Append(log, {p}) /\ Go(h, "sweep")
      /\ UNCHANGED <<status, base, dirty, versions, current, swept, queued, boundVars>>
  BY DEF IInv, RequestInOrder, TypeOK, Write
<1>b. /\ p \in Revisions /\ p \in Props /\ status[p] # "absent" /\ request[h].own
      /\ request[h].saw.version > 0
  BY <1>a DEF InOrder
<1>1. /\ turn' \in Seq(Requests)
      /\ request' \in [Requests -> RequestRecord]
      /\ request'[h].pc = "sweep" /\ request'[h].prop = p /\ request'[h].saw = request[h].saw
      /\ request'[h].decision = request[h].decision /\ request'[h].own = request[h].own
      /\ \A g \in Requests : g # h => request'[g] = request[g]
  BY <1>a, GoIsTyped
<1>2. log' \in Seq(SUBSET Props) /\ HEAD \in Nat /\ HEAD' = HEAD + 1
  BY <1>a, <1>b, Committed
<1>3. file' \subseteq Revisions
  BY <1>a, <1>b DEF Revised, RequestRecord, Version
<1>4. TypeOK'
  BY <1>a, <1>1, <1>2, <1>3 DEF TypeOK
<1>5. RequestInOrder'
  <2>1. request[h].decision = "approved"
    BY <1>a DEF InOrder
  <2>2. InOrder(request[h])'
    BY <1>a, <1>b, <1>1, <1>2, <2>1 DEF InOrder
  <2>3. QED
    BY <1>a, <1>1, <1>2, <2>2, OthersInOrder
<1>6. \A g \in Requests : Owns(g)' =>
        Owns(g) /\ request'[g].saw = request[g].saw /\ request'[g].prop = request[g].prop
  BY <1>a, <1>1 DEF Owns
<1>7. VersionIsOwned' /\ VersionsInOrder'
  <2>1. \A g \in Requests : request'[g].pc = "revise" =>
          request[g].pc = "revise" /\ request'[g].saw = request[g].saw
    BY <1>1
  <2>2. QED
    BY <1>a, <1>6, <2>1, VersionsKept
<1>8. ApprovedIsKept' /\ ApprovedIsSwept'
  BY <1>a, <1>6, ApprovalsKept
<1>9. LogInOrder' /\ PatchOnItsBase'
  <2>1. \A q \in Patches : q \notin {p}
    BY <1>b, KindsAssumption
  <2>2. QED
    BY <1>a, <1>b, <2>1, LogGrows
<1>10. QED
  BY <1>4, <1>5, <1>7, <1>8, <1>9 DEF IInv

-----------------------------------------------------------------------------
(* Versions inserted and taken back.                                       *)

LEMMA RevisedIsVersion ==
  ASSUME TypeOK, NEW h \in Requests, request[h].prop \in Revisions
  PROVE  /\ Revised(h) \in Version
         /\ Revised(h).version = request[h].saw.version + 1
         /\ request[h].saw.version \in Nat /\ request[h].saw.spec \subseteq Revised(h).spec
<1>1. request[h].saw \in Version
  BY DEF TypeOK, RequestRecord
<1>2. QED
  BY <1>1 DEF Revised, Version

LEMMA RevisionTaken ==
  ASSUME IInv, NEW h \in Requests, Revise(h), Taken(Revised(h).version)
  PROVE  IInv'
<1> DEFINE r == [request[h] EXCEPT !.pc = "undo", !.previous = file]
<1>a. /\ TypeOK /\ InOrder(request[h]) /\ request[h].pc = "revise"
      /\ request[h] \in RequestRecord /\ Continue(h, r)
      /\ UNCHANGED <<status, base, treeVars, ideaVars, swept, queued, boundVars>>
  BY DEF IInv, RequestInOrder, TypeOK, Revise
<1>1. /\ r \in RequestRecord /\ r.pc = "undo" /\ r.saw = request[h].saw
      /\ r.prop = request[h].prop /\ r.decision = request[h].decision /\ r.own = request[h].own
  BY <1>a DEF RequestRecord, TypeOK
<1> HIDE DEF r
<1>2. /\ turn' \in Seq(Requests)
      /\ request' \in [Requests -> RequestRecord]
      /\ request'[h] = r
      /\ \A g \in Requests : g # h => request'[g] = request[g]
  BY <1>a, <1>1, ContinueIsTyped
<1>3. TypeOK'
  BY <1>a, <1>2 DEF TypeOK
<1>4. InOrder(request[h])'
  BY <1>a, <1>1, <1>2 DEF InOrder
<1>5. ~Owns(h)'
  BY <1>a, <1>1, <1>2 DEF InOrder, Owns
<1>6. QED
  BY <1>a, <1>1, <1>2, <1>3, <1>4, <1>5, Quiet

\* The number above the version that was read is free: while no version was taken
\* back, that version is still the newest, and the new one contains them all.
LEMMA RevisionInserted ==
  ASSUME IInv, NEW h \in Requests, Revise(h), ~Taken(Revised(h).version)
  PROVE  IInv'
<1> DEFINE r == [request[h] EXCEPT !.pc = "write", !.previous = file, !.own = TRUE]
           new == Revised(h)
<1>a. /\ TypeOK /\ InOrder(request[h]) /\ request[h].pc = "revise"
      /\ request[h] \in RequestRecord /\ Continue(h, r)
      /\ versions' = versions \cup {new} /\ current' = new.version
      /\ UNCHANGED <<status, base, treeVars, file, swept, queued, boundVars>>
  BY DEF IInv, RequestInOrder, TypeOK, Revise
<1>b. /\ request[h].prop \in Revisions /\ request[h].prop \in Props
      /\ request[h].saw.version > 0 /\ request[h].decision = "approved"
      /\ status[request[h].prop] # "absent" /\ ~request[h].own
  BY <1>a DEF InOrder
<1>c. /\ new \in Version /\ new.version = request[h].saw.version + 1
      /\ request[h].saw.version \in Nat /\ request[h].saw.spec \subseteq new.spec
  BY <1>a, <1>b, RevisedIsVersion
<1>d. /\ versions \subseteq Version
      /\ \A v \in versions : v.version # new.version /\ v.version \in Nat
  BY <1>a DEF Taken, TypeOK, Version
<1>1. /\ r \in RequestRecord /\ r.pc = "write" /\ r.saw = request[h].saw
      /\ r.prop = request[h].prop /\ r.decision = request[h].decision /\ r.own = TRUE
  BY <1>a DEF RequestRecord, TypeOK
<1> HIDE DEF r
<1>2. /\ turn' \in Seq(Requests)
      /\ request' \in [Requests -> RequestRecord]
      /\ request'[h] = r
      /\ \A g \in Requests : g # h => request'[g] = request[g]
  BY <1>a, <1>1, ContinueIsTyped
<1>3. \A g \in Requests : Revised(g)' = Revised(g)
  BY <1>1, <1>2 DEF Revised
<1> HIDE DEF new
<1>4. TypeOK'
  <2>1. versions' \subseteq Version /\ current' \in Nat
    BY <1>a, <1>c, <1>d DEF Version
  <2>2. QED
    BY <1>a, <1>2, <2>1 DEF TypeOK
<1>5. RequestInOrder'
  <2>1. InOrder(request[h])'
    BY <1>a, <1>b, <1>1, <1>2 DEF InOrder
  <2>2. QED
    BY <1>a, <1>2, <2>1, OthersInOrder DEF HEAD
<1>6. \A g \in Requests : Owns(g)' => g = h \/ Owns(g)
  BY <1>2 DEF Owns
<1>7. \A g \in Requests : g # h /\ Owns(g)' => Revised(g) \in versions
  BY <1>6 DEF IInv, VersionIsOwned
<1>8. VersionIsOwned'
  <2>1. ASSUME NEW g \in Requests, Owns(g)'
        PROVE  /\ Revised(g)' \in versions'
               /\ \A k \in Requests : k # g /\ Owns(k)' => Revised(k)'.version # Revised(g)'.version
    <3>1. CASE g = h
      BY <1>a, <1>d, <1>3, <1>7, <3>1 DEF new
    <3>2. CASE g # h
      <4>1. Owns(g) /\ Revised(g) \in versions
        BY <1>6, <1>7, <2>1, <3>2
      <4>2. ASSUME NEW k \in Requests, k # g, Owns(k)'
            PROVE  Revised(k).version # Revised(g).version
        <5>1. CASE k = h
          BY <1>d, <4>1, <5>1 DEF new
        <5>2. CASE k # h
          BY <1>6, <4>1, <4>2, <5>2 DEF IInv, VersionIsOwned
        <5>3. QED
          BY <5>1, <5>2
      <4>3. QED
        BY <1>a, <1>3, <4>1, <4>2
    <3>3. QED
      BY <3>1, <3>2
  <2>2. QED
    BY <2>1 DEF VersionIsOwned
<1>9. VersionsInOrder'
  <2>1. IsFiniteSet(versions') /\ First \in versions'
    BY <1>a, FS_AddElement DEF IInv, VersionsInOrder
  <2>2. \A v \in versions' : v.version > 0
    BY <1>a, <1>b, <1>c DEF IInv, VersionsInOrder
  <2>3. \A v, w \in versions' : v.version = w.version => v = w
    BY <1>a, <1>d DEF IInv, VersionsInOrder
  <2>4. ASSUME ~undone'
        PROVE  /\ \A v \in versions' : \A n \in 1..v.version : \E w \in versions' : w.version = n
               /\ \A v, w \in versions' : v.version <= w.version => v.spec \subseteq w.spec
               /\ \A g \in Requests : request'[g].pc = "revise" => request'[g].saw \in versions'
    <3>1. /\ \A v \in versions : \A n \in 1..v.version : \E w \in versions : w.version = n
          /\ \A v, w \in versions : v.version <= w.version => v.spec \subseteq w.spec
          /\ \A g \in Requests : request[g].pc = "revise" => request[g].saw \in versions
      BY <1>a, <2>4 DEF IInv, VersionsInOrder
    <3>2. request[h].saw \in versions
      BY <1>a, <3>1
    <3>3. \A v \in versions : v.version <= request[h].saw.version
      <4>1. ASSUME NEW v \in versions, v.version > request[h].saw.version
            PROVE  FALSE
        <5>1. new.version \in 1..v.version
          BY <1>c, <1>d, <4>1
        <5>2. QED
          BY <1>d, <3>1, <5>1
      <4>2. QED
        BY <1>c, <1>d, <4>1
    <3>4. \A v \in versions : v.spec \subseteq new.spec
      BY <1>c, <3>1, <3>2, <3>3
    <3>5. \A v \in versions' : \A n \in 1..v.version : \E w \in versions' : w.version = n
      <4>1. ASSUME NEW v \in versions', NEW n \in 1..v.version
            PROVE  \E w \in versions' : w.version = n
        <5>1. CASE v \in versions
          BY <1>a, <3>1, <5>1
        <5>2. CASE v = new /\ n = new.version
          BY <1>a, <5>2
        <5>3. CASE v = new /\ n # new.version
          <6>1. n \in 1..request[h].saw.version
            BY <1>c, <5>3
          <6>2. QED
            BY <1>a, <3>1, <3>2, <6>1
        <5>4. QED
          BY <1>a, <5>1, <5>2, <5>3
      <4>2. QED
        BY <4>1
    <3>6. \A v, w \in versions' : v.version <= w.version => v.spec \subseteq w.spec
      BY <1>a, <1>c, <1>d, <3>1, <3>3, <3>4
    <3>7. \A g \in Requests : request'[g].pc = "revise" => request'[g].saw \in versions'
      BY <1>a, <1>1, <1>2, <3>1
    <3>8. QED
      BY <3>5, <3>6, <3>7
  <2>5. QED
    BY <2>1, <2>2, <2>3, <2>4 DEF VersionsInOrder
<1>10. ApprovedIsKept'
  <2>1. ASSUME NEW q \in Revisions, status[q] = "approved"
        PROVE  \E v \in versions' :
                 /\ q \in v.spec /\ <<"idea_version", v.version - 1>> \in swept
                 /\ \A g \in Requests : Owns(g)' => Revised(g)' # v
    <3>1. PICK v \in versions :
            /\ q \in v.spec /\ <<"idea_version", v.version - 1>> \in swept
            /\ \A g \in Requests : Owns(g) => Revised(g) # v
      BY <2>1, Zenon DEF IInv, ApprovedIsKept
    <3>2. Revised(h) # v
      BY <1>d DEF new
    <3>3. QED
      BY <1>a, <1>3, <1>6, <3>1, <3>2
  <2>2. QED
    BY <1>a, <2>1 DEF ApprovedIsKept
<1>11. ApprovedIsSwept'
  <2>1. \A q \in Patches : status'[q] = "approved" => <<"git_commit", base'[q].commit>> \in swept'
    BY <1>a DEF IInv, ApprovedIsSwept
  <2>2. QED
    BY <1>10, <2>1 DEF ApprovedIsKept, ApprovedIsSwept
<1>12. LogInOrder' /\ PatchOnItsBase'
  BY <1>a, LogKept DEF Props
<1>13. QED
  BY <1>4, <1>5, <1>8, <1>9, <1>10, <1>11, <1>12 DEF IInv

LEMMA UndoStep ==
  ASSUME IInv, NEW h \in Requests, Undo(h)
  PROVE  IInv'
<1> DEFINE old == Revised(h)
<1>a. /\ TypeOK /\ InOrder(request[h]) /\ request[h].pc \in {"undo", "write"}
      /\ request[h] \in RequestRecord /\ Go(h, "reset") /\ file' = request[h].previous
      /\ versions' = IF request[h].own THEN versions \ {old} ELSE versions
      /\ undone' = (undone \/ request[h].own)
      /\ UNCHANGED <<status, base, treeVars, current, swept, queued, opened, crashes>>
  BY DEF IInv, RequestInOrder, TypeOK, Undo
<1>b. /\ request[h].prop \in Revisions /\ request[h].prop \in Props
      /\ request[h].saw.version > 0
  BY <1>a DEF InOrder
<1>1. /\ turn' \in Seq(Requests)
      /\ request' \in [Requests -> RequestRecord]
      /\ request'[h].pc = "reset" /\ request'[h].prop = request[h].prop
      /\ request'[h].saw = request[h].saw /\ request'[h].decision = request[h].decision
      /\ request'[h].own = request[h].own
      /\ \A g \in Requests : g # h => request'[g] = request[g]
  BY <1>a, GoIsTyped
<1>2. TypeOK'
  <2>1. versions' \subseteq Version
    BY <1>a DEF TypeOK
  <2>2. file' \subseteq Revisions
    BY <1>a DEF RequestRecord
  <2>3. undone' \in BOOLEAN
    BY <1>a DEF TypeOK, RequestRecord
  <2>4. QED
    BY <1>a, <1>1, <2>1, <2>2, <2>3 DEF TypeOK
<1>3. InOrder(request[h])' /\ ~Owns(h)'
  BY <1>a, <1>b, <1>1 DEF InOrder, Owns
<1>4. CASE ~request[h].own
  <2>1. versions' = versions /\ undone' = undone
    BY <1>a, <1>4 DEF TypeOK, RequestRecord
  <2>2. QED
    BY <1>a, <1>1, <1>2, <1>3, <2>1, Quiet
<1>5. CASE request[h].own
  <2>1. /\ versions' = versions \ {old} /\ undone'
        /\ Owns(h)
    BY <1>a, <1>5 DEF Owns
  <2>2. /\ old \in versions /\ old.version = request[h].saw.version + 1
        /\ request[h].saw.version \in Nat
    BY <1>a, <1>b, <2>1, RevisedIsVersion DEF IInv, VersionIsOwned
  <2>3. \A g \in Requests : Revised(g)' = Revised(g)
    BY <1>1 DEF Revised
  <2>4. \A g \in Requests : Owns(g)' => Owns(g) /\ g # h
    BY <1>1, <1>3 DEF Owns
  <2>5. RequestInOrder'
    BY <1>a, <1>1, <1>3, OthersInOrder DEF HEAD
  <2>6. VersionIsOwned'
    <3>1. \A g \in Requests : Owns(g)' => Revised(g) \in versions /\ Revised(g) # old
      BY <2>1, <2>4 DEF IInv, VersionIsOwned
    <3>2. QED
      BY <2>1, <2>3, <2>4, <3>1 DEF IInv, VersionIsOwned
  <2>7. VersionsInOrder'
    <3>1. First # old
      BY <1>b, <2>2 DEF First
    <3>2. IsFiniteSet(versions')
      BY <2>1, FS_Subset DEF IInv, VersionsInOrder
    <3>3. QED
      BY <2>1, <3>1, <3>2 DEF IInv, VersionsInOrder
  <2>8. ApprovedIsKept'
    <3>1. ASSUME NEW q \in Revisions, status[q] = "approved"
          PROVE  \E v \in versions' :
                   /\ q \in v.spec /\ <<"idea_version", v.version - 1>> \in swept
                   /\ \A g \in Requests : Owns(g)' => Revised(g)' # v
      <4>1. PICK v \in versions :
              /\ q \in v.spec /\ <<"idea_version", v.version - 1>> \in swept
              /\ \A g \in Requests : Owns(g) => Revised(g) # v
        BY <3>1, Zenon DEF IInv, ApprovedIsKept
      <4>2. v \in versions'
        BY <2>1, <4>1
      <4>3. QED
        BY <2>3, <2>4, <4>1, <4>2
    <3>2. QED
      BY <1>a, <3>1 DEF ApprovedIsKept
  <2>9. ApprovedIsSwept'
    <3>1. \A q \in Patches : status'[q] = "approved" => <<"git_commit", base'[q].commit>> \in swept'
      BY <1>a DEF IInv, ApprovedIsSwept
    <3>2. QED
      BY <2>8, <3>1 DEF ApprovedIsKept, ApprovedIsSwept
  <2>10. LogInOrder' /\ PatchOnItsBase'
    BY <1>a, LogKept DEF Props
  <2>11. QED
    BY <1>2, <2>5, <2>6, <2>7, <2>8, <2>9, <2>10 DEF IInv
<1>6. QED
  BY <1>4, <1>5

-----------------------------------------------------------------------------
(* The server dies.                                                        *)

LEMMA CrashStep ==
  ASSUME IInv, Crash
  PROVE  IInv'
<1>a. /\ TypeOK /\ request' = [h \in Requests |-> Idle] /\ turn' = <<>>
      /\ crashes < MaxCrashes /\ crashes' = crashes + 1
      /\ UNCHANGED <<status, base, log, ideaVars, swept, queued, undone, opened>>
  BY DEF IInv, Crash
<1>1. /\ dirty \subseteq dirty'
      /\ \A p \in dirty' : p \notin dirty =>
           p \in Patches /\ base[p].commit = HEAD /\ status[p] # "absent"
  <2>1. CASE UNCHANGED dirty
    BY <2>1
  <2>2. CASE \E h \in Requests :
               /\ request[h].pc = "opened" /\ request[h].prop \in Patches
               /\ Applicable(request[h].prop)
               /\ dirty' = dirty \cup {request[h].prop}
    <3>1. PICK h \in Requests :
            /\ request[h].pc = "opened" /\ request[h].prop \in Patches
            /\ Applicable(request[h].prop)
            /\ dirty' = dirty \cup {request[h].prop}
      BY <2>2
    <3>2. InOrder(request[h])
      BY DEF IInv, RequestInOrder
    <3>3. QED
      BY <3>1, <3>2 DEF InOrder, Applicable
  <2>3. QED
    BY <2>1, <2>2 DEF Crash
<1>2. /\ \A h \in Requests : request'[h] = Idle
      /\ request' \in [Requests -> RequestRecord]
  BY <1>a, IdleIsTyped
<1>3. TypeOK'
  <2>1. crashes' \in 0..MaxCrashes
    BY <1>a, BoundsAssumption DEF TypeOK
  <2>2. dirty' \subseteq Patches /\ turn' \in Seq(Requests)
    BY <1>a, <1>1 DEF TypeOK
  <2>3. QED
    BY <1>a, <1>2, <2>1, <2>2 DEF TypeOK
<1>4. RequestInOrder'
  BY <1>2, IdleIsTyped DEF RequestInOrder, InOrder
<1>5. \A h \in Requests : ~Owns(h)' /\ request'[h].pc # "revise"
  BY <1>2, IdleIsTyped DEF Owns
<1>6. VersionIsOwned' /\ VersionsInOrder'
  BY <1>a, <1>5, VersionsKept
<1>7. ApprovedIsKept' /\ ApprovedIsSwept'
  BY <1>a, <1>5, ApprovalsKept
<1>8. HEAD' = HEAD /\ HEAD \in Nat
  BY <1>a, LenProperties DEF HEAD, TypeOK
<1>9. LogInOrder'
  <2>1. ASSUME NEW q \in Patches, NEW i \in 1..HEAD, q \in log[i]
        PROVE  base[q].commit < i /\ status[q] # "absent" /\ q \notin dirty'
    <3>1. base[q].commit < i /\ status[q] # "absent" /\ q \notin dirty
      BY <2>1 DEF IInv, LogInOrder
    <3>2. base[q].commit # HEAD
      BY <1>8, <3>1
    <3>3. QED
      BY <1>1, <3>1, <3>2
  <2>2. \A q \in dirty' : base[q].commit <= HEAD /\ status[q] # "absent"
    BY <1>1, <1>8 DEF IInv, LogInOrder
  <2>3. (swept # {} => HEAD > 0) /\ \A q \in Reruns : base[q].commit = 0
    BY DEF IInv, LogInOrder
  <2>4. QED
    BY <1>a, <1>8, <2>1, <2>2, <2>3 DEF LogInOrder
<1>10. PatchOnItsBase'
  BY <1>a, <1>8 DEF IInv, PatchOnItsBase
<1>11. QED
  BY <1>3, <1>4, <1>6, <1>7, <1>9, <1>10 DEF IInv

-----------------------------------------------------------------------------
(* The invariant.                                                          *)

LEMMA InitInv == Init => IInv
<1> SUFFICES ASSUME Init PROVE IInv
  OBVIOUS
<1>1. TypeOK
  <2>1. First \in Version
    BY DEF First, Version
  <2>2. request \in [Requests -> RequestRecord]
    BY IdleIsTyped DEF Init
  <2>3. log \in Seq(SUBSET Props) /\ turn \in Seq(Requests)
    BY EmptySeq DEF Init
  <2>4. base \in [Props -> [commit : Nat, version : Nat]]
    BY DEF Init
  <2>5. opened \in 0..MaxDecisions /\ crashes \in 0..MaxCrashes
    BY BoundsAssumption DEF Init
  <2>6. /\ status \in [Props -> {"absent", "pending", "approved", "rejected"}]
        /\ queued \in [Props -> Nat]
        /\ versions \subseteq Version /\ current \in Nat /\ undone \in BOOLEAN
        /\ dirty \subseteq Patches /\ file \subseteq Revisions /\ swept \subseteq Node
    BY <2>1 DEF Init
  <2>7. QED
    BY <2>2, <2>3, <2>4, <2>5, <2>6 DEF TypeOK
<1>2. \A h \in Requests : request[h].pc = "idle" /\ request[h].own = FALSE
  BY IdleIsTyped DEF Init
<1>3. RequestInOrder /\ VersionIsOwned
  BY <1>2 DEF RequestInOrder, InOrder, VersionIsOwned, Owns
<1>4. VersionsInOrder
  <2>1. versions = {First} /\ First.version = 1 /\ IsFiniteSet(versions)
    BY FS_Singleton DEF Init, First
  <2>2. QED
    BY <1>2, <2>1 DEF VersionsInOrder
<1>5. HEAD = 0
  BY DEF Init, HEAD
<1>6. LogInOrder /\ PatchOnItsBase
  BY <1>5 DEF Init, LogInOrder, PatchOnItsBase, Props
<1>7. ApprovedIsKept /\ ApprovedIsSwept
  BY DEF Init, ApprovedIsKept, ApprovedIsSwept, Props
<1>8. QED
  BY <1>1, <1>3, <1>4, <1>6, <1>7 DEF IInv

LEMMA InvStep == IInv /\ [Next]_vars => IInv'
<1> SUFFICES ASSUME IInv, [Next]_vars PROVE IInv'
  OBVIOUS
<1>1. ASSUME NEW p \in Props, Propose(p)
      PROVE  IInv'
  BY <1>1, ProposeStep
<1>2. ASSUME NEW p \in Props, NEW h \in Requests, NEW decision \in {"approved", "rejected"},
             Open(h, p, decision)
      PROVE  IInv'
  BY <1>2, OpenStep
<1>3. ASSUME NEW h \in Requests, Patch(h) \/ PatchFails(h) \/ Sweep(h) \/ SweepFails(h)
      PROVE  IInv'
  BY <1>3, PatchStep, LeavingSteps, SweepStep, SweepFailsStep
<1>4. ASSUME NEW h \in Requests,
             ReadIdea(h) \/ Revise(h) \/ Write(h) \/ Undo(h) \/ Reset(h)
      PROVE  IInv'
  BY <1>4, ReadIdeaStep, RevisionTaken, RevisionInserted, WriteStep, UndoStep, LeavingSteps
<1>5. ASSUME NEW h \in Requests, CheckRerun(h) \/ CheckVersion(h) \/ QueueRerun(h)
      PROVE  IInv'
  BY <1>5, RerunSteps
<1>6. ASSUME NEW h \in Requests, Update(h) \/ InsertPolicy(h) \/ StatementOfMany(h)
      PROVE  IInv'
  BY <1>6, UpdateStep, LeavingSteps, StatementOfManyStep
<1>7. CASE Crash
  BY <1>7, CrashStep
<1>8. CASE UNCHANGED vars
  <2>1. TypeOK'
    BY <1>8 DEF IInv, TypeOK
  <2>2. RequestInOrder'
    <3>1. \A h \in Requests : InOrder(request[h])' = InOrder(request[h])
      BY <1>8 DEF InOrder, HEAD
    <3>2. QED
      BY <1>8, <3>1 DEF IInv, RequestInOrder
  <2>3. VersionIsOwned' /\ VersionsInOrder'
    BY <1>8, VersionsKept DEF Owns
  <2>4. ApprovedIsKept' /\ ApprovedIsSwept'
    BY <1>8, ApprovalsKept DEF Owns
  <2>5. LogInOrder' /\ PatchOnItsBase'
    BY <1>8, LogKept
  <2>6. QED
    BY <2>1, <2>2, <2>3, <2>4, <2>5 DEF IInv
<1>9. QED
  BY <1>1, <1>2, <1>3, <1>4, <1>5, <1>6, <1>7, <1>8 DEF Next

\* Approvals that overlap keep apart what they insert, and record a decision only
\* after what it replaced was invalidated.
THEOREM InductiveInv == Spec => []IInv
<1>1. QED
  BY InitInv, InvStep, PTL DEF Spec

\* Every row, commit and request in flight is of its type.
THEOREM TypeCorrect == Spec => []TypeOK
<1>1. IInv => TypeOK
  BY DEF IInv
<1>2. QED
  BY <1>1, InductiveInv, PTL

\* A patch is committed once, directly on the commit it was reviewed against, whatever
\* requests approve it at once and whatever is retried after a crash (patch-service.ts).
THEOREM PatchesAreAppliedOnce == Spec => []PatchOnItsBase
<1>1. IInv => PatchOnItsBase
  BY DEF IInv
<1>2. QED
  BY <1>1, InductiveInv, PTL

\* What an approved patch or revision replaced has been invalidated.
THEOREM ApprovalsAreSwept == Spec => []ApprovedIsSwept
<1>1. IInv => ApprovedIsSwept
  BY DEF IInv
<1>2. QED
  BY <1>1, InductiveInv, PTL

\* While no inserted version was taken back, the newest version holds every
\* approved revision (idea-service.ts): the approved one is in some version, and
\* each version contains the earlier ones.
THEOREM RevisionsAreKept == Spec => []RevisionIsNeverLost
<1>1. IInv => RevisionIsNeverLost
  <2> SUFFICES ASSUME IInv, ~undone, NEW p \in Revisions, status[p] = "approved"
               PROVE  p \in Newest.spec
    BY DEF RevisionIsNeverLost
  <2>1. PICK v \in versions : p \in v.spec
    BY DEF IInv, ApprovedIsKept
  <2>2. Newest \in versions /\ v.version <= Newest.version
    BY NewestIsHighest DEF IInv
  <2>3. v.spec \subseteq Newest.spec
    BY <2>2 DEF IInv, VersionsInOrder
  <2>4. QED
    BY <2>1, <2>3
<1>2. QED
  BY <1>1, InductiveInv, PTL

\* A rerun is queued only while HEAD is the commit of its checkpoint, and nothing
\* was invalidated before the first commit moved HEAD (index.ts, the decision of an
\* experiment_rerun).
THEOREM RerunsAreFresh == Spec => RerunIsFresh
<1> DEFINE Fresh == \A p \in Reruns : queued'[p] # queued[p] => Recoverable(base[p])
<1>1. IInv /\ [Next]_vars => [Fresh]_vars
  <2> SUFFICES ASSUME IInv, Next, NEW p \in Reruns, queued'[p] # queued[p]
               PROVE  Recoverable(base[p])
    OBVIOUS
  <2>1. PICK h \in Requests : QueueRerun(h) \/ InsertPolicy(h)
    BY DEF Next, Propose, Open, Patch, PatchFails, Sweep, SweepFails, ReadIdea, Revise, Write,
           Undo, Reset, CheckRerun, CheckVersion, Update, StatementOfMany, Crash
  <2>2. TypeOK /\ InOrder(request[h])
    BY DEF IInv, RequestInOrder
  <2>3. ~InsertPolicy(h)
    <3>1. ASSUME InsertPolicy(h)
          PROVE  FALSE
      <4>1. request[h].prop \in Changes /\ queued' = [queued EXCEPT ![request[h].prop] = @ + 1]
        BY <2>2, <3>1 DEF InsertPolicy, InOrder
      <4>2. p # request[h].prop
        BY <4>1, KindsAssumption
      <4>3. QED
        BY <2>2, <4>1, <4>2 DEF TypeOK, Props
    <3>2. QED
      BY <3>1
  <2>4. p = request[h].prop /\ HeadMatches(p)
    BY <2>1, <2>2, <2>3 DEF QueueRerun, TypeOK, Props
  <2>5. HEAD = 0
    BY <2>4 DEF HeadMatches, IInv, LogInOrder
  <2>6. swept = {}
    BY <2>5 DEF IInv, LogInOrder
  <2>7. QED
    BY <2>6 DEF Recoverable
<1>2. QED
  BY <1>1, InductiveInv, PTL DEF Spec, RerunIsFresh
=============================================================================
