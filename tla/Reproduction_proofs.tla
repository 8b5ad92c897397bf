------------------------- MODULE Reproduction_proofs -------------------------
(***************************************************************************)
(* Theorems about Reproduction, for every number of proposals, runs,       *)
(* concurrent decisions and crashes.                                       *)
(***************************************************************************)
EXTENDS Reproduction, TLAPS

USE DEF runVars, outVars, serverVars, vars

-----------------------------------------------------------------------------
(* The records of the requests and of the worker.                          *)

LEMMA GotoIsTyped ==
  ASSUME TypeOK, NEW h \in Requests, NEW pc, Goto(h, pc),
         pc \in {"install", "pip", "load", "insert", "task", "check", "copy", "edges",
                 "complete", "audit", "reject", "decide"}
  PROVE  /\ request' \in [Requests -> RequestRecord]
         /\ request'[h].pc = pc /\ request'[h].prop = request[h].prop
         /\ request'[h].run = request[h].run
         /\ \A g \in Requests : g # h => request'[g] = request[g]
<1> DEFINE q == [request[h] EXCEPT !.pc = pc]
<1>1. request[h] \in RequestRecord
  BY DEF TypeOK
<1>2. /\ q \in RequestRecord
      /\ q.pc = pc /\ q.prop = request[h].prop /\ q.run = request[h].run
  BY <1>1 DEF RequestRecord
<1>3. request' = [request EXCEPT ![h] = q]
  BY DEF Goto
<1> HIDE DEF q
<1>4. QED
  BY <1>2, <1>3 DEF TypeOK

LEMMA IdleIsTyped ==
  Idle \in RequestRecord /\ Idle.pc = "idle" /\ Idle.prop = None /\ Idle.run = None
BY DEF Idle, RequestRecord

LEMMA LeaveIsTyped ==
  ASSUME TypeOK, NEW h \in Requests, Leave(h)
  PROVE  /\ request' \in [Requests -> RequestRecord]
         /\ request'[h] = Idle
         /\ \A g \in Requests : g # h => request'[g] = request[g]
BY IdleIsTyped DEF Leave, TypeOK

LEMMA BodyGotoIsTyped ==
  ASSUME TypeOK, NEW pc, BodyGoto(pc),
         pc \in {"load", "start", "process", "await", "propose", "catch", "failed", "done"}
  PROVE  /\ body' \in [pc : {"idle", "load", "start", "process", "await", "propose", "catch",
                             "failed", "done"}, run : Runs \cup {None}]
         /\ body'.pc = pc /\ body'.run = body.run
BY DEF TypeOK, BodyGoto

-----------------------------------------------------------------------------
(* What keeps the parts of the invariant.                                  *)

\* A statement of request h that changes no proposal, run or task.
LEMMA Quiet ==
  ASSUME IInv, NEW h \in Requests, UNCHANGED <<status, of, run, task, body, mode>>, TypeOK',
         \A g \in Requests : g # h => request'[g] = request[g],
         InOrder(request[h])', request'[h].pc # "task",
         request'[h].pc \in {"audit", "decide"} /\ request'[h].prop \in Writes =>
           request[h].pc \in {"audit", "decide"} /\ request[h].prop = request'[h].prop,
         \A r \in linked' : r \in linked \/ task[r] # "absent"
  PROVE  IInv'
<1>1. RequestInOrder'
  <2>1. ASSUME NEW g \in Requests, g # h
        PROVE  InOrder(request[g])'
    <3>1. InOrder(request[g]) /\ request'[g] = request[g]
      BY <2>1 DEF IInv, RequestInOrder
    <3>2. QED
      BY <3>1 DEF InOrder
  <2>2. QED
    BY <2>1 DEF RequestInOrder
<1>2. OneTask'
  BY DEF IInv, OneTask, At
<1>3. TaskFollowsRun' /\ BodyInOrder' /\ RunningHasWorker'
  BY DEF IInv, TaskFollowsRun, BodyInOrder, RunningHasWorker
<1>4. \A p \in Writes, r \in Runs : OpenFor(p, r) => OpenFor(p, r)'
  BY DEF OpenFor
<1>5. AwaitingIsOpen'
  BY <1>4 DEF IInv, AwaitingIsOpen
<1>6. QED
  BY <1>1, <1>2, <1>3, <1>5 DEF IInv

\* What leaves the requests alone, and every run whose task was not inserted.
LEMMA Frame ==
  ASSUME IInv, UNCHANGED <<request, mode, linked>>,
         \A r \in Runs : task[r] = "absent" => task'[r] = "absent" /\ run'[r] = run[r],
         \A r \in Runs : task'[r] = "absent" => task[r] = "absent",
         \A r \in Runs : run'[r] = "absent" => run[r] = "absent",
         \A p \in Props : status[p] # "absent" => status'[p] # "absent",
         \A p \in Writes : status[p] # "absent" => of'[p] = of[p],
         \A p \in Writes : status'[p] # "absent" =>
           status[p] # "absent" \/ (of'[p] \in Runs /\ task[of'[p]] # "absent")
  PROVE  RequestInOrder' /\ OneTask' /\ TaskFollowsRun'
<1>1. RequestInOrder'
  <2>1. ASSUME NEW g \in Requests
        PROVE  InOrder(request[g])'
    <3>1. InOrder(request[g]) /\ request'[g] = request[g]
      BY DEF IInv, RequestInOrder
    <3>2. request[g].prop \in Writes /\ request[g].pc # "idle" =>
            of'[request[g].prop] = of[request[g].prop]
      BY <3>1 DEF InOrder
    <3>3. QED
      BY <3>1, <3>2 DEF InOrder
  <2>2. QED
    BY <2>1 DEF RequestInOrder
<1>2. OneTask'
  BY DEF IInv, OneTask, At
<1>3. TaskFollowsRun'
  BY DEF IInv, TaskFollowsRun, Props
<1>4. QED
  BY <1>1, <1>2, <1>3

\* The proposals that stay open, when the requests are left alone.
LEMMA StaysOpen ==
  ASSUME UNCHANGED request, NEW p \in Writes, NEW r \in Runs, OpenFor(p, r),
         status'[p] = status[p], of'[p] = of[p]
  PROVE  OpenFor(p, r)'
BY DEF OpenFor

-----------------------------------------------------------------------------
(* Proposals and decisions.                                                *)

LEMMA SubmitStep ==
  ASSUME IInv, NEW p \in Installs \cup Plans, Submit(p)
  PROVE  IInv'
<1>a. /\ TypeOK /\ p \in Props /\ p \notin Writes /\ status[p] = "absent"
      /\ status' = [status EXCEPT ![p] = "pending"]
      /\ UNCHANGED <<repro, of, runVars, outVars, serverVars>>
  BY PropsAssumption DEF IInv, Submit, Props
<1>1. /\ status' \in [Props -> {"absent", "pending", "approved", "rejected"}]
      /\ \A q \in Props : q # p => status'[q] = status[q]
      /\ \A q \in Writes : status'[q] = status[q]
      /\ status'[p] = "pending"
  BY <1>a DEF TypeOK, Props
<1>2. TypeOK'
  BY <1>a, <1>1 DEF TypeOK
<1>3. RequestInOrder' /\ OneTask' /\ TaskFollowsRun'
  BY <1>a, <1>1, Frame
<1>4. BodyInOrder' /\ RunningHasWorker'
  BY <1>a DEF IInv, BodyInOrder, RunningHasWorker
<1>5. \A q \in Writes, r \in Runs : OpenFor(q, r) => OpenFor(q, r)'
  BY <1>a, <1>1, StaysOpen
<1>6. AwaitingIsOpen'
  BY <1>a, <1>5 DEF IInv, AwaitingIsOpen
<1>7. QED
  BY <1>2, <1>3, <1>4, <1>6 DEF IInv

LEMMA OpenStep ==
  ASSUME IInv, NEW h \in Requests, NEW p \in Props, NEW decision \in {"approved", "rejected"},
         Open(h, p, decision)
  PROVE  IInv'
<1> DEFINE q == [pc |-> FirstStep(p, decision), prop |-> p, decision |-> decision,
                 run |-> IF p \in Writes THEN of[p] ELSE None, id |-> opened + 1]
<1>a. /\ TypeOK /\ mode = "up" /\ status[p] = "pending"
      /\ opened < MaxDecisions /\ opened' = opened + 1
      /\ request' = [request EXCEPT ![h] = q]
      /\ UNCHANGED <<repro, status, of, runVars, outVars, mode, crashes>>
  BY DEF IInv, Open
<1>1. /\ FirstStep(p, decision) \in {"install", "load", "check", "reject", "decide"}
      /\ FirstStep(p, decision) = "install" => p \in Installs
      /\ FirstStep(p, decision) = "load" => p \in Plans
      /\ FirstStep(p, decision) \in {"check", "reject"} => p \in Writes
      /\ FirstStep(p, decision) = "decide" => p \notin Writes
  BY PropsAssumption DEF FirstStep, Props
<1>2. opened \in Nat /\ opened' \in 0..MaxDecisions
  BY <1>a, BoundsAssumption DEF TypeOK
<1>3. (IF p \in Writes THEN of[p] ELSE None) \in Runs \cup {None}
  BY <1>a DEF TypeOK
<1>4. /\ q \in RequestRecord /\ q.pc = FirstStep(p, decision) /\ q.prop = p
      /\ p \in Writes => q.run = of[p]
  BY <1>1, <1>2, <1>3 DEF RequestRecord
<1> HIDE DEF q
<1>5. /\ request' \in [Requests -> RequestRecord] /\ request'[h] = q
      /\ \A g \in Requests : g # h => request'[g] = request[g]
  BY <1>a, <1>4 DEF TypeOK
<1>6. TypeOK'
  BY <1>a, <1>2, <1>5 DEF TypeOK
<1>7. InOrder(request[h])'
  BY <1>a, <1>1, <1>4, <1>5 DEF InOrder
<1>8. QED
  BY <1>a, <1>1, <1>4, <1>5, <1>6, <1>7, Quiet

\* A decision goes on, or is answered, and has changed at most the status of the
\* repository and the outputs.
LEMMA QuietGoto ==
  ASSUME IInv, NEW h \in Requests, NEW pc, Goto(h, pc), UNCHANGED <<status, of, runVars, swept>>,
         pc \in {"install", "pip", "load", "insert", "check", "copy", "edges", "complete", "decide",
                "audit"},
         TypeOK', InOrder(request[h])', request[h].pc # "idle",
         pc \in {"audit", "decide"} => request[h].prop \notin Writes \/ request[h].pc = "audit",
         \A r \in linked' : r \in linked \/ task[r] # "absent"
  PROVE  IInv'
<1>1. /\ request'[h].pc = pc /\ request'[h].prop = request[h].prop
      /\ \A g \in Requests : g # h => request'[g] = request[g]
  BY GotoIsTyped DEF IInv
<1>2. UNCHANGED mode
  BY DEF Goto
<1>3. QED
  BY <1>1, <1>2, Quiet

LEMMA QuietLeave ==
  ASSUME IInv, NEW h \in Requests, Leave(h), UNCHANGED <<status, of, runVars, linked, swept>>,
         repro' \in {"source_downloaded", "dependency_installing", "dependency_failed", "ready",
                    "invalidated"},
         artifacts' \subseteq Artifact
  PROVE  IInv'
<1>1. /\ request' \in [Requests -> RequestRecord] /\ request'[h] = Idle
      /\ \A g \in Requests : g # h => request'[g] = request[g]
  BY LeaveIsTyped DEF IInv
<1>2. UNCHANGED <<mode, opened, crashes>>
  BY DEF Leave
<1>3. TypeOK'
  BY <1>1, <1>2 DEF IInv, TypeOK
<1>4. InOrder(request[h])'
  BY <1>1, IdleIsTyped DEF InOrder
<1>5. QED
  BY <1>1, <1>2, <1>3, <1>4, IdleIsTyped, Quiet

LEMMA InstallSteps ==
  ASSUME IInv, NEW h \in Requests, Install(h) \/ PipEnds(h) \/ LoadReproduction(h)
  PROVE  IInv'
<1>a. /\ TypeOK /\ InOrder(request[h]) /\ request[h].pc \in {"install", "pip", "load"}
      /\ UNCHANGED <<status, of, runVars, outVars>>
  BY DEF IInv, RequestInOrder, Install, PipEnds, LoadReproduction, At
<1>b. /\ mode = "up" /\ request[h].prop \in Props /\ status[request[h].prop] # "absent"
      /\ request[h].prop \notin Writes
      /\ request[h].pc = "install" => request[h].prop \in Installs
      /\ request[h].pc = "load" => request[h].prop \in Plans
  BY <1>a, PropsAssumption DEF InOrder
<1>1. repro' \in {"source_downloaded", "dependency_installing", "dependency_failed", "ready",
                 "invalidated"}
  BY <1>a DEF TypeOK, Install, PipEnds, LoadReproduction
<1>2. CASE Leave(h)
  BY <1>a, <1>1, <1>2, QuietLeave DEF TypeOK
<1>3. ASSUME NEW pc \in {"pip", "decide", "insert"}, Goto(h, pc),
             pc = "pip" => request[h].pc = "install", pc = "insert" => request[h].pc = "load"
      PROVE  IInv'
  <2>1. /\ request' \in [Requests -> RequestRecord]
        /\ request'[h].pc = pc /\ request'[h].prop = request[h].prop
    BY <1>a, <1>3, GotoIsTyped
  <2>2. UNCHANGED <<mode, opened, crashes>>
    BY <1>3 DEF Goto
  <2>3. TypeOK'
    BY <1>a, <1>1, <2>1, <2>2 DEF TypeOK
  <2>4. InOrder(request[h])'
    BY <1>a, <1>b, <1>3, <2>1, <2>2 DEF InOrder
  <2>5. QED
    BY <1>a, <1>b, <1>3, <2>3, <2>4, QuietGoto
<1>4. QED
  BY <1>2, <1>3 DEF Install, PipEnds, LoadReproduction, At

LEMMA FinalizeSteps ==
  ASSUME IInv, NEW h \in Requests,
         CheckAwaiting(h) \/ Copy(h) \/ RegisterEdges(h) \/ Audit(h) \/ FinalizeThrows(h)
  PROVE  IInv'
<1> DEFINE r == request[h].run
<1>a. /\ TypeOK /\ InOrder(request[h]) /\ request[h] \in RequestRecord
      /\ request[h].pc \in {"check", "copy", "edges", "complete", "audit"}
      /\ UNCHANGED <<repro, status, of, runVars, swept>>
  BY DEF IInv, RequestInOrder, TypeOK, CheckAwaiting, Copy, RegisterEdges, Audit, FinalizeThrows, At
<1>b. /\ mode = "up" /\ request[h].prop \in Props /\ status[request[h].prop] # "absent"
      /\ request[h].prop \in Writes /\ r = of[request[h].prop]
      /\ r \in Runs /\ task[r] # "absent"
  BY <1>a DEF InOrder, IInv, TaskFollowsRun
<1>1. artifacts' \subseteq Artifact
  <2>1. CASE Copy(h)
    <3>1. [id |-> request[h].id, run |-> r, print |-> Unprinted, valid |-> TRUE] \in Artifact
      BY <1>a, <1>b DEF Artifact, Unprinted, RequestRecord, RunStatuses
    <3>2. QED
      BY <1>a, <2>1, <3>1 DEF Copy, TypeOK
  <2>2. CASE RegisterEdges(h)
    <3>1. RunPrint(r) \in RunStatuses \X SUBSET Nat
      BY <1>a, <1>b DEF RunPrint, TypeOK
    <3>2. \A a \in artifacts : [a EXCEPT !.print = RunPrint(r)] \in Artifact
      BY <1>a, <3>1 DEF TypeOK, Artifact
    <3>3. QED
      BY <1>a, <2>2, <3>2 DEF RegisterEdges, Own, TypeOK
  <2>3. CASE CheckAwaiting(h) \/ Audit(h) \/ FinalizeThrows(h)
    BY <1>a, <2>3 DEF CheckAwaiting, Audit, FinalizeThrows, TypeOK
  <2>4. QED
    BY <2>1, <2>2, <2>3
<1>2. linked' = linked \/ linked' = linked \cup {r}
  BY DEF CheckAwaiting, Copy, RegisterEdges, Audit, FinalizeThrows
<1>3. CASE Leave(h)
  <2>1. UNCHANGED linked
    <3>1. ~RegisterEdges(h)
      <4>1. ASSUME RegisterEdges(h)
            PROVE  FALSE
        <5>1. request'[h].pc = "complete"
          BY <1>a, <4>1, GotoIsTyped DEF RegisterEdges
        <5>2. QED
          BY <1>3, <1>a, <5>1, LeaveIsTyped, IdleIsTyped
      <4>2. QED
        BY <4>1
    <3>2. QED
      BY <3>1 DEF CheckAwaiting, Copy, Audit, FinalizeThrows
  <2>2. QED
    BY <1>a, <1>1, <1>3, <2>1, QuietLeave DEF TypeOK
<1>4. ASSUME NEW pc \in {"copy", "edges", "complete", "decide"}, Goto(h, pc),
             pc = "decide" => request[h].pc = "audit"
      PROVE  IInv'
  <2>1. /\ request' \in [Requests -> RequestRecord]
        /\ request'[h].pc = pc /\ request'[h].prop = request[h].prop /\ request'[h].run = r
    BY <1>a, <1>4, GotoIsTyped
  <2>2. UNCHANGED <<mode, opened, crashes>>
    BY <1>4 DEF Goto
  <2>3. TypeOK'
    BY <1>a, <1>b, <1>1, <1>2, <2>1, <2>2 DEF TypeOK
  <2>4. InOrder(request[h])'
    BY <1>a, <1>b, <1>4, <2>1, <2>2, PropsAssumption DEF InOrder
  <2>5. QED
    BY <1>a, <1>b, <1>2, <1>4, <2>3, <2>4, QuietGoto
<1>5. QED
  BY <1>3, <1>4 DEF CheckAwaiting, Copy, RegisterEdges, Audit, FinalizeThrows, At

\* A decision that settles its run: after it the run does not await approval.
LEMMA SettleSteps ==
  ASSUME IInv, NEW h \in Requests, Complete(h) \/ RejectOutputs(h)
  PROVE  IInv'
<1> DEFINE r == request[h].run
           p == request[h].prop
<1>a. /\ TypeOK /\ InOrder(request[h]) /\ request[h] \in RequestRecord
      /\ request[h].pc \in {"complete", "reject"}
      /\ UNCHANGED <<repro, status, of, task, body, outVars>>
  BY DEF IInv, RequestInOrder, TypeOK, Complete, RejectOutputs, At
<1>b. /\ mode = "up" /\ p \in Props /\ status[p] # "absent"
      /\ p \in Writes /\ r = of[p] /\ r \in Runs /\ task[r] # "absent"
  BY <1>a DEF InOrder, IInv, TaskFollowsRun
<1>1. /\ request' \in [Requests -> RequestRecord]
      /\ request'[h].pc \in {"audit", "decide"} /\ request'[h].prop = p /\ request'[h].run = r
      /\ \A g \in Requests : g # h => request'[g] = request[g]
      /\ UNCHANGED <<mode, opened, crashes>>
  <2>1. PICK pc \in {"audit", "decide"} : Goto(h, pc)
    BY DEF Complete, RejectOutputs
  <2>2. QED
    BY <1>a, <2>1, GotoIsTyped DEF Goto
<1>2. /\ run' \in [Runs -> RunStatuses]
      /\ \A s \in Runs : s # r => run'[s] = run[s]
      /\ run'[r] # "awaiting_artifact_approval"
      /\ run'[r] = "absent" => run[r] = "absent"
      /\ run'[r] = "running" => run[r] = "running"
  BY <1>a, <1>b DEF Complete, RejectOutputs, Finished, TypeOK, RunStatuses
<1>3. ids' \in [Runs -> SUBSET Nat]
  BY <1>a, <1>b DEF Complete, RejectOutputs, TypeOK, RequestRecord
<1>4. TypeOK'
  BY <1>a, <1>1, <1>2, <1>3 DEF TypeOK
<1>5. RequestInOrder'
  <2>1. ASSUME NEW g \in Requests
        PROVE  InOrder(request[g])'
    <3>1. CASE g = h
      BY <1>a, <1>b, <1>1, <3>1 DEF InOrder
    <3>2. CASE g # h
      <4>1. InOrder(request[g]) /\ request'[g] = request[g]
        BY <1>1, <3>2 DEF IInv, RequestInOrder
      <4>2. request[g].pc = "task" => request[g].run \in Runs /\ request[g].run # r
        BY <1>b, <4>1 DEF InOrder
      <4>3. QED
        BY <1>a, <1>1, <1>2, <4>1, <4>2 DEF InOrder
    <3>3. QED
      BY <3>1, <3>2
  <2>2. QED
    BY <2>1 DEF RequestInOrder
<1>6. OneTask'
  BY <1>1 DEF IInv, OneTask, At
<1>7. TaskFollowsRun'
  BY <1>a, <1>b, <1>2 DEF IInv, TaskFollowsRun
<1>8. BodyInOrder' /\ RunningHasWorker'
  BY <1>a, <1>1, <1>2 DEF IInv, BodyInOrder, RunningHasWorker
<1>9. AwaitingIsOpen'
  <2>1. ASSUME NEW s \in Runs, run'[s] = "awaiting_artifact_approval"
        PROVE  s # r /\ run[s] = "awaiting_artifact_approval"
    BY <1>2, <2>1
  <2>2. \A q \in Writes, s \in Runs : s # r /\ OpenFor(q, s) => OpenFor(q, s)'
    BY <1>a, <1>b, <1>1 DEF OpenFor
  <2>3. QED
    BY <1>a, <1>1, <2>1, <2>2 DEF IInv, AwaitingIsOpen
<1>10. QED
  BY <1>4, <1>5, <1>6, <1>7, <1>8, <1>9 DEF IInv

\* A recorded decision closes its proposal, which was open for no run any more.
LEMMA DecideStep ==
  ASSUME IInv, NEW h \in Requests, Decide(h)
  PROVE  IInv'
<1> DEFINE p == request[h].prop
           d == request[h].decision
<1>a. /\ TypeOK /\ InOrder(request[h]) /\ request[h].pc = "decide" /\ d \in {"approved", "rejected"}
      /\ status' = [status EXCEPT ![p] = d] /\ Leave(h)
      /\ UNCHANGED <<repro, of, runVars, outVars>>
  BY DEF IInv, RequestInOrder, TypeOK, RequestRecord, Decide, At
<1>b. p \in Props /\ status[p] # "absent"
  BY <1>a DEF InOrder
<1>1. /\ request' \in [Requests -> RequestRecord] /\ request'[h] = Idle
      /\ \A g \in Requests : g # h => request'[g] = request[g]
      /\ UNCHANGED <<mode, opened, crashes>>
  BY <1>a, LeaveIsTyped DEF Leave
<1>2. /\ status' \in [Props -> {"absent", "pending", "approved", "rejected"}]
      /\ \A q \in Props : q # p => status'[q] = status[q]
      /\ status'[p] = d
  BY <1>a, <1>b DEF TypeOK
<1>3. TypeOK'
  BY <1>a, <1>1, <1>2 DEF TypeOK
<1>4. \A q \in Props : status'[q] = "absent" <=> status[q] = "absent"
  BY <1>a, <1>b, <1>2
<1>5. RequestInOrder'
  <2>1. ASSUME NEW g \in Requests
        PROVE  InOrder(request[g])'
    <3>1. CASE g = h
      BY <1>1, <3>1, IdleIsTyped DEF InOrder
    <3>2. CASE g # h
      <4>1. InOrder(request[g]) /\ request'[g] = request[g]
        BY <1>1, <3>2 DEF IInv, RequestInOrder
      <4>2. QED
        BY <1>a, <1>1, <1>4, <4>1 DEF InOrder
    <3>3. QED
      BY <3>1, <3>2
  <2>2. QED
    BY <2>1 DEF RequestInOrder
<1>6. OneTask'
  BY <1>1, IdleIsTyped DEF IInv, OneTask, At
<1>7. TaskFollowsRun'
  BY <1>a, <1>4 DEF IInv, TaskFollowsRun, Props
<1>8. BodyInOrder' /\ RunningHasWorker'
  BY <1>a, <1>1 DEF IInv, BodyInOrder, RunningHasWorker
<1>9. AwaitingIsOpen'
  <2>1. ASSUME NEW q \in Writes, NEW r \in Runs, OpenFor(q, r)
        PROVE  OpenFor(q, r)'
    <3>1. q # p
      BY <1>a, <2>1 DEF OpenFor
    <3>2. status'[q] = status[q]
      BY <1>2, <3>1 DEF Props
    <3>3. QED
      BY <1>a, <1>1, <2>1, <3>2, IdleIsTyped DEF OpenFor
  <2>2. QED
    BY <1>a, <1>1, <2>1 DEF IInv, AwaitingIsOpen
<1>10. QED
  BY <1>3, <1>5, <1>6, <1>7, <1>8, <1>9 DEF IInv

LEMMA InsertRunStep ==
  ASSUME IInv, NEW h \in Requests, InsertRun(h)
  PROVE  IInv'
<1>a. /\ TypeOK /\ InOrder(request[h]) /\ request[h].pc = "insert"
      /\ request[h] \in RequestRecord
      /\ UNCHANGED <<repro, status, of, ids, task, body, outVars, mode, opened, crashes>>
  BY DEF IInv, RequestInOrder, TypeOK, InsertRun, At
<1>b. /\ mode = "up" /\ request[h].prop \in Props /\ status[request[h].prop] # "absent"
      /\ request[h].prop \in Plans
  BY <1>a DEF InOrder
<1>1. PICK r \in Runs :
        /\ run[r] = "absent"
        /\ run' = [run EXCEPT ![r] = "queued"]
        /\ request' = [request EXCEPT ![h].pc = "task", ![h].run = r]
  BY DEF InsertRun
<1> DEFINE q == [request[h] EXCEPT !.pc = "task", !.run = r]
<1>2. q \in RequestRecord /\ q.pc = "task" /\ q.prop = request[h].prop /\ q.run = r
  BY <1>a DEF RequestRecord
<1>3. request' = [request EXCEPT ![h] = q]
  BY <1>a, <1>1 DEF TypeOK
<1> HIDE DEF q
<1>4. /\ request' \in [Requests -> RequestRecord] /\ request'[h] = q
      /\ \A g \in Requests : g # h => request'[g] = request[g]
  BY <1>a, <1>2, <1>3 DEF TypeOK
<1>5. /\ run' \in [Runs -> RunStatuses]
      /\ \A s \in Runs : s # r => run'[s] = run[s]
      /\ run'[r] = "queued"
  BY <1>a, <1>1 DEF TypeOK, RunStatuses
<1>6. task[r] = "absent"
  BY <1>1 DEF IInv, TaskFollowsRun
<1>7. TypeOK'
  BY <1>a, <1>4, <1>5 DEF TypeOK
<1>8. RequestInOrder'
  <2>1. ASSUME NEW g \in Requests
        PROVE  InOrder(request[g])'
    <3>1. CASE g = h
      BY <1>a, <1>b, <1>2, <1>4, <1>5, <1>6, <3>1 DEF InOrder
    <3>2. CASE g # h
      <4>1. InOrder(request[g]) /\ request'[g] = request[g]
        BY <1>4, <3>2 DEF IInv, RequestInOrder
      <4>2. request[g].pc = "task" => request[g].run \in Runs /\ request[g].run # r
        BY <1>1, <4>1 DEF InOrder
      <4>3. QED
        BY <1>a, <1>5, <4>1, <4>2 DEF InOrder
    <3>3. QED
      BY <3>1, <3>2
  <2>2. QED
    BY <2>1 DEF RequestInOrder
<1>9. OneTask'
  <2>1. \A g \in Requests : At(g, "task") => run[request[g].run] = "queued"
    BY DEF IInv, RequestInOrder, InOrder, At
  <2>2. \A g \in Requests : g # h /\ At(g, "task")' => At(g, "task") /\ request'[g].run # r
    BY <1>1, <1>4, <2>1 DEF At
  <2>3. QED
    BY <1>2, <1>4, <2>2 DEF IInv, OneTask
<1>10. TaskFollowsRun'
  BY <1>a, <1>5 DEF IInv, TaskFollowsRun
<1>11. BodyInOrder' /\ RunningHasWorker'
  BY <1>a, <1>5 DEF IInv, BodyInOrder, RunningHasWorker
<1>12. AwaitingIsOpen'
  <2>1. \A s \in Runs : run'[s] = "awaiting_artifact_approval" => run[s] = run'[s]
    BY <1>5
  <2>2. \A p \in Writes, s \in Runs : OpenFor(p, s) => OpenFor(p, s)'
    BY <1>a, <1>2, <1>4 DEF OpenFor
  <2>3. QED
    BY <1>a, <2>1, <2>2 DEF IInv, AwaitingIsOpen
<1>13. QED
  BY <1>7, <1>8, <1>9, <1>10, <1>11, <1>12 DEF IInv

LEMMA InsertTaskStep ==
  ASSUME IInv, NEW h \in Requests, InsertTask(h)
  PROVE  IInv'
<1> DEFINE r == request[h].run
<1>a. /\ TypeOK /\ InOrder(request[h]) /\ request[h].pc = "task"
      /\ task' = [task EXCEPT ![r] = "queued"] /\ Goto(h, "decide")
      /\ UNCHANGED <<repro, status, of, run, ids, body, outVars>>
  BY DEF IInv, RequestInOrder, InsertTask, At
<1>b. /\ mode = "up" /\ request[h].prop \in Props /\ status[request[h].prop] # "absent"
      /\ request[h].prop \in Plans /\ r \in Runs /\ run[r] = "queued" /\ task[r] = "absent"
  BY <1>a DEF InOrder
<1>1. /\ request' \in [Requests -> RequestRecord]
      /\ request'[h].pc = "decide" /\ request'[h].prop = request[h].prop
      /\ \A g \in Requests : g # h => request'[g] = request[g]
      /\ UNCHANGED <<mode, opened, crashes>>
  BY <1>a, GotoIsTyped DEF Goto
<1>2. /\ task' \in [Runs -> {"absent", "queued", "running", "retrying", "succeeded", "failed"}]
      /\ \A s \in Runs : s # r => task'[s] = task[s]
      /\ task'[r] = "queued"
  BY <1>a, <1>b DEF TypeOK
<1>3. TypeOK'
  BY <1>a, <1>1, <1>2 DEF TypeOK
<1>4. RequestInOrder'
  <2>1. ASSUME NEW g \in Requests
        PROVE  InOrder(request[g])'
    <3>1. CASE g = h
      BY <1>a, <1>b, <1>1, <3>1 DEF InOrder
    <3>2. CASE g # h
      <4>1. InOrder(request[g]) /\ request'[g] = request[g]
        BY <1>1, <3>2 DEF IInv, RequestInOrder
      <4>2. request[g].pc = "task" => request[g].run \in Runs /\ request[g].run # r
        BY <1>a, <3>2, <4>1 DEF InOrder, IInv, OneTask, At
      <4>3. QED
        BY <1>a, <1>1, <1>2, <4>1, <4>2 DEF InOrder
    <3>3. QED
      BY <3>1, <3>2
  <2>2. QED
    BY <2>1 DEF RequestInOrder
<1>5. OneTask'
  BY <1>1 DEF IInv, OneTask, At
<1>6. TaskFollowsRun'
  BY <1>a, <1>b, <1>2 DEF IInv, TaskFollowsRun
<1>7. BodyInOrder' /\ RunningHasWorker'
  BY <1>a, <1>b, <1>1, <1>2 DEF IInv, BodyInOrder, RunningHasWorker
<1>8. AwaitingIsOpen'
  <2>1. request[h].prop \notin Writes
    BY <1>b, PropsAssumption
  <2>2. \A p \in Writes, s \in Runs : OpenFor(p, s) => OpenFor(p, s)'
    BY <1>a, <1>1, <2>1 DEF OpenFor
  <2>3. \A s \in Runs : run[s] = "awaiting_artifact_approval" => s # r
    BY <1>b
  <2>4. QED
    BY <1>a, <1>1, <1>2, <2>2, <2>3 DEF IInv, AwaitingIsOpen
<1>9. QED
  BY <1>3, <1>4, <1>5, <1>6, <1>7, <1>8 DEF IInv

-----------------------------------------------------------------------------
(* The task worker.                                                        *)

LEMMA ClaimStep ==
  ASSUME IInv, NEW r \in Runs, Claim(r)
  PROVE  IInv'
<1>a. /\ TypeOK /\ mode = "up" /\ body.pc = "idle" /\ task[r] \in {"queued", "retrying"}
      /\ task' = [task EXCEPT ![r] = "running"] /\ body' = [pc |-> "load", run |-> r]
      /\ UNCHANGED <<repro, status, of, run, ids, outVars, serverVars>>
  BY DEF IInv, Claim, BodyAt, Claimable
<1>1. /\ task' \in [Runs -> {"absent", "queued", "running", "retrying", "succeeded", "failed"}]
      /\ \A s \in Runs : s # r => task'[s] = task[s]
      /\ task'[r] = "running" /\ body'.pc = "load" /\ body'.run = r
  BY <1>a DEF TypeOK
<1>2. TypeOK'
  BY <1>a, <1>1 DEF TypeOK
<1>3. RequestInOrder' /\ OneTask' /\ TaskFollowsRun'
  BY <1>a, <1>1, Frame
<1>4. body.run = None /\ \A s \in Runs : body.run # s /\ task[s] # "running" /\ run[s] # "running"
  BY <1>a, PropsAssumption DEF IInv, BodyInOrder, RunningHasWorker
<1>5. BodyInOrder' /\ RunningHasWorker'
  BY <1>a, <1>1, <1>4 DEF BodyInOrder, RunningHasWorker
<1>6. AwaitingIsOpen'
  <2>1. \A p \in Writes, s \in Runs : OpenFor(p, s) => OpenFor(p, s)'
    BY <1>a, StaysOpen
  <2>2. QED
    BY <1>a, <1>1, <1>4, <2>1 DEF IInv, AwaitingIsOpen
<1>7. QED
  BY <1>2, <1>3, <1>5, <1>6 DEF IInv

\* The steps of the body that write at most the row of its run.
LEMMA BodySteps ==
  ASSUME IInv, Load \/ Start \/ ProcessEnds \/ Await \/ BodyThrows \/ Catch
  PROVE  IInv'
<1> DEFINE r == body.run
<1>a. /\ TypeOK /\ mode = "up" /\ body.pc # "idle"
      /\ UNCHANGED <<repro, status, of, ids, task, outVars, serverVars>>
  BY DEF IInv, Load, Start, ProcessEnds, Await, BodyThrows, Catch, BodyAt
<1>b. r \in Runs /\ task[r] = "running" /\ run[r] # "absent"
  BY <1>a DEF IInv, BodyInOrder, TaskFollowsRun
<1>c. \A s \in Runs : s # r => task[s] # "running" /\ run[s] # "running"
  BY <1>a DEF IInv, BodyInOrder, RunningHasWorker
<1>1. PICK pc \in {"start", "process", "await", "propose", "catch", "failed"} : BodyGoto(pc)
  BY DEF Load, Start, ProcessEnds, Await, BodyThrows, Catch
<1>2. /\ body' \in [pc : {"idle", "load", "start", "process", "await", "propose", "catch",
                          "failed", "done"}, run : Runs \cup {None}]
      /\ body'.pc = pc /\ body'.run = r
  BY <1>a, <1>1, BodyGotoIsTyped
<1>3. /\ run' \in [Runs -> RunStatuses]
      /\ \A s \in Runs : s # r => run'[s] = run[s]
      /\ run'[r] # "absent"
      /\ pc = "failed" => run'[r] # "awaiting_artifact_approval"
      /\ run'[r] = "running" => pc \in {"process", "await", "catch"}
  <2>1. CASE Start
    <3>1. run' = [run EXCEPT ![r] = "running"] /\ pc = "process"
      BY <2>1, <1>2, <1>a, BodyGotoIsTyped DEF Start
    <3>2. QED
      BY <1>a, <1>b, <3>1 DEF TypeOK, RunStatuses
  <2>2. CASE Await
    <3>1. run' = [run EXCEPT ![r] = "awaiting_artifact_approval"] /\ pc = "propose"
      BY <2>2, <1>2, <1>a, BodyGotoIsTyped DEF Await
    <3>2. QED
      BY <1>a, <1>b, <3>1 DEF TypeOK, RunStatuses
  <2>3. CASE Catch
    <3>1. run' = [run EXCEPT ![r] = "failed"]
      BY <2>3 DEF Catch
    <3>2. QED
      BY <1>a, <1>b, <3>1 DEF TypeOK, RunStatuses
  <2>4. CASE Load
    <3>1. run' = run /\ pc \in {"start", "catch"} /\ body.pc = "load"
      BY <2>4, <1>2, <1>a, BodyGotoIsTyped DEF Load, BodyAt
    <3>2. QED
      BY <1>a, <1>b, <3>1 DEF IInv, TypeOK, RunningHasWorker
  <2>5. CASE ProcessEnds
    <3>1. run' = run /\ pc = "await"
      BY <2>5, <1>2, <1>a, BodyGotoIsTyped DEF ProcessEnds
    <3>2. QED
      BY <1>a, <1>b, <3>1 DEF TypeOK
  <2>6. CASE BodyThrows
    <3>1. run' = run /\ pc = "catch"
      BY <2>6, <1>2, <1>a, BodyGotoIsTyped DEF BodyThrows
    <3>2. QED
      BY <1>a, <1>b, <3>1 DEF TypeOK
  <2>7. QED
    BY <2>1, <2>2, <2>3, <2>4, <2>5, <2>6
<1>4. TypeOK'
  BY <1>a, <1>2, <1>3 DEF TypeOK
<1>5. RequestInOrder' /\ OneTask' /\ TaskFollowsRun'
  BY <1>a, <1>b, <1>3, Frame
<1>6. BodyInOrder' /\ RunningHasWorker'
  BY <1>a, <1>b, <1>c, <1>2, <1>3 DEF BodyInOrder, RunningHasWorker
<1>7. AwaitingIsOpen'
  <2>1. \A p \in Writes, s \in Runs : OpenFor(p, s) => OpenFor(p, s)'
    BY <1>a, StaysOpen
  <2>2. ASSUME NEW s \in Runs, run'[s] = "awaiting_artifact_approval"
        PROVE  \/ \E p \in Writes : OpenFor(p, s)'
               \/ body'.run = s /\ body'.pc \notin {"failed", "done"}
               \/ task'[s] = "retrying"
    <3>1. CASE s = r
      BY <1>2, <1>3, <2>2, <3>1
    <3>2. CASE s # r
      <4>1. run[s] = "awaiting_artifact_approval"
        BY <1>3, <2>2, <3>2
      <4>2. QED
        BY <1>a, <2>1, <3>2, <4>1 DEF IInv, AwaitingIsOpen
    <3>3. QED
      BY <3>1, <3>2
  <2>3. QED
    BY <2>2 DEF AwaitingIsOpen
<1>8. QED
  BY <1>4, <1>5, <1>6, <1>7 DEF IInv

\* A new proposal is open: no decision is about it yet.
LEMMA ProposeWriteStep ==
  ASSUME IInv, ProposeWrite
  PROVE  IInv'
<1> DEFINE r == body.run
<1>a. /\ TypeOK /\ mode = "up" /\ body.pc = "propose" /\ BodyGoto("done")
      /\ UNCHANGED <<repro, run, ids, task, outVars, serverVars>>
  BY DEF IInv, ProposeWrite, BodyAt
<1>b. r \in Runs /\ task[r] = "running"
  BY <1>a DEF IInv, BodyInOrder
<1>1. PICK p \in Writes :
        /\ status[p] = "absent"
        /\ status' = [status EXCEPT ![p] = "pending"]
        /\ of' = [of EXCEPT ![p] = r]
  BY DEF ProposeWrite
<1>2. /\ body' \in [pc : {"idle", "load", "start", "process", "await", "propose", "catch",
                          "failed", "done"}, run : Runs \cup {None}]
      /\ body'.pc = "done" /\ body'.run = r
  BY <1>a, BodyGotoIsTyped
<1>3. /\ status' \in [Props -> {"absent", "pending", "approved", "rejected"}]
      /\ of' \in [Writes -> Runs \cup {None}]
      /\ \A q \in Props : q # p => status'[q] = status[q]
      /\ \A q \in Writes : q # p => of'[q] = of[q]
      /\ status'[p] = "pending" /\ of'[p] = r
  BY <1>a, <1>b, <1>1 DEF TypeOK, Props
<1>4. TypeOK'
  BY <1>a, <1>2, <1>3 DEF TypeOK
<1>5. RequestInOrder' /\ OneTask' /\ TaskFollowsRun'
  <2>1. \A q \in Props : status[q] # "absent" => status'[q] # "absent"
    BY <1>1, <1>3
  <2>2. \A q \in Writes : status[q] # "absent" => of'[q] = of[q]
    BY <1>1, <1>3
  <2>3. \A q \in Writes : status'[q] # "absent" =>
          status[q] # "absent" \/ (of'[q] \in Runs /\ task[of'[q]] # "absent")
    BY <1>b, <1>3 DEF Props
  <2>4. QED
    BY <1>a, <2>1, <2>2, <2>3, Frame
<1>6. BodyInOrder' /\ RunningHasWorker'
  BY <1>a, <1>b, <1>2 DEF IInv, BodyInOrder, RunningHasWorker
<1>7. AwaitingIsOpen'
  <2>1. OpenFor(p, r)'
    <3>1. \A h \in Requests : request[h].prop = p => request[h].pc = "idle"
      BY <1>1 DEF IInv, RequestInOrder, InOrder
    <3>2. p \in Props /\ UNCHANGED request
      BY <1>a DEF Props
    <3>3. QED
      BY <1>2, <1>3, <3>1, <3>2 DEF OpenFor
  <2>2. ASSUME NEW q \in Writes, NEW s \in Runs, OpenFor(q, s)
        PROVE  OpenFor(q, s)'
    <3>1. q # p
      BY <1>1, <2>2 DEF OpenFor
    <3>2. QED
      BY <1>a, <1>3, <2>2, <3>1, StaysOpen DEF Props
  <2>3. ASSUME NEW s \in Runs, run'[s] = "awaiting_artifact_approval", s # r
        PROVE  (\E q \in Writes : OpenFor(q, s)) \/ task[s] = "retrying"
    BY <1>a, <2>3 DEF IInv, AwaitingIsOpen
  <2>4. ASSUME NEW s \in Runs, run'[s] = "awaiting_artifact_approval"
        PROVE  (\E q \in Writes : OpenFor(q, s)') \/ task'[s] = "retrying"
    <3>1. CASE s = r
      BY <1>2, <2>1, <3>1
    <3>2. CASE s # r
      BY <1>a, <2>2, <2>3, <2>4, <3>2
    <3>3. QED
      BY <3>1, <3>2
  <2>5. QED
    BY <2>4 DEF AwaitingIsOpen
<1>8. QED
  BY <1>4, <1>5, <1>6, <1>7 DEF IInv

LEMMA EndTaskStep ==
  ASSUME IInv, EndTask
  PROVE  IInv'
<1> DEFINE r == body.run
<1>a. /\ TypeOK /\ mode = "up" /\ body.pc \in {"failed", "done"}
      /\ task' = [task EXCEPT ![r] = IF body.pc = "done" THEN "succeeded" ELSE "failed"]
      /\ body' = Asleep
      /\ UNCHANGED <<repro, status, of, run, ids, outVars, serverVars>>
  BY DEF IInv, EndTask
<1>b. r \in Runs /\ task[r] = "running"
  BY <1>a DEF IInv, BodyInOrder
<1>1. /\ task' \in [Runs -> {"absent", "queued", "running", "retrying", "succeeded", "failed"}]
      /\ \A s \in Runs : s # r => task'[s] = task[s]
      /\ task'[r] \in {"succeeded", "failed"}
  BY <1>a, <1>b DEF TypeOK
<1>2. /\ body' \in [pc : {"idle", "load", "start", "process", "await", "propose", "catch",
                          "failed", "done"}, run : Runs \cup {None}]
      /\ body'.pc = "idle" /\ body'.run = None
  BY <1>a DEF Asleep
<1>3. TypeOK'
  BY <1>a, <1>1, <1>2 DEF TypeOK
<1>4. RequestInOrder' /\ OneTask' /\ TaskFollowsRun'
  BY <1>a, <1>b, <1>1, Frame
<1>5. \A s \in Runs : s # r => task[s] # "running"
  BY <1>a DEF IInv, BodyInOrder
<1>6. \A s \in Runs : run[s] # "running"
  BY <1>a DEF IInv, RunningHasWorker
<1>7. BodyInOrder' /\ RunningHasWorker'
  BY <1>a, <1>1, <1>2, <1>5, <1>6 DEF BodyInOrder, RunningHasWorker
<1>8. AwaitingIsOpen'
  <2>1. \A q \in Writes, s \in Runs : OpenFor(q, s) => OpenFor(q, s)'
    BY <1>a, StaysOpen
  <2>2. ASSUME NEW s \in Runs, run[s] = "awaiting_artifact_approval"
        PROVE  (\E q \in Writes : OpenFor(q, s)) \/ (s # r /\ task[s] = "retrying")
    BY <1>a, <1>b, <2>2 DEF IInv, BodyInOrder, AwaitingIsOpen
  <2>3. QED
    BY <1>a, <1>1, <2>1, <2>2 DEF AwaitingIsOpen
<1>9. QED
  BY <1>3, <1>4, <1>7, <1>8 DEF IInv

-----------------------------------------------------------------------------
(* Invalidation, crash and restart.                                        *)

LEMMA ArtifactIsTyped ==
  ASSUME NEW a \in Artifact, NEW b
  PROVE  [a EXCEPT !.valid = @ /\ b] \in Artifact
<1> DEFINE v == a.valid /\ b
<1>1. v \in BOOLEAN
  OBVIOUS
<1> HIDE DEF v
<1>2. [a EXCEPT !.valid = v] \in Artifact
  BY <1>1 DEF Artifact
<1>3. QED
  BY <1>2 DEF v

LEMMA InvalidateStep ==
  ASSUME IInv, Invalidate
  PROVE  IInv'
<1>a. /\ TypeOK /\ mode = "up" /\ swept' = TRUE /\ repro' = "invalidated"
      /\ run' = [r \in Runs |->
           IF r \in linked /\ run[r] \in {"queued", "running", "awaiting_artifact_approval"}
           THEN "invalidated" ELSE run[r]]
      /\ artifacts' = {[a EXCEPT !.valid = @ /\ a.run \notin linked] : a \in artifacts}
      /\ UNCHANGED <<status, of, ids, task, body, linked, serverVars>>
  BY DEF IInv, Invalidate
<1>1. artifacts' \subseteq Artifact
  <2>1. \A a \in artifacts : [a EXCEPT !.valid = @ /\ a.run \notin linked] \in Artifact
    BY <1>a, ArtifactIsTyped DEF TypeOK
  <2>2. QED
    BY <1>a, <2>1
<1>2. /\ run' \in [Runs -> RunStatuses]
      /\ \A r \in Runs : run'[r] = run[r] \/ (run'[r] = "invalidated" /\ r \in linked)
  BY <1>a DEF TypeOK, RunStatuses
<1>3. TypeOK'
  BY <1>a, <1>1, <1>2 DEF TypeOK
<1>4. RequestInOrder' /\ OneTask' /\ TaskFollowsRun'
  <2>1. \A r \in Runs : task[r] = "absent" => run'[r] = run[r]
    BY <1>2 DEF IInv, TaskFollowsRun
  <2>2. \A r \in Runs : run'[r] = "absent" => run[r] = "absent"
    BY <1>2
  <2>3. QED
    BY <1>a, <2>1, <2>2, Frame
<1>5. BodyInOrder' /\ RunningHasWorker'
  <2>1. body.pc = "failed" => run'[body.run] # "awaiting_artifact_approval"
    BY <1>2 DEF IInv, BodyInOrder
  <2>2. \A r \in Runs : run'[r] = "running" => run[r] = "running"
    BY <1>2
  <2>3. QED
    BY <1>a, <2>1, <2>2 DEF IInv, BodyInOrder, RunningHasWorker
<1>6. AwaitingIsOpen'
  <2>1. \A q \in Writes, s \in Runs : OpenFor(q, s) => OpenFor(q, s)'
    BY <1>a, StaysOpen
  <2>2. \A r \in Runs : run'[r] = "awaiting_artifact_approval" => run[r] = run'[r]
    BY <1>2
  <2>3. QED
    BY <1>a, <2>1, <2>2 DEF IInv, AwaitingIsOpen
<1>7. QED
  BY <1>3, <1>4, <1>5, <1>6 DEF IInv

\* What changes no variable of the proposals, the runs or the requests.
LEMMA Unchanged ==
  ASSUME IInv, UNCHANGED <<status, of, run, task, body, linked, request, mode>>, TypeOK'
  PROVE  IInv'
<1>1. RequestInOrder' /\ OneTask' /\ TaskFollowsRun'
  BY Frame
<1>2. BodyInOrder' /\ RunningHasWorker'
  BY DEF IInv, BodyInOrder, RunningHasWorker
<1>3. \A q \in Writes, s \in Runs : OpenFor(q, s) => OpenFor(q, s)'
  BY StaysOpen
<1>4. AwaitingIsOpen'
  BY <1>3 DEF IInv, AwaitingIsOpen
<1>5. QED
  BY <1>1, <1>2, <1>4 DEF IInv

LEMMA InspectStep ==
  ASSUME IInv, Inspect
  PROVE  IInv'
<1> DEFINE Seen(a) == [a EXCEPT !.valid = @ /\ a.print \in {Unprinted, RunPrint(a.run)}]
<1>a. /\ TypeOK /\ artifacts' = {Seen(a) : a \in artifacts}
      /\ UNCHANGED <<repro, status, of, runVars, linked, swept, serverVars>>
  BY DEF IInv, Inspect
<1>1. \A a \in artifacts : Seen(a) \in Artifact
  BY <1>a, ArtifactIsTyped DEF TypeOK
<1> HIDE DEF Seen
<1>2. TypeOK'
  BY <1>a, <1>1 DEF TypeOK
<1>3. QED
  BY <1>a, <1>2, Unchanged

LEMMA CrashStep ==
  ASSUME IInv, Crash
  PROVE  IInv'
<1>a. /\ TypeOK /\ mode = "up" /\ mode' = "down" /\ body' = Asleep
      /\ crashes < MaxCrashes /\ crashes' = crashes + 1
      /\ request' = [h \in Requests |-> Idle]
      /\ UNCHANGED <<repro, status, of, run, ids, task, outVars, opened>>
  BY DEF IInv, Crash
<1>1. crashes' \in 0..MaxCrashes
  BY <1>a, BoundsAssumption DEF TypeOK
<1>2. /\ body'.pc = "idle" /\ body'.run = None
      /\ body' \in [pc : {"idle", "load", "start", "process", "await", "propose", "catch",
                          "failed", "done"}, run : Runs \cup {None}]
  BY <1>a DEF Asleep
<1>3. /\ request' \in [Requests -> RequestRecord]
      /\ \A h \in Requests : request'[h].pc = "idle" /\ request'[h].prop = None
  BY <1>a, IdleIsTyped
<1>4. TypeOK'
  BY <1>a, <1>1, <1>2, <1>3 DEF TypeOK
<1>5. RequestInOrder' /\ OneTask'
  BY <1>3 DEF RequestInOrder, InOrder, OneTask, At
<1>6. TaskFollowsRun' /\ BodyInOrder' /\ RunningHasWorker'
  BY <1>a, <1>2 DEF IInv, TaskFollowsRun, BodyInOrder, RunningHasWorker
<1>7. AwaitingIsOpen'
  <2>1. \A q \in Writes, s \in Runs : OpenFor(q, s) => OpenFor(q, s)'
    BY <1>a, <1>3 DEF OpenFor
  <2>2. \A s \in Runs : body.run = s => task[s] = "running"
    BY PropsAssumption DEF IInv, BodyInOrder
  <2>3. QED
    BY <1>a, <2>1, <2>2 DEF IInv, AwaitingIsOpen
<1>8. QED
  BY <1>4, <1>5, <1>6, <1>7 DEF IInv

-----------------------------------------------------------------------------
(* The invariant.                                                          *)

LEMMA InitInv == Init => IInv
<1> SUFFICES ASSUME Init PROVE IInv
  OBVIOUS
<1>1. /\ request \in [Requests -> RequestRecord]
      /\ \A h \in Requests : request[h].pc = "idle" /\ request[h].prop = None
  BY IdleIsTyped DEF Init
<1>2. TypeOK
  <2>1. run \in [Runs -> RunStatuses] /\ body.pc = "idle"
    BY DEF Init, RunStatuses, Asleep
  <2>2. body \in [pc : {"idle", "load", "start", "process", "await", "propose", "catch",
                       "failed", "done"}, run : Runs \cup {None}]
    BY DEF Init, Asleep
  <2>3. opened \in 0..MaxDecisions /\ crashes \in 0..MaxCrashes
    BY BoundsAssumption DEF Init
  <2>4. QED
    BY <1>1, <2>1, <2>2, <2>3 DEF Init, TypeOK
<1>3. RequestInOrder /\ OneTask
  BY <1>1 DEF RequestInOrder, InOrder, OneTask, At
<1>4. TaskFollowsRun /\ BodyInOrder /\ RunningHasWorker /\ AwaitingIsOpen
  BY DEF Init, TaskFollowsRun, BodyInOrder, RunningHasWorker, AwaitingIsOpen, Asleep, Props
<1>5. QED
  BY <1>2, <1>3, <1>4 DEF IInv

\* The server comes back: running rows are failed and their tasks repeated.
LEMMA RecoverStep ==
  ASSUME IInv, Recover
  PROVE  IInv'
<1>a. /\ TypeOK /\ mode = "down" /\ mode' = "up"
      /\ task' = [r \in Runs |-> Retried(task[r])]
      /\ run' = [r \in Runs |-> AfterRestart(run[r])]
      /\ UNCHANGED <<repro, status, of, ids, body, outVars, request, opened, crashes>>
  BY DEF IInv, Recover
<1>b. /\ \A h \in Requests : request[h].pc = "idle"
      /\ body.pc = "idle" /\ body.run = None
  BY <1>a DEF IInv, RequestInOrder, InOrder, BodyInOrder
<1>1. /\ task' \in [Runs -> {"absent", "queued", "running", "retrying", "succeeded", "failed"}]
      /\ \A r \in Runs : task'[r] # "running"
      /\ \A r \in Runs : task[r] # "running" => task'[r] = task[r]
      /\ \A r \in Runs : task[r] = "running" => task'[r] = "retrying"
  BY <1>a DEF Retried, TypeOK
<1>2. /\ run' \in [Runs -> RunStatuses]
      /\ \A r \in Runs : run'[r] # "running"
      /\ \A r \in Runs : run[r] # "running" => run'[r] = run[r]
      /\ \A r \in Runs : run[r] = "running" => run'[r] = "failed"
  BY <1>a DEF AfterRestart, TypeOK, RunStatuses
<1>3. TypeOK'
  BY <1>a, <1>1, <1>2 DEF TypeOK
<1>4. RequestInOrder' /\ OneTask'
  BY <1>a, <1>b DEF RequestInOrder, InOrder, OneTask, At
<1>5. TaskFollowsRun'
  <2>1. \A r \in Runs : task'[r] = "absent" <=> task[r] = "absent"
    BY <1>1
  <2>2. \A r \in Runs : task[r] = "absent" => run'[r] = run[r]
    BY <1>2 DEF IInv, TaskFollowsRun
  <2>3. \A r \in Runs : run'[r] = "absent" => run[r] = "absent"
    BY <1>2
  <2>4. QED
    BY <1>a, <2>1, <2>2, <2>3 DEF IInv, TaskFollowsRun
<1>6. BodyInOrder' /\ RunningHasWorker'
  BY <1>a, <1>b, <1>1, <1>2 DEF BodyInOrder, RunningHasWorker
<1>7. AwaitingIsOpen'
  <2>1. \A q \in Writes, s \in Runs : OpenFor(q, s) => OpenFor(q, s)'
    BY <1>a, StaysOpen
  <2>2. \A r \in Runs : run'[r] = "awaiting_artifact_approval" => run[r] = run'[r]
    BY <1>2
  <2>3. \A r \in Runs : body.run # r
    BY <1>b, PropsAssumption
  <2>4. QED
    BY <1>a, <1>1, <2>1, <2>2, <2>3 DEF IInv, AwaitingIsOpen
<1>8. QED
  BY <1>3, <1>4, <1>5, <1>6, <1>7 DEF IInv

LEMMA InvStep == IInv /\ [Next]_vars => IInv'
<1> SUFFICES ASSUME IInv, [Next]_vars PROVE IInv'
  OBVIOUS
<1>1. ASSUME NEW p \in Installs \cup Plans, Submit(p)
      PROVE  IInv'
  BY <1>1, SubmitStep
<1>2. ASSUME NEW h \in Requests, NEW p \in Props, NEW decision \in {"approved", "rejected"},
             Open(h, p, decision)
      PROVE  IInv'
  BY <1>2, OpenStep
<1>3. ASSUME NEW h \in Requests, RequestStep(h)
      PROVE  IInv'
  BY <1>3, DecideStep, InstallSteps, InsertRunStep, InsertTaskStep, FinalizeSteps, SettleSteps
     DEF RequestStep
<1>4. ASSUME NEW r \in Runs, Claim(r)
      PROVE  IInv'
  BY <1>4, ClaimStep
<1>5. CASE BodyStep
  BY <1>5, BodySteps, ProposeWriteStep, EndTaskStep DEF BodyStep
<1>6. CASE Invalidate \/ Inspect \/ Crash \/ Recover
  BY <1>6, InvalidateStep, InspectStep, CrashStep, RecoverStep
<1>7. CASE UNCHANGED vars
  BY <1>7, Unchanged DEF IInv, TypeOK
<1>8. QED
  BY <1>1, <1>2, <1>3, <1>4, <1>5, <1>6, <1>7 DEF Next, ProposeInstall, ProposeRun

\* A run is inserted once and its task follows it, the worker is in the body of the
\* one run whose task is running, and a run that awaits approval has a proposal
\* that no decision has used up.
THEOREM InductiveInv == Spec => []IInv
<1>1. QED
  BY InitInv, InvStep, PTL DEF Spec

\* Every row, task, output and decision in flight is of its type.
THEOREM TypeCorrect == Spec => []TypeOK
<1>1. IInv => TypeOK
  BY DEF IInv
<1>2. QED
  BY <1>1, InductiveInv, PTL

\* A row says running only while the worker executes its run (reproduction-service.ts,
\* the recovery at startup fails the others).
THEOREM RunningRowsHaveWorkers == Spec => []RunningHasWorker
<1>1. IInv => RunningHasWorker
  BY DEF IInv
<1>2. QED
  BY <1>1, InductiveInv, PTL

\* A run that awaits the approval of its outputs has a pending proposal, or one is
\* about to be made, or its task will be repeated.
THEOREM AwaitingRunsAreAnswerable == Spec => []AwaitingIsAnswerable
<1>1. IInv => AwaitingIsAnswerable
  <2> SUFFICES ASSUME IInv, NEW r \in Runs, run[r] = "awaiting_artifact_approval"
               PROVE  \/ \E p \in Writes : of[p] = r /\ status[p] = "pending"
                      \/ task[r] \in {"running", "retrying"}
    BY DEF AwaitingIsAnswerable
  <2>1. CASE \E p \in Writes : OpenFor(p, r)
    BY <2>1 DEF OpenFor
  <2>2. CASE body.run = r
    BY <2>2, PropsAssumption DEF IInv, BodyInOrder
  <2>3. CASE task[r] \in {"running", "retrying"}
    BY <2>3
  <2>4. QED
    BY <2>1, <2>2, <2>3 DEF IInv, AwaitingIsOpen
<1>2. QED
  BY <1>1, InductiveInv, PTL
=============================================================================
