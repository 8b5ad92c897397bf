------------------------ MODULE ExperimentRun_proofs ------------------------
(***************************************************************************)
(* Theorems about ExperimentRun, for every set of runs and of concurrent   *)
(* state requests, every number of output files, patches and crashes.      *)
(***************************************************************************)
EXTENDS ExperimentRun, TLAPS

USE DEF runVars, apiVars, gitVars, procVars, vars

LEMMA IdleAdminType == IdleAdmin \in AdminRecord
  BY DEF AdminRecord

LEMMA InitInv == Init => IInv
<1> SUFFICES ASSUME Init PROVE IInv
  OBVIOUS
<1>1. TypeOK
  BY NumFilesAssumption, BoundsAssumption, IdleAdminType
     DEF Init, TypeOK, Statuses, Places, Executing, Ledger, Children, Commits
<1>2. SupervisorKnowsChildren /\ NoStrandedRow /\ CheckpointIsComplete
  BY DEF Init, SupervisorKnowsChildren, NoStrandedRow, CheckpointIsComplete
<1>3. PlaceAgrees /\ LedgerInOrder
  BY DEF Init, PlaceAgrees, LedgerInOrder, Ledger
<1>4. QED
  BY <1>1, <1>2, <1>3 DEF IInv

-----------------------------------------------------------------------------
(* Types.                                                                  *)

\* The steps of one run keep the types.
LEMMA RunTypes ==
  ASSUME TypeOK, NEW r \in Runs,
         \/ CheckProject(r) \/ Insert(r) \/ Execute(r) \/ Throws(r)
         \/ ChildExits(r) \/ Timeout(r) \/ CancelCheck(r) \/ CancelApply(r)
  PROVE  TypeOK'
<1> USE NumFilesAssumption, BoundsAssumption
    DEF TypeOK, Statuses, Places, Executing, Ledger, Children, Commits, Goto, SetRow
<1>1. CASE CheckProject(r) \/ Insert(r) \/ Throws(r)
  BY <1>1 DEF CheckProject, Insert, Throws
<1>2. CASE ChildExits(r) \/ Timeout(r)
  <2>1. child' \in [Runs -> Children]
    BY <1>2 DEF ChildExits, Timeout, Killed
  <2>2. QED
    BY <1>2, <2>1 DEF ChildExits, Timeout
<1>3. CASE CancelCheck(r)
  BY <1>3 DEF CancelCheck
<1>4. CASE CancelApply(r)
  <2>1. row' \in [Runs -> Statuses] /\ child' \in [Runs -> Children] /\ active' \subseteq Runs
    BY <1>4 DEF CancelApply, CancelRun, Killed
  <2>2. QED
    BY <1>4, <2>1 DEF CancelApply
<1>5. CASE Start(r) \/ EnsureVenv(r)
  BY <1>5 DEF Start, EnsureVenv
<1>6. CASE Spawn(r)
  BY <1>6 DEF Spawn, Registered
<1>7. CASE ExitSucceeds(r) \/ ExitFails(r)
  BY <1>7 DEF ExitSucceeds, ExitFails
<1>8. CASE InsertArtifact(r)
  BY <1>8 DEF InsertArtifact
<1>9. CASE SelectIdea(r)
  BY <1>9 DEF SelectIdea
<1>10. CASE ReadCommit(r)
  <2>1. bound' \in [Runs -> Commits \cup {None}] /\ at' \in [Runs -> Places]
    BY <1>10 DEF ReadCommit
  <2>2. QED
    BY <1>10, <2>1 DEF ReadCommit
<1>11. CASE RegisterRun(r)
  BY <1>11 DEF RegisterRun
<1>12. CASE InsertCheckpoint(r)
  BY <1>12 DEF InsertCheckpoint
<1>13. CASE RegisterCheckpoint(r)
  BY <1>13 DEF RegisterCheckpoint
<1>14. CASE Audited(r)
  BY <1>14 DEF Audited
<1>15. QED
  BY <1>1, <1>2, <1>3, <1>4, <1>5, <1>6, <1>7, <1>8, <1>9, <1>10, <1>11, <1>12, <1>13, <1>14
     DEF Execute

\* So do the steps of a state request.
LEMMA AdminTypes ==
  ASSUME TypeOK, NEW a \in Admins, StateStep(a) PROVE TypeOK'
<1> USE IdleAdminType DEF TypeOK
<1>1. admin[a].pc # "idle" => admin[a] \in BusyAdmin
  BY DEF AdminRecord, IdleAdmin
<1>2. CASE StateRead(a)
  BY <1>2 DEF StateRead, Target, AdminRecord, BusyAdmin
<1>3. CASE StateWrite(a)
  BY <1>1, <1>3 DEF StateWrite, Target, AdminRecord, BusyAdmin
<1>4. CASE StateList(a)
  BY <1>1, <1>4 DEF StateList, AdminRecord, BusyAdmin
<1>5. CASE StateStop(a)
  <2>1. PICK r \in admin[a].todo :
          CancelRun(r) /\ admin' = [admin EXCEPT ![a].todo = @ \ {r}]
    BY <1>5 DEF StateStop
  <2>2. r \in Runs
    BY <1>1, <1>5 DEF BusyAdmin, StateStop
  <2>3. admin' \in [Admins -> AdminRecord]
    BY <1>1, <1>5, <2>1 DEF AdminRecord, BusyAdmin, StateStop
  <2>4. row' \in [Runs -> Statuses] /\ child' \in [Runs -> Children] /\ active' \subseteq Runs
    BY <2>1, <2>2 DEF CancelRun, Killed, Statuses, Children, SetRow
  <2>5. QED
    BY <1>5, <2>3, <2>4 DEF StateStop
<1>6. CASE StateReply(a)
  BY <1>6 DEF StateReply
<1>7. QED
  BY <1>2, <1>3, <1>4, <1>5, <1>6 DEF StateStep

LEMMA TypeStep == TypeOK /\ [Next]_vars => TypeOK'
<1> SUFFICES ASSUME TypeOK, [Next]_vars PROVE TypeOK'
  OBVIOUS
<1>1. CASE PatchApproved
  BY <1>1, BoundsAssumption DEF PatchApproved, TypeOK, Commits
<1>2. ASSUME NEW c \in Commits, Sweep(c) PROVE TypeOK'
  BY <1>2 DEF Sweep, Dependants, InvalidatedRow, TypeOK, Statuses
<1>3. CASE Crash
  BY <1>3, BoundsAssumption, IdleAdminType
     DEF Crash, TypeOK, Places, Executing, Ledger, Children
<1>4. CASE Recover
  BY <1>4 DEF Recover, Interrupted, TypeOK, Statuses
<1>5. CASE UNCHANGED vars
  BY <1>5 DEF TypeOK
<1>6. QED
  BY <1>1, <1>2, <1>3, <1>4, <1>5, RunTypes, AdminTypes DEF Next

-----------------------------------------------------------------------------
(* The rest of the invariant.                                              *)

Agreement ==
  /\ SupervisorKnowsChildren /\ NoStrandedRow /\ CheckpointIsComplete
  /\ PlaceAgrees /\ LedgerInOrder

\* cancelRun only touches a run that waits for its child.
LEMMA CancelKeepsAgreement ==
  ASSUME TypeOK, Agreement, NEW r \in Runs, CancelRun(r),
         UNCHANGED <<at, files, ckpt, ranAt, bound, edge, head, mode>>
  PROVE  Agreement'
<1> USE DEF TypeOK, Agreement, CancelRun, Reachable, Killed, SetRow
<1>1. SupervisorKnowsChildren' /\ NoStrandedRow'
  BY DEF SupervisorKnowsChildren, NoStrandedRow
<1>2. CheckpointIsComplete'
  BY DEF CheckpointIsComplete, SupervisorKnowsChildren, PlaceAgrees, LedgerInOrder
<1>3. PlaceAgrees'
  BY DEF PlaceAgrees, SupervisorKnowsChildren, Ledger
<1>4. LedgerInOrder'
  BY DEF LedgerInOrder
<1>5. QED
  BY <1>1, <1>2, <1>3, <1>4

\* The steps of execute and of the request that starts it.
LEMMA RunKeepsAgreement ==
  ASSUME TypeOK, Agreement, NEW r \in Runs,
         CheckProject(r) \/ Insert(r) \/ Execute(r) \/ Throws(r) \/ ChildExits(r) \/ Timeout(r)
  PROVE  Agreement'
<1> USE NumFilesAssumption, NoneAssumption
    DEF TypeOK, Agreement, SupervisorKnowsChildren, NoStrandedRow, CheckpointIsComplete,
        PlaceAgrees, LedgerInOrder, Ledger, Goto, SetRow, Commits
<1>1. CASE CheckProject(r) \/ Insert(r)
  BY <1>1 DEF CheckProject, Insert
<1>2. CASE Start(r) \/ EnsureVenv(r)
  BY <1>2 DEF Start, EnsureVenv
<1>3. CASE Spawn(r)
  BY <1>3 DEF Spawn, Registered
<1>4. CASE ChildExits(r)
  BY <1>4 DEF ChildExits
<1>5. CASE Timeout(r)
  BY <1>5 DEF Timeout, Killed
<1>6. CASE ExitSucceeds(r)
  BY <1>6 DEF ExitSucceeds
<1>7. CASE ExitFails(r)
  BY <1>7 DEF ExitFails
<1>8. CASE InsertArtifact(r)
  BY <1>8 DEF InsertArtifact
<1>9. CASE SelectIdea(r)
  BY <1>9 DEF SelectIdea, AllFiles
<1>10. CASE ReadCommit(r)
  BY <1>10 DEF ReadCommit
<1>11. CASE RegisterRun(r)
  BY <1>11 DEF RegisterRun
<1>12. CASE InsertCheckpoint(r) \/ RegisterCheckpoint(r)
  BY <1>12 DEF InsertCheckpoint, RegisterCheckpoint
<1>13. CASE Audited(r) \/ Throws(r)
  BY <1>13 DEF Audited, Throws, MayThrow
<1>14. QED
  BY <1>1, <1>2, <1>3, <1>4, <1>5, <1>6, <1>7, <1>8, <1>9, <1>10, <1>11, <1>12,
     <1>13 DEF Execute

LEMMA AgreementStep == TypeOK /\ Agreement /\ [Next]_vars => Agreement'
<1> SUFFICES ASSUME TypeOK, Agreement, [Next]_vars PROVE Agreement'
  OBVIOUS
<1> USE DEF Agreement, SupervisorKnowsChildren, NoStrandedRow, CheckpointIsComplete,
            PlaceAgrees, LedgerInOrder, Ledger
<1>1. ASSUME NEW r \in Runs, CancelCheck(r) PROVE Agreement'
  BY <1>1 DEF CancelCheck
<1>2. ASSUME NEW r \in Runs, CancelApply(r) PROVE Agreement'
  BY <1>2, CancelKeepsAgreement DEF CancelApply
<1>3. ASSUME NEW a \in Admins, StateStep(a) PROVE Agreement'
  <2>1. CASE StateRead(a) \/ StateWrite(a) \/ StateList(a) \/ StateReply(a)
    BY <1>3, <2>1 DEF StateRead, StateWrite, StateList, StateReply
  <2>2. CASE StateStop(a)
    <3>1. admin[a].todo \subseteq Runs
      BY <2>2 DEF TypeOK, AdminRecord, IdleAdmin, BusyAdmin, StateStop
    <3>2. PICK r \in Runs : CancelRun(r)
      BY <2>2, <3>1 DEF StateStop
    <3>3. QED
      BY <2>2, <3>2, CancelKeepsAgreement DEF StateStop
  <2>3. QED
    BY <1>3, <2>1, <2>2 DEF StateStep
<1>4. CASE PatchApproved
  BY <1>4 DEF PatchApproved, TypeOK, Commits
<1>5. ASSUME NEW c \in Commits, Sweep(c) PROVE Agreement'
  BY <1>5 DEF Sweep, Dependants, InvalidatedRow, TypeOK
<1>6. CASE Crash
  BY <1>6 DEF Crash, TypeOK
<1>7. CASE Recover
  BY <1>7 DEF Recover, Interrupted, TypeOK
<1>8. CASE UNCHANGED vars
  BY <1>8
<1>9. QED
  BY <1>1, <1>2, <1>3, <1>4, <1>5, <1>6, <1>7, <1>8, RunKeepsAgreement DEF Next

-----------------------------------------------------------------------------
(* The theorems.                                                           *)

\* The inductive invariant holds in every reachable state.
THEOREM Invariance == Spec => []IInv
<1>1. Init => IInv
  BY InitInv
<1>2. IInv /\ [Next]_vars => IInv'
  BY TypeStep, AgreementStep DEF IInv, Agreement
<1>3. QED
  BY <1>1, <1>2, PTL DEF Spec

\* Rows, coroutines, requests and processes keep their types.
THEOREM TypeCorrect == Spec => []TypeOK
<1>1. IInv => TypeOK
  BY DEF IInv
<1>2. QED
  BY <1>1, Invariance, PTL

\* activeRuns holds exactly what the timeout and a cancel must reach: no
\* living child escapes it except by a crash of the server.
THEOREM NoChildEscapes == Spec => []SupervisorKnowsChildren
<1>1. IInv => SupervisorKnowsChildren
  BY DEF IInv
<1>2. QED
  BY <1>1, Invariance, PTL

\* No row is left queued or running without a coroutine that will end it.
THEOREM NoRowIsStranded == Spec => []NoStrandedRow
<1>1. IInv => NoStrandedRow
  BY DEF IInv
<1>2. QED
  BY <1>1, Invariance, PTL

\* A checkpoint is only ever written over a complete ledger.
THEOREM CheckpointsAreComplete == Spec => []CheckpointIsComplete
<1>1. IInv => CheckpointIsComplete
  BY DEF IInv
<1>2. QED
  BY <1>1, Invariance, PTL

\* cancelRun leaves a run that has ended as it is.
LEMMA CancelKeepsEnded ==
  ASSUME TypeOK, SupervisorKnowsChildren, NEW q \in Runs, CancelRun(q),
         NEW r \in Runs, row[r] \in Terminal
  PROVE  row'[r] = row[r]
  BY DEF TypeOK, SupervisorKnowsChildren, CancelRun, Reachable, SetRow, Terminal, Statuses

\* One step never revives a run that ended, nor changes one that failed.
LEMMA EndedStep ==
  ASSUME IInv, [Next]_vars, NEW r \in Runs, row[r] \in Terminal
  PROVE  row'[r] \in Terminal /\ (row[r] = "failed" => row'[r] = "failed")
<1> DEFINE Kept == row'[r] \in Terminal /\ (row[r] = "failed" => row'[r] = "failed")
<1> USE DEF IInv, Terminal, Statuses
<1>1. ASSUME NEW q \in Runs,
             CheckProject(q) \/ Insert(q) \/ ChildExits(q) \/ Timeout(q) \/ CancelCheck(q)
      PROVE  Kept
  BY <1>1 DEF TypeOK, PlaceAgrees, Goto, SetRow, CheckProject, Insert, ChildExits, Timeout,
              CancelCheck
<1>2. ASSUME NEW q \in Runs, Execute(q) \/ Throws(q) PROVE Kept
  <2>1. CASE Start(q)
    BY <2>1 DEF TypeOK, PlaceAgrees, Goto, SetRow, Start
  <2>2. CASE ExitSucceeds(q)
    BY <2>2 DEF TypeOK, PlaceAgrees, Goto, SetRow, ExitSucceeds
  <2>3. CASE ExitFails(q) \/ Throws(q)
    BY <2>3 DEF TypeOK, SetRow, ExitFails, Throws
  <2>4. CASE UNCHANGED row
    BY <2>4
  <2>5. QED
    BY <1>2, <2>1, <2>2, <2>3, <2>4
       DEF Execute, EnsureVenv, Spawn, InsertArtifact, SelectIdea, ReadCommit, RegisterRun,
           InsertCheckpoint, RegisterCheckpoint, Audited
<1>3. ASSUME NEW q \in Runs, CancelApply(q) PROVE Kept
  BY <1>3, CancelKeepsEnded DEF CancelApply
<1>4. ASSUME NEW a \in Admins, StateStep(a) PROVE Kept
  <2>1. CASE StateStop(a)
    <3>1. admin[a].todo \subseteq Runs
      BY <2>1 DEF TypeOK, AdminRecord, IdleAdmin, BusyAdmin, StateStop
    <3>2. QED
      BY <2>1, <3>1, CancelKeepsEnded DEF StateStop
  <2>2. QED
    BY <1>4, <2>1 DEF StateStep, StateRead, StateWrite, StateList, StateReply
<1>5. ASSUME NEW c \in Commits, Sweep(c) PROVE Kept
  BY <1>5 DEF Sweep, InvalidatedRow
<1>6. CASE Recover
  BY <1>6 DEF Recover, Interrupted
<1>7. CASE PatchApproved \/ Crash \/ UNCHANGED vars
  BY <1>7 DEF PatchApproved, Crash
<1>8. QED
  BY <1>1, <1>2, <1>3, <1>4, <1>5, <1>6, <1>7 DEF Next

\* A run that ended never runs again, and a failed one stays failed.
THEOREM EndedStays == Spec => EndedStaysEnded
<1>1. IInv /\ [Next]_vars =>
        [\A r \in Runs :
           /\ row[r] \in Terminal => row'[r] \in Terminal
           /\ row[r] = "failed" => row'[r] = "failed"]_vars
  BY EndedStep DEF Terminal, Statuses
<1>2. QED
  BY <1>1, Invariance, PTL DEF Spec, EndedStaysEnded
=============================================================================
