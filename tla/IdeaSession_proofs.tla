------------------------- MODULE IdeaSession_proofs -------------------------
(***************************************************************************)
(* Theorems about IdeaSession, for every number of chat turns,             *)
(* confirmations, uploads and crashes.                                     *)
(***************************************************************************)
EXTENDS IdeaSession, TLAPS

USE DEF data, requests, vars

LEMMA InitInv == Init => IInv
<1> SUFFICES ASSUME Init PROVE IInv
  OBVIOUS
<1> USE CrashAssumption, NoneAssumption DEF Init, Idle, NoRow, NoProject
<1>1. TypeOK
  BY DEF TypeOK, SessionRow, ProjectRow, FileRow, Confirmation, Upload, Places
<1>2. UploadInOrder /\ ProjectInOrder /\ MoveInOrder /\ RepairInOrder /\ FileIsKept
  BY DEF UploadInOrder, ProjectInOrder, MoveInOrder, RepairInOrder, FileIsKept, Present, Linked
<1>3. ConfirmInOrder /\ FileIsReadable /\ BootstrapFindsAll
  BY DEF ConfirmInOrder, FileIsReadable, BootstrapFindsAll, Present, Linked
<1>4. QED
  BY <1>1, <1>2, <1>3 DEF IInv

-----------------------------------------------------------------------------
(* Types.                                                                  *)

LEMMA ChatTypes ==
  ASSUME TypeOK, NEW t \in Turn, BeginTurn(t) \/ EndTurn(t) \/ TurnFails(t),
         UNCHANGED <<cutOff, up, crashes>>
  PROVE  TypeOK'
<1> USE NoneAssumption DEF TypeOK
<1>1. CASE BeginTurn(t)
  BY <1>1 DEF BeginTurn, SessionRow
<1>2. CASE EndTurn(t)
  <2>1. PICK ready \in BOOLEAN :
          /\ declared' = IF ready THEN declared \cup {t} ELSE declared
          /\ session' = IF session.state # "open" THEN session ELSE
               [session EXCEPT !.draft = t,
                  !.phase = IF ready THEN "ready_for_confirmation" ELSE "clarifying"]
    BY <1>2, Zenon DEF EndTurn
  <2>2. declared' \subseteq Turn
    BY <2>1
  <2>3. session' \in SessionRow
    BY <2>1 DEF SessionRow
  <2>4. QED
    BY <1>2, <2>2, <2>3 DEF EndTurn
<1>3. CASE TurnFails(t)
  BY <1>3 DEF TurnFails
<1>4. QED
  BY <1>1, <1>2, <1>3

LEMMA ConfirmTypes ==
  ASSUME TypeOK, NEW p \in Project, ConfirmStep(p), UNCHANGED <<cutOff, up, crashes>>
  PROVE  TypeOK'
<1> USE NoneAssumption
<1>a. confirm[p] \in Confirmation /\ session \in SessionRow /\ project[p] \in ProjectRow
  BY DEF TypeOK
<1>1. CASE BeginConfirm(p)
  <2>1. session.draft \in Turn \cup {None}
    BY <1>a DEF SessionRow
  <2>2. [confirm[p] EXCEPT !.at = "slug", !.draft = session.draft] \in Confirmation
    BY <1>a, <2>1 DEF Confirmation
  <2>3. QED
    BY <1>1, <2>2 DEF BeginConfirm, TypeOK
<1>2. CASE CreateProject(p)
  <2>1. PICK made \in BOOLEAN :
          /\ project' = [project EXCEPT ![p] =
               [state |-> "present", workspace |-> made, idea |-> Draft(p), bootstrap |-> FALSE]]
          /\ Goto(p, IF made THEN "list" ELSE "done")
    BY <1>2, Zenon DEF CreateProject
  <2>2. [state |-> "present", workspace |-> made, idea |-> Draft(p), bootstrap |-> FALSE]
          \in ProjectRow
    BY <1>a DEF Draft, Confirmation, ProjectRow
  <2>3. project' \in [Project -> ProjectRow]
    BY <2>1, <2>2 DEF TypeOK
  <2>4. session' \in SessionRow
    BY <1>2, <1>a DEF CreateProject, SessionRow
  <2>5. row' \in [File -> FileRow]
    BY <1>2 DEF CreateProject, FileRow, TypeOK
  <2>6. [confirm[p] EXCEPT !.at = IF made THEN "list" ELSE "done"] \in Confirmation
    BY <1>a DEF Confirmation
  <2>7. confirm' \in [Project -> Confirmation]
    BY <2>1, <2>6 DEF Goto, TypeOK
  <2>8. QED
    BY <1>2, <2>3, <2>4, <2>5, <2>7 DEF CreateProject, TypeOK
<1>3. CASE ListUploads(p)
  <2>1. [confirm[p] EXCEPT !.at = "move", !.files = Unmoved(p)] \in Confirmation
    BY <1>a DEF Unmoved, Linked, Confirmation
  <2>2. QED
    BY <1>3, <2>1 DEF ListUploads, TypeOK
<1>4. CASE UpdatePath(p)
  <2>1. row' \in [File -> FileRow]
    BY <1>4 DEF UpdatePath, Linked, FileRow, TypeOK
  <2>2. [confirm[p] EXCEPT !.at = "move", !.file = None, !.files = @ \ {confirm[p].file}]
          \in Confirmation
    BY <1>a DEF Confirmation
  <2>3. QED
    BY <1>4, <2>1, <2>2 DEF UpdatePath, TypeOK
<1>5. CASE Remember(p)
  <2>1. [confirm[p] EXCEPT !.at = "index", !.files = Linked(p)] \in Confirmation
    BY <1>a DEF Linked, Confirmation
  <2>2. QED
    BY <1>5, <2>1 DEF Remember, TypeOK
<1>6. CASE Bootstrap(p)
  <2>1. [project[p] EXCEPT !.bootstrap = TRUE] \in ProjectRow
    BY <1>a DEF ProjectRow
  <2>2. [confirm[p] EXCEPT !.at = "done"] \in Confirmation
    BY <1>a DEF Confirmation
  <2>3. QED
    BY <1>6, <2>1, <2>2 DEF Bootstrap, Goto, TypeOK
<1>7. CASE ConfirmFails(p)
  <2>1. [Idle EXCEPT !.at = "done"] \in Confirmation
    BY DEF Idle, Confirmation
  <2>2. QED
    BY <1>7, <2>1 DEF ConfirmFails, TypeOK
<1>8. ASSUME NEW f \in File, Move(p, f) PROVE TypeOK'
  <2>1. [confirm[p] EXCEPT !.at = "update", !.file = f] \in Confirmation
    BY <1>a DEF Confirmation
  <2>2. place' \in [File -> SUBSET Places]
    <3>1. <<p, "artifacts">> \in Places /\ place[f] \in SUBSET Places
      BY DEF Places, TypeOK
    <3>2. PICK places \in Moved(f, <<p, "artifacts">>) : place' = [place EXCEPT ![f] = places]
      BY <1>8 DEF Move
    <3>3. places \in SUBSET Places
      BY <3>1, <3>2 DEF Moved
    <3>4. QED
      BY <3>2, <3>3 DEF TypeOK
  <2>3. QED
    BY <1>8, <2>1, <2>2 DEF Move, TypeOK
<1>9. ASSUME NEW f \in File, Index(p, f) PROVE TypeOK'
  <2>1. [confirm[p] EXCEPT !.files = @ \ {f}] \in Confirmation
    BY <1>a DEF Confirmation
  <2>2. QED
    BY <1>9, <2>1 DEF Index, TypeOK
<1>10. QED
  BY <1>1, <1>2, <1>3, <1>4, <1>5, <1>6, <1>7, <1>8, <1>9 DEF ConfirmStep

LEMMA UploadTypes ==
  ASSUME TypeOK, NEW f \in File, UploadStep(f), UNCHANGED <<cutOff, up, crashes>>
  PROVE  TypeOK'
<1> USE NoneAssumption DEF TypeOK
<1>1. CASE BeginUpload(f)
  BY <1>1 DEF BeginUpload, Upload, SessionRow
<1>2. CASE WriteFile(f)
  BY <1>2 DEF WriteFile, Directory, Places, Upload
<1>3. CASE ScanFails(f)
  BY <1>3 DEF ScanFails, Upload
<1>4. CASE InsertRow(f)
  <2>1. row' \in [File -> FileRow]
    BY <1>4 DEF InsertRow, Upload, FileRow
  <2>2. upload' \in [File -> Upload]
    BY <1>4 DEF InsertRow, Upload
  <2>3. QED
    BY <1>4, <2>1, <2>2 DEF InsertRow
<1>5. CASE EnqueueIndex(f)
  BY <1>5 DEF EnqueueIndex, Upload
<1>6. QED
  BY <1>1, <1>2, <1>3, <1>4, <1>5 DEF UploadStep

LEMMA OtherTypes ==
  ASSUME TypeOK,
         \/ \E p \in Project : Delete(p) /\ UNCHANGED <<cutOff, up, crashes>>
         \/ Crash \/ Restart
         \/ \E f \in File : DieRepairing(f)
  PROVE  TypeOK'
<1> USE NoneAssumption, CrashAssumption
<1>1. ASSUME NEW p \in Project, Delete(p), UNCHANGED <<cutOff, up, crashes>> PROVE TypeOK'
  <2>1. PICK cleaned \in BOOLEAN :
          /\ project' = [project EXCEPT ![p] = [NoProject EXCEPT
               !.state = "deleted", !.workspace = ~cleaned /\ project[p].workspace]]
          /\ place' = IF cleaned THEN [f \in File |-> {d \in place[f] : d[1] # p}] ELSE place
    BY <1>1, Zenon DEF Delete
  <2>2. [NoProject EXCEPT !.state = "deleted", !.workspace = ~cleaned /\ project[p].workspace]
          \in ProjectRow
    BY DEF NoProject, ProjectRow, TypeOK
  <2>3. project' \in [Project -> ProjectRow]
    BY <2>1, <2>2 DEF TypeOK
  <2>4. session' \in SessionRow
    BY <1>1 DEF Delete, SessionRow, TypeOK
  <2>5. row' \in [File -> FileRow]
    BY <1>1 DEF Delete, NoRow, FileRow, TypeOK
  <2>6. place' \in [File -> SUBSET Places]
    BY <2>1 DEF TypeOK
  <2>7. indexed' \in [File -> Project \cup {None}]
    BY <1>1 DEF Delete, TypeOK
  <2>8. QED
    BY <1>1, <2>3, <2>4, <2>5, <2>6, <2>7 DEF Delete, TypeOK
<1>2. CASE Crash
  <2>1. confirm' \in [Project -> Confirmation]
    BY <1>2 DEF Crash, Idle, Confirmation, TypeOK
  <2>2. upload' \in [File -> Upload]
    BY <1>2 DEF Crash, Upload, TypeOK
  <2>3. turn' \in [Turn -> {"idle", "model", "done"}]
    BY <1>2 DEF Crash, TypeOK
  <2>4. crashes' \in 0..MaxCrashes
    BY <1>2 DEF Crash, TypeOK
  <2>5. QED
    BY <1>2, <2>1, <2>2, <2>3, <2>4 DEF Crash, TypeOK
<1>3. CASE Restart
  <2>1. row' \in [File -> FileRow]
    BY <1>3 DEF Restart, Repaired, FileRow, TypeOK
  <2>2. QED
    BY <1>3, <2>1 DEF Restart, TypeOK
<1>4. ASSUME NEW f \in File, DieRepairing(f) PROVE TypeOK'
  <2>1. Target(f) \in Places /\ place[f] \in SUBSET Places
    BY <1>4 DEF DieRepairing, ToRepair, Target, Places, TypeOK, FileRow
  <2>2. PICK places \in Migrated(f) : place' = [place EXCEPT ![f] = places]
    BY <1>4 DEF DieRepairing
  <2>3. places \in SUBSET Places
    BY <2>1, <2>2 DEF Migrated, Moved
  <2>4. QED
    BY <1>4, <2>2, <2>3 DEF DieRepairing, TypeOK
<1>5. QED
  BY <1>1, <1>2, <1>3, <1>4

LEMMA TypeStep == TypeOK /\ [Next]_vars => TypeOK'
<1> SUFFICES ASSUME TypeOK, [Next]_vars PROVE TypeOK'
  OBVIOUS
<1>1. CASE UNCHANGED vars
  BY <1>1 DEF TypeOK
<1>2. CASE Next
  BY <1>2, ChatTypes, ConfirmTypes, UploadTypes, OtherTypes DEF Next, Request
<1>3. QED
  BY <1>1, <1>2

-----------------------------------------------------------------------------
(* A request neither leaves the end of a confirmation nor writes a path     *)
(* that only the repair writes.                                             *)

LEMMA RequestKeeps ==
  ASSUME IInv, Request
  PROVE  /\ \A q \in Project : confirm[q].at = "done" => confirm'[q].at = "done"
         /\ \A f \in File : row'[f].path = "migrated" =>
              row[f].path = "migrated" /\ row'[f].project = row[f].project
<1> DEFINE Keeps == /\ \A q \in Project : confirm[q].at = "done" => confirm'[q].at = "done"
                    /\ \A f \in File : row'[f].path = "migrated" =>
                         row[f].path = "migrated" /\ row'[f].project = row[f].project
<1>a. confirm \in [Project -> Confirmation] /\ row \in [File -> FileRow]
  BY DEF IInv, TypeOK
<1>1. ASSUME NEW t \in Turn, BeginTurn(t) \/ EndTurn(t) \/ TurnFails(t) PROVE Keeps
  BY <1>1 DEF BeginTurn, EndTurn, TurnFails
<1>2. ASSUME NEW p \in Project, ConfirmStep(p) PROVE Keeps
  <2>1. ASSUME confirm[p].at # "done", row' = row,
               \A q \in Project : q # p => confirm'[q] = confirm[q]
        PROVE  Keeps
    BY <2>1
  <2>2. CASE BeginConfirm(p) \/ ListUploads(p) \/ Remember(p) \/ ConfirmFails(p)
    BY <1>a, <2>1, <2>2 DEF BeginConfirm, ListUploads, Remember, ConfirmFails
  <2>3. CASE Bootstrap(p)
    BY <1>a, <2>1, <2>3 DEF Bootstrap, Goto
  <2>4. ASSUME NEW f \in File, Move(p, f) \/ Index(p, f) PROVE Keeps
    BY <1>a, <2>1, <2>4 DEF Move, Index
  <2>5. CASE CreateProject(p)
    <3>1. /\ confirm[p].at # "done"
          /\ \A q \in Project : q # p => confirm'[q] = confirm[q]
      BY <1>a, <2>5 DEF CreateProject, Goto
    <3>2. ASSUME NEW f \in File, row'[f].path = "migrated"
          PROVE  row[f].path = "migrated" /\ row'[f].project = row[f].project
      <4>1. row'[f].path = row[f].path
        BY <1>a, <2>5 DEF CreateProject, FileRow
      <4>2. row[f].project # None
        BY <3>2, <4>1 DEF IInv, ProjectInOrder
      <4>3. QED
        BY <2>5, <3>2, <4>1, <4>2 DEF CreateProject
    <3>3. QED
      BY <3>1, <3>2
  <2>6. CASE UpdatePath(p)
    <3>1. /\ confirm[p].at # "done"
          /\ \A q \in Project : q # p => confirm'[q] = confirm[q]
      BY <1>a, <2>6 DEF UpdatePath
    <3>2. ASSUME NEW f \in File, row'[f].path = "migrated" PROVE row'[f] = row[f]
      BY <1>a, <2>6, <3>2 DEF UpdatePath, FileRow
    <3>3. QED
      BY <3>1, <3>2
  <2>7. QED
    BY <1>2, <2>2, <2>3, <2>4, <2>5, <2>6 DEF ConfirmStep
<1>3. ASSUME NEW p \in Project, Delete(p) PROVE Keeps
  BY <1>3 DEF Delete, NoRow
<1>4. ASSUME NEW f \in File, UploadStep(f) PROVE Keeps
  <2>1. CASE BeginUpload(f) \/ WriteFile(f) \/ ScanFails(f) \/ EnqueueIndex(f)
    BY <2>1 DEF BeginUpload, WriteFile, ScanFails, EnqueueIndex
  <2>2. CASE InsertRow(f)
    <3>1. \A g \in File : row'[g] = row[g] \/ row'[g].path \in {"staging", "artifacts"}
      BY <1>a, <2>2 DEF InsertRow
    <3>2. QED
      BY <2>2, <3>1 DEF InsertRow
  <2>3. QED
    BY <1>4, <2>1, <2>2 DEF UploadStep
<1>5. QED
  BY <1>1, <1>2, <1>3, <1>4 DEF Request

LEMMA RepairStep == IInv /\ [Next]_vars => RepairInOrder'
<1> SUFFICES ASSUME IInv, [Next]_vars PROVE RepairInOrder'
  OBVIOUS
<1>1. CASE UNCHANGED vars
  BY <1>1 DEF IInv, RepairInOrder, Linked
<1>2. CASE up /\ Request /\ UNCHANGED <<cutOff, up, crashes>>
  <2>1. /\ \A q \in Project : confirm[q].at = "done" => confirm'[q].at = "done"
        /\ \A f \in File : row'[f].path = "migrated" =>
             row[f].path = "migrated" /\ row'[f].project = row[f].project
    BY <1>2, RequestKeeps
  <2>2. QED
    BY <1>2, <2>1 DEF IInv, RepairInOrder, Linked
<1>3. CASE Crash
  BY <1>3 DEF Crash, Idle, IInv, RepairInOrder, Linked
<1>4. CASE Restart
  <2>1. \A p \in Project : confirm[p].at \in {"idle", "done"} /\ confirm' = confirm /\ up'
    BY <1>4 DEF Restart, IInv, RepairInOrder
  <2>2. \A f \in File : row'[f].project = row[f].project
    BY <1>4 DEF Restart, Repaired, IInv, TypeOK, FileRow
  <2>3. \A f \in File, p \in Project : row[f].project = p => confirm[p].at # "idle"
    BY DEF IInv, ProjectInOrder, Present, NoProject
  <2>4. QED
    BY <2>1, <2>2, <2>3 DEF RepairInOrder, Linked
<1>5. ASSUME NEW f \in File, DieRepairing(f) PROVE RepairInOrder'
  BY <1>5 DEF DieRepairing, IInv, RepairInOrder, Linked
<1>6. QED
  BY <1>1, <1>2, <1>3, <1>4, <1>5 DEF Next

-----------------------------------------------------------------------------
(* The inductive invariant.  Under each action, a conjunct that reads       *)
(* nothing the action writes is undisturbed.                                *)

LEMMA Undisturbed ==
  /\ UploadInOrder /\ UNCHANGED <<upload, row, place, project>> => UploadInOrder'
  /\ ProjectInOrder /\ UNCHANGED <<session, project, confirm, row>> => ProjectInOrder'
  /\ MoveInOrder /\ UNCHANGED <<confirm, row, upload, place>> => MoveInOrder'
  /\ /\ FileIsKept /\ UNCHANGED <<row, place, cutOff, up>>
     /\ \A p \in Project : confirm'[p].file = confirm[p].file
     => FileIsKept'
  /\ ConfirmInOrder /\ UNCHANGED <<session, declared, confirm, project, row>> => ConfirmInOrder'
  /\ FileIsReadable /\ UNCHANGED <<row, place, cutOff, up, confirm>> => FileIsReadable'
  /\ BootstrapFindsAll /\ UNCHANGED <<project, declared, row>> => BootstrapFindsAll'
<1>1. UploadInOrder /\ UNCHANGED <<upload, row, place, project>> => UploadInOrder'
  BY DEF UploadInOrder, Present
<1>2. ProjectInOrder /\ UNCHANGED <<session, project, confirm, row>> => ProjectInOrder'
  BY DEF ProjectInOrder, Present
<1>3. MoveInOrder /\ UNCHANGED <<confirm, row, upload, place>> => MoveInOrder'
  BY DEF MoveInOrder, Linked
<1>4. /\ FileIsKept /\ UNCHANGED <<row, place, cutOff, up>>
      /\ \A p \in Project : confirm'[p].file = confirm[p].file
      => FileIsKept'
  BY DEF FileIsKept, BeingMoved, Named, ToRepair, Target
<1>5. ConfirmInOrder /\ UNCHANGED <<session, declared, confirm, project, row>> => ConfirmInOrder'
  BY DEF ConfirmInOrder, Present, Linked
<1>6. FileIsReadable /\ UNCHANGED <<row, place, cutOff, up, confirm>> => FileIsReadable'
  BY DEF FileIsReadable, BeingMoved, Named
<1>7. BootstrapFindsAll /\ UNCHANGED <<project, declared, row>> => BootstrapFindsAll'
  BY DEF BootstrapFindsAll, Linked
<1>8. QED
  BY <1>1, <1>2, <1>3, <1>4, <1>5, <1>6, <1>7

\* A file that is kept is readable when the server is up.
LEMMA Readable == FileIsKept' => FileIsReadable'
  BY DEF FileIsKept, FileIsReadable, BeingMoved, Named

LEMMA BeginTurnStep ==
  ASSUME IInv, TypeOK', RepairInOrder', NEW t \in Turn, BeginTurn(t),
         up, UNCHANGED <<cutOff, up, crashes>>
  PROVE  IInv'
<1>1. UploadInOrder' /\ MoveInOrder' /\ FileIsKept' /\ FileIsReadable' /\ BootstrapFindsAll'
  BY Undisturbed DEF BeginTurn, IInv
<1>2. ProjectInOrder'
  BY DEF BeginTurn, IInv, ProjectInOrder, TypeOK, Present
<1>3. ConfirmInOrder'
  BY DEF BeginTurn, IInv, ConfirmInOrder, Present, Linked
<1>4. QED
  BY <1>1, <1>2, <1>3 DEF IInv

LEMMA EndTurnStep ==
  ASSUME IInv, TypeOK', RepairInOrder', NEW t \in Turn, EndTurn(t),
         up, UNCHANGED <<cutOff, up, crashes>>
  PROVE  IInv'
<1>1. UploadInOrder' /\ MoveInOrder' /\ FileIsKept' /\ FileIsReadable'
  BY Undisturbed DEF EndTurn, IInv
<1>2. ProjectInOrder'
  BY DEF EndTurn, IInv, ProjectInOrder, TypeOK, Present
<1>3. ConfirmInOrder'
  BY DEF EndTurn, IInv, ConfirmInOrder, Present, Linked
<1>4. BootstrapFindsAll'
  BY DEF EndTurn, IInv, BootstrapFindsAll, Linked
<1>5. QED
  BY <1>1, <1>2, <1>3, <1>4 DEF IInv

LEMMA TurnFailsStep ==
  ASSUME IInv, TypeOK', RepairInOrder', NEW t \in Turn, TurnFails(t),
         up, UNCHANGED <<cutOff, up, crashes>>
  PROVE  IInv'
<1>1. /\ UploadInOrder' /\ ProjectInOrder' /\ MoveInOrder' /\ FileIsKept'
      /\ ConfirmInOrder' /\ FileIsReadable' /\ BootstrapFindsAll'
  BY Undisturbed DEF data, requests, TurnFails, IInv
<1>2. QED
  BY <1>1 DEF IInv

LEMMA BeginConfirmStep ==
  ASSUME IInv, TypeOK', RepairInOrder', NEW p \in Project, BeginConfirm(p),
         up, UNCHANGED <<cutOff, up, crashes>>
  PROVE  IInv'
<1>1. UploadInOrder' /\ BootstrapFindsAll'
  BY Undisturbed DEF data, requests, BeginConfirm, IInv
<1>2. ProjectInOrder'
  BY DEF data, BeginConfirm, IInv, ProjectInOrder, TypeOK, Present
<1>3. MoveInOrder'
  BY DEF data, BeginConfirm, IInv, MoveInOrder, TypeOK, SessionRow, ProjectRow,
     Linked
<1>4. ConfirmInOrder'
  BY DEF data, BeginConfirm, IInv, ConfirmInOrder, TypeOK, Present, Linked
<1>5. FileIsKept'
  <2>1. ASSUME NEW q \in Project PROVE confirm'[q].file = confirm[q].file
    <3>1. confirm[q] \in Confirmation
      BY DEF IInv, TypeOK
    <3>2. QED
      BY <3>1 DEF BeginConfirm, IInv, TypeOK, Confirmation
  <2>2. QED
    BY <2>1, Undisturbed DEF data, BeginConfirm, IInv
<1>6. QED
  BY <1>1, <1>2, <1>3, <1>4, <1>5, Readable DEF IInv

LEMMA CreateProjectStep ==
  ASSUME IInv, TypeOK', RepairInOrder', NEW p \in Project, CreateProject(p),
         up, UNCHANGED <<cutOff, up, crashes>>
  PROVE  IInv'
<1>a. ASSUME NEW f \in File
      PROVE  \/ row'[f] = row[f]
             \/ /\ row[f].path # "none"
                /\ row[f].project = None
                /\ row'[f].path = row[f].path
                /\ row'[f].project = p
  <2>1. row[f] \in FileRow
    BY DEF IInv, TypeOK
  <2>2. QED
    BY <2>1 DEF CreateProject, FileRow
<1>1. UploadInOrder'
  BY DEF CreateProject, IInv, UploadInOrder, ProjectInOrder, Present, NoRow,
     NoProject
<1>2. ProjectInOrder'
  <2>1. confirm[p] \in Confirmation
    BY DEF IInv, TypeOK
  <2>2. PICK made \in BOOLEAN :
          /\ project' = [project EXCEPT ![p] =
               [state |-> "present", workspace |-> made, idea |-> Draft(p), bootstrap |-> FALSE]]
          /\ Goto(p, IF made THEN "list" ELSE "done")
    BY Zenon DEF CreateProject
  <2>3. \A q \in Project : q # p => project'[q] = project[q] /\ confirm'[q] = confirm[q]
    BY <2>2 DEF Goto, IInv, TypeOK
  <2>4. project'[p].state = "present" /\ confirm'[p].at \in {"list", "done"}
    BY <2>1, <2>2 DEF Goto, Confirmation, IInv, TypeOK
  <2>5. \A q \in Project : Present(q) \/ q = p => Present(q)'
    BY <2>3, <2>4 DEF Present
  <2>6. session'.project \in {session.project, p}
    BY DEF CreateProject, IInv, TypeOK, SessionRow
  <2>7. \A q \in Project : session'.project = q => Present(q)'
    BY <2>5, <2>6 DEF IInv, ProjectInOrder
  <2>8. \A q \in Project : confirm'[q].at \in {"idle", "slug"} => project'[q] = NoProject
    BY <2>3, <2>4 DEF IInv, ProjectInOrder
  <2>9. \A f \in File, q \in Project : row'[f].project = q => Present(q)'
    BY <1>a, <2>5 DEF IInv, ProjectInOrder
  <2>10. \A f \in File : /\ row'[f].path = "none" => row'[f] = NoRow
                         /\ row'[f].path \in {"artifacts", "migrated"} => row'[f].project # None
    BY <1>a, NoneAssumption DEF IInv, ProjectInOrder
  <2>11. QED
    BY <2>7, <2>8, <2>9, <2>10 DEF ProjectInOrder
<1>3. MoveInOrder'
  BY NoneAssumption DEF CreateProject, IInv, MoveInOrder, TypeOK, Confirmation,
     Goto, Linked
<1>4. FileIsKept'
  <2>1. \A f \in File : row[f].path # "none" /\ row[f].project = None => row[f].path = "staging"
    BY DEF IInv, TypeOK, FileRow, ProjectInOrder
  <2>2. \A f \in File : <<None, "artifacts">> \notin place[f]
    BY NoneAssumption DEF IInv, TypeOK, Places, Staging
  <2>3. UNCHANGED <<place, cutOff, up>> /\ \A q \in Project : confirm'[q].file = confirm[q].file
    BY DEF CreateProject, Goto, IInv, TypeOK, Confirmation
  <2>4. QED
    <3>1. SUFFICES ASSUME NEW f \in File, row'[f].path # "none"
                   PROVE  \/ Named(f)' \in place[f]
                          \/ /\ row'[f].path = "staging"
                             /\ <<row'[f].project, "artifacts">> \in place[f]
                             /\ BeingMoved(f)' \/ f \in cutOff
                          \/ ~up /\ ToRepair(f)' /\ Target(f)' \in place[f]
      BY <2>3 DEF FileIsKept
    <3>2. BeingMoved(f)' <=> BeingMoved(f)
      BY <2>3 DEF BeingMoved
    <3>3. CASE row'[f] = row[f]
      BY <2>3, <3>1, <3>2, <3>3 DEF IInv, FileIsKept, Named, ToRepair, Target
    <3>4. CASE row'[f] # row[f]
      <4>1. row[f].path = "staging" /\ row'[f].path = "staging" /\ row[f].project = None
        BY <1>a, <2>1, <3>4
      <4>2. Staging \in place[f]
        BY <2>2, <4>1 DEF IInv, FileIsKept, Named, ToRepair
      <4>3. QED
        BY <4>1, <4>2 DEF Named, Staging
    <3>5. QED
      BY <3>3, <3>4
<1>5. ConfirmInOrder'
  BY DEF CreateProject, IInv, ConfirmInOrder, TypeOK, Goto, Draft, Present, Linked
<1>6. FileIsReadable'
  BY <1>4, Readable
<1>7. BootstrapFindsAll'
  BY DEF CreateProject, IInv, BootstrapFindsAll, TypeOK, Linked
<1>8. QED
  BY <1>1, <1>2, <1>3, <1>4, <1>5, <1>6, <1>7 DEF IInv

LEMMA ListUploadsStep ==
  ASSUME IInv, TypeOK', RepairInOrder', NEW p \in Project, ListUploads(p),
         up, UNCHANGED <<cutOff, up, crashes>>
  PROVE  IInv'
<1>1. UploadInOrder' /\ BootstrapFindsAll'
  BY Undisturbed DEF data, ListUploads, IInv
<1>2. PICK S : /\ S = {f \in Linked(p) : row[f].path = "staging"}
               /\ confirm' = [confirm EXCEPT ![p].at = "move", ![p].files = S]
  BY Zenon DEF ListUploads, Unmoved
<1>3. \A f \in File : f \in S <=> f \in Linked(p) /\ row[f].path = "staging"
  BY <1>2 DEF Linked
<1>4. /\ confirm[p] \in Confirmation /\ confirm[p].at = "list" /\ confirm[p].file = None
      /\ UNCHANGED <<data, upload>>
  BY DEF ListUploads, IInv, TypeOK, MoveInOrder
<1>5. /\ confirm'[p].at = "move" /\ confirm'[p].files = S
      /\ confirm'[p].file = None /\ confirm'[p].draft = confirm[p].draft
      /\ \A q \in Project : q # p => confirm'[q] = confirm[q]
  <2>1. confirm' = [confirm EXCEPT ![p].at = "move", ![p].files = S]
    BY <1>2, Zenon
  <2>2. QED
    BY <1>4, <2>1 DEF IInv, TypeOK, Confirmation
<1>6. ProjectInOrder'
  BY <1>4, <1>5 DEF data, IInv, ProjectInOrder, Present
<1>7. MoveInOrder'
  <2>1. S \subseteq File
    BY <1>2 DEF Linked
  <2>2. \A f \in S : row[f].project = p /\ upload[f].at \notin {"idle", "write", "scan"}
    BY <1>3, <2>1 DEF IInv, UploadInOrder, Linked, NoRow
  <2>3. QED
    BY <1>4, <1>5, <2>1, <2>2, NoneAssumption DEF data, IInv, MoveInOrder, Linked
<1>8. ConfirmInOrder'
  BY <1>3, <1>4, <1>5 DEF data, IInv, ConfirmInOrder, Present, Linked
<1>9. FileIsKept'
  BY <1>4, <1>5, Undisturbed DEF data, IInv
<1>10. QED
  BY <1>1, <1>6, <1>7, <1>8, <1>9, Readable DEF IInv

LEMMA UpdatePathStep ==
  ASSUME IInv, TypeOK', RepairInOrder', NEW p \in Project, UpdatePath(p),
         up, UNCHANGED <<cutOff, up, crashes>>
  PROVE  IInv'
<1>1. UploadInOrder'
  BY DEF UpdatePath, IInv, UploadInOrder, Present, Linked, NoRow
<1>2. ProjectInOrder'
  BY NoneAssumption DEF UpdatePath, IInv, ProjectInOrder, TypeOK, Present, Linked
<1>3. MoveInOrder'
  <2>1. /\ confirm'[p].at = "move" /\ confirm'[p].file = None
        /\ confirm'[p].files = confirm[p].files \ {confirm[p].file}
        /\ \A q \in Project : q # p => confirm'[q] = confirm[q]
    <3>1. confirm[p] \in Confirmation
      BY DEF IInv, TypeOK
    <3>2. QED
      BY <3>1 DEF UpdatePath, IInv, TypeOK, Confirmation
  <2>2. ASSUME NEW f \in File
        PROVE  /\ row'[f].project = row[f].project
               /\ row'[f].path = "none" <=> row[f].path = "none"
    <3>1. row[f] \in FileRow
      BY DEF IInv, TypeOK
    <3>2. QED
      BY <3>1 DEF UpdatePath, IInv, TypeOK, FileRow, Linked
  <2>3. UNCHANGED <<upload, place>> /\ \A q \in Project : confirm[q].files \subseteq File
    BY DEF UpdatePath, IInv, TypeOK, Confirmation
  <2>4. \A q \in Project : confirm'[q].files \subseteq confirm[q].files
    BY <2>1
  <2>5. \A q \in Project : \A f \in confirm'[q].files :
          /\ row'[f].path # "none" => row'[f].project = q
          /\ upload'[f].at \notin {"idle", "write", "scan"}
    BY <2>2, <2>3, <2>4 DEF IInv, MoveInOrder
  <2>6. \A q \in Project, f \in File :
          confirm'[q].file = f /\ f \in Linked(q)' => <<q, "artifacts">> \in place'[f]
    BY <2>1, <2>2, <2>3, NoneAssumption DEF IInv, MoveInOrder, Linked
  <2>7. QED
    BY <2>1, <2>5, <2>6 DEF IInv, MoveInOrder
<1>4. FileIsKept'
  <2>1. /\ confirm'[p].file = None
        /\ \A q \in Project : q # p => confirm'[q] = confirm[q]
        /\ confirm[p].file \in File
        /\ UNCHANGED <<place, cutOff, up>>
    <3>1. confirm[p] \in Confirmation /\ confirm[p].file \in confirm[p].files
      BY DEF UpdatePath, IInv, TypeOK, MoveInOrder
    <3>2. QED
      BY <3>1 DEF UpdatePath, IInv, TypeOK, Confirmation
  <2>2. SUFFICES ASSUME NEW f \in File, row'[f].path # "none"
                 PROVE  \/ Named(f)' \in place[f]
                        \/ /\ row'[f].path = "staging"
                           /\ <<row'[f].project, "artifacts">> \in place[f]
                           /\ BeingMoved(f)' \/ f \in cutOff
                        \/ ~up /\ ToRepair(f)' /\ Target(f)' \in place[f]
    BY <2>1 DEF FileIsKept
  <2>3. row[f] \in FileRow
    BY DEF IInv, TypeOK
  <2>4. CASE confirm[p].file = f /\ f \in Linked(p)
    <3>1. row'[f] = [row[f] EXCEPT !.path = "artifacts"] /\ row[f].project = p
      BY <2>4 DEF UpdatePath, IInv, TypeOK, Linked
    <3>2. row'[f].path = "artifacts" /\ row'[f].project = p
      BY <2>3, <3>1 DEF FileRow
    <3>3. <<p, "artifacts">> \in place[f]
      BY <2>4 DEF IInv, MoveInOrder
    <3>4. QED
      BY <3>2, <3>3 DEF Named
  <2>5. CASE ~(confirm[p].file = f /\ f \in Linked(p))
    <3>1. row'[f] = row[f]
      BY <2>1, <2>5 DEF UpdatePath, IInv, TypeOK
    <3>2. row[f].path # "none" => confirm[p].file # f
      <4>1. SUFFICES ASSUME row[f].path # "none", confirm[p].file = f PROVE FALSE
        OBVIOUS
      <4>2. f \in confirm[p].files
        BY <4>1 DEF UpdatePath, IInv, MoveInOrder
      <4>3. row[f].project = p
        BY <4>1, <4>2 DEF IInv, MoveInOrder
      <4>4. QED
        BY <2>5, <4>1, <4>3 DEF Linked
    <3>3. row[f].path # "none" => (BeingMoved(f) => BeingMoved(f)')
      BY <2>1, <3>2 DEF BeingMoved
    <3>4. QED
      BY <2>1, <2>2, <3>1, <3>3 DEF IInv, FileIsKept, Named, ToRepair, Target
  <2>6. QED
    BY <2>4, <2>5
<1>5. ConfirmInOrder'
  BY DEF UpdatePath, IInv, ConfirmInOrder, TypeOK, Present, Linked
<1>6. FileIsReadable'
  BY <1>4, Readable
<1>7. BootstrapFindsAll'
  BY DEF UpdatePath, IInv, BootstrapFindsAll, Linked
<1>8. QED
  BY <1>1, <1>2, <1>3, <1>4, <1>5, <1>6, <1>7 DEF IInv

LEMMA RememberStep ==
  ASSUME IInv, TypeOK', RepairInOrder', NEW p \in Project, Remember(p),
         up, UNCHANGED <<cutOff, up, crashes>>
  PROVE  IInv'
<1>1. UploadInOrder' /\ BootstrapFindsAll'
  BY Undisturbed DEF data, Remember, IInv
<1>2. PICK S : S = Linked(p) /\ confirm' = [confirm EXCEPT ![p].at = "index", ![p].files = S]
  BY Zenon DEF Remember
<1>3. /\ confirm[p] \in Confirmation /\ confirm[p].at = "move" /\ confirm[p].files = {}
      /\ UNCHANGED <<data, upload>>
  BY DEF Remember, IInv, TypeOK
<1>4. /\ confirm'[p].at = "index" /\ confirm'[p].files = S
      /\ confirm'[p].file = None /\ confirm'[p].draft = confirm[p].draft
      /\ \A q \in Project : q # p => confirm'[q] = confirm[q]
  <2>1. confirm[p].file = None
    BY <1>3 DEF IInv, MoveInOrder
  <2>2. QED
    BY <1>2, <1>3, <2>1 DEF IInv, TypeOK, Confirmation
<1>5. ProjectInOrder'
  BY <1>3, <1>4 DEF data, IInv, ProjectInOrder, Present
<1>6. MoveInOrder'
  <2>1. S \subseteq File
    BY <1>2 DEF Linked
  <2>2. \A f \in S : row[f].project = p /\ upload[f].at \notin {"idle", "write", "scan"}
    BY <1>2, <2>1 DEF IInv, UploadInOrder, Linked, NoRow
  <2>3. QED
    BY <1>3, <1>4, <2>1, <2>2, NoneAssumption DEF data, IInv, MoveInOrder, Linked
<1>7. ConfirmInOrder'
  BY <1>3, <1>4 DEF data, IInv, ConfirmInOrder, Present, Linked
<1>8. FileIsKept'
  <2>1. confirm[p].file = None
    BY <1>3 DEF IInv, MoveInOrder
  <2>2. QED
    BY <1>3, <1>4, <2>1, Undisturbed DEF data, IInv
<1>9. QED
  BY <1>1, <1>5, <1>6, <1>7, <1>8, Readable DEF IInv

LEMMA BootstrapStep ==
  ASSUME IInv, TypeOK', RepairInOrder', NEW p \in Project, Bootstrap(p),
         up, UNCHANGED <<cutOff, up, crashes>>
  PROVE  IInv'
<1>1. FileIsKept'
  <2>1. \A q \in Project : confirm'[q].file = confirm[q].file
    BY DEF Bootstrap, Goto, IInv, TypeOK, Confirmation
  <2>2. QED
    BY <2>1, Undisturbed DEF Bootstrap, IInv
<1>2. UploadInOrder'
  BY DEF Bootstrap, IInv, UploadInOrder, Present
<1>3. ProjectInOrder'
  <2>1. confirm[p] \in Confirmation /\ project[p] \in ProjectRow
    BY DEF IInv, TypeOK
  <2>2. \A q \in Project : q # p => project'[q] = project[q] /\ confirm'[q] = confirm[q]
    BY DEF Bootstrap, Goto, IInv, TypeOK
  <2>3. project'[p].state = "present" /\ confirm'[p].at = "done"
    BY <2>1 DEF Bootstrap, Goto, Present, IInv, TypeOK, ProjectRow, Confirmation
  <2>4. \A q \in Project : Present(q) => Present(q)'
    BY <2>2, <2>3 DEF Present
  <2>5. session' = session /\ row' = row
    BY DEF Bootstrap
  <2>6. QED
    BY <2>2, <2>3, <2>4, <2>5 DEF IInv, ProjectInOrder
<1>4. MoveInOrder'
  BY DEF Bootstrap, IInv, MoveInOrder, Goto, Linked
<1>5. ConfirmInOrder'
  BY DEF Bootstrap, IInv, ConfirmInOrder, Goto, Present, Linked
<1>6. FileIsReadable'
  BY <1>1, Readable
<1>7. BootstrapFindsAll'
  BY DEF Bootstrap, IInv, BootstrapFindsAll, ConfirmInOrder, RepairInOrder, TypeOK, FileRow, Linked
<1>8. QED
  BY <1>1, <1>2, <1>3, <1>4, <1>5, <1>6, <1>7 DEF IInv

LEMMA ConfirmFailsStep ==
  ASSUME IInv, TypeOK', RepairInOrder', NEW p \in Project, ConfirmFails(p),
         up, UNCHANGED <<cutOff, up, crashes>>
  PROVE  IInv'
<1>1. UploadInOrder' /\ BootstrapFindsAll'
  BY Undisturbed DEF data, requests, ConfirmFails, IInv
<1>2. ProjectInOrder'
  BY DEF data, ConfirmFails, IInv, ProjectInOrder, TypeOK, Present
<1>3. MoveInOrder'
  BY DEF data, ConfirmFails, IInv, MoveInOrder, Idle, Linked
<1>4. ConfirmInOrder'
  BY DEF data, ConfirmFails, IInv, ConfirmInOrder, Present, Linked
<1>5. FileIsKept'
  <2>1. \A q \in Project : confirm'[q].file = confirm[q].file
    BY DEF ConfirmFails, IInv, TypeOK, MoveInOrder, Confirmation, Idle
  <2>2. QED
    BY <2>1, Undisturbed DEF data, ConfirmFails, IInv
<1>6. QED
  BY <1>1, <1>2, <1>3, <1>4, <1>5, Readable DEF IInv

LEMMA MoveStep ==
  ASSUME IInv, TypeOK', RepairInOrder', NEW p \in Project, NEW f \in File,
         Move(p, f), up, UNCHANGED <<cutOff, up, crashes>>
  PROVE  IInv'
<1>1. BootstrapFindsAll'
  BY Undisturbed DEF Move, IInv
<1>2. UploadInOrder'
  BY DEF Move, IInv, UploadInOrder, MoveInOrder, Present
<1>3. ProjectInOrder'
  BY DEF Move, IInv, ProjectInOrder, TypeOK, Present
<1>a. PICK places \in Moved(f, <<p, "artifacts">>) : place' = [place EXCEPT ![f] = places]
  BY DEF Move
<1>b. /\ place'[f] = places
      /\ \A g \in File : g # f => place'[g] = place[g]
      /\ confirm'[p].file = f /\ confirm[p].file = None /\ confirm'[p].at = "update"
      /\ confirm'[p].files = confirm[p].files
      /\ \A q \in Project : q # p => confirm'[q] = confirm[q]
  <2>1. confirm[p] \in Confirmation
    BY DEF IInv, TypeOK
  <2>2. QED
    BY <1>a, <2>1 DEF Move, IInv, TypeOK, MoveInOrder, Confirmation
\* Only the place in staging is ever left, and then for the place in the project.
<1>c. /\ \A d \in place[f] : d # Staging => d \in places
      /\ Staging \in place[f] => <<p, "artifacts">> \in places
  BY <1>a DEF Moved
<1>d. \A q \in Project, n \in {"artifacts", "migrated"} : <<q, n>> # Staging
  BY NoneAssumption DEF Staging
<1>4. MoveInOrder'
  <2>1. f \in confirm[p].files
    BY DEF Move
  <2>2. ASSUME NEW q \in Project, NEW g \in File, confirm'[q].file = g, g \in Linked(q)
        PROVE  <<q, "artifacts">> \in place'[g]
    <3>1. CASE q = p
      <4>1. g = f /\ row[f].path # "none" /\ row[f].project = p
        BY <1>b, <2>2, <3>1 DEF Linked
      <4>2. CASE Staging \in place[f]
        BY <1>b, <1>c, <3>1, <4>1, <4>2
      <4>3. CASE Staging \notin place[f]
        <5>1. row[f].path \in {"staging", "artifacts"}
          BY <4>1 DEF Move, IInv, TypeOK, FileRow, RepairInOrder, Linked
        <5>2. <<p, "artifacts">> \in place[f]
          BY <4>1, <4>3, <5>1 DEF IInv, FileIsKept, Named
        <5>3. QED
          BY <1>b, <1>c, <1>d, <3>1, <4>1, <5>2
      <4>4. QED
        BY <4>2, <4>3
    <3>2. CASE q # p
      <4>1. <<q, "artifacts">> \in place[g]
        BY <1>b, <2>2, <3>2 DEF IInv, MoveInOrder
      <4>2. QED
        BY <1>b, <1>c, <1>d, <4>1
    <3>3. QED
      BY <3>1, <3>2
  <2>3. UNCHANGED <<row, upload>>
    BY DEF Move
  <2>4. QED
    BY <1>b, <2>1, <2>2, <2>3, NoneAssumption DEF IInv, MoveInOrder, Linked
<1>5. FileIsKept'
  <2>1. SUFFICES ASSUME NEW g \in File, row'[g].path # "none"
                 PROVE  \/ Named(g)' \in place'[g]
                        \/ /\ row'[g].path = "staging"
                           /\ <<row'[g].project, "artifacts">> \in place'[g]
                           /\ BeingMoved(g)' \/ g \in cutOff'
                        \/ ~up' /\ ToRepair(g)' /\ Target(g)' \in place'[g]
    BY DEF FileIsKept
  <2>2. UNCHANGED <<row, cutOff, up>>
    BY DEF Move
  <2>3. CASE g = f
    <3>1. row[f].project = p /\ row[f] \in FileRow
      BY <2>1, <2>2, <2>3 DEF Move, IInv, TypeOK, MoveInOrder
    <3>2. BeingMoved(f)'
      BY <1>b DEF BeingMoved
    <3>3. CASE row[f].path = "staging"
      <4>1. \/ Staging \in place[f] \/ <<p, "artifacts">> \in place[f]
            \/ (~up /\ ToRepair(f) /\ Target(f) \in place[f])
        BY <2>1, <2>2, <2>3, <3>1, <3>3 DEF IInv, FileIsKept, Named
      <4>2. Target(f) # Staging /\ <<p, "artifacts">> # Staging
        BY <1>d, <3>1 DEF Target
      <4>3. <<p, "artifacts">> \in places \/ (~up /\ ToRepair(f) /\ Target(f) \in places)
        BY <1>c, <4>1, <4>2
      <4>4. QED
        BY <1>b, <2>2, <2>3, <3>1, <3>2, <3>3, <4>3 DEF ToRepair, Target
    <3>4. CASE row[f].path # "staging"
      <4>1. row[f].path \in {"artifacts", "migrated"} /\ Named(f) \in place[f]
        BY <2>1, <2>2, <2>3, <3>1, <3>4 DEF IInv, FileIsKept, FileRow, ToRepair
      <4>2. Named(f) # Staging
        BY <1>d, <3>1, <3>4, <4>1 DEF Named
      <4>3. Named(f) \in place'[f]
        BY <1>b, <1>c, <4>1, <4>2
      <4>4. QED
        BY <2>2, <2>3, <4>3 DEF Named
    <3>5. QED
      BY <3>3, <3>4
  <2>4. CASE g # f
    <3>1. BeingMoved(g) => BeingMoved(g)'
      BY <1>b, NoneAssumption DEF BeingMoved
    <3>2. place'[g] = place[g]
      BY <1>b, <2>4
    <3>3. QED
      BY <2>1, <2>2, <3>1, <3>2 DEF IInv, FileIsKept, Named, ToRepair, Target
  <2>5. QED
    BY <2>3, <2>4
<1>6. ConfirmInOrder'
  BY DEF Move, IInv, ConfirmInOrder, TypeOK, Present, Linked
<1>7. FileIsReadable'
  BY <1>5, Readable
<1>8. QED
  BY <1>1, <1>2, <1>3, <1>4, <1>5, <1>6, <1>7 DEF IInv

LEMMA IndexStep ==
  ASSUME IInv, TypeOK', RepairInOrder', NEW p \in Project, NEW f \in File, Index(p, f),
         up, UNCHANGED <<cutOff, up, crashes>>
  PROVE  IInv'
<1>1. UploadInOrder' /\ BootstrapFindsAll'
  BY Undisturbed DEF Index, IInv
<1>2. ProjectInOrder'
  BY DEF Index, IInv, ProjectInOrder, TypeOK, Present
<1>3. MoveInOrder'
  BY DEF Index, IInv, MoveInOrder, Linked
<1>4. ConfirmInOrder'
  BY DEF Index, IInv, ConfirmInOrder, Present, Linked
<1>5. FileIsKept'
  <2>1. \A q \in Project : confirm'[q].file = confirm[q].file
    BY DEF Index, IInv, TypeOK, Confirmation
  <2>2. QED
    BY <2>1, Undisturbed DEF data, Index, IInv
<1>6. QED
  BY <1>1, <1>2, <1>3, <1>4, <1>5, Readable DEF IInv

LEMMA BeginUploadStep ==
  ASSUME IInv, TypeOK', RepairInOrder', NEW f \in File, BeginUpload(f),
         up, UNCHANGED <<cutOff, up, crashes>>
  PROVE  IInv'
<1>1. ProjectInOrder' /\ FileIsKept' /\ ConfirmInOrder' /\ FileIsReadable' /\ BootstrapFindsAll'
  BY Undisturbed DEF data, requests, BeginUpload, IInv
<1>2. UploadInOrder'
  BY DEF data, BeginUpload, IInv, UploadInOrder, ProjectInOrder, Present
<1>3. MoveInOrder'
  BY DEF data, BeginUpload, IInv, MoveInOrder, Linked
<1>4. QED
  BY <1>1, <1>2, <1>3 DEF IInv

LEMMA WriteFileStep ==
  ASSUME IInv, TypeOK', RepairInOrder', NEW f \in File, WriteFile(f),
         up, UNCHANGED <<cutOff, up, crashes>>
  PROVE  IInv'
<1>1. ProjectInOrder' /\ ConfirmInOrder' /\ BootstrapFindsAll'
  BY Undisturbed DEF WriteFile, IInv
<1>2. UploadInOrder'
  BY NoneAssumption DEF WriteFile, IInv, UploadInOrder, TypeOK, Directory, Present
<1>3. MoveInOrder'
  <2>1. row[f].path = "none"
    BY DEF WriteFile, IInv, UploadInOrder, NoRow
  <2>2. \A g \in File : g # f => place'[g] = place[g] /\ upload'[g] = upload[g]
    BY DEF WriteFile, IInv, TypeOK
  <2>3. UNCHANGED <<row, confirm>> /\ upload[f].at \in {"write", "scan"}
    BY DEF WriteFile
  <2>4. \A q \in Project : f \notin confirm[q].files
    BY <2>3 DEF IInv, MoveInOrder
  <2>5. \A q \in Project : \A g \in confirm[q].files : g \in File /\ upload'[g] = upload[g]
    BY <2>2, <2>4 DEF IInv, TypeOK, Confirmation
  <2>6. \A q \in Project, g \in File :
          confirm[q].file = g /\ g \in Linked(q) => <<q, "artifacts">> \in place'[g]
    BY <2>1, <2>2 DEF IInv, MoveInOrder, Linked
  <2>7. QED
    BY <2>3, <2>5, <2>6 DEF IInv, MoveInOrder, Linked
<1>4. FileIsKept'
  <2>1. row[f].path = "none"
    BY DEF WriteFile, IInv, UploadInOrder, NoRow
  <2>2. \A g \in File : g # f => place'[g] = place[g]
    BY DEF WriteFile, IInv, TypeOK
  <2>3. UNCHANGED <<row, confirm, cutOff, up>>
    BY DEF WriteFile
  <2>4. QED
    BY <2>1, <2>2, <2>3 DEF IInv, FileIsKept, BeingMoved, Named, ToRepair, Target
<1>5. FileIsReadable'
  BY <1>4, Readable
<1>6. QED
  BY <1>1, <1>2, <1>3, <1>4, <1>5 DEF IInv

LEMMA ScanFailsStep ==
  ASSUME IInv, TypeOK', RepairInOrder', NEW f \in File, ScanFails(f),
         up, UNCHANGED <<cutOff, up, crashes>>
  PROVE  IInv'
<1>1. ProjectInOrder' /\ ConfirmInOrder' /\ BootstrapFindsAll'
  BY Undisturbed DEF ScanFails, IInv
<1>2. UploadInOrder'
  BY DEF ScanFails, IInv, UploadInOrder, TypeOK, Present
<1>3. MoveInOrder'
  <2>1. row[f].path = "none"
    BY DEF ScanFails, IInv, UploadInOrder, NoRow
  <2>2. \A g \in File : g # f => place'[g] = place[g] /\ upload'[g] = upload[g]
    BY DEF ScanFails, IInv, TypeOK
  <2>3. UNCHANGED <<row, confirm>> /\ upload[f].at \in {"write", "scan"}
    BY DEF ScanFails
  <2>4. \A q \in Project : f \notin confirm[q].files
    BY <2>3 DEF IInv, MoveInOrder
  <2>5. \A q \in Project : \A g \in confirm[q].files : g \in File /\ upload'[g] = upload[g]
    BY <2>2, <2>4 DEF IInv, TypeOK, Confirmation
  <2>6. \A q \in Project, g \in File :
          confirm[q].file = g /\ g \in Linked(q) => <<q, "artifacts">> \in place'[g]
    BY <2>1, <2>2 DEF IInv, MoveInOrder, Linked
  <2>7. QED
    BY <2>3, <2>5, <2>6 DEF IInv, MoveInOrder, Linked
<1>4. FileIsKept'
  <2>1. row[f].path = "none"
    BY DEF ScanFails, IInv, UploadInOrder, NoRow
  <2>2. \A g \in File : g # f => place'[g] = place[g]
    BY DEF ScanFails, IInv, TypeOK
  <2>3. UNCHANGED <<row, confirm, cutOff, up>>
    BY DEF ScanFails
  <2>4. QED
    BY <2>1, <2>2, <2>3 DEF IInv, FileIsKept, BeingMoved, Named, ToRepair, Target
<1>5. FileIsReadable'
  BY <1>4, Readable
<1>6. QED
  BY <1>1, <1>2, <1>3, <1>4, <1>5 DEF IInv

LEMMA InsertRowStep ==
  ASSUME IInv, TypeOK', RepairInOrder', NEW f \in File, InsertRow(f),
         up, UNCHANGED <<cutOff, up, crashes>>
  PROVE  IInv'
<1>1. UploadInOrder'
  BY DEF InsertRow, IInv, UploadInOrder, TypeOK, Present
<1>2. ProjectInOrder'
  BY DEF InsertRow, IInv, ProjectInOrder, UploadInOrder, TypeOK, Present, NoRow
<1>3. MoveInOrder'
  BY NoneAssumption DEF InsertRow, IInv, MoveInOrder, Linked
<1>4. FileIsKept'
  <2>1. UNCHANGED <<place, confirm, cutOff, up>>
    BY DEF InsertRow
  <2>2. \A g \in File : g # f => row'[g] = row[g]
    BY DEF InsertRow, IInv, TypeOK
  <2>3. row'[f].path # "none" => Named(f)' \in place[f]
    <3>1. SUFFICES ASSUME row'[f].path # "none" PROVE Named(f)' \in place[f]
      OBVIOUS
    <3>2. upload[f].at = "scan" /\ row[f].path = "none" /\ upload[f].project \in Project \cup {None}
      BY DEF InsertRow, IInv, TypeOK, Upload, UploadInOrder, NoRow
    <3>3. /\ upload[f].project = None \/ Present(upload[f].project)
          /\ row'[f] = [path |-> IF upload[f].project = None THEN "staging" ELSE "artifacts",
                        project |-> upload[f].project]
      BY <3>1, <3>2 DEF InsertRow, IInv, TypeOK
    <3>4. CASE upload[f].project = None
      BY <3>2, <3>3, <3>4 DEF IInv, UploadInOrder, Named, Staging
    <3>5. CASE upload[f].project # None
      BY <3>2, <3>3, <3>5 DEF IInv, UploadInOrder, Named
    <3>6. QED
      BY <3>4, <3>5
  <2>4. QED
    BY <2>1, <2>2, <2>3 DEF IInv, FileIsKept, BeingMoved, Named, ToRepair, Target
<1>5. ConfirmInOrder'
  BY NoneAssumption DEF InsertRow, IInv, ConfirmInOrder, Present, Linked
<1>6. FileIsReadable'
  BY <1>4, Readable
<1>7. BootstrapFindsAll'
  BY NoneAssumption DEF InsertRow, IInv, BootstrapFindsAll, Linked
<1>8. QED
  BY <1>1, <1>2, <1>3, <1>4, <1>5, <1>6, <1>7 DEF IInv

LEMMA EnqueueIndexStep ==
  ASSUME IInv, TypeOK', RepairInOrder', NEW f \in File, EnqueueIndex(f),
         up, UNCHANGED <<cutOff, up, crashes>>
  PROVE  IInv'
<1>1. ProjectInOrder' /\ FileIsKept' /\ ConfirmInOrder' /\ FileIsReadable' /\ BootstrapFindsAll'
  BY Undisturbed DEF EnqueueIndex, IInv
<1>2. UploadInOrder'
  BY DEF EnqueueIndex, IInv, UploadInOrder, Present
<1>3. MoveInOrder'
  BY DEF EnqueueIndex, IInv, MoveInOrder, Linked
<1>4. QED
  BY <1>1, <1>2, <1>3 DEF IInv

LEMMA DeleteStep ==
  ASSUME IInv, TypeOK', RepairInOrder', NEW p \in Project, Delete(p),
         up, UNCHANGED <<cutOff, up, crashes>>
  PROVE  IInv'
\* Files stay except in the places of the project, rows of others too.
<1>a. \A f \in File, d \in Places : d \in place[f] /\ d[1] # p => d \in place'[f]
  BY DEF Delete
<1>b. \A f \in File : row'[f] = NoRow \/ (row'[f] = row[f] /\ row[f].project # p)
  BY DEF Delete, Linked, IInv, ProjectInOrder
<1>c. Staging \in Places /\ Staging[1] = None /\ None # p
  BY NoneAssumption DEF Staging, Places
<1>d. \A q \in Project, n \in {"artifacts", "migrated"} :
        <<q, n>> \in Places /\ <<q, n>>[1] = q
  BY DEF Places
<1>1. UploadInOrder'
  <2>1. \A q \in Project : Present(q)' => Present(q) /\ q # p
    BY DEF Delete, IInv, TypeOK, Present
  <2>2. \A q \in Project : project[q].state # "absent" => project'[q].state # "absent"
    BY DEF Delete, IInv, TypeOK
  <2>3. upload' = upload
    BY DEF Delete
  <2>4. QED
    BY <1>a, <1>b, <1>c, <1>d, <2>1, <2>2, <2>3 DEF IInv, UploadInOrder
<1>2. ProjectInOrder'
  <2>1. \A q \in Project : q # p => project'[q] = project[q]
    BY DEF Delete, IInv, TypeOK
  <2>2. \A f \in File : row'[f] = IF f \in Linked(p) \/ session.project = p
                                  THEN NoRow ELSE row[f]
    BY DEF Delete
  <2>3. session'.project = IF session.project = p THEN None ELSE session.project
    BY DEF Delete, IInv, TypeOK, SessionRow
  <2>4. \A q \in Project : session'.project = q => Present(q)'
    BY <2>1, <2>3, NoneAssumption DEF IInv, ProjectInOrder, Present
  <2>5. confirm[p].at \notin {"idle", "slug"} /\ confirm' = confirm
    BY DEF Delete, IInv, ProjectInOrder, Present, NoProject
  <2>6. \A q \in Project : confirm'[q].at \in {"idle", "slug"} => project'[q] = NoProject
    BY <2>1, <2>5 DEF IInv, ProjectInOrder
  <2>7. \A f \in File, q \in Project : row'[f].project = q => Present(q)'
    BY <2>1, <2>2, NoneAssumption DEF IInv, ProjectInOrder, Present, Linked, NoRow
  <2>8. \A f \in File : /\ row'[f].path = "none" => row'[f] = NoRow
                        /\ row'[f].path \in {"artifacts", "migrated"} => row'[f].project # None
    BY <2>2 DEF IInv, ProjectInOrder, NoRow
  <2>9. QED
    BY <2>4, <2>6, <2>7, <2>8 DEF ProjectInOrder
<1>3. MoveInOrder'
  <2>1. UNCHANGED <<confirm, upload, up>>
    BY DEF Delete
  <2>2. \A q \in Project, f \in File : f \in Linked(q)' => f \in Linked(q) /\ q # p
    BY <1>b DEF Linked, NoRow
  <2>3. \A q \in Project : confirm[q].files \subseteq File
    BY DEF IInv, TypeOK, Confirmation
  <2>4. \A f \in File : row'[f].path = "none" \/ row'[f] = row[f]
    BY <1>b DEF NoRow
  <2>5. \A q \in Project, f \in File :
          confirm[q].file = f /\ f \in Linked(q)' => <<q, "artifacts">> \in place'[f]
    <3>1. SUFFICES ASSUME NEW q \in Project, NEW f \in File, confirm[q].file = f, f \in Linked(q)'
                   PROVE  <<q, "artifacts">> \in place'[f]
      OBVIOUS
    <3>2. <<q, "artifacts">> \in place[f] /\ q # p
      BY <2>2, <3>1 DEF IInv, MoveInOrder
    <3>3. QED
      BY <1>a, <1>d, <3>2
  <2>6. ASSUME NEW q \in Project, NEW f \in confirm[q].files, row'[f].path # "none"
        PROVE  row'[f].project = q
    <3>1. f \in File /\ row'[f] = row[f]
      BY <2>3, <2>4, <2>6
    <3>2. row[f].path # "none" => row[f].project = q
      BY DEF IInv, MoveInOrder
    <3>3. QED
      BY <2>6, <3>1, <3>2
  <2>7. QED
    BY <2>1, <2>3, <2>5, <2>6 DEF IInv, MoveInOrder
<1>4. FileIsKept'
  <2>1. SUFFICES ASSUME NEW f \in File, row'[f].path # "none"
                 PROVE  \/ Named(f)' \in place'[f]
                        \/ /\ row'[f].path = "staging"
                           /\ <<row'[f].project, "artifacts">> \in place'[f]
                           /\ BeingMoved(f)' \/ f \in cutOff'
                        \/ ~up' /\ ToRepair(f)' /\ Target(f)' \in place'[f]
    BY DEF FileIsKept
  <2>2. row'[f] = row[f] /\ row[f].project # p /\ row[f] \in FileRow
    BY <1>b, <2>1 DEF NoRow, IInv, TypeOK
  <2>3. UNCHANGED <<confirm, cutOff, up>>
    BY DEF Delete
  <2>4. row[f].path \in {"artifacts", "migrated"} => row[f].project \in Project
    BY <2>2 DEF IInv, ProjectInOrder, FileRow
  <2>5. Named(f) \in Places /\ Named(f)[1] # p
    BY <1>c, <1>d, <2>1, <2>2, <2>4 DEF Named, FileRow
  <2>6. place[f] \subseteq Places
    BY DEF IInv, TypeOK
  <2>7. QED
    BY <1>a, <2>1, <2>2, <2>3, <2>5, <2>6 DEF IInv, FileIsKept, BeingMoved, Named, ToRepair, Target
<1>5. ConfirmInOrder'
  BY DEF requests, Delete, IInv, ConfirmInOrder, Present, Linked, NoRow, NoProject
<1>6. FileIsReadable'
  BY <1>4, Readable
<1>7. BootstrapFindsAll'
  BY DEF Delete, IInv, BootstrapFindsAll, Linked, NoRow, NoProject
<1>8. QED
  BY <1>1, <1>2, <1>3, <1>4, <1>5, <1>6, <1>7 DEF IInv

LEMMA CrashStep ==
  ASSUME IInv, TypeOK', RepairInOrder', Crash
  PROVE  IInv'
<1>1. BootstrapFindsAll'
  BY Undisturbed DEF data, requests, Crash, IInv
<1>2. UploadInOrder'
  BY NoneAssumption DEF data, Crash, IInv, UploadInOrder
<1>3. ProjectInOrder'
  BY DEF data, Crash, IInv, ProjectInOrder, TypeOK, Present
<1>4. MoveInOrder'
  BY NoneAssumption DEF Crash, MoveInOrder, Idle
<1>5. ConfirmInOrder'
  BY DEF data, Crash, IInv, ConfirmInOrder, Idle, Present
<1>6. FileIsKept'
  <2>1. \A f \in File : BeingMoved(f) => f \in cutOff'
    BY DEF Crash, BeingMoved
  <2>2. UNCHANGED <<row, place>> /\ cutOff \subseteq cutOff' /\ up
    BY DEF data, Crash
  <2>3. QED
    BY <2>1, <2>2 DEF IInv, FileIsKept, Named
<1>7. QED
  BY <1>1, <1>2, <1>3, <1>4, <1>5, <1>6, Readable DEF IInv

LEMMA RestartStep ==
  ASSUME IInv, TypeOK', RepairInOrder', Restart
  PROVE  IInv'
<1> USE NoneAssumption
<1>a. ASSUME NEW f \in File
      PROVE  /\ place'[f] \in Migrated(f) /\ row'[f] = Repaired(f, place'[f])
             /\ row[f] \in FileRow /\ place[f] \subseteq Places
  BY DEF Restart, IInv, TypeOK
\* The repair changes rows in staging that have a project, and leaves no place but staging.
<1>b. ASSUME NEW f \in File
      PROVE  /\ \/ row'[f] = row[f]
                \/ /\ ToRepair(f) /\ row'[f].path = "migrated"
                   /\ row'[f].project = row[f].project
             /\ \A d \in place[f] : d # Staging => d \in place'[f]
             /\ ~ToRepair(f) => place'[f] = place[f]
  BY <1>a DEF Repaired, Migrated, Moved, FileRow
<1>c. \A q \in Project, n \in {"artifacts", "migrated"} : <<q, n>> # Staging
  BY DEF Staging
<1>1. FileIsKept'
  <2>1. SUFFICES ASSUME NEW f \in File, row'[f].path # "none"
                 PROVE  \/ Named(f)' \in place'[f]
                        \/ /\ row'[f].path = "staging"
                           /\ <<row'[f].project, "artifacts">> \in place'[f]
                           /\ BeingMoved(f)' \/ f \in cutOff'
                        \/ ~up' /\ ToRepair(f)' /\ Target(f)' \in place'[f]
    BY DEF FileIsKept
  <2>2. UNCHANGED <<confirm, cutOff>> /\ row[f].path # "none"
    BY <1>b, <2>1 DEF requests, Restart, ToRepair
  <2>3. CASE ~ToRepair(f)
    BY <1>b, <2>1, <2>2, <2>3 DEF IInv, FileIsKept, BeingMoved, Named, ToRepair
  <2>4. CASE ToRepair(f)
    <3>1. row[f].path = "staging" /\ row[f].project \in Project
      BY <1>a, <2>4 DEF ToRepair, FileRow
    <3>2. CASE Target(f) \in place'[f]
      <4>1. row'[f].path = "migrated" /\ row'[f].project = row[f].project
        BY <1>a, <2>4, <3>2 DEF Repaired, FileRow
      <4>2. QED
        BY <3>2, <4>1 DEF Named, Target
    <3>3. CASE Target(f) \notin place'[f]
      <4>1. row'[f] = row[f] /\ Target(f) \notin place[f]
        BY <1>a, <1>b, <1>c, <3>1, <3>3 DEF Repaired, Target
      <4>2. Staging \notin place[f]
        BY <1>a, <2>4, <3>3, <4>1 DEF Migrated, Moved
      <4>3. <<row[f].project, "artifacts">> \in place[f] /\ (BeingMoved(f) \/ f \in cutOff)
        BY <2>2, <3>1, <4>1, <4>2 DEF IInv, FileIsKept, Named
      <4>4. QED
        BY <1>b, <1>c, <2>2, <3>1, <4>1, <4>3 DEF BeingMoved
    <3>4. QED
      BY <3>2, <3>3
  <2>5. QED
    BY <2>3, <2>4
<1>2. UploadInOrder'
  <2>1. UNCHANGED <<upload, project>>
    BY DEF requests, Restart
  <2>2. \A f \in File : upload[f].at \in {"idle", "write", "scan"} => ~ToRepair(f)
    BY DEF IInv, UploadInOrder, ToRepair, NoRow
  <2>3. QED
    BY <1>b, <2>1, <2>2 DEF IInv, UploadInOrder, Present, ToRepair
<1>3. ProjectInOrder'
  <2>1. UNCHANGED <<session, project, confirm>>
    BY DEF requests, Restart
  <2>2. QED
    BY <1>b, <2>1 DEF IInv, ProjectInOrder, Present, ToRepair
<1>4. MoveInOrder'
  <2>1. \A q \in Project : confirm[q].at \in {"idle", "done"}
    BY DEF Restart, IInv, RepairInOrder
  <2>2. \A q \in Project : confirm[q].files = {} /\ confirm[q].file = None
    BY <2>1 DEF IInv, MoveInOrder
  <2>3. confirm' = confirm
    BY DEF requests, Restart
  <2>4. QED
    BY <2>1, <2>2, <2>3 DEF MoveInOrder
<1>5. ConfirmInOrder'
  BY DEF requests, Restart, IInv, ConfirmInOrder, Repaired, ToRepair, Target, Present, Linked
<1>6. BootstrapFindsAll'
  BY DEF Restart, IInv, BootstrapFindsAll, Repaired, ToRepair, Target, Linked
<1>7. QED
  BY <1>1, <1>2, <1>3, <1>4, <1>5, <1>6, Readable DEF IInv

LEMMA DieRepairingStep ==
  ASSUME IInv, TypeOK', RepairInOrder', NEW f \in File, DieRepairing(f)
  PROVE  IInv'
<1> USE NoneAssumption
<1>a. PICK places \in Migrated(f) : place' = [place EXCEPT ![f] = places]
  BY DEF DieRepairing
<1>b. /\ place'[f] = places
      /\ \A g \in File : g # f => place'[g] = place[g]
      /\ UNCHANGED <<session, project, row, indexed, declared, requests, cutOff, up>>
      /\ ~up /\ ToRepair(f)
  BY <1>a DEF DieRepairing, IInv, TypeOK
<1>c. /\ \A d \in place[f] : d # Staging => d \in places
      /\ Staging \in place[f] => Target(f) \in places
  BY <1>a, <1>b DEF Migrated, Moved
<1>d. \A q \in Project, n \in {"artifacts", "migrated"} : <<q, n>> # Staging
  BY DEF Staging
<1>1. ProjectInOrder' /\ ConfirmInOrder' /\ BootstrapFindsAll'
  BY <1>b, Undisturbed DEF requests, IInv
<1>2. UploadInOrder'
  <2>1. upload[f].at \notin {"idle", "write", "scan"}
    BY <1>b DEF IInv, UploadInOrder, ToRepair, NoRow
  <2>2. QED
    BY <1>b, <2>1 DEF requests, IInv, UploadInOrder, Present
<1>3. MoveInOrder'
  <2>1. \A q \in Project : confirm[q].at \in {"idle", "done"}
    BY <1>b DEF IInv, RepairInOrder
  <2>2. \A q \in Project : confirm[q].files = {} /\ confirm[q].file = None
    BY <2>1 DEF IInv, MoveInOrder
  <2>3. QED
    BY <1>b, <2>1, <2>2 DEF requests, MoveInOrder
<1>4. FileIsKept'
  <2>1. SUFFICES ASSUME NEW g \in File, row'[g].path # "none"
                 PROVE  \/ Named(g)' \in place'[g]
                        \/ /\ row'[g].path = "staging"
                           /\ <<row'[g].project, "artifacts">> \in place'[g]
                           /\ BeingMoved(g)' \/ g \in cutOff'
                        \/ ~up' /\ ToRepair(g)' /\ Target(g)' \in place'[g]
    BY DEF FileIsKept
  <2>2. UNCHANGED <<row, confirm, cutOff, up>>
    BY <1>b DEF requests
  <2>3. CASE g # f
    BY <1>b, <2>1, <2>2, <2>3 DEF IInv, FileIsKept, BeingMoved, Named, ToRepair, Target
  <2>4. CASE g = f
    <3>1. row[f].path = "staging" /\ row[f].project \in Project
      BY <1>b DEF IInv, TypeOK, ToRepair, FileRow
    <3>2. \/ Staging \in place[f]
          \/ <<row[f].project, "artifacts">> \in place[f] /\ (BeingMoved(f) \/ f \in cutOff)
          \/ Target(f) \in place[f]
      BY <2>1, <2>2, <2>4, <3>1 DEF IInv, FileIsKept, Named
    <3>3. \/ <<row[f].project, "artifacts">> \in places /\ (BeingMoved(f) \/ f \in cutOff)
          \/ Target(f) \in places
      BY <1>c, <1>d, <3>1, <3>2 DEF Target
    <3>4. QED
      BY <1>b, <2>2, <2>4, <3>1, <3>3 DEF BeingMoved, ToRepair, Target
  <2>5. QED
    BY <2>3, <2>4
<1>5. QED
  BY <1>1, <1>2, <1>3, <1>4, Readable DEF IInv

LEMMA InvStep == IInv /\ [Next]_vars => IInv'
<1> SUFFICES ASSUME IInv, [Next]_vars PROVE IInv'
  OBVIOUS
<1>1. TypeOK' /\ RepairInOrder'
  BY TypeStep, RepairStep DEF IInv
<1>2. CASE UNCHANGED vars
  BY <1>1, <1>2, Undisturbed DEF vars, data, requests, IInv
<1>3. CASE up /\ Request /\ UNCHANGED <<cutOff, up, crashes>>
  <2>1. ASSUME NEW t \in Turn, BeginTurn(t) \/ EndTurn(t) \/ TurnFails(t) PROVE IInv'
    BY <1>1, <1>3, <2>1, BeginTurnStep, EndTurnStep, TurnFailsStep
  <2>2. ASSUME NEW p \in Project, ConfirmStep(p) PROVE IInv'
    <3>1. ASSUME NEW f \in File, Move(p, f) \/ Index(p, f) PROVE IInv'
      BY <1>1, <1>3, <3>1, MoveStep, IndexStep
    <3>2. QED
      BY <1>1, <1>3, <2>2, <3>1, BeginConfirmStep, CreateProjectStep, ListUploadsStep,
         UpdatePathStep, RememberStep, BootstrapStep, ConfirmFailsStep DEF ConfirmStep
  <2>3. ASSUME NEW p \in Project, Delete(p) PROVE IInv'
    BY <1>1, <1>3, <2>3, DeleteStep
  <2>4. ASSUME NEW f \in File, UploadStep(f) PROVE IInv'
    BY <1>1, <1>3, <2>4, BeginUploadStep, WriteFileStep, ScanFailsStep, InsertRowStep,
       EnqueueIndexStep DEF UploadStep
  <2>5. QED
    BY <1>3, <2>1, <2>2, <2>3, <2>4 DEF Request
<1>4. CASE Crash
  BY <1>1, <1>4, CrashStep
<1>5. CASE Restart
  BY <1>1, <1>5, RestartStep
<1>6. ASSUME NEW f \in File, DieRepairing(f) PROVE IInv'
  BY <1>1, <1>6, DieRepairingStep
<1>7. QED
  BY <1>2, <1>3, <1>4, <1>5, <1>6 DEF Next

LEMMA InductiveInv == Spec => []IInv
<1>1. IInv /\ UNCHANGED vars => IInv'
  BY InvStep
<1>2. QED
  BY InitInv, InvStep, PTL DEF Spec

-----------------------------------------------------------------------------
\* Every row, path and request is at all times what the code can have written.
THEOREM TypeCorrect == Spec => []TypeOK
<1>1. IInv => TypeOK
  BY DEF IInv
<1>2. QED
  BY <1>1, InductiveInv, PTL

\* What uploaded_files says can be read, or is in the directory of the project to which
\* a confirmation in progress, or one that a death cut off, has renamed it, however many
\* confirmations, deletions, repairs and deaths there are
\* (moveSessionUploadsIntoProject, migrateRows).
THEOREM FilesAreReadable == Spec => []FileIsReadable
<1>1. IInv => FileIsReadable
  BY DEF IInv
<1>2. QED
  BY <1>1, InductiveInv, PTL

\* The bootstrap task finds a draft that was ready, the workspace, and no upload
\* of the project in staging (POST /api/projects).
THEOREM BootstrapIsComplete == Spec => []BootstrapFindsAll
<1>1. IInv => BootstrapFindsAll
  BY DEF IInv
<1>2. QED
  BY <1>1, InductiveInv, PTL
=============================================================================
