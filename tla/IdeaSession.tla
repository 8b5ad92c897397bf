---------------------------- MODULE IdeaSession ----------------------------
(***************************************************************************)
(* From a conversation to a project (index.ts): chat turns that refine the *)
(* draft of an idea, its confirmation, which creates a project and moves   *)
(* the session's uploads into it (project-service.ts, project-storage.ts), *)
(* uploads at any time, deletion of a project (project-delete-service.ts), *)
(* and the repair of paths at startup (project-artifact-migration.ts).     *)
(*                                                                         *)
(* One session.  A request is a coroutine; a step is what it does between  *)
(* two awaits.  A draft is named after the turn that wrote it.  Chat turns *)
(* about a project change nothing here.  The semantic memory is configured.*)
(***************************************************************************)
EXTENDS Naturals

CONSTANTS
  Turn,        \* chat turns about the idea
  Project,     \* identities of projects: each confirmation draws a new one
  File,        \* identities of uploads
  None,        \* no project, no draft, no file
  MaxCrashes   \* bound: how often the server dies

ASSUME CrashAssumption == MaxCrashes \in Nat
ASSUME NoneAssumption == None \notin Turn \cup Project \cup File

VARIABLES
  session,   \* row of conversation_sessions
  project,   \* rows of projects, their workspace, Idea v1 and bootstrap task
  row,       \* rows of uploaded_files: path and project
  place,     \* directories in which the file of an upload is
  indexed,   \* project of the material_index task of an upload
  turn, confirm, upload,   \* the requests in progress
  declared,  \* history: drafts that their turn found ready
  cutOff,    \* history: files that a death found renamed by a confirmation, not updated
  up, crashes

data == <<session, project, row, place, indexed, declared>>
requests == <<turn, confirm, upload>>
vars == <<data, requests, cutOff, up, crashes>>

Idle == [at |-> "idle", draft |-> None, files |-> {}, file |-> None]
NoRow == [path |-> "none", project |-> None]
NoProject == [state |-> "absent", workspace |-> FALSE, idea |-> None, bootstrap |-> FALSE]

SessionRow == [state : {"none", "open", "deleted"}, project : Project \cup {None},
               phase : {"clarifying", "ready_for_confirmation", "supervising"},
               draft : Turn \cup {None}]
ProjectRow == [state : {"absent", "present", "deleted"}, workspace : BOOLEAN,
               idea : Turn \cup {None}, bootstrap : BOOLEAN]
FileRow == [path : {"none", "staging", "artifacts", "migrated"}, project : Project \cup {None}]
Confirmation == [at : {"idle", "slug", "list", "move", "update", "index", "done"},
                 draft : Turn \cup {None}, files : SUBSET File,
                 file : File \cup {None}]   \* renamed, not yet updated
Upload == [at : {"idle", "write", "scan", "enqueue", "done"}, project : Project \cup {None}]

\* Three directories an upload may be in: that of the session in staging; the one of
\* its project that uploads and confirmations write to (artifacts/uploads); and the
\* one that the repair at startup moves to (artifacts/staging/uploads).
Staging == <<None, "staging">>
Places == {Staging} \cup Project \X {"artifacts", "migrated"}

\* projectFilePath: the place that a row names.
Named(f) == IF row[f].path = "staging" THEN Staging ELSE <<row[f].project, row[f].path>>

TypeOK ==
  /\ session \in SessionRow
  /\ project \in [Project -> ProjectRow]
  /\ row \in [File -> FileRow]
  /\ place \in [File -> SUBSET Places]
  /\ indexed \in [File -> Project \cup {None}]
  /\ turn \in [Turn -> {"idle", "model", "done"}]
  /\ confirm \in [Project -> Confirmation]
  /\ upload \in [File -> Upload]
  /\ declared \subseteq Turn
  /\ cutOff \subseteq File
  /\ up \in BOOLEAN
  /\ crashes \in 0..MaxCrashes

Init ==
  /\ session = [state |-> "none", project |-> None, phase |-> "clarifying", draft |-> None]
  /\ project = [p \in Project |-> NoProject]
  /\ row = [f \in File |-> NoRow]
  /\ place = [f \in File |-> {}]
  /\ indexed = [f \in File |-> None]
  /\ turn = [t \in Turn |-> "idle"]
  /\ confirm = [p \in Project |-> Idle]
  /\ upload = [f \in File |-> [at |-> "idle", project |-> None]]
  /\ declared = {}
  /\ cutOff = {}
  /\ up = TRUE
  /\ crashes = 0

Present(p) == project[p].state = "present"
Linked(p) == {f \in File : row[f].path # "none" /\ row[f].project = p}

-----------------------------------------------------------------------------
(* Chat: chatTurn *)

\* The first turn creates the session; a turn about a project is not followed.
BeginTurn(t) ==
  /\ turn[t] = "idle"
  /\ session.state # "deleted"
  /\ session.project = None
  /\ turn' = [turn EXCEPT ![t] = "model"]
  /\ session' = [session EXCEPT !.state = "open"]
  /\ UNCHANGED <<project, row, place, indexed, declared, confirm, upload>>

\* Both models have answered: draft and phase are written, whatever the
\* session has become.
EndTurn(t) ==
  /\ turn[t] = "model"
  /\ turn' = [turn EXCEPT ![t] = "done"]
  /\ \E ready \in BOOLEAN :
       /\ declared' = IF ready THEN declared \cup {t} ELSE declared
       /\ session' = IF session.state # "open" THEN session ELSE
            [session EXCEPT !.draft = t,
               !.phase = IF ready THEN "ready_for_confirmation" ELSE "clarifying"]
  /\ UNCHANGED <<project, row, place, indexed, confirm, upload>>

TurnFails(t) ==
  /\ turn[t] = "model"
  /\ turn' = [turn EXCEPT ![t] = "done"]
  /\ UNCHANGED <<data, confirm, upload>>

-----------------------------------------------------------------------------
(* Confirmation: POST /api/projects *)

Goto(p, at) == confirm' = [confirm EXCEPT ![p].at = at]

\* The request keeps the draft that it read together with the phase.
BeginConfirm(p) ==
  /\ confirm[p].at = "idle"
  /\ session.state = "open"
  /\ session.phase = "ready_for_confirmation"
  /\ confirm' = [confirm EXCEPT ![p].at = "slug", ![p].draft = session.draft]
  /\ UNCHANGED <<data, turn, upload>>

\* (The session is read again for the transaction.)
Draft_Latest(p) == session.draft
Draft(p) == confirm[p].draft

\* The transaction, and what follows it without yielding: the workspace, or
\* the attempt to delete the row, which Idea v1 refers to.
CreateProject(p) ==
  /\ confirm[p].at = "slug"
  /\ \E made \in BOOLEAN :
       /\ project' = [project EXCEPT ![p] =
            [state |-> "present", workspace |-> made, idea |-> Draft(p), bootstrap |-> FALSE]]
       /\ Goto(p, IF made THEN "list" ELSE "done")
  /\ session' = IF session.state # "open" THEN session ELSE
       [session EXCEPT !.project = p, !.phase = "supervising"]
  /\ row' = [f \in File |->
       IF row[f].path # "none" /\ row[f].project = None
         THEN [row[f] EXCEPT !.project = p] ELSE row[f]]
  /\ UNCHANGED <<place, indexed, declared, turn, upload>>

\* (All uploads of the session.)
Unmoved_Session(p) == {f \in File : row[f].path = "staging"}
Unmoved(p) == {f \in Linked(p) : row[f].path = "staging"}

ListUploads(p) ==
  /\ confirm[p].at = "list"
  /\ confirm' = [confirm EXCEPT ![p].at = "move", ![p].files = Unmoved(p)]
  /\ UNCHANGED <<data, turn, upload>>

\* moveIntoProject: what could not be renamed, because the project is on
\* another file system, is copied and stays in staging.
Moved(f, target) ==
  IF Staging \notin place[f] THEN {place[f]}
  ELSE {(place[f] \ {Staging}) \cup {target}, place[f] \cup {target}}

Move(p, f) ==
  /\ confirm[p].at = "move"
  /\ f \in confirm[p].files
  /\ \E places \in Moved(f, <<p, "artifacts">>) : place' = [place EXCEPT ![f] = places]
  /\ confirm' = [confirm EXCEPT ![p].at = "update", ![p].file = f]
  /\ UNCHANGED <<session, project, row, indexed, declared, turn, upload>>

UpdatePath(p) ==
  /\ confirm[p].at = "update"
  /\ LET f == confirm[p].file IN
       /\ row' = IF f \in Linked(p) THEN [row EXCEPT ![f].path = "artifacts"] ELSE row
       /\ confirm' = [confirm EXCEPT ![p].at = "move", ![p].file = None, ![p].files = @ \ {f}]
  /\ UNCHANGED <<session, project, place, indexed, declared, turn, upload>>

\* The conversation goes to the semantic memory, then the files are listed again.
Remember(p) ==
  /\ confirm[p].at = "move"
  /\ confirm[p].files = {}
  /\ confirm' = [confirm EXCEPT ![p].at = "index", ![p].files = Linked(p)]
  /\ UNCHANGED <<data, turn, upload>>

\* enqueue of a material_index task, whose key names the file.
Index(p, f) ==
  /\ confirm[p].at = "index"
  /\ f \in confirm[p].files
  /\ Present(p)
  /\ indexed' = [indexed EXCEPT ![f] = IF @ = None THEN p ELSE @]
  /\ confirm' = [confirm EXCEPT ![p].files = @ \ {f}]
  /\ UNCHANGED <<session, project, row, place, declared, turn, upload>>

Bootstrap(p) ==
  /\ confirm[p].at = "index"
  /\ confirm[p].files = {}
  /\ Present(p)
  /\ project' = [project EXCEPT ![p].bootstrap = TRUE]
  /\ Goto(p, "done")
  /\ UNCHANGED <<session, row, place, indexed, declared, turn, upload>>

\* The slug is refused, a file cannot be moved (the row of the project cannot
\* be deleted any more), the memory does not answer, or the project is gone.
ConfirmFails(p) ==
  /\ \/ confirm[p].at \in {"slug", "move"}
     \/ confirm[p].at = "index" /\ ~Present(p)
  /\ confirm' = [confirm EXCEPT ![p] = [Idle EXCEPT !.at = "done"]]
  /\ UNCHANGED <<data, turn, upload>>

-----------------------------------------------------------------------------
(* Uploads: POST /api/uploads *)

\* The project of the session, as read here, decides where the file goes.
BeginUpload(f) ==
  /\ upload[f].at = "idle"
  /\ session.state = "open"
  /\ upload' = [upload EXCEPT ![f] = [at |-> "write", project |-> session.project]]
  /\ UNCHANGED <<data, turn, confirm>>

\* (The directory of a project that there is not.)
Directory_Project(p) == <<p, "artifacts">>
Directory(p) == IF p = None THEN Staging ELSE <<p, "artifacts">>

WriteFile(f) ==
  /\ upload[f].at = "write"
  /\ place' = [place EXCEPT ![f] = {Directory(upload[f].project)}]
  /\ upload' = [upload EXCEPT ![f].at = "scan"]
  /\ UNCHANGED <<session, project, row, indexed, declared, turn, confirm>>

\* The scanner reports a threat, or does not work.
ScanFails(f) ==
  /\ upload[f].at = "scan"
  /\ place' = [place EXCEPT ![f] = {}]
  /\ upload' = [upload EXCEPT ![f].at = "done"]
  /\ UNCHANGED <<session, project, row, indexed, declared, turn, confirm>>

\* The INSERT needs the session and the project; the file stays without it.
InsertRow(f) ==
  /\ upload[f].at = "scan"
  /\ LET p == upload[f].project
         inserted == session.state = "open" /\ (p = None \/ Present(p))
     IN /\ row' = IF ~inserted THEN row ELSE [row EXCEPT ![f] =
             [path |-> IF p = None THEN "staging" ELSE "artifacts", project |-> p]]
        /\ upload' = [upload EXCEPT ![f].at =
             IF inserted /\ p # None THEN "enqueue" ELSE "done"]
  /\ UNCHANGED <<session, project, place, indexed, declared, turn, confirm>>

EnqueueIndex(f) ==
  /\ upload[f].at = "enqueue"
  /\ indexed' = IF Present(upload[f].project) /\ indexed[f] = None
                  THEN [indexed EXCEPT ![f] = upload[f].project] ELSE indexed
  /\ upload' = [upload EXCEPT ![f].at = "done"]
  /\ UNCHANGED <<session, project, row, place, declared, turn, confirm>>

-----------------------------------------------------------------------------
(* Deletion of a project: deleteProject, as far as sessions and files go *)

\* Rows go in a transaction, the directory of the project after it, unless
\* that fails.  With the session go all its uploads, of whatever project.  (When a
\* memory link of another project names one of these, the transaction is rolled
\* back by the foreign key, and nothing changes that this module is about.)
Delete(p) ==
  /\ Present(p)
  /\ \E cleaned \in BOOLEAN :
       /\ project' = [project EXCEPT ![p] = [NoProject EXCEPT
            !.state = "deleted", !.workspace = ~cleaned /\ project[p].workspace]]
       /\ place' = IF cleaned THEN [f \in File |-> {d \in place[f] : d[1] # p}] ELSE place
  /\ row' = [f \in File |->
       IF f \in Linked(p) \/ session.project = p THEN NoRow ELSE row[f]]
  /\ session' = IF session.project # p THEN session ELSE
       [session EXCEPT !.state = "deleted", !.project = None, !.draft = None]
  /\ indexed' = [f \in File |-> IF indexed[f] = p THEN None ELSE indexed[f]]
  /\ UNCHANGED <<declared, requests>>

-----------------------------------------------------------------------------
(* Death and restart *)

Crash ==
  /\ up
  /\ crashes < MaxCrashes
  /\ up' = FALSE
  /\ crashes' = crashes + 1
  /\ turn' = [t \in Turn |-> IF turn[t] = "idle" THEN "idle" ELSE "done"]
  /\ confirm' = [p \in Project |-> IF confirm[p].at = "idle" THEN Idle
                                   ELSE [Idle EXCEPT !.at = "done"]]
  /\ upload' = [f \in File |-> IF upload[f].at = "idle" THEN upload[f]
                               ELSE [at |-> "done", project |-> None]]
  /\ cutOff' = cutOff \cup {f \in File : \E p \in Project : confirm[p].file = f}
  /\ UNCHANGED data

\* migrateRows, for one upload.  Its target is artifacts/ before the path of the row,
\* for a row in staging another place than the one a confirmation moves to: what a
\* confirmation has renamed is not found there.
Target(f) == <<row[f].project, "migrated">>
ToRepair(f) == row[f].path = "staging" /\ row[f].project # None

\* The file is moved unless the target exists ...
Migrated(f) ==
  IF ~ToRepair(f) \/ Target(f) \in place[f] THEN {place[f]} ELSE Moved(f, Target(f))

\* ... and the path follows a file that is there, moved now or before.
Repaired(f, places) ==
  IF ToRepair(f) /\ Target(f) \in places
    THEN [row[f] EXCEPT !.path = "migrated"] ELSE row[f]

\* All uploads, before the server listens.
Restart ==
  /\ ~up
  /\ up' = TRUE
  /\ place' \in {places \in [File -> SUBSET Places] : \A f \in File : places[f] \in Migrated(f)}
  /\ row' = [f \in File |-> Repaired(f, place'[f])]
  /\ UNCHANGED <<session, project, indexed, declared, requests, cutOff, crashes>>

\* The startup dies between the rename of an upload and its UPDATE.  (Whether those
\* before it were repaired makes no difference, the next startup repairs them.)
DieRepairing(f) ==
  /\ ~up
  /\ crashes < MaxCrashes
  /\ ToRepair(f)
  /\ crashes' = crashes + 1
  /\ \E places \in Migrated(f) : place' = [place EXCEPT ![f] = places]
  /\ UNCHANGED <<session, project, row, indexed, declared, requests, cutOff, up>>

-----------------------------------------------------------------------------
ConfirmStep(p) ==
  \/ BeginConfirm(p) \/ CreateProject(p) \/ ListUploads(p) \/ UpdatePath(p)
  \/ Remember(p) \/ Bootstrap(p) \/ ConfirmFails(p)
  \/ \E f \in File : Move(p, f) \/ Index(p, f)

UploadStep(f) ==
  BeginUpload(f) \/ WriteFile(f) \/ ScanFails(f) \/ InsertRow(f) \/ EnqueueIndex(f)

Request ==
  \/ \E t \in Turn : BeginTurn(t) \/ EndTurn(t) \/ TurnFails(t)
  \/ \E p \in Project : ConfirmStep(p) \/ Delete(p)
  \/ \E f \in File : UploadStep(f)

Next ==
  \/ up /\ Request /\ UNCHANGED <<cutOff, up, crashes>>
  \/ Crash
  \/ Restart
  \/ \E f \in File : DieRepairing(f)

Spec == Init /\ [][Next]_vars

-----------------------------------------------------------------------------
BeingMoved(f) == \E p \in Project : confirm[p].file = f

\* The file of every row of uploaded_files is where the row says, or in the directory of
\* its project for uploads, to which a confirmation has just renamed it, or had when a
\* death cut it off: neither a second confirmation nor a deletion, a repair or a death
\* during the repair takes it away.  (moveSessionUploadsIntoProject, migrateRows)
FileIsReadable ==
  up => \A f \in File : row[f].path # "none" =>
    \/ Named(f) \in place[f]
    \/ /\ <<row[f].project, "artifacts">> \in place[f]
       /\ BeingMoved(f) \/ f \in cutOff

\* What the repair at startup is for: once the server is up, an upload that nobody is
\* moving is where its row says.  It is not, see the README: after a death
\* between the rename of a confirmation and its UPDATE the repair looks elsewhere.
RepairFindsAll ==
  up => \A f \in File : row[f].path # "none" /\ ~BeingMoved(f) => Named(f) \in place[f]

\* The bootstrap workflow finds a project complete, whatever was said,
\* uploaded, confirmed or deleted meanwhile: Idea v1 is a draft that the model
\* found ready, the workspace exists, and no upload linked to the project is in
\* staging any more.
BootstrapFindsAll ==
  \A p \in Project : project[p].bootstrap =>
    /\ project[p].idea \in declared
    /\ project[p].workspace
    /\ \A f \in Linked(p) : row[f].path = "artifacts"

-----------------------------------------------------------------------------
(* What makes the two inductive. *)

\* An upload has no row before its INSERT, and then its file is where the row
\* will say, unless the project is gone.
UploadInOrder == \A f \in File :
  /\ upload[f].at \in {"idle", "write", "scan"} => row[f] = NoRow
  /\ upload[f].at = "scan" /\ upload[f].project = None => Staging \in place[f]
  /\ upload[f].at = "scan" => \A p \in Project :
       upload[f].project = p /\ Present(p) => <<p, "artifacts">> \in place[f]
  /\ \A p \in Project : upload[f].project = p => project[p].state # "absent"

\* A project exists from its transaction on, and what names it goes with it.
ProjectInOrder ==
  /\ \A p \in Project : session.project = p => Present(p)
  /\ \A p \in Project : confirm[p].at \in {"idle", "slug"} => project[p] = NoProject
  /\ \A f \in File, p \in Project : row[f].project = p => Present(p)
  /\ \A f \in File : row[f].path = "none" => row[f] = NoRow
  /\ \A f \in File : row[f].path \in {"artifacts", "migrated"} => row[f].project # None

\* A confirmation moves files of its own project only.
MoveInOrder == \A p \in Project :
  /\ confirm[p].at # "update" => confirm[p].file = None
  /\ confirm[p].at \in {"idle", "slug", "list", "done"} => confirm[p].files = {}
  /\ confirm[p].at = "update" => confirm[p].file \in confirm[p].files
  /\ \A f \in confirm[p].files :
       /\ row[f].path # "none" => row[f].project = p
       /\ upload[f].at \notin {"idle", "write", "scan"}
  /\ \A f \in File : confirm[p].file = f /\ f \in Linked(p) => <<p, "artifacts">> \in place[f]

\* The repair at startup meets no confirmation in progress.
RepairInOrder == \A p \in Project :
  /\ ~up => confirm[p].at \in {"idle", "done"}
  /\ \A f \in Linked(p) : row[f].path = "migrated" => confirm[p].at = "done"

\* A file is not lost, whatever its row says; while the server is down it may also be
\* where the repair has moved it.
FileIsKept == \A f \in File : row[f].path # "none" =>
  \/ Named(f) \in place[f]
  \/ /\ row[f].path = "staging" /\ <<row[f].project, "artifacts">> \in place[f]
     /\ BeingMoved(f) \/ f \in cutOff
  \/ ~up /\ ToRepair(f) /\ Target(f) \in place[f]

\* What a confirmation has achieved at each place.
ConfirmInOrder ==
  /\ session.state # "deleted" /\ session.phase = "ready_for_confirmation" =>
       session.draft \in declared
  /\ \A p \in Project :
       /\ confirm[p].at = "slug" => confirm[p].draft \in declared
       /\ Present(p) => project[p].idea \in declared
       /\ Present(p) /\ confirm[p].at \in {"list", "move", "update", "index"} => project[p].workspace
       /\ project[p].bootstrap => Present(p)
       /\ \A f \in Linked(p) : row[f].path = "staging" =>
            /\ confirm[p].at \in {"move", "update"} => f \in confirm[p].files
            /\ confirm[p].at # "index"

IInv == /\ TypeOK /\ UploadInOrder /\ ProjectInOrder /\ MoveInOrder /\ RepairInOrder
        /\ FileIsKept /\ ConfirmInOrder /\ FileIsReadable /\ BootstrapFindsAll
=============================================================================
