--------------------------- MODULE ProjectMemory ---------------------------
(***************************************************************************)
(* The semantic memory of projects: ingestion, search, revocation          *)
(* (supermemory-service.ts), changes of the embedding configuration        *)
(* (index.ts) and the deletion of a project (project-delete-service.ts),   *)
(* which find their instance through EmbeddingPool.                        *)
(*                                                                         *)
(* Every project has one text with a source, and so at most one row of     *)
(* memory_links.  A request is a coroutine: a step is what follows one     *)
(* answer (of the database, of a probe, of the instance) up to the next    *)
(* question.  The text is stored with whoever listens on the port.         *)
(***************************************************************************)
EXTENDS EmbeddingPool

CONSTANTS
  Request,      \* requests that may be in progress at once
  MaxRequests,  \* bound: requests that are made
  MaxCrashes    \* bound: how often the server dies

ASSUME MaxAssumption == MaxRequests \in Nat /\ MaxCrashes \in Nat

VARIABLES
  exists,  \* rows of projects
  link,    \* row of memory_links: status, and where the remote id is known
  stored,  \* the data directories: what store s holds of project p
  req,     \* the requests
  made,    \* how many there were
  crashes

memoryVars == <<exists, link, stored>>
counters == <<made, crashes>>
vars == <<poolVars, memoryVars, req, counters>>

Store == Config \cup {Global}
Links == [status : {"none", "pending", "active", "failed", "revoked", "deleted"},
          at : Store \cup {None}]
NoLink == [status |-> "none", at |-> None]

\* op: "list" and then "forget" is one revocation, "remove" deletes the project.
Requests ==
  [op : {"none", "ingest", "search", "list", "forget", "delete", "remove", "settings"},
   at : {"idle", "mark", "select", "resolve", "route", "probe", "probe again", "wait",
         "remote", "finish", "failing", "put", "drop", "rows", "stop"},
   project : Project \cup {None},
   pool : Store \cup {None},    \* configuration that the request works with
   port : Port \cup {None},
   routed : BOOLEAN,            \* the route file was there
   known : BOOLEAN,             \* the SELECT has found a row
   doc : Store \cup {None}]     \* store of the document it has stored or will delete
Idle == [op |-> "none", at |-> "idle", project |-> None, pool |-> None, port |-> None,
         routed |-> FALSE, known |-> FALSE, doc |-> None]

TypeOK ==
  /\ PoolTypeOK
  /\ exists \subseteq Project
  /\ link \in [Project -> Links]
  /\ stored \in [Store -> [Project -> {"absent", "document", "memory"}]]
  /\ req \in [Request -> Requests]
  /\ made \in 0..MaxRequests
  /\ crashes \in 0..MaxCrashes

Init ==
  /\ PoolInit
  /\ exists = Project
  /\ link = [p \in Project |-> NoLink]
  /\ stored = [s \in Store |-> [p \in Project |-> "absent"]]
  /\ req = [r \in Request |-> Idle]
  /\ made = 0
  /\ crashes = 0

-----------------------------------------------------------------------------
Goto(r, at) == req' = [req EXCEPT ![r].at = at]
End(r) == req' = [req EXCEPT ![r] = Idle]

\* (Nobody catches what ingestion throws.)
Throw_Uncaught(r) == End(r)
\* An exception: ingestion catches it, the others give up.
Throw(r) == IF req[r].op = "ingest" THEN Goto(r, "failing") ELSE End(r)

\* A row, when it is there, gets a status, whatever its status is.
SetStatus(p, l) ==
  link' = IF link[p].status = "none" THEN link ELSE [link EXCEPT ![p] = l]

\* A request for a project begins.
Begin(r, p, request) ==
  /\ req[r] = Idle
  /\ p \in exists
  /\ made < MaxRequests
  /\ made' = made + 1
  /\ req' = [req EXCEPT ![r] = request]
  /\ UNCHANGED <<poolVars, memoryVars, crashes>>
Start(r, op, p, at) ==
  Begin(r, p, [Idle EXCEPT !.op = op, !.project = p, !.at = at,
                           !.known = (link[p].status # "none"), !.doc = link[p].at])

\* Active and revoked texts are answered as they are, a pending one is refused.
Ingest(r, p) == link[p].status \in {"none", "failed", "deleted"} /\ Start(r, "ingest", p, "mark")
Search(r, p) == Start(r, "search", p, "resolve")
Revoke(r, p) == link[p].status = "active" /\ \E op \in {"list", "delete"} : Start(r, op, p, "resolve")
Remove(r, p) == Start(r, "remove", p, IF link[p].status = "active" THEN "select" ELSE "drop")

\* The settings endpoint has found the project.
Settings(r, p, c) ==
  Begin(r, p, [Idle EXCEPT !.op = "settings", !.project = p, !.pool = c, !.at = "put"])

Put(r) ==
  LET p == req[r].project  c == req[r].pool IN
  /\ req[r].at = "put"
  /\ IF c # Global /\ pools[c] = None /\ FreePorts = {} THEN UNCHANGED poolVars
     ELSE SaveSettings(p, c)
  /\ End(r)
  /\ UNCHANGED <<memoryVars, counters>>

-----------------------------------------------------------------------------
\* Ingestion writes the row first.  The INSERT throws when a row has appeared
\* or the project is gone, and nobody catches it.
Mark(r) ==
  LET p == req[r].project IN
  /\ req[r].at = "mark"
  /\ IF req[r].known
     THEN SetStatus(p, [status |-> "pending", at |-> None]) /\ Goto(r, "resolve")
     ELSE IF p \in exists /\ link[p].status = "none"
     THEN /\ link' = [link EXCEPT ![p] = [status |-> "pending", at |-> None]]
          /\ Goto(r, "resolve")
     ELSE End(r) /\ UNCHANGED link
  /\ UNCHANGED <<poolVars, exists, stored, counters>>

\* A deletion looks at the row again, as any revocation does.
Select(r) ==
  LET l == link[req[r].project] IN
  /\ req[r].at = "select"
  /\ \/ /\ l.status = "active"
        /\ req' = [req EXCEPT ![r].at = "resolve", ![r].doc = l.at]
     \/ l.status \in {"revoked", "deleted"} /\ Goto(r, "drop")
     \/ l.status \in {"none", "pending", "failed"} /\ End(r)
  /\ UNCHANGED <<poolVars, memoryVars, counters>>

\* resolveProjectBaseUrl, up to the bridge of the model gateway.
Resolve(r) ==
  LET c == override[req[r].project] IN
  /\ req[r].at = "resolve"
  /\ \/ /\ c = Global
        /\ req' = [req EXCEPT ![r].at = "remote", ![r].pool = Global]
     \/ c \in Config /\ pools[c] = None /\ Throw(r)
     \/ /\ c \in Config /\ pools[c] # None
        /\ req' = [req EXCEPT ![r].at = "route", ![r].pool = c, ![r].port = pools[c]]
  /\ UNCHANGED <<poolVars, memoryVars, counters>>

Route(r) ==
  /\ req[r].at = "route"
  /\ req' = [req EXCEPT ![r].at = "probe", ![r].routed = (pidFile[req[r].pool] # None)]
  /\ UNCHANGED <<poolVars, memoryVars, counters>>

Probe(r) ==
  /\ req[r].at = "probe"
  /\ Goto(r, IF Healthy(req[r].port) /\ req[r].routed THEN "remote" ELSE "probe again")
  /\ UNCHANGED <<poolVars, memoryVars, counters>>

ProbeAgain(r) ==
  /\ req[r].at = "probe again"
  /\ Respawn(req[r].pool, req[r].port)
  /\ Goto(r, "wait")
  /\ UNCHANGED <<override, pools, memoryVars, counters>>

\* The deadline may pass with nobody listening.
Wait(r) ==
  /\ req[r].at = "wait"
  /\ IF Healthy(req[r].port) THEN Goto(r, "remote") ELSE Throw(r)
  /\ UNCHANGED <<poolVars, memoryVars, counters>>

-----------------------------------------------------------------------------
\* The store of whoever answers.
Serving(r) == IF req[r].pool = Global THEN {Global}
              ELSE {proc[t].pool : t \in Listening(req[r].port)}

\* What a call leaves of the text in the store that serves it.
Effect(op) == CASE op \in {"delete", "remove"} -> "absent"
                [] op = "forget" -> "document"
                [] op = "ingest" -> "memory"
                [] OTHER -> "read"

\* The document of the row must be there, and for forget its memories.
Accepts(r, s) ==
  LET there == stored[s][req[r].project] IN
  CASE req[r].op \in {"delete", "remove"} -> req[r].doc = s /\ there # "absent"
    [] req[r].op \in {"list", "forget"} -> req[r].doc = s /\ there = "memory"
    [] OTHER -> TRUE

\* The call to the instance has its effect.
Affect(r, s) ==
  stored' = IF Effect(req[r].op) = "read" THEN stored
            ELSE [stored EXCEPT ![s][req[r].project] = Effect(req[r].op)]

Remote(r) ==
  /\ req[r].at = "remote"
  /\ \E s \in Serving(r) :
       /\ Accepts(r, s)
       /\ Affect(r, s)
       /\ CASE req[r].op = "search" -> End(r)
            [] req[r].op = "list" -> req' = [req EXCEPT ![r].op = "forget", ![r].at = "resolve"]
            [] OTHER -> req' = [req EXCEPT ![r].at = "finish", ![r].doc = s]
  /\ UNCHANGED <<poolVars, exists, link, counters>>

\* The call fails, or its answer does not arrive in time.
RemoteFails(r) ==
  /\ req[r].at = "remote"
  /\ \/ UNCHANGED stored
     \/ \E s \in Serving(r) : Accepts(r, s) /\ Affect(r, s)
  /\ Throw(r)
  /\ UNCHANGED <<poolVars, exists, link, counters>>

\* (The row gets the status that the instance reports.)
Outcome_RemoteStatus(r) ==
  CASE req[r].op = "ingest" -> [status |-> "queued", at |-> req[r].doc]
    [] req[r].op = "forget" -> [status |-> "revoked", at |-> link[req[r].project].at]
    [] OTHER -> [status |-> "deleted", at |-> link[req[r].project].at]
Outcome(r) ==
  CASE req[r].op = "ingest" -> [status |-> "active", at |-> req[r].doc]
    [] req[r].op = "forget" -> [status |-> "revoked", at |-> link[req[r].project].at]
    [] OTHER -> [status |-> "deleted", at |-> link[req[r].project].at]

\* The row is updated, and the audit that follows succeeds or throws.
Finish(r) ==
  /\ req[r].at = "finish"
  /\ SetStatus(req[r].project, Outcome(r))
  /\ \/ IF req[r].op = "remove" THEN Goto(r, "drop") ELSE End(r)
     \/ Throw(r)
  /\ UNCHANGED <<poolVars, exists, stored, counters>>

\* (The row of a failed ingestion is taken back.)
MarkFailed_Deletes(r) ==
  /\ req[r].at = "failing"
  /\ link' = [link EXCEPT ![req[r].project] = NoLink]
  /\ End(r)
  /\ UNCHANGED <<poolVars, exists, stored, counters>>
MarkFailed(r) ==
  /\ req[r].at = "failing"
  /\ SetStatus(req[r].project, [status |-> "failed", at |-> link[req[r].project].at])
  /\ End(r)
  /\ UNCHANGED <<poolVars, exists, stored, counters>>

-----------------------------------------------------------------------------
\* The end of a deletion: settings, rows, and the pools it has released.
Drop(r) ==
  /\ req[r].at = "drop"
  /\ AfterWrite(req[r].project, Global, 3)
  /\ req' = [req EXCEPT ![r].at = "rows", ![r].pool =
       IF Released(req[r].project, Global) = {} THEN None ELSE override[req[r].project]]
  /\ UNCHANGED <<pidFile, proc, memoryVars, counters>>

Rows(r) ==
  /\ req[r].at = "rows"
  /\ exists' = exists \ {req[r].project}
  /\ link' = [link EXCEPT ![req[r].project] = NoLink]
  /\ Goto(r, "stop")
  /\ UNCHANGED <<poolVars, stored, counters>>

\* The files are removed, and with an exception from there no instance is stopped.
Stop(r) ==
  /\ req[r].at = "stop"
  /\ \/ req[r].pool # None /\ StopPool(req[r].pool)
     \/ UNCHANGED <<pidFile, proc>>
  /\ End(r)
  /\ UNCHANGED <<override, pools, memoryVars, counters>>

\* The server dies, possibly between two writes of the settings.  Its startup
\* looks at neither links nor pools.
Crash ==
  /\ crashes < MaxCrashes
  /\ crashes' = crashes + 1
  /\ req' = [r \in Request |-> Idle]
  /\ \/ UNCHANGED <<override, pools>>
     \/ \E r \in Request, i \in 1..3 :
          \/ req[r].at = "put" /\ (req[r].pool \in Config => FreePorts # {} \/ pools[req[r].pool] # None)
             /\ AfterWrite(req[r].project, req[r].pool, i)
          \/ req[r].at = "drop" /\ AfterWrite(req[r].project, Global, i)
  /\ UNCHANGED <<pidFile, proc, memoryVars, made>>

\* The processes outside the server.
Outside == (\E t \in Child : Boot(t) \/ Exit(t)) /\ UNCHANGED <<memoryVars, req, counters>>

Next ==
  \/ \E r \in Request, p \in Project :
       \/ Ingest(r, p) \/ Search(r, p) \/ Revoke(r, p) \/ Remove(r, p)
       \/ \E c \in Config \cup {Global} : Settings(r, p, c)
  \/ \E r \in Request :
       \/ Put(r) \/ Mark(r) \/ Select(r) \/ Resolve(r) \/ Route(r) \/ Probe(r) \/ ProbeAgain(r)
       \/ Wait(r) \/ Remote(r) \/ RemoteFails(r) \/ Finish(r) \/ MarkFailed(r)
       \/ Drop(r) \/ Rows(r) \/ Stop(r)
  \/ Outside
  \/ Crash

Spec == Init /\ [][Next]_vars

-----------------------------------------------------------------------------
\* The pool of every override is registered, no two pools have one port, and a pool
\* that nobody uses keeps its port only when the server died while it saved settings.
\* (project-embedding-settings.ts, saveProjectEmbeddingSettings)
PoolsMatchUse ==
  /\ \A p \in Project : override[p] # Global => pools[override[p]] # None
  /\ \A c, d \in Config : c # d /\ pools[c] # None => pools[c] # pools[d]
  /\ crashes = 0 => \A c \in Config : pools[c] # None => ~Unused(override, c)

\* A row that says "pending" is in the hands of an ingestion that will give it a
\* result: only the death of the server takes the ingestion away.  (A pending row
\* refuses every later ingestion of the text.)
\* (supermemory-service.ts, ingestProjectMemory)
HeldBy(r, p) == req[r].op = "ingest" /\ req[r].project = p /\ req[r].at # "mark"
Held(p) == \E r \in Request : HeldBy(r, p)
Orphaned(p) == link[p].status = "pending" /\ ~Held(p)
PendingIsHeld ==
  [][\A p \in Project : Orphaned(p)' => Orphaned(p) \/ crashes' # crashes]_vars

\* Whatever a store holds of a project that exists, the ledger has a row for it,
\* also when the ingestion failed or its answer was lost.
\* (supermemory-service.ts, ingestProjectMemory; docs/operations.md)
LedgerKnowsStored ==
  \A p \in exists, s \in Store : stored[s][p] # "absent" => link[p].status # "none"

\* Different configurations have different pools: a text is stored with the
\* configuration that its ingestion has resolved, or that its project has by now.
\* (supermemory-instance.ts, ensurePoolInstance; README.md)
ServedByOwnPool == \A r \in Request :
  req[r].op = "ingest" /\ req[r].at = "finish" =>
    req[r].doc \in {req[r].pool, override[req[r].project]}

-----------------------------------------------------------------------------
\* A request works for a project, an ingestion goes through its own steps, and
\* what a request passes on to the pools is a configuration and its port.
InOrder(q) ==
  /\ q.at # "idle" => q.project \in Project
  /\ q.op = "ingest" =>
       q.at \in {"mark", "resolve", "route", "probe", "probe again", "wait", "remote",
                "finish", "failing"}
  /\ q.at = "mark" => q.op = "ingest"
  /\ q.at = "put" => q.pool \in Store
  /\ q.at \in {"route", "probe", "probe again", "wait"} => q.pool \in Config /\ q.port \in Port
  /\ q.at \in {"rows", "stop"} => q.pool # Global
RequestInOrder == \A r \in Request : InOrder(req[r])

\* An ingestion that has marked its row, or has found one, has a row, unless
\* the project was deleted.
IngestHasRow ==
  \A r \in Request :
    /\ req[r].op = "ingest" /\ req[r].project \in exists
    /\ req[r].at = "mark" => req[r].known
    => link[req[r].project].status # "none"

\* The inductive invariant.
IInv ==
  /\ TypeOK
  /\ RequestInOrder
  /\ PoolsMatchUse
  /\ IngestHasRow
  /\ LedgerKnowsStored

=============================================================================
