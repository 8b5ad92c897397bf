---------------------------- MODULE RequestCache ----------------------------
(***************************************************************************)
(* The cache of provider answers (related-work/cache.ts) as a search uses  *)
(* it (referencesWithCache in service.ts): read; on a miss ask the         *)
(* provider (transport.ts, source-adapters.ts); look for a row; write.     *)
(* The answers are those of a recursive search, one per provider and       *)
(* paper.  What a provider lists does not change, so that a row is its     *)
(* status, and whether it may still be served.                             *)
(*                                                                         *)
(* Several searches of a project ask at once.  Every database statement is *)
(* a step, except that the SELECT of a write follows the answer at once.   *)
(***************************************************************************)
CONSTANTS
  Searches,  \* searches of a project
  Record,    \* records of papers
  Provider

\* A request: what the columns of the unique key stand for.
Query == Provider \X Record

VARIABLES
  cache,    \* rows of related_work_request_cache
  fetch,    \* fetch[r][q]: where search r is with request q
  aborted   \* the signal of a search

cacheVars == <<cache, fetch, aborted>>

\* cut is history: the answer of this row is one that an abort cut short.
Row == [status : {"none", "succeeded", "failed"}, live : BOOLEAN, cut : BOOLEAN]
NoRow == [status |-> "none", live |-> FALSE, cut |-> FALSE]

\* saw: the status of the row that the SELECT of the write has found.
Fetch == [at : {"todo", "asking", "storing", "done"}, cut : BOOLEAN,
          status : {"none", "succeeded", "failed"},
          saw : {"none", "succeeded", "failed"}]
NoFetch == [at |-> "todo", cut |-> FALSE, status |-> "none", saw |-> "none"]

CacheTypeOK ==
  /\ cache \in [Query -> Row]
  /\ fetch \in [Searches -> [Query -> Fetch]]
  /\ aborted \in [Searches -> BOOLEAN]

CacheInit ==
  /\ cache = [q \in Query |-> NoRow]
  /\ fetch = [r \in Searches |-> [q \in Query |-> NoFetch]]
  /\ aborted = [r \in Searches |-> FALSE]

\* A row is replayed as it is, a failure as a failure.
Hit(q) == cache[q].status # "none" /\ cache[q].live

ReadCache(r, q) ==
  /\ fetch[r][q].at = "todo"
  /\ fetch' = [fetch EXCEPT ![r][q].at = IF Hit(q) THEN "done" ELSE "asking",
                            ![r][q].status = IF Hit(q) THEN cache[q].status ELSE "none"]
  /\ UNCHANGED <<cache, aborted>>

\* What the transport reports: its answer may have come before the abort.
Reports(r) == {"succeeded", "failed"} \cup (IF aborted[r] THEN {"cancelled"} ELSE {})

\* The adapters aggregate their requests: no result and any kind of failure is
\* "failed", so that the write never gets to see "cancelled".
Aggregate(report) == IF report = "succeeded" THEN "succeeded" ELSE "failed"

\* The answer, and the SELECT of the write.  A failure leaves a success alone.
Preserved(q, status) == status = "failed" /\ cache[q].status = "succeeded"

Answer(r, q) ==
  /\ fetch[r][q].at = "asking"
  /\ \E report \in Reports(r) :
       LET status == Aggregate(report) IN
       fetch' = [fetch EXCEPT ![r][q] =
         [at |-> IF Preserved(q, status) THEN "done" ELSE "storing",
          cut |-> report = "cancelled", status |-> status, saw |-> cache[q].status]]
  /\ UNCHANGED <<cache, aborted>>

\* UPDATE by id where the SELECT has found a row, INSERT where it has not.  The
\* INSERT of the slower of two searches meets the unique key and throws, which
\* makes the request of that search a failure whatever was answered.
Collides(r, q) == fetch[r][q].saw = "none" /\ cache[q].status # "none"

StoreAnswer(r, q) ==
  /\ fetch[r][q].at = "storing"
  /\ fetch' = [fetch EXCEPT ![r][q].at = "done",
                            ![r][q].status = IF Collides(r, q) THEN "failed" ELSE @]
  /\ cache' = IF Collides(r, q) THEN cache
              ELSE [cache EXCEPT ![q] = [status |-> fetch[r][q].status, live |-> TRUE,
                                         cut |-> fetch[r][q].cut]]
  /\ UNCHANGED aborted

\* The lifetime of a row is over.
Expire(q) ==
  /\ Hit(q)
  /\ cache' = [cache EXCEPT ![q].live = FALSE]
  /\ UNCHANGED <<fetch, aborted>>

\* A request that an abort has cut short leaves no row behind.
\* (related-work/cache.ts, writeRelatedWorkCache; README.md)
CancelledNeverCached == \A q \in Query : ~cache[q].cut

=============================================================================
