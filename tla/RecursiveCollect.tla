-------------------------- MODULE RecursiveCollect --------------------------
(***************************************************************************)
(* The collection of a recursive search (related-work/recursive-search.ts, *)
(* recursiveCollect), level by level through the cache of provider answers *)
(* (RequestCache), for several searches of one project at once.            *)
(*                                                                         *)
(* A record is what a provider says of a paper; records that share a key   *)
(* (DOI, stable id, title and year) are one paper.  The references of a    *)
(* level arrive in any order and with any failures, and are then merged    *)
(* without an await: no step of another search falls into a merge.         *)
(***************************************************************************)
EXTENDS RequestCache, Naturals, Sequences, FiniteSets

CONSTANTS
  Providers, \* Providers[r]: those that search r asks
  KeysOf,    \* KeysOf[c]: paperKeys of a record, in order of precedence
  Seeds,     \* Seeds[r]: the seeds of search r, a sequence of records
  Rank,      \* Rank[<<v, c>>]: place of provider v's record c among ranked references
  Worlds,    \* what the providers may list: functions of provider and record
  Depth,     \* Depth[r], a column of the search
  MaxTotal,  \* MaxTotal[r], likewise
  Width,     \* likewise, and the same for all: the limit of a request is in its hash,
             \* so that searches of different widths do not meet in the cache
  Absent     \* what a seed has instead of a parent and a provider

\* Every record has a key, and its title and year are one if it has no other.
ASSUME RecordAssumption ==
  /\ IsFiniteSet(Record) /\ IsFiniteSet(Provider)
  /\ \A c \in Record : Len(KeysOf[c]) \in Nat \ {0} /\ DOMAIN KeysOf[c] = 1..Len(KeysOf[c])
ASSUME SearchAssumption ==
  /\ \A r \in Searches : Providers[r] \subseteq Provider /\ Depth[r] \in Nat
  /\ \A r \in Searches : Seeds[r] \in Seq(Record) /\ MaxTotal[r] \in Nat
  /\ Rank \in [Provider \X Record -> Nat]

VARIABLES
  cites,     \* what the providers list
  stage,     \* where a search is: idle, seeding, head of the loop, fetching, merging, ended
  level,
  order,     \* place of a record in the array "ordered", 0 when it is not there
  depthOf,   \* discovery_depth of the records in "ordered"
  pending,   \* seeds or ranked references that the loop has still to look at
  edges,     \* keys of the map "edges"
  cancelled, truncated

loopVars == <<stage, level, order, depthOf, pending, edges, cancelled, truncated>>
collectVars == <<cacheVars, cites, loopVars>>

Item == [parent : Record \cup {Absent}, child : Record, provider : Provider \cup {Absent},
         place : Nat]
Edge == [parent : Record, child : Record, provider : Provider]

CollectTypeOK ==
  /\ CacheTypeOK
  /\ cites \in Worlds
  /\ stage \in [Searches -> {"idle", "seeding", "head", "fetching", "merging", "ended"}]
  /\ level \in [Searches -> Nat]
  /\ order \in [Searches -> [Record -> Nat]]
  /\ depthOf \in [Searches -> [Record -> Nat]]
  /\ pending \in [Searches -> SUBSET Item]
  /\ \A r \in Searches : IsFiniteSet(pending[r])
  /\ edges \in [Searches -> SUBSET Edge]
  /\ cancelled \in [Searches -> BOOLEAN]
  /\ truncated \in [Searches -> BOOLEAN]

CollectInit ==
  /\ CacheInit
  /\ cites \in Worlds
  /\ stage = [r \in Searches |-> "idle"]
  /\ level = [r \in Searches |-> 0]
  /\ order = [r \in Searches |-> [c \in Record |-> 0]]
  /\ depthOf = [r \in Searches |-> [c \in Record |-> 0]]
  /\ pending = [r \in Searches |-> {}]
  /\ edges = [r \in Searches |-> {}]
  /\ cancelled = [r \in Searches |-> FALSE]
  /\ truncated = [r \in Searches |-> FALSE]

-----------------------------------------------------------------------------
Keys(c) == {KeysOf[c][i] : i \in DOMAIN KeysOf[c]}
SamePaper(c, d) == Keys(c) \cap Keys(d) # {}

Collected(r) == {c \in Record : order[r][c] > 0}
Current(r) == {c \in Collected(r) : depthOf[r][c] + 1 = level[r]}
Full(r) == Cardinality(Collected(r)) >= MaxTotal[r]

\* (Only the preferred key of the record is looked up.)
Owners_Preferred(r, c) == {d \in Collected(r) : KeysOf[c][1] \in Keys(d)}
\* findSeen: who owns the first key of the record that anybody owns.
Owners(r, c) == {d \in Collected(r) : \E i \in DOMAIN KeysOf[c] :
                   /\ KeysOf[c][i] \in Keys(d)
                   /\ \A j \in 1..(i - 1) : \A e \in Collected(r) : KeysOf[c][j] \notin Keys(e)}

\* The ranked references of a paper, of which the first Width are looked at.
Ranked(r, p) ==
  {[parent |-> p, child |-> x[2], provider |-> x[1], place |-> Rank[x]] :
     x \in {y \in Providers[r] \X Record :
              /\ fetch[r][<<y[1], p>>].status = "succeeded"
              /\ y[2] \in cites[y[1]][p]}}
Slice(r, p) ==
  {i \in Ranked(r, p) : Cardinality({j \in Ranked(r, p) : j.place < i.place}) < Width}

\* Parents in the order of the level, the references of one by rank.
Before(r, i, j) ==
  IF i.parent = j.parent THEN i.place < j.place
  ELSE order[r][i.parent] < order[r][j.parent]
First(r, i) == i \in pending[r] /\ \A j \in pending[r] \ {i} : Before(r, i, j)

Merging == \E r \in Searches : pending[r] # {}

-----------------------------------------------------------------------------
BeginSeeds(r) ==
  /\ ~Merging
  /\ stage[r] = "idle"
  /\ stage' = [stage EXCEPT ![r] = "seeding"]
  /\ pending' = [pending EXCEPT ![r] =
       {[parent |-> Absent, child |-> Seeds[r][i], provider |-> Absent, place |-> i] :
          i \in DOMAIN Seeds[r]}]
  /\ UNCHANGED <<cacheVars, cites, level, order, depthOf, edges, cancelled, truncated>>

\* (The depth of the parents.)
Add_Parents(r, c) ==
  /\ order' = [order EXCEPT ![r][c] = Cardinality(Collected(r)) + 1]
  /\ depthOf' = [depthOf EXCEPT ![r][c] = level[r] - 1]
Add(r, c) ==
  /\ order' = [order EXCEPT ![r][c] = Cardinality(Collected(r)) + 1]
  /\ depthOf' = [depthOf EXCEPT ![r][c] = level[r]]

\* A seed: the limit is looked at before the seed is.
TakeSeed(r, i) ==
  /\ stage[r] = "seeding"
  /\ IF Full(r)
     THEN /\ truncated' = [truncated EXCEPT ![r] = TRUE]
          /\ pending' = [pending EXCEPT ![r] = {}]
          /\ UNCHANGED <<order, depthOf>>
     ELSE /\ pending' = [pending EXCEPT ![r] = @ \ {i}]
          /\ IF Owners(r, i.child) = {} THEN Add(r, i.child)
             ELSE UNCHANGED <<order, depthOf>>
          /\ UNCHANGED truncated
  /\ UNCHANGED <<edges, cancelled>>

Join(r, i, c) ==
  edges' = [edges EXCEPT ![r] = @ \cup
    {[parent |-> i.parent, child |-> c, provider |-> i.provider]}]

\* A reference to a paper that was collected: an edge, whatever the limit.
TakeKnown(r, i) ==
  /\ stage[r] = "merging" /\ ~aborted[r]
  /\ \E c \in Owners(r, i.child) : Join(r, i, c)
  /\ pending' = [pending EXCEPT ![r] = @ \ {i}]
  /\ UNCHANGED <<order, depthOf, cancelled, truncated>>

TakeNew(r, i) ==
  /\ stage[r] = "merging" /\ ~aborted[r]
  /\ Owners(r, i.child) = {}
  /\ ~Full(r)
  /\ Add(r, i.child)
  /\ Join(r, i, i.child)
  /\ pending' = [pending EXCEPT ![r] = @ \ {i}]
  /\ UNCHANGED <<cancelled, truncated>>

Refuse(r, i) ==
  /\ stage[r] = "merging"
  /\ \/ /\ aborted[r]
        /\ cancelled' = [cancelled EXCEPT ![r] = TRUE]
        /\ UNCHANGED truncated
     \/ /\ ~aborted[r]
        /\ Owners(r, i.child) = {} /\ Full(r)
        /\ truncated' = [truncated EXCEPT ![r] = TRUE]
        /\ UNCHANGED cancelled
  /\ pending' = [pending EXCEPT ![r] = {}]
  /\ UNCHANGED <<order, depthOf, edges>>

Take(r) ==
  /\ \E i \in pending[r] : First(r, i) /\
       (TakeSeed(r, i) \/ TakeKnown(r, i) \/ TakeNew(r, i) \/ Refuse(r, i))
  /\ UNCHANGED <<cacheVars, cites, stage, level>>

\* The loop over the level is left, and its progress is reported.
LevelDone(r) ==
  /\ ~Merging
  /\ stage[r] \in {"seeding", "merging"}
  /\ stage' = [stage EXCEPT ![r] =
       IF stage[r] = "merging" /\ (cancelled[r] \/ truncated[r]) THEN "ended" ELSE "head"]
  /\ level' = [level EXCEPT ![r] = @ + 1]
  /\ UNCHANGED <<cacheVars, cites, order, depthOf, pending, edges, cancelled, truncated>>

\* The head of the loop over the levels.
\* (One level too few.)
LoopEnds_Early(r) == level[r] + 1 >= Depth[r] \/ Current(r) = {}
LoopEnds(r) == level[r] >= Depth[r] \/ Current(r) = {}

NextLevel(r) ==
  /\ ~Merging
  /\ stage[r] = "head"
  /\ LET stop == LoopEnds(r) \/ aborted[r] \/ Full(r) IN
     stage' = [stage EXCEPT ![r] = IF stop THEN "ended" ELSE "fetching"]
  /\ cancelled' = [cancelled EXCEPT ![r] = @ \/ (~LoopEnds(r) /\ aborted[r])]
  /\ truncated' = [truncated EXCEPT ![r] = @ \/ (~LoopEnds(r) /\ ~aborted[r] /\ Full(r))]
  /\ UNCHANGED <<cacheVars, cites, level, order, depthOf, pending, edges>>

\* The requests of a level, all at once.
Asked(r) == Providers[r] \X Current(r)

Request(r) ==
  /\ ~Merging
  /\ stage[r] = "fetching"
  /\ \E q \in Asked(r) : ReadCache(r, q) \/ Answer(r, q) \/ StoreAnswer(r, q)
  /\ UNCHANGED <<cites, loopVars>>

Merge(r) ==
  /\ ~Merging
  /\ stage[r] = "fetching"
  /\ \A q \in Asked(r) : fetch[r][q].at = "done"
  /\ stage' = [stage EXCEPT ![r] = "merging"]
  /\ pending' = [pending EXCEPT ![r] = UNION {Slice(r, p) : p \in Current(r)}]
  /\ UNCHANGED <<cacheVars, cites, level, order, depthOf, edges, cancelled, truncated>>

\* The cancel endpoint, while the search is running.
Abort(r) ==
  /\ ~Merging
  /\ stage[r] \notin {"idle", "ended"}
  /\ ~aborted[r]
  /\ aborted' = [aborted EXCEPT ![r] = TRUE]
  /\ UNCHANGED <<cache, fetch, cites, loopVars>>

Lapse(q) == ~Merging /\ Expire(q) /\ UNCHANGED <<cites, loopVars>>

CollectNext ==
  \/ \E r \in Searches : \/ BeginSeeds(r) \/ Take(r) \/ LevelDone(r) \/ NextLevel(r)
                         \/ Request(r) \/ Merge(r) \/ Abort(r)
  \/ \E q \in Query : Lapse(q)

CollectSpec == CollectInit /\ [][CollectNext]_collectVars

-----------------------------------------------------------------------------
SeedRecords(r) == {Seeds[r][i] : i \in DOMAIN Seeds[r]}

\* A way of n edges from a seed to a paper.
Way(r, c, n, p) ==
  /\ p[0] \in SeedRecords(r) /\ p[n] = c
  /\ \A k \in 1..n : \E e \in edges[r] : e.parent = p[k - 1] /\ e.child = p[k]
IsDistance(r, c, n) ==
  /\ \E p \in [0..n -> Collected(r)] : Way(r, c, n, p)
  /\ \A m \in 0..(n - 1) : \A p \in [0..m -> Collected(r)] : ~Way(r, c, m, p)

\* What was collected, at any moment: no two records that share a key, never more
\* than the limit, edges between collected records only, and the depth that is reported
\* of a record is its distance from the seeds in the graph of the edges merged so far.
\* (recursive-search.ts, addSeen and the loop over the references)
CollectionIsSound == \A r \in Searches :
  /\ \A c, d \in Collected(r) : c # d => ~SamePaper(c, d)
  /\ Cardinality(Collected(r)) <= MaxTotal[r]
  /\ \A e \in edges[r] : {e.parent, e.child} \subseteq Collected(r)
  /\ \A c \in Collected(r) : IsDistance(r, c, depthOf[r][c])

\* A search that ends without saying that it was cancelled or cut off at the
\* limit has asked every provider about every paper above the last level, and has followed
\* the first Width references that the answers list to papers at most one level down.
\* (recursive-search.ts, recursiveCollect)
CollectionIsComplete == \A r \in Searches :
  stage[r] = "ended" /\ ~cancelled[r] /\ ~truncated[r] =>
    /\ \A i \in DOMAIN Seeds[r] : \E c \in Collected(r) :
         SamePaper(c, Seeds[r][i]) /\ depthOf[r][c] = 0
    /\ \A p \in Collected(r) : depthOf[r][p] + 1 < Depth[r] =>
         /\ \A v \in Providers[r] : fetch[r][<<v, p>>].at = "done"
         /\ \A i \in Slice(r, p) : \E c \in Collected(r) :
              /\ SamePaper(c, i.child)
              /\ depthOf[r][c] <= depthOf[r][p] + 1
              /\ [parent |-> p, child |-> c, provider |-> i.provider] \in edges[r]

\* The records that a search has looked at when it has followed everything.
LookedAt(r) == SeedRecords(r) \cup
  {i.child : i \in UNION {Slice(r, p) : p \in {c \in Collected(r) : depthOf[r][c] + 1 < Depth[r]}}}

\* What recursive-search.ts says of itself: the keys of a record that was looked at
\* all lead to one collected record.  They do not, see the README: a record that
\* is dropped as known leaves its other keys to later records.
AliasesConverge == \A r \in Searches :
  stage[r] = "ended" /\ ~cancelled[r] /\ ~truncated[r] =>
    \A b \in LookedAt(r) : \A c, d \in Collected(r) :
      SamePaper(b, c) /\ SamePaper(b, d) => c = d

-----------------------------------------------------------------------------
\* CollectionIsSound, of one edge at a time: none leads more than one level down, and
\* one leads to every paper from the level above.
SoundByEdge(r) ==
  /\ \A c, d \in Collected(r) : c # d => ~SamePaper(c, d)
  /\ Cardinality(Collected(r)) <= MaxTotal[r]
  /\ \A e \in edges[r] : /\ {e.parent, e.child} \subseteq Collected(r)
                         /\ depthOf[r][e.child] <= depthOf[r][e.parent] + 1
  /\ \A c \in Collected(r) : depthOf[r][c] > 0 =>
       \E e \in edges[r] : e.child = c /\ depthOf[r][e.parent] + 1 = depthOf[r][c]

\* Where a search is: the seeds are level 0, and the papers found at the level it is
\* at are those the merge has added.
InLevel(r) ==
  /\ stage[r] = "idle" => Collected(r) = {}
  /\ stage[r] \in {"idle", "seeding"} => level[r] = 0 /\ edges[r] = {}
  /\ stage[r] \notin {"idle", "seeding"} => level[r] > 0
  /\ pending[r] # {} => stage[r] \in {"seeding", "merging"}
  /\ IsFiniteSet(Collected(r))
  /\ \A c \in Collected(r) :
       /\ depthOf[r][c] <= level[r]
       /\ stage[r] \in {"head", "fetching", "ended"} => depthOf[r][c] < level[r]
       /\ depthOf[r][c] = 0 <=> c \in SeedRecords(r)
  /\ truncated[r] => Full(r)
  /\ stage[r] = "seeding" => \A i \in pending[r] : i.child \in SeedRecords(r)
  /\ stage[r] = "merging" =>
       \A i \in pending[r] : i.parent \in Current(r) /\ i.provider \in Provider

\* Every seed is still to be looked at, or some paper is the same.
SeedItem(r, i) == [parent |-> Absent, child |-> Seeds[r][i], provider |-> Absent, place |-> i]
SeedsAreKept(r) ==
  stage[r] # "idle" /\ ~truncated[r] =>
    \A i \in DOMAIN Seeds[r] :
      \/ stage[r] = "seeding" /\ SeedItem(r, i) \in pending[r]
      \/ \E c \in Collected(r) : SamePaper(c, Seeds[r][i]) /\ depthOf[r][c] = 0

\* Every reference of a paper of an earlier level has been followed, and every one of
\* the level that is merged has been, or is still to be looked at.
Followed(r, p, i) ==
  \E c \in Collected(r) :
    /\ SamePaper(c, i.child) /\ depthOf[r][c] <= depthOf[r][p] + 1
    /\ [parent |-> p, child |-> c, provider |-> i.provider] \in edges[r]
LevelsAreFollowed(r) ==
  ~cancelled[r] /\ ~truncated[r] =>
    \A p \in Collected(r) :
      \/ depthOf[r][p] + 1 < level[r]
      \/ depthOf[r][p] + 1 = level[r] /\ stage[r] = "merging"
      => /\ \A v \in Providers[r] : fetch[r][<<v, p>>].at = "done"
         /\ \A i \in Slice(r, p) :
              (stage[r] = "merging" /\ i \in pending[r]) \/ Followed(r, p, i)

\* A search that ends without a reason to stop has no further level.
EndedAtLastLevel(r) ==
  stage[r] = "ended" /\ ~cancelled[r] /\ ~truncated[r] => LoopEnds(r)

\* The inductive invariant.
CollectInv ==
  /\ CollectTypeOK
  /\ \A r \in Searches : /\ SoundByEdge(r) /\ InLevel(r) /\ SeedsAreKept(r)
                          /\ LevelsAreFollowed(r) /\ EndedAtLastLevel(r)

=============================================================================
