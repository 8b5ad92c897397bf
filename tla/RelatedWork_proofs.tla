------------------------- MODULE RelatedWork_proofs -------------------------
(***************************************************************************)
(* Theorems about RelatedWorkRun, for every number of proposals, requests, *)
(* searches of a run and crashes, and about RecursiveCollect, for all      *)
(* records, answers, depths, widths and limits.                            *)
(***************************************************************************)
EXTENDS RelatedWorkRun, RecursiveCollect, FiniteSetTheorems, TLAPS

USE DEF rowVars, memVars, procVars

LEMMA InitInv == Init => IInv
<1> SUFFICES ASSUME Init PROVE IInv
  OBVIOUS
<1> USE MaxCrashesAssumption DEF Init, IdleSearch, IdleStarter
<1>1. TypeOK
  BY DEF TypeOK, SearchRecord, StarterRecord, Statuses, Finished
<1>2. MemoryInOrder
  BY DEF MemoryInOrder
<1>3. RowIsHeld /\ QueuedIsWanted /\ CancelReachesSearch
  BY DEF RowIsHeld, QueuedIsWanted, CancelReachesSearch
<1>4. QED
  BY <1>1, <1>2, <1>3 DEF IInv

-----------------------------------------------------------------------------
(* A step of a search changes that search only.                            *)

LEMMA SearchGoes ==
  ASSUME TypeOK, NEW p \in Props, NEW k \in Slots,
         NEW pc \in {"collect", "saved", "finish"},
         search' = [search EXCEPT ![p][k].pc = pc]
  PROVE  /\ search' \in [Props -> [Slots -> SearchRecord]]
         /\ search'[p][k].pc = pc
         /\ search'[p][k].aborted = search[p][k].aborted
         /\ \A q \in Props, j \in Slots : q # p \/ j # k => search'[q][j] = search[q][j]
<1>1. search[p][k] \in SearchRecord
  BY DEF TypeOK
<1>2. [search[p][k] EXCEPT !.pc = pc] \in SearchRecord
  BY <1>1 DEF SearchRecord
<1>3. /\ [search[p][k] EXCEPT !.pc = pc].pc = pc
      /\ [search[p][k] EXCEPT !.pc = pc].aborted = search[p][k].aborted
  BY <1>1 DEF SearchRecord
<1>4. search'[p][k] = [search[p][k] EXCEPT !.pc = pc]
  BY DEF TypeOK
<1>5. search' \in [Props -> [Slots -> SearchRecord]]
  BY <1>2 DEF TypeOK
<1>6. \A q \in Props, j \in Slots : q # p \/ j # k => search'[q][j] = search[q][j]
  BY DEF TypeOK
<1>7. QED
  BY <1>3, <1>4, <1>5, <1>6

\* What a search writes, and where it is then.
LEMMA SearchMoves ==
  ASSUME IInv, NEW p \in Props, NEW k \in Slots, SearchStep(p, k)
  PROVE  /\ search' \in [Props -> [Slots -> SearchRecord]]
         /\ \A q \in Props, j \in Slots : q # p \/ j # k => search'[q][j] = search[q][j]
         /\ Alive(p, k)
         /\ search'[p][k].pc = "save" => search'[p][k].result \in Finished
         /\ search'[p][k].pc \in {"check", "collect"} =>
              /\ search[p][k].pc = "check" /\ ~search[p][k].seen
              /\ search'[p][k].pc = "collect"
              /\ search'[p][k].aborted = search[p][k].aborted
         /\ \/ row' = row /\ search[p][k].pc = "collect" /\ search'[p][k].pc = "save"
            \/ row' = row /\ search[p][k].pc \in {"saved", "finish"}
            \/ row' = [row EXCEPT ![p] = "running"] /\ search'[p][k].pc = "collect"
            \/ \E result \in Finished : row' = [row EXCEPT ![p] = result]
<1> USE DEF Alive
<1>1. TypeOK
  BY DEF IInv
<1>2. CASE StopCancelled(p, k)
  BY <1>1, <1>2, SearchGoes DEF StopCancelled, Finished
<1>3. CASE Run(p, k)
  BY <1>1, <1>3, SearchGoes DEF Run
<1>4. CASE Collect(p, k)
  <2>1. PICK result \in Finished :
          search' = [search EXCEPT ![p][k].pc = "save", ![p][k].result = result]
    <3>1. PICK result \in {"completed", "failed"}
                           \cup (IF search[p][k].aborted THEN {"cancelled"} ELSE {}) :
            search' = [search EXCEPT ![p][k].pc = "save", ![p][k].result = result]
      BY <1>4, Zenon DEF Collect
    <3>2. result \in Finished
      BY DEF Finished
    <3>3. QED
      BY <3>1, <3>2, Zenon
  <2>2. search[p][k] \in SearchRecord /\ search[p][k].pc = "collect" /\ row' = row
    BY <1>1, <1>4 DEF Collect, TypeOK
  <2>3. [search[p][k] EXCEPT !.pc = "save", !.result = result] \in SearchRecord
    BY <2>2 DEF SearchRecord
  <2>4. /\ [search[p][k] EXCEPT !.pc = "save", !.result = result].pc = "save"
        /\ [search[p][k] EXCEPT !.pc = "save", !.result = result].result = result
    BY <2>2 DEF SearchRecord
  <2>5. search'[p][k] = [search[p][k] EXCEPT !.pc = "save", !.result = result]
    BY <1>1, <2>1 DEF TypeOK
  <2>6. search' \in [Props -> [Slots -> SearchRecord]]
    BY <1>1, <2>1, <2>3 DEF TypeOK
  <2>7. \A q \in Props, j \in Slots : q # p \/ j # k => search'[q][j] = search[q][j]
    BY <1>1, <2>1 DEF TypeOK
  <2>8. QED
    BY <2>2, <2>4, <2>5, <2>6, <2>7
<1>5. CASE Save(p, k)
  <2>1. search[p][k].result \in Finished
    BY <1>5 DEF Save, IInv, MemoryInOrder
  <2>2. QED
    BY <1>1, <1>5, <2>1, SearchGoes DEF Save
<1>6. CASE Throw(p, k)
  BY <1>1, <1>6, SearchGoes DEF Throw, Finished
<1>7. CASE Finish(p, k)
  <2>1. IdleSearch \in SearchRecord /\ IdleSearch.pc = "idle"
    BY DEF IdleSearch, SearchRecord
  <2>2. /\ search' = [search EXCEPT ![p][k] = IdleSearch]
        /\ search[p][k].pc \in {"saved", "finish"} /\ row' = row
    BY <1>7 DEF Finish
  <2>3. /\ search' \in [Props -> [Slots -> SearchRecord]]
        /\ search'[p][k] = IdleSearch
        /\ \A q \in Props, j \in Slots : q # p \/ j # k => search'[q][j] = search[q][j]
    BY <1>1, <2>1, <2>2 DEF TypeOK
  <2>4. search'[p][k].pc = "idle"
    BY <2>1, <2>3
  <2>5. QED
    BY <2>2, <2>3, <2>4
<1>8. QED
  BY <1>2, <1>3, <1>4, <1>5, <1>6, <1>7 DEF SearchStep

LEMMA SearchInv ==
  ASSUME IInv, NEW p \in Props, NEW k \in Slots, SearchStep(p, k)
  PROVE  IInv'
<1>1. UNCHANGED <<proposal, requested, starter, cancel, mode, crashes>>
  BY DEF SearchStep, StopCancelled, Run, Collect, Save, Throw, Finish
<1>2. control' = control \/ control' = [control EXCEPT ![p] = None]
  BY DEF SearchStep, StopCancelled, Run, Collect, Save, Throw, Finish, Released
<1>3. /\ search' \in [Props -> [Slots -> SearchRecord]]
      /\ \A q \in Props, j \in Slots : q # p \/ j # k => search'[q][j] = search[q][j]
      /\ Alive(p, k)
      /\ search'[p][k].pc = "save" => search'[p][k].result \in Finished
  BY SearchMoves
<1>4. search'[p][k].pc \in {"check", "collect"} =>
        /\ search[p][k].pc = "check" /\ ~search[p][k].seen
        /\ search'[p][k].aborted = search[p][k].aborted
  BY SearchMoves
<1>5. \/ row' = row /\ search[p][k].pc = "collect" /\ search'[p][k].pc = "save"
      \/ row' = row /\ search[p][k].pc \in {"saved", "finish"}
      \/ row' = [row EXCEPT ![p] = "running"] /\ search'[p][k].pc = "collect"
      \/ \E result \in Finished : row' = [row EXCEPT ![p] = result]
  BY SearchMoves
<1>6. row \in [Props -> Statuses]
  BY DEF IInv, TypeOK
<1>7. /\ \A q \in Props : q # p => row'[q] = row[q]
      /\ row'[p] # row[p] => row'[p] \in Finished \cup {"running"}
      /\ row' \in [Props -> Statuses]
  BY <1>5, <1>6 DEF Statuses
<1>8. TypeOK'
  <2>1. control' \in [Props -> Slots \cup {None}]
    BY <1>2 DEF IInv, TypeOK
  <2>2. QED
    BY <1>1, <1>3, <1>7, <2>1 DEF IInv, TypeOK
<1>9. MemoryInOrder'
  BY <1>1, <1>3 DEF IInv, MemoryInOrder, Alive
<1>10. RowIsHeld'
  <2>1. SUFFICES ASSUME mode = "up", NEW q \in Props
                 PROVE  /\ row'[q] = "running" =>
                             \E j \in Slots : search'[q][j].pc \in {"collect", "save"}
                        /\ row'[q] = "queued" =>
                             \/ \E j \in Slots : search'[q][j].pc = "check"
                             \/ \E h \in Starters : starter[h].pc = "inserted" /\ starter[h].run = q
    BY <1>1 DEF RowIsHeld
  <2>2. /\ row[q] = "running" => \E j \in Slots : search[q][j].pc \in {"collect", "save"}
        /\ row[q] = "queued" =>
             \/ \E j \in Slots : search[q][j].pc = "check"
             \/ \E h \in Starters : starter[h].pc = "inserted" /\ starter[h].run = q
    BY <2>1 DEF IInv, RowIsHeld
  <2>3. CASE q # p
    BY <1>3, <1>7, <2>2, <2>3
  <2>4. CASE q = p
    BY <1>3, <1>5, <1>6, <2>2, <2>4 DEF Finished
  <2>5. QED
    BY <2>3, <2>4
<1>11. QueuedIsWanted'
  BY <1>1, <1>5, <1>6 DEF IInv, QueuedIsWanted, Finished
<1>12. CancelReachesSearch'
  BY <1>1, <1>2, <1>3, <1>4, <1>6, SlotsAssumption DEF IInv, CancelReachesSearch, TypeOK
<1>13. QED
  BY <1>8, <1>9, <1>10, <1>11, <1>12 DEF IInv

-----------------------------------------------------------------------------
(* Requests.                                                               *)

LEMMA DecideInv ==
  ASSUME IInv, NEW h \in Starters, NEW p \in Props, Decide(h, p) \/ Execute(h, p)
  PROVE  IInv'
<1>1. /\ UNCHANGED <<rowVars, control, search, cancel, procVars>>
      /\ mode = "up" /\ starter[h].pc = "idle"
      /\ \E pc \in {"decided", "lookup"} :
           starter' = [starter EXCEPT ![h] = [IdleStarter EXCEPT !.pc = pc, !.run = p]]
  BY DEF Decide, Execute
<1>2. PICK pc \in {"decided", "lookup"} :
        starter' = [starter EXCEPT ![h] = [IdleStarter EXCEPT !.pc = pc, !.run = p]]
  BY <1>1
<1>3. /\ [IdleStarter EXCEPT !.pc = pc, !.run = p] \in StarterRecord
      /\ [IdleStarter EXCEPT !.pc = pc, !.run = p].pc = pc
      /\ [IdleStarter EXCEPT !.pc = pc, !.run = p].run = p
  <2>1. IdleStarter \in StarterRecord
    BY DEF IdleStarter, StarterRecord, Statuses
  <2>2. QED
    BY <2>1 DEF StarterRecord
<1>4. starter' \in [Starters -> StarterRecord] /\ starter'[h].pc = pc /\ starter'[h].run = p
  BY <1>2, <1>3 DEF IInv, TypeOK
<1>5. \A g \in Starters : g # h => starter'[g] = starter[g]
  BY <1>2 DEF IInv, TypeOK
<1>6. TypeOK'
  BY <1>1, <1>4 DEF IInv, TypeOK
<1>7. MemoryInOrder'
  BY <1>1, <1>4, <1>5 DEF IInv, MemoryInOrder, Alive
<1>8. RowIsHeld'
  BY <1>1, <1>4, <1>5 DEF IInv, RowIsHeld
<1>9. QueuedIsWanted' /\ CancelReachesSearch'
  BY <1>1 DEF IInv, QueuedIsWanted, CancelReachesSearch
<1>10. QED
  BY <1>6, <1>7, <1>8, <1>9 DEF IInv

\* The steps of a request that start no search.
LEMMA StarterInv ==
  ASSUME IInv, NEW h \in Starters, Approve(h) \/ Lookup(h) \/ InsertRun(h)
  PROVE  IInv'
<1>1. starter[h] \in StarterRecord /\ starter[h].pc # "idle" /\ starter[h].run \in Props
  BY DEF Approve, Lookup, InsertRun, IInv, TypeOK, MemoryInOrder
<1>2. mode = "up"
  BY <1>1 DEF IInv, TypeOK, MemoryInOrder
<1>3. UNCHANGED <<requested, control, search, cancel, procVars>>
  BY DEF Approve, Lookup, InsertRun
<1>4. \A g \in Starters : g # h => starter'[g] = starter[g]
  BY DEF Approve, Lookup, InsertRun, IInv, TypeOK
<1>5. /\ starter'[h] \in StarterRecord
      /\ starter'[h].pc # "idle" => starter'[h].run = starter[h].run
      /\ starter[h].pc # "inserted"
  <2>1. CASE Approve(h)
    <3>1. starter'[h] = [starter[h] EXCEPT !.pc = "lookup"]
      BY <2>1 DEF Approve, IInv, TypeOK
    <3>2. QED
      BY <1>1, <2>1, <3>1 DEF Approve, StarterRecord
  <2>2. CASE Lookup(h)
    <3>1. row[starter[h].run] \in Statuses
      BY <1>1 DEF IInv, TypeOK
    <3>2. starter'[h] = [starter[h] EXCEPT !.pc = "found", !.saw = row[starter[h].run]]
      BY <2>2 DEF Lookup, IInv, TypeOK
    <3>3. QED
      BY <1>1, <2>2, <3>1, <3>2 DEF Lookup, StarterRecord
  <2>3. CASE InsertRun(h)
    <3>1. starter'[h] \in {IdleStarter, [starter[h] EXCEPT !.pc = "inserted"]}
      BY <2>3 DEF InsertRun, IInv, TypeOK
    <3>2. IdleStarter \in StarterRecord /\ IdleStarter.pc = "idle"
      BY DEF IdleStarter, StarterRecord, Statuses
    <3>3. QED
      BY <1>1, <2>3, <3>1, <3>2 DEF InsertRun, StarterRecord
  <2>4. QED
    BY <2>1, <2>2, <2>3
<1>6. \/ row' = row
      \/ /\ row[starter[h].run] = "absent"
         /\ row' = [row EXCEPT ![starter[h].run] = "queued"]
         /\ starter'[h].pc = "inserted" /\ starter'[h].run = starter[h].run
  <2>1. CASE InsertRun(h) /\ row[starter[h].run] = "absent"
    <3>1. starter'[h] = [starter[h] EXCEPT !.pc = "inserted"]
      BY <2>1 DEF InsertRun, IInv, TypeOK
    <3>2. QED
      BY <1>1, <2>1, <3>1 DEF InsertRun, StarterRecord
  <2>2. QED
    BY <2>1 DEF Approve, Lookup, InsertRun
<1>7. starter' \in [Starters -> StarterRecord]
  BY <1>5 DEF Approve, Lookup, InsertRun, IInv, TypeOK
<1>8. TypeOK'
  <2>1. proposal' \in [Props -> {"pending", "approved"}]
    BY DEF Approve, Lookup, InsertRun, IInv, TypeOK
  <2>2. row' \in [Props -> Statuses]
    BY <1>1, <1>6 DEF IInv, TypeOK, Statuses
  <2>3. QED
    BY <1>3, <1>7, <2>1, <2>2 DEF IInv, TypeOK
<1>9. MemoryInOrder'
  BY <1>1, <1>2, <1>3, <1>4, <1>5 DEF IInv, MemoryInOrder, Alive
<1>10. RowIsHeld'
  <2>1. SUFFICES ASSUME NEW q \in Props
                 PROVE  /\ row'[q] = "running" =>
                             \E j \in Slots : search[q][j].pc \in {"collect", "save"}
                        /\ row'[q] = "queued" =>
                             \/ \E j \in Slots : search[q][j].pc = "check"
                             \/ \E g \in Starters : starter'[g].pc = "inserted" /\ starter'[g].run = q
    BY <1>3 DEF RowIsHeld
  <2>2. /\ row[q] = "running" => \E j \in Slots : search[q][j].pc \in {"collect", "save"}
        /\ row[q] = "queued" =>
             \/ \E j \in Slots : search[q][j].pc = "check"
             \/ \E g \in Starters : g # h /\ starter[g].pc = "inserted" /\ starter[g].run = q
    BY <1>2, <1>5 DEF IInv, RowIsHeld
  <2>3. CASE row'[q] = row[q]
    BY <1>4, <2>2, <2>3
  <2>4. CASE row'[q] # row[q]
    <3>1. q = starter[h].run /\ row'[q] = "queued"
      BY <1>6, <2>4 DEF IInv, TypeOK
    <3>2. QED
      BY <1>6, <2>4, <3>1
  <2>5. QED
    BY <2>3, <2>4
<1>11. QueuedIsWanted'
  BY <1>1, <1>3, <1>6 DEF IInv, QueuedIsWanted, TypeOK
<1>12. CancelReachesSearch'
  BY <1>3 DEF IInv, CancelReachesSearch
<1>13. QED
  BY <1>8, <1>9, <1>10, <1>11, <1>12 DEF IInv

\* A request that is done with its run, having started a search of it or not.
LEMMA StartInv ==
  ASSUME IInv, NEW h \in Starters, StartExisting(h) \/ StartNew(h)
  PROVE  IInv'
<1> DEFINE p == starter[h].run
<1>1. p \in Props /\ starter[h].pc \in {"found", "inserted"} /\ mode = "up"
  BY DEF StartExisting, StartNew, IInv, TypeOK, MemoryInOrder
<1>2. starter' = [starter EXCEPT ![h] = IdleStarter] /\ UNCHANGED <<rowVars, cancel, procVars>>
  BY DEF StartExisting, StartNew
<1>3. IdleStarter \in StarterRecord /\ IdleStarter.pc = "idle"
  BY DEF IdleStarter, StarterRecord, Statuses
<1>4. /\ starter' \in [Starters -> StarterRecord]
      /\ starter'[h].pc = "idle"
      /\ \A g \in Starters : g # h => starter'[g] = starter[g]
  BY <1>2, <1>3 DEF IInv, TypeOK
<1>5. \/ starter[h].pc = "found" /\ UNCHANGED <<search, control>>
      \/ \E k \in Slots : Begin(p, k)
  BY DEF StartExisting, StartNew
<1>6. CASE starter[h].pc = "found" /\ UNCHANGED <<search, control>>
  <2>1. TypeOK' /\ MemoryInOrder'
    BY <1>2, <1>4, <1>6 DEF IInv, TypeOK, MemoryInOrder, Alive
  <2>2. RowIsHeld'
    BY <1>2, <1>4, <1>6 DEF IInv, RowIsHeld
  <2>3. QueuedIsWanted' /\ CancelReachesSearch'
    BY <1>2, <1>6 DEF IInv, QueuedIsWanted, CancelReachesSearch
  <2>4. QED
    BY <2>1, <2>2, <2>3 DEF IInv
<1>7. ASSUME NEW k \in Slots, Begin(p, k) PROVE IInv'
  <2>1. /\ FreshSearch(p) \in SearchRecord /\ FreshSearch(p).pc = "check"
        /\ FreshSearch(p).seen = CancelSeen(p)
    BY <1>1 DEF FreshSearch, CancelSeen, SearchRecord, IInv, TypeOK
  <2>2. /\ search' \in [Props -> [Slots -> SearchRecord]]
        /\ search'[p][k] = FreshSearch(p)
        /\ \A q \in Props, j \in Slots : q # p \/ j # k => search'[q][j] = search[q][j]
    BY <1>1, <1>7, <2>1 DEF Begin, IInv, TypeOK
  <2>3. search'[p][k].pc = "check" /\ search'[p][k].seen = CancelSeen(p)
    BY <2>1, <2>2
  <2>4. ~Alive(p, k) /\ control' = [control EXCEPT ![p] = k]
    BY <1>7 DEF Begin
  <2>5. TypeOK'
    BY <1>1, <1>2, <1>4, <2>2, <2>4 DEF IInv, TypeOK
  <2>6. MemoryInOrder'
    BY <1>1, <1>2, <1>4, <2>2, <2>3 DEF IInv, MemoryInOrder, Alive
  <2>7. RowIsHeld'
    <3>1. SUFFICES ASSUME NEW q \in Props
                   PROVE  /\ row[q] = "running" =>
                               \E j \in Slots : search'[q][j].pc \in {"collect", "save"}
                          /\ row[q] = "queued" =>
                               \/ \E j \in Slots : search'[q][j].pc = "check"
                               \/ \E g \in Starters : starter'[g].pc = "inserted" /\ starter'[g].run = q
      BY <1>2 DEF RowIsHeld
    <3>2. /\ row[q] = "running" => \E j \in Slots : search[q][j].pc \in {"collect", "save"}
          /\ row[q] = "queued" =>
               \/ \E j \in Slots : search[q][j].pc = "check"
               \/ \E g \in Starters : starter[g].pc = "inserted" /\ starter[g].run = q
      BY <1>1 DEF IInv, RowIsHeld
    <3>3. \A j \in Slots : Alive(q, j) => search'[q][j] = search[q][j]
      BY <2>2, <2>4
    <3>4. QED
      BY <1>4, <2>3, <3>2, <3>3 DEF Alive
  <2>8. QueuedIsWanted'
    BY <1>2 DEF IInv, QueuedIsWanted
  <2>9. CancelReachesSearch'
    BY <1>1, <1>2, <2>2, <2>3, <2>4, SlotsAssumption DEF IInv, CancelReachesSearch, CancelSeen, TypeOK
  <2>10. QED
    BY <2>5, <2>6, <2>7, <2>8, <2>9 DEF IInv
<1>8. QED
  BY <1>5, <1>6, <1>7

-----------------------------------------------------------------------------
(* Cancellation, crash and restart.                                        *)

LEMMA CancelInv ==
  ASSUME IInv, NEW p \in Props, CancelRead(p) \/ CancelUpdate(p) \/ CancelAbort(p)
  PROVE  IInv'
<1>1. CASE CancelRead(p)
  <2>1. TypeOK' /\ MemoryInOrder'
    BY <1>1 DEF CancelRead, IInv, TypeOK, MemoryInOrder, Alive
  <2>2. RowIsHeld' /\ QueuedIsWanted' /\ CancelReachesSearch'
    BY <1>1 DEF CancelRead, IInv, RowIsHeld, QueuedIsWanted, CancelReachesSearch
  <2>3. QED
    BY <2>1, <2>2 DEF IInv
<1>2. CASE CancelUpdate(p)
  <2>1. TypeOK'
    BY <1>2 DEF CancelUpdate, IInv, TypeOK, Statuses, Finished
  <2>2. MemoryInOrder'
    BY <1>2 DEF CancelUpdate, IInv, MemoryInOrder, Alive
  <2>3. RowIsHeld'
    BY <1>2 DEF CancelUpdate, IInv, RowIsHeld
  <2>4. QueuedIsWanted'
    BY <1>2 DEF CancelUpdate, IInv, QueuedIsWanted, TypeOK
  <2>5. CancelReachesSearch'
    BY <1>2 DEF CancelUpdate, IInv, CancelReachesSearch, TypeOK
  <2>6. QED
    BY <2>1, <2>2, <2>3, <2>4, <2>5 DEF IInv
<1>3. CASE CancelAbort(p)
  <2>1. /\ search' \in [Props -> [Slots -> SearchRecord]]
        /\ \A q \in Props, k \in Slots : /\ search'[q][k].pc = search[q][k].pc
                                         /\ search'[q][k].result = search[q][k].result
                                         /\ search'[q][k].seen = search[q][k].seen
                                         /\ search[q][k].aborted => search'[q][k].aborted
        /\ \A k \in Slots : control[p] = k => search'[p][k].aborted
    <3>1. CASE control[p] = None
      BY <1>3, <3>1, SlotsAssumption DEF CancelAbort, IInv, TypeOK
    <3>2. CASE control[p] # None
      <4> DEFINE j == control[p]
      <4>1. j \in Slots /\ search[p][j] \in SearchRecord
        BY <3>2 DEF IInv, TypeOK
      <4>2. /\ [search[p][j] EXCEPT !.aborted = TRUE] \in SearchRecord
            /\ [search[p][j] EXCEPT !.aborted = TRUE].pc = search[p][j].pc
            /\ [search[p][j] EXCEPT !.aborted = TRUE].result = search[p][j].result
            /\ [search[p][j] EXCEPT !.aborted = TRUE].seen = search[p][j].seen
            /\ [search[p][j] EXCEPT !.aborted = TRUE].aborted = TRUE
        BY <4>1 DEF SearchRecord
      <4>3. /\ search' \in [Props -> [Slots -> SearchRecord]]
            /\ search'[p][j] = [search[p][j] EXCEPT !.aborted = TRUE]
            /\ \A q \in Props, k \in Slots : q # p \/ k # j => search'[q][k] = search[q][k]
        BY <1>3, <3>2, <4>1, <4>2 DEF CancelAbort, IInv, TypeOK
      <4>4. QED
        BY <4>1, <4>2, <4>3
    <3>3. QED
      BY <3>1, <3>2
  <2>2. /\ UNCHANGED <<rowVars, control, starter, procVars>>
        /\ cancel' = [cancel EXCEPT ![p] = "idle"] /\ cancel[p] = "updated"
    BY <1>3 DEF CancelAbort
  <2>3. TypeOK'
    BY <2>1, <2>2 DEF IInv, TypeOK
  <2>4. MemoryInOrder'
    BY <2>1, <2>2 DEF IInv, MemoryInOrder, Alive
  <2>5. RowIsHeld'
    <3>1. SUFFICES ASSUME mode = "up", NEW q \in Props
                   PROVE  /\ row[q] = "running" =>
                               \E k \in Slots : search'[q][k].pc \in {"collect", "save"}
                          /\ row[q] = "queued" =>
                               \/ \E k \in Slots : search'[q][k].pc = "check"
                               \/ \E h \in Starters : starter[h].pc = "inserted" /\ starter[h].run = q
      BY <2>2 DEF RowIsHeld
    <3>2. /\ row[q] = "running" => \E k \in Slots : search[q][k].pc \in {"collect", "save"}
          /\ row[q] = "queued" =>
               \/ \E k \in Slots : search[q][k].pc = "check"
               \/ \E h \in Starters : starter[h].pc = "inserted" /\ starter[h].run = q
      BY <3>1 DEF IInv, RowIsHeld
    <3>3. \A k \in Slots : search'[q][k].pc = search[q][k].pc
      BY <2>1
    <3>4. QED
      BY <3>2, <3>3
  <2>6. QueuedIsWanted'
    BY <2>2 DEF IInv, QueuedIsWanted, TypeOK
  <2>7. CancelReachesSearch'
    BY <2>1, <2>2 DEF IInv, CancelReachesSearch, TypeOK
  <2>8. QED
    BY <2>3, <2>4, <2>5, <2>6, <2>7 DEF IInv
<1>4. QED
  BY <1>1, <1>2, <1>3

LEMMA CrashInv == IInv /\ Crash => IInv'
<1> SUFFICES ASSUME IInv, Crash PROVE IInv'
  OBVIOUS
<1>1. TypeOK'
  BY MaxCrashesAssumption DEF Crash, IInv, TypeOK, SearchRecord, StarterRecord, Statuses,
     IdleSearch, IdleStarter
<1>2. MemoryInOrder'
  BY DEF Crash, MemoryInOrder, Alive, IdleSearch, IdleStarter
<1>3. RowIsHeld' /\ CancelReachesSearch'
  BY DEF Crash, RowIsHeld, CancelReachesSearch, IdleSearch
<1>4. QueuedIsWanted'
  BY DEF Crash, IInv, QueuedIsWanted
<1>5. QED
  BY <1>1, <1>2, <1>3, <1>4 DEF IInv

LEMMA RecoverInv == IInv /\ Recover => IInv'
<1> SUFFICES ASSUME IInv, Recover PROVE IInv'
  OBVIOUS
<1> USE SlotsAssumption
<1>1. /\ [IdleSearch EXCEPT !.pc = "check"] \in SearchRecord
      /\ [IdleSearch EXCEPT !.pc = "check"].pc = "check"
  BY DEF IdleSearch, SearchRecord
<1>2. /\ search' \in [Props -> [Slots -> SearchRecord]]
      /\ \A q \in Resumed : search'[q][1].pc = "check"
      /\ \A q \in Props, k \in Slots :
           search'[q][k] = search[q][k] \/ (q \in Resumed /\ k = 1)
  <2> DEFINE s == [IdleSearch EXCEPT !.pc = "check"]
  <2>1. /\ search \in [Props -> [Slots -> SearchRecord]]
        /\ search' = [q \in Props |-> IF q \in Resumed THEN [search[q] EXCEPT ![1] = s] ELSE search[q]]
    BY DEF Recover, IInv, TypeOK
  <2>2. s \in SearchRecord /\ s.pc = "check"
    BY <1>1
  <2>3. Resumed \subseteq Props
    BY DEF Resumed
  <2> HIDE DEF s
  <2>4. QED
    BY <2>1, <2>2, <2>3
<1>3. /\ row' \in [Props -> Statuses]
      /\ \A q \in Props : row'[q] = RecoveredRow(q)
  BY DEF Recover, RecoveredRow, IInv, TypeOK, Statuses, Finished
<1>4. UNCHANGED <<proposal, requested, starter, cancel, crashes>> /\ mode = "down" /\ mode' = "up"
  BY DEF Recover
<1>5. control' \in [Props -> Slots \cup {None}]
  BY DEF Recover
<1>6. TypeOK'
  BY <1>2, <1>3, <1>4, <1>5 DEF IInv, TypeOK
<1>7. MemoryInOrder'
  BY <1>2, <1>4 DEF IInv, MemoryInOrder, Alive, Resumed
<1>8. QueuedIsWanted'
  BY <1>3, <1>4 DEF RecoveredRow, IInv, QueuedIsWanted
<1>9. RowIsHeld'
  BY <1>2, <1>3, <1>4 DEF RecoveredRow, Resumed, IInv, QueuedIsWanted, RowIsHeld
<1>10. CancelReachesSearch'
  BY <1>2, <1>4 DEF Resumed, IInv, CancelReachesSearch, MemoryInOrder, Alive
<1>11. QED
  BY <1>6, <1>7, <1>8, <1>9, <1>10 DEF IInv

LEMMA InvStep == IInv /\ [Next]_vars => IInv'
<1> SUFFICES ASSUME IInv, [Next]_vars PROVE IInv'
  OBVIOUS
<1>1. CASE UNCHANGED vars
  BY <1>1 DEF vars, IInv, TypeOK, MemoryInOrder, RowIsHeld, QueuedIsWanted,
     CancelReachesSearch, Alive
<1>2. ASSUME NEW p \in Props, CancelRead(p) \/ CancelUpdate(p) \/ CancelAbort(p) PROVE IInv'
  BY <1>2, CancelInv
<1>3. ASSUME NEW p \in Props, NEW k \in Slots, SearchStep(p, k) PROVE IInv'
  BY <1>3, SearchInv
<1>4. ASSUME NEW p \in Props, NEW h \in Starters, Decide(h, p) \/ Execute(h, p) PROVE IInv'
  BY <1>4, DecideInv
<1>5. ASSUME NEW h \in Starters, StarterStep(h) PROVE IInv'
  BY <1>5, StarterInv, StartInv DEF StarterStep
<1>6. CASE Crash \/ Recover
  BY <1>6, CrashInv, RecoverInv
<1>7. QED
  BY <1>1, <1>2, <1>3, <1>4, <1>5, <1>6 DEF Next

LEMMA InductiveInv == Spec => []IInv
  BY InitInv, InvStep, PTL DEF Spec

-----------------------------------------------------------------------------
\* Rows, controllers, searches and requests are what the code can have made.
THEOREM TypeCorrect == Spec => []TypeOK
<1>1. IInv => TypeOK
  BY DEF IInv
<1>2. QED
  BY <1>1, InductiveInv, PTL

\* While the server runs, a queued or running search has somebody to end it,
\* with any number of searches of one run, requests and restarts
\* (startRun, startRelatedWorkRun, resumeQueuedRelatedWorkRuns).
THEOREM NoRunIsStranded == Spec => []NoStrandedRun
<1>1. IInv => NoStrandedRun
  BY DEF IInv, RowIsHeld, NoStrandedRun, Alive
<1>2. QED
  BY <1>1, InductiveInv, PTL

\* A cancel request that was answered is known to the search which owns the
\* entry of the run (cancelRelatedWorkRun, startRun).
THEOREM CancelIsKnown == Spec => []CancelReachesSearch
<1>1. IInv => CancelReachesSearch
  BY DEF IInv
<1>2. QED
  BY <1>1, InductiveInv, PTL
-----------------------------------------------------------------------------
(* RecursiveCollect.  Who owns a key.                                      *)

LEMMA LowestIndex ==
  ASSUME NEW n \in Nat, NEW S \in SUBSET (1..n), S # {}
  PROVE  \E i \in S : \A j \in S : i <= j
<1> DEFINE Below(i) == {j \in 1..n : j < i}
           Belows == {Below(i) : i \in S}
           Smaller == StrictSubsetOrdering(1..n)
<1>1. IsFiniteSet(1..n)
  BY FS_Interval
<1>2. IsWellFoundedOn(Smaller, FiniteSubsetsOf(1..n))
  BY FS_StrictSubsetOrderingWellFounded
<1>3. Belows \subseteq FiniteSubsetsOf(1..n)
  <2>1. Belows \subseteq SUBSET (1..n)
    OBVIOUS
  <2>2. QED
    BY <1>1, <2>1, FS_FiniteSubsetsOfFinite
<1>4. Belows # {}
  OBVIOUS
<1>5. PICK x \in Belows : \A y \in Belows : <<y, x>> \notin Smaller
  <2> HIDE DEF Smaller, Belows
  <2>1. QED
    BY <1>2, <1>3, <1>4, WFMin
<1>6. PICK i \in S : x = Below(i)
  OBVIOUS
<1>7. ASSUME NEW j \in S, j < i
      PROVE  FALSE
  <2>1. Below(j) \subseteq Below(i) /\ j \in Below(i) /\ j \notin Below(j)
    BY <1>7
  <2>2. <<Below(j), x>> \in Smaller
    BY <1>6, <2>1 DEF StrictSubsetOrdering
  <2>3. QED
    BY <1>5, <2>2
<1>8. QED
  BY <1>7

\* A paper whose keys nobody owns is none of those collected.
LEMMA UnownedIsNew ==
  ASSUME NEW r, NEW c \in Record, Owners(r, c) = {}
  PROVE  /\ c \notin Collected(r)
         /\ \A d \in Collected(r) : ~SamePaper(c, d) /\ ~SamePaper(d, c)
<1>1. PICK n \in Nat \ {0} : DOMAIN KeysOf[c] = 1..n
  BY RecordAssumption
<1> DEFINE Owned == {i \in 1..n : \E e \in Collected(r) : KeysOf[c][i] \in Keys(e)}
<1>2. Owned = {}
  <2>1. SUFFICES ASSUME Owned # {} PROVE FALSE
    OBVIOUS
  <2>2. PICK i \in Owned : \A j \in Owned : i <= j
    <3> HIDE DEF Owned
    <3>1. Owned \in SUBSET (1..n)
      BY DEF Owned
    <3>2. QED
      BY <2>1, <3>1, LowestIndex
  <2>3. PICK e \in Collected(r) : KeysOf[c][i] \in Keys(e)
    OBVIOUS
  <2>4. \A j \in 1..(i - 1) : \A d \in Collected(r) : KeysOf[c][j] \notin Keys(d)
    BY <2>2
  <2>5. e \in Owners(r, c)
    BY <1>1, <2>2, <2>3, <2>4 DEF Owners
  <2>6. QED
    BY <2>5
<1>3. \A d \in Collected(r) : Keys(c) \cap Keys(d) = {}
  BY <1>1, <1>2 DEF Keys
<1>4. KeysOf[c][1] \in Keys(c)
  BY <1>1 DEF Keys
<1>5. QED
  BY <1>3, <1>4 DEF SamePaper

\* An owner is the same paper as the record that is looked up.
LEMMA OwnerIsSame ==
  ASSUME NEW r, NEW c \in Record, NEW d \in Owners(r, c)
  PROVE  d \in Collected(r) /\ SamePaper(d, c)
BY DEF Owners, SamePaper, Keys

LEMMA SameAsItself ==
  ASSUME NEW c \in Record
  PROVE  SamePaper(c, c)
<1>1. 1 \in DOMAIN KeysOf[c]
  BY RecordAssumption
<1>2. QED
  BY <1>1 DEF SamePaper, Keys

-----------------------------------------------------------------------------
(* What a merge has to look at is finite.                                  *)

LEMMA ImageIsFinite ==
  ASSUME NEW S, IsFiniteSet(S), NEW f, NEW T, \A t \in T : \E s \in S : t = f[s]
  PROVE  IsFiniteSet(T)
<1> DEFINE g == [s \in S |-> f[s]]
           I == {f[s] : s \in S}
<1>1. g \in Surjection(S, I)
  BY DEF Surjection
<1>2. IsFiniteSet(I)
  <2> HIDE DEF g, I
  <2>1. QED
    BY <1>1, FS_Surjection
<1>3. T \in SUBSET I
  OBVIOUS
<1>4. QED
  <2> HIDE DEF I
  <2>1. QED
    BY <1>2, <1>3, FS_Subset

LEMMA RankedIsFinite ==
  ASSUME NEW r \in Searches, NEW p \in Record
  PROVE  /\ IsFiniteSet(Ranked(r, p)) /\ Ranked(r, p) \subseteq Item
         /\ \A i \in Ranked(r, p) : i.parent = p /\ i.provider \in Provider
<1> DEFINE f == [x \in Provider \X Record |->
                   [parent |-> p, child |-> x[2], provider |-> x[1], place |-> Rank[x]]]
<1>1. IsFiniteSet(Provider \X Record)
  BY RecordAssumption, FS_Product
<1>2. \A t \in Ranked(r, p) : \E x \in Provider \X Record : t = f[x]
  BY SearchAssumption DEF Ranked
<1>3. \A x \in Provider \X Record :
        f[x] \in Item /\ f[x].parent = p /\ f[x].provider \in Provider
  BY SearchAssumption DEF Item
<1>4. QED
  <2> HIDE DEF f
  <2>1. IsFiniteSet(Ranked(r, p))
    BY <1>1, <1>2, ImageIsFinite
  <2>2. QED
    BY <2>1, <1>2, <1>3

LEMMA SlicesAreFinite ==
  ASSUME CollectTypeOK, NEW r \in Searches
  PROVE  LET S == UNION {Slice(r, p) : p \in Current(r)} IN
         /\ IsFiniteSet(S) /\ S \subseteq Item
         /\ \A i \in S : i.parent \in Current(r) /\ i.provider \in Provider
         /\ \A p \in Current(r) : Slice(r, p) \subseteq S
<1>1. Current(r) \in SUBSET Record
  BY DEF Current, Collected
<1>2. IsFiniteSet(Current(r))
  BY <1>1, RecordAssumption, FS_Subset
<1>3. \A p \in Current(r) : /\ IsFiniteSet(Slice(r, p)) /\ Slice(r, p) \subseteq Item
                            /\ \A i \in Slice(r, p) : i.parent = p /\ i.provider \in Provider
  <2>1. TAKE p \in Current(r)
  <2>2. /\ IsFiniteSet(Ranked(r, p)) /\ Ranked(r, p) \subseteq Item
        /\ \A i \in Ranked(r, p) : i.parent = p /\ i.provider \in Provider
    BY <1>1, RankedIsFinite
  <2>3. Slice(r, p) \in SUBSET Ranked(r, p)
    BY DEF Slice
  <2>4. QED
    BY <2>2, <2>3, FS_Subset
<1> DEFINE f == [p \in Current(r) |-> Slice(r, p)]
           Slices == {Slice(r, p) : p \in Current(r)}
<1>4. IsFiniteSet(Slices)
  <2>1. \A t \in Slices : \E p \in Current(r) : t = f[p]
    OBVIOUS
  <2> HIDE DEF f, Slices
  <2>2. QED
    BY <1>2, <2>1, ImageIsFinite
<1>5. \A S \in Slices : IsFiniteSet(S)
  BY <1>3
<1>6. IsFiniteSet(UNION Slices)
  <2> HIDE DEF Slices
  <2>1. QED
    BY <1>4, <1>5, FS_UNION
<1>7. QED
  BY <1>3, <1>6

LEMMA SeedItemsAreFinite ==
  ASSUME NEW r \in Searches
  PROVE  LET S == {SeedItem(r, i) : i \in DOMAIN Seeds[r]} IN
         IsFiniteSet(S) /\ S \subseteq Item
<1>1. DOMAIN Seeds[r] = 1..Len(Seeds[r]) /\ Len(Seeds[r]) \in Nat
  BY SearchAssumption
<1>2. IsFiniteSet(DOMAIN Seeds[r])
  BY <1>1, FS_Interval
<1> DEFINE f == [i \in DOMAIN Seeds[r] |-> SeedItem(r, i)]
           S == {SeedItem(r, i) : i \in DOMAIN Seeds[r]}
<1>3. \A t \in S : \E i \in DOMAIN Seeds[r] : t = f[i]
  OBVIOUS
<1>4. IsFiniteSet(S)
  <2> HIDE DEF f, S
  <2>1. QED
    BY <1>2, <1>3, ImageIsFinite
<1>5. S \subseteq Item
  <2>1. \A i \in DOMAIN Seeds[r] : Seeds[r][i] \in Record /\ i \in Nat
    BY <1>1, SearchAssumption
  <2>2. QED
    BY <2>1 DEF SeedItem, Item
<1>6. QED
  BY <1>4, <1>5

-----------------------------------------------------------------------------
(* What a step leaves alone.                                               *)

PartsOf(r) ==
  SoundByEdge(r) /\ InLevel(r) /\ SeedsAreKept(r) /\ LevelsAreFollowed(r) /\ EndedAtLastLevel(r)

LEMMA InvByParts ==
  CollectInv <=> CollectTypeOK /\ \A r \in Searches : PartsOf(r)
BY DEF CollectInv, PartsOf

\* The answers that a search has are final.
AnswersStay(r) ==
  /\ cites' = cites
  /\ \A v \in Provider, c \in Record :
       fetch[r][<<v, c>>].at = "done" => fetch'[r][<<v, c>>] = fetch[r][<<v, c>>]

Same(r) ==
  /\ AnswersStay(r)
  /\ stage'[r] = stage[r] /\ level'[r] = level[r] /\ order'[r] = order[r]
  /\ depthOf'[r] = depthOf[r] /\ pending'[r] = pending[r] /\ edges'[r] = edges[r]
  /\ cancelled'[r] = cancelled[r] /\ truncated'[r] = truncated[r]

LEMMA SliceStays ==
  ASSUME NEW r \in Searches, NEW p \in Record, AnswersStay(r),
         \A v \in Providers[r] : fetch[r][<<v, p>>].at = "done"
  PROVE  Slice(r, p)' = Slice(r, p)
<1>1. \A v \in Providers[r] : fetch'[r][<<v, p>>] = fetch[r][<<v, p>>]
  BY SearchAssumption DEF AnswersStay
<1>2. \A y \in Providers[r] \X Record : y[1] \in Providers[r]
  OBVIOUS
<1>3. Ranked(r, p)' = Ranked(r, p)
  BY <1>1, <1>2 DEF Ranked, AnswersStay
<1>4. QED
  BY <1>3 DEF Slice

\* What follows references stays, when papers and edges are only added.
Grows(r) ==
  /\ Collected(r) \subseteq Collected(r)'
  /\ \A c \in Collected(r) : depthOf'[r][c] = depthOf[r][c]
  /\ edges[r] \subseteq edges'[r]

LEMMA FollowedStays ==
  ASSUME NEW r \in Searches, Grows(r), NEW p \in Collected(r), NEW i, Followed(r, p, i)
  PROVE  Followed(r, p, i)'
BY DEF Followed, Grows, SamePaper, Keys

LEMMA SameStays ==
  ASSUME NEW r \in Searches, Same(r), PartsOf(r)
  PROVE  PartsOf(r)'
<1>1. Collected(r)' = Collected(r) /\ Current(r)' = Current(r)
  BY DEF Same, Collected, Current
<1>2. Grows(r)
  BY <1>1 DEF Same, Grows
<1>3. SoundByEdge(r)'
  <2>1. SoundByEdge(r) /\ depthOf'[r] = depthOf[r] /\ edges'[r] = edges[r]
    BY DEF PartsOf, Same
  <2>2. \A c, d \in Collected(r)' : c # d => ~SamePaper(c, d)'
    BY <1>1, <2>1 DEF SoundByEdge, SamePaper, Keys
  <2>3. Cardinality(Collected(r)') <= MaxTotal[r]
    BY <1>1, <2>1 DEF SoundByEdge
  <2>4. \A e \in edges'[r] : /\ {e.parent, e.child} \subseteq Collected(r)'
                             /\ depthOf'[r][e.child] <= depthOf'[r][e.parent] + 1
    BY <1>1, <2>1 DEF SoundByEdge
  <2>5. \A c \in Collected(r)' : depthOf'[r][c] > 0 =>
          \E e \in edges'[r] : e.child = c /\ depthOf'[r][e.parent] + 1 = depthOf'[r][c]
    BY <1>1, <2>1 DEF SoundByEdge
  <2>6. QED
    BY <2>2, <2>3, <2>4, <2>5 DEF SoundByEdge
<1>4. InLevel(r)'
  BY <1>1 DEF PartsOf, InLevel, Full, Same
<1>5. SeedsAreKept(r)'
  BY <1>1 DEF PartsOf, SeedsAreKept, SeedItem, Same, SamePaper, Keys
<1>6. LevelsAreFollowed(r)'
  <2>1. SUFFICES ASSUME ~cancelled[r], ~truncated[r], NEW p \in Collected(r),
                        \/ depthOf[r][p] + 1 < level[r]
                        \/ depthOf[r][p] + 1 = level[r] /\ stage[r] = "merging"
                 PROVE  /\ \A v \in Providers[r] : fetch'[r][<<v, p>>].at = "done"
                        /\ \A i \in Slice(r, p)' :
                             \/ stage[r] = "merging" /\ i \in pending[r]
                             \/ Followed(r, p, i)'
    BY <1>1 DEF LevelsAreFollowed, Same
  <2>2. p \in Record
    BY DEF Collected
  <2>3. /\ \A v \in Providers[r] : fetch[r][<<v, p>>].at = "done"
        /\ \A i \in Slice(r, p) :
             (stage[r] = "merging" /\ i \in pending[r]) \/ Followed(r, p, i)
    BY <2>1 DEF PartsOf, LevelsAreFollowed
  <2>4. \A v \in Providers[r] : fetch'[r][<<v, p>>].at = "done"
    BY <2>2, <2>3, SearchAssumption DEF Same, AnswersStay
  <2>5. Slice(r, p)' = Slice(r, p)
    BY <2>2, <2>3, SliceStays DEF Same
  <2>6. QED
    BY <1>2, <2>3, <2>4, <2>5, FollowedStays
<1>7. EndedAtLastLevel(r)'
  BY <1>1 DEF PartsOf, EndedAtLastLevel, LoopEnds, Same
<1>8. QED
  BY <1>3, <1>4, <1>5, <1>6, <1>7 DEF PartsOf

-----------------------------------------------------------------------------
(* The steps of a search.                                                  *)

Others(r) == \A s \in Searches \ {r} : Same(s)

\* A paper that is added is a new one, and within the limit.
LEMMA AddedIsNew ==
  ASSUME CollectTypeOK, NEW r \in Searches, PartsOf(r), NEW c \in Record,
         Owners(r, c) = {}, ~Full(r), Add(r, c)
  PROVE  /\ order' \in [Searches -> [Record -> Nat]]
         /\ depthOf' \in [Searches -> [Record -> Nat]]
         /\ \A s \in Searches \ {r} : order'[s] = order[s] /\ depthOf'[s] = depthOf[s]
         /\ c \notin Collected(r) /\ Collected(r)' = Collected(r) \cup {c}
         /\ IsFiniteSet(Collected(r)') /\ Cardinality(Collected(r)') <= MaxTotal[r]
         /\ depthOf'[r][c] = level[r]
         /\ \A d \in Collected(r) : depthOf'[r][d] = depthOf[r][d]
         /\ \A d, e \in Collected(r)' : d # e => ~SamePaper(d, e)
<1>1. /\ c \notin Collected(r)
      /\ \A d \in Collected(r) : ~SamePaper(c, d) /\ ~SamePaper(d, c)
  BY UnownedIsNew
<1>2. IsFiniteSet(Collected(r))
  BY DEF PartsOf, InLevel
<1>3. Cardinality(Collected(r)) \in Nat /\ Cardinality(Collected(r)) < MaxTotal[r]
  BY <1>2, FS_CardinalityType, SearchAssumption DEF Full
<1>4. /\ order' \in [Searches -> [Record -> Nat]]
      /\ order'[r][c] > 0 /\ \A d \in Record \ {c} : order'[r][d] = order[r][d]
      /\ \A s \in Searches \ {r} : order'[s] = order[s]
  BY <1>3 DEF Add, CollectTypeOK
<1>5. Collected(r)' = Collected(r) \cup {c}
  BY <1>4 DEF Collected
<1>6. IsFiniteSet(Collected(r)') /\ Cardinality(Collected(r)') = Cardinality(Collected(r)) + 1
  BY <1>1, <1>2, <1>5, FS_AddElement
<1>7. /\ depthOf' \in [Searches -> [Record -> Nat]]
      /\ depthOf'[r][c] = level[r] /\ \A d \in Record \ {c} : depthOf'[r][d] = depthOf[r][d]
      /\ \A s \in Searches \ {r} : depthOf'[s] = depthOf[s]
  BY DEF Add, CollectTypeOK
<1>8. \A d \in Collected(r) : d \in Record \ {c}
  BY <1>1 DEF Collected
<1>9. Cardinality(Collected(r)') <= MaxTotal[r]
  BY <1>3, <1>6, SearchAssumption
<1>10. \A d, e \in Collected(r)' : d # e => ~SamePaper(d, e)
  BY <1>1, <1>5 DEF PartsOf, SoundByEdge
<1>11. QED
  BY <1>1, <1>4, <1>5, <1>6, <1>7, <1>8, <1>9, <1>10

LEMMA TakeSeedKeepsInv ==
  ASSUME CollectTypeOK, NEW r \in Searches, PartsOf(r), NEW i \in pending[r],
         TakeSeed(r, i), UNCHANGED <<cacheVars, cites, stage, level>>
  PROVE  CollectTypeOK' /\ PartsOf(r)' /\ Others(r)
<1>1. /\ stage[r] = "seeding" /\ level[r] = 0 /\ edges[r] = {} /\ IsFiniteSet(Collected(r))
      /\ \A c \in Collected(r) : depthOf[r][c] = 0
      /\ Collected(r) \subseteq SeedRecords(r) /\ i.child \in SeedRecords(r)
  <2>1. stage[r] = "seeding"
    BY DEF TakeSeed
  <2>2. \A c \in Collected(r) : depthOf[r][c] = 0
    BY <2>1 DEF PartsOf, InLevel, CollectTypeOK, Collected
  <2>3. QED
    BY <2>1, <2>2 DEF PartsOf, InLevel
<1>2. /\ stage' = stage /\ level' = level /\ edges' = edges /\ cancelled' = cancelled
      /\ cites' = cites /\ fetch' = fetch /\ CacheTypeOK'
  BY DEF TakeSeed, cacheVars, CollectTypeOK, CacheTypeOK
<1>3. i.child \in Record
  BY DEF CollectTypeOK, Item
<1>4. \A s \in Searches : AnswersStay(s)
  BY <1>2 DEF AnswersStay
\* Nothing but the seeds is collected, so that little is left to show.
<1>5. ASSUME Collected(r)' \subseteq Record, \A c \in Collected(r)' : depthOf'[r][c] = 0,
             IsFiniteSet(Collected(r)'), Cardinality(Collected(r)') <= MaxTotal[r],
             \A c, d \in Collected(r)' : c # d => ~SamePaper(c, d),
             Collected(r)' \subseteq SeedRecords(r), pending'[r] \subseteq pending[r],
             truncated'[r] => Full(r)',
             ~truncated'[r] => \A j \in DOMAIN Seeds[r] :
               \/ SeedItem(r, j) \in pending'[r]
               \/ \E c \in Collected(r)' : SamePaper(c, Seeds[r][j])
      PROVE  PartsOf(r)'
  <2>1. SoundByEdge(r)'
    BY <1>1, <1>2, <1>5 DEF SoundByEdge, SamePaper, Keys
  <2>2. InLevel(r)'
    <3>1. \A j \in pending'[r] : j.child \in SeedRecords(r)
      BY <1>1, <1>5 DEF PartsOf, InLevel
    <3>2. QED
      BY <1>1, <1>2, <1>5, <3>1 DEF InLevel, SeedRecords, Full
  <2>3. SeedsAreKept(r)'
    BY <1>1, <1>2, <1>5 DEF SeedsAreKept, SeedItem, SamePaper, Keys
  <2>4. LevelsAreFollowed(r)' /\ EndedAtLastLevel(r)'
    BY <1>1, <1>2, <1>5 DEF LevelsAreFollowed, EndedAtLastLevel
  <2>5. QED
    BY <2>1, <2>2, <2>3, <2>4 DEF PartsOf
<1>6. CASE Full(r)
  <2>1. /\ order' = order /\ depthOf' = depthOf
        /\ pending' = [pending EXCEPT ![r] = {}]
        /\ truncated' = [truncated EXCEPT ![r] = TRUE]
    BY <1>6 DEF TakeSeed
  <2>2. /\ pending' \in [Searches -> SUBSET Item] /\ pending'[r] = {}
        /\ truncated' \in [Searches -> BOOLEAN] /\ truncated'[r]
        /\ \A s \in Searches \ {r} : pending'[s] = pending[s] /\ truncated'[s] = truncated[s]
    BY <2>1 DEF CollectTypeOK
  <2>3. \A s \in Searches : IsFiniteSet(pending'[s])
    <3>1. \A s \in Searches \ {r} : IsFiniteSet(pending'[s])
      BY <2>2 DEF CollectTypeOK
    <3>2. IsFiniteSet({})
      BY FS_EmptySet
    <3>3. QED
      BY <2>2, <3>1, <3>2
  <2>4. CollectTypeOK'
    BY <1>2, <2>1, <2>2, <2>3 DEF CollectTypeOK
  <2>5. Others(r)
    BY <1>2, <1>4, <2>1, <2>2 DEF Others, Same
  <2>6. Collected(r)' = Collected(r) /\ Collected(r) \subseteq Record
    BY <2>1 DEF Collected
  <2>7. Full(r)'
    BY <1>6, <2>6 DEF Full
  <2>8. PartsOf(r)'
    BY <1>1, <1>5, <2>1, <2>2, <2>6, <2>7 DEF PartsOf, SoundByEdge
  <2>9. QED
    BY <2>4, <2>5, <2>8
<1>7. CASE ~Full(r)
  <2>1. /\ truncated' = truncated /\ ~truncated'[r]
        /\ pending' = [pending EXCEPT ![r] = @ \ {i}]
    BY <1>7 DEF TakeSeed, PartsOf, InLevel
  <2>2. /\ pending' \in [Searches -> SUBSET Item] /\ pending'[r] = pending[r] \ {i}
        /\ \A s \in Searches \ {r} : pending'[s] = pending[s]
    BY <2>1 DEF CollectTypeOK
  <2>3. \A s \in Searches : IsFiniteSet(pending'[s])
    BY <2>2, FS_RemoveElement DEF CollectTypeOK
  <2>4. ASSUME \E c \in Collected(r)' : SamePaper(c, i.child),
               Collected(r) \subseteq Collected(r)'
        PROVE  ~truncated'[r] => \A j \in DOMAIN Seeds[r] :
                 \/ SeedItem(r, j) \in pending'[r]
                 \/ \E c \in Collected(r)' : SamePaper(c, Seeds[r][j])
    <3>1. \A j : SeedItem(r, j).child = Seeds[r][j]
      BY DEF SeedItem
    <3>2. ~truncated[r] => \A j \in DOMAIN Seeds[r] :
            \/ SeedItem(r, j) \in pending[r]
            \/ \E c \in Collected(r) : SamePaper(c, Seeds[r][j])
      BY <1>1 DEF PartsOf, SeedsAreKept
    <3>3. QED
      BY <2>1, <2>2, <2>4, <3>1, <3>2
  <2>5. CASE Owners(r, i.child) = {}
    <3>1. Add(r, i.child)
      BY <1>7, <2>5 DEF TakeSeed
    <3>2. /\ order' \in [Searches -> [Record -> Nat]]
          /\ depthOf' \in [Searches -> [Record -> Nat]]
          /\ \A s \in Searches \ {r} : order'[s] = order[s] /\ depthOf'[s] = depthOf[s]
          /\ i.child \notin Collected(r) /\ Collected(r)' = Collected(r) \cup {i.child}
          /\ IsFiniteSet(Collected(r)') /\ Cardinality(Collected(r)') <= MaxTotal[r]
          /\ depthOf'[r][i.child] = level[r]
          /\ \A d \in Collected(r) : depthOf'[r][d] = depthOf[r][d]
          /\ \A d, e \in Collected(r)' : d # e => ~SamePaper(d, e)
      BY <1>3, <1>7, <2>5, <3>1, AddedIsNew
    <3>3. CollectTypeOK'
      BY <1>2, <2>1, <2>2, <2>3, <3>2 DEF CollectTypeOK
    <3>4. Others(r)
      BY <1>2, <1>4, <2>1, <2>2, <3>2 DEF Others, Same
    <3>5. \A c \in Collected(r)' : c \in Record /\ depthOf'[r][c] = 0
      BY <1>1, <1>3, <3>2 DEF Collected
    <3>6. PartsOf(r)'
      BY <1>1, <1>3, <1>5, <2>1, <2>2, <2>4, <3>2, <3>5, SameAsItself
    <3>7. QED
      BY <3>3, <3>4, <3>6
  <2>6. CASE Owners(r, i.child) # {}
    <3>1. order' = order /\ depthOf' = depthOf
      BY <1>7, <2>6 DEF TakeSeed
    <3>2. CollectTypeOK'
      BY <1>2, <2>1, <2>2, <2>3, <3>1 DEF CollectTypeOK
    <3>3. Others(r)
      BY <1>2, <1>4, <2>1, <2>2, <3>1 DEF Others, Same
    <3>4. Collected(r)' = Collected(r) /\ Collected(r) \subseteq Record
      BY <3>1 DEF Collected
    <3>5. \E c \in Collected(r) : SamePaper(c, i.child)
      BY <1>3, <2>6, OwnerIsSame
    <3>6. PartsOf(r)'
      BY <1>1, <1>5, <2>1, <2>2, <2>4, <3>1, <3>4, <3>5 DEF PartsOf, SoundByEdge
    <3>7. QED
      BY <3>2, <3>3, <3>6
  <2>7. QED
    BY <2>5, <2>6
<1>8. QED
  BY <1>6, <1>7

\* A reference that is merged adds an edge to a paper, which may be new.
LEMMA JoinKeepsInv ==
  ASSUME CollectTypeOK, NEW r \in Searches, PartsOf(r), NEW i \in pending[r],
         stage[r] = "merging", UNCHANGED <<cacheVars, cites, stage, level, cancelled, truncated>>,
         pending' = [pending EXCEPT ![r] = @ \ {i}],
         NEW c \in Record, Join(r, i, c), SamePaper(c, i.child),
         order' \in [Searches -> [Record -> Nat]],
         depthOf' \in [Searches -> [Record -> Nat]],
         \A s \in Searches \ {r} : order'[s] = order[s] /\ depthOf'[s] = depthOf[s],
         Collected(r)' = Collected(r) \cup {c},
         IsFiniteSet(Collected(r)'), Cardinality(Collected(r)') <= MaxTotal[r],
         \A d \in Collected(r) : depthOf'[r][d] = depthOf[r][d],
         c \notin Collected(r) => /\ depthOf'[r][c] = level[r] /\ ~truncated[r]
                                 /\ c \notin SeedRecords(r),
         \A d, e \in Collected(r)' : d # e => ~SamePaper(d, e)
  PROVE  CollectTypeOK' /\ PartsOf(r)' /\ Others(r)
<1> DEFINE x == [parent |-> i.parent, child |-> c, provider |-> i.provider]
<1>1. /\ i.parent \in Collected(r) /\ i.parent \in Record /\ i.provider \in Provider
      /\ depthOf[r][i.parent] + 1 = level[r]
      /\ level[r] \in Nat /\ level[r] > 0
      /\ \A d \in Collected(r) : d \in Record /\ depthOf[r][d] \in Nat /\ depthOf[r][d] <= level[r]
  BY DEF PartsOf, InLevel, Current, Collected, CollectTypeOK
<1>2. /\ stage' = stage /\ level' = level /\ cancelled' = cancelled /\ truncated' = truncated
      /\ cites' = cites /\ fetch' = fetch /\ CacheTypeOK'
  BY DEF cacheVars, CollectTypeOK, CacheTypeOK
<1>3. /\ pending' \in [Searches -> SUBSET Item] /\ pending'[r] = pending[r] \ {i}
      /\ \A s \in Searches \ {r} : pending'[s] = pending[s]
  BY DEF CollectTypeOK
<1>4. \A s \in Searches : IsFiniteSet(pending'[s])
  BY <1>3, FS_RemoveElement DEF CollectTypeOK
<1>5. x \in Edge
  BY <1>1 DEF Edge
<1>6. /\ edges' \in [Searches -> SUBSET Edge] /\ edges'[r] = edges[r] \cup {x}
      /\ \A s \in Searches \ {r} : edges'[s] = edges[s]
  BY <1>5 DEF Join, CollectTypeOK
<1>7. x.parent = i.parent /\ x.child = c
  OBVIOUS
<1> HIDE DEF x
<1>8. depthOf'[r][c] <= level[r] /\ depthOf'[r][c] \in Nat
  BY <1>1
<1>9. CollectTypeOK'
  BY <1>2, <1>3, <1>4, <1>6 DEF CollectTypeOK
<1>10. Others(r)
  BY <1>2, <1>3, <1>6 DEF Others, Same, AnswersStay
<1>11. Grows(r)
  BY <1>6 DEF Grows
<1>12. SoundByEdge(r)'
  <2>1. \A e \in edges'[r] :
          /\ e.parent \in Collected(r)' /\ e.child \in Collected(r)'
          /\ depthOf'[r][e.child] <= depthOf'[r][e.parent] + 1
    <3>1. ASSUME NEW e \in edges[r]
          PROVE  /\ e.parent \in Collected(r) /\ e.child \in Collected(r)
                 /\ depthOf'[r][e.child] <= depthOf'[r][e.parent] + 1
      BY DEF PartsOf, SoundByEdge
    <3>2. /\ x.parent \in Collected(r) /\ x.child \in Collected(r)'
          /\ depthOf'[r][x.child] <= depthOf'[r][x.parent] + 1
      BY <1>1, <1>7, <1>8
    <3>3. QED
      BY <1>6, <3>1, <3>2
  <2>2. \A d \in Collected(r)' : depthOf'[r][d] > 0 =>
          \E e \in edges'[r] : e.child = d /\ depthOf'[r][e.parent] + 1 = depthOf'[r][d]
    <3>1. ASSUME NEW d \in Collected(r), depthOf'[r][d] > 0
          PROVE  \E e \in edges[r] : e.child = d /\ depthOf'[r][e.parent] + 1 = depthOf'[r][d]
      BY <3>1 DEF PartsOf, SoundByEdge
    <3>2. c \notin Collected(r) => x.child = c /\ depthOf'[r][x.parent] + 1 = depthOf'[r][c]
      BY <1>1, <1>7
    <3>3. QED
      BY <1>6, <3>1, <3>2
  <2>3. \A d, e \in Collected(r)' : d # e => ~SamePaper(d, e)'
    BY DEF SamePaper, Keys
  <2>4. QED
    BY <2>1, <2>2, <2>3 DEF SoundByEdge
<1>13. InLevel(r)'
  <2>1. \A d \in Collected(r)' : depthOf'[r][d] <= level[r]
    BY <1>1, <1>8
  <2>2. Current(r) \subseteq Current(r)'
    BY <1>2 DEF Current
  <2>3. \A j \in pending'[r] : j.parent \in Current(r)' /\ j.provider \in Provider
    BY <1>3, <2>2 DEF PartsOf, InLevel
  <2>4. \A d \in Collected(r)' : depthOf'[r][d] = 0 <=> d \in SeedRecords(r)
    BY <1>1 DEF PartsOf, InLevel
  <2>5. truncated[r] => Full(r)'
    <3>1. truncated[r] => Collected(r)' = Collected(r) /\ Full(r)
      BY DEF PartsOf, InLevel
    <3>2. QED
      BY <3>1 DEF Full
  <2>6. QED
    BY <1>1, <1>2, <2>1, <2>3, <2>4, <2>5 DEF InLevel, SeedRecords
<1>14. SeedsAreKept(r)'
  BY <1>2, <1>11 DEF PartsOf, SeedsAreKept, Grows, SeedItem, SamePaper, Keys
<1>15. LevelsAreFollowed(r)'
  <2>1. SUFFICES ASSUME ~cancelled[r], ~truncated[r], NEW p \in Collected(r)',
                        depthOf'[r][p] + 1 < level[r] \/ depthOf'[r][p] + 1 = level[r]
                 PROVE  /\ \A v \in Providers[r] : fetch[r][<<v, p>>].at = "done"
                        /\ \A j \in Slice(r, p)' : j \in pending'[r] \/ Followed(r, p, j)'
    BY <1>2 DEF LevelsAreFollowed
  <2>2. p \in Collected(r) /\ depthOf'[r][p] = depthOf[r][p]
    BY <1>1, <2>1
  <2>3. /\ \A v \in Providers[r] : fetch[r][<<v, p>>].at = "done"
        /\ \A j \in Slice(r, p) : j \in pending[r] \/ Followed(r, p, j)
    BY <2>1, <2>2 DEF PartsOf, LevelsAreFollowed
  <2>4. Slice(r, p)' = Slice(r, p) /\ \A j \in Slice(r, p) : j.parent = p
    <3>1. Ranked(r, p)' = Ranked(r, p)
      BY <1>2 DEF Ranked
    <3>2. \A j \in Ranked(r, p) : j.parent = p
      BY <1>1, <2>2, RankedIsFinite
    <3>3. QED
      BY <3>1, <3>2 DEF Slice
  <2>5. i.parent = p => Followed(r, p, i)'
    <3>1. SUFFICES ASSUME i.parent = p PROVE Followed(r, p, i)'
      OBVIOUS
    <3>2. c \in Collected(r)' /\ SamePaper(c, i.child)'
      BY DEF SamePaper, Keys
    <3>3. depthOf'[r][c] <= depthOf'[r][p] + 1
      BY <1>1, <1>8, <2>2, <3>1
    <3>4. [parent |-> p, child |-> c, provider |-> i.provider] \in edges'[r]
      BY <1>6, <3>1 DEF x
    <3>5. QED
      BY <3>2, <3>3, <3>4 DEF Followed
  <2>6. QED
    BY <1>3, <1>11, <2>2, <2>3, <2>4, <2>5, FollowedStays
<1>16. EndedAtLastLevel(r)'
  BY <1>2 DEF EndedAtLastLevel
<1>17. QED
  BY <1>9, <1>10, <1>12, <1>13, <1>14, <1>15, <1>16 DEF PartsOf

LEMMA TakeKnownKeepsInv ==
  ASSUME CollectTypeOK, NEW r \in Searches, PartsOf(r), NEW i \in pending[r],
         TakeKnown(r, i), UNCHANGED <<cacheVars, cites, stage, level>>
  PROVE  CollectTypeOK' /\ PartsOf(r)' /\ Others(r)
<1>1. i.child \in Record
  BY DEF CollectTypeOK, Item
<1>2. PICK c \in Owners(r, i.child) : Join(r, i, c)
  BY DEF TakeKnown
<1>3. c \in Record /\ c \in Collected(r) /\ SamePaper(c, i.child)
  BY <1>1, OwnerIsSame DEF Collected
<1>4. /\ order' = order /\ depthOf' = depthOf /\ stage[r] = "merging"
      /\ UNCHANGED <<cacheVars, cites, stage, level, cancelled, truncated>>
      /\ pending' = [pending EXCEPT ![r] = @ \ {i}]
  BY DEF TakeKnown
<1>5. Collected(r)' = Collected(r)
  BY <1>4 DEF Collected
<1>6. /\ IsFiniteSet(Collected(r)) /\ Cardinality(Collected(r)) <= MaxTotal[r]
      /\ \A d, e \in Collected(r) : d # e => ~SamePaper(d, e)
  BY DEF PartsOf, InLevel, SoundByEdge
<1>7. /\ order' \in [Searches -> [Record -> Nat]] /\ depthOf' \in [Searches -> [Record -> Nat]]
      /\ \A s \in Searches \ {r} : order'[s] = order[s] /\ depthOf'[s] = depthOf[s]
      /\ Collected(r)' = Collected(r) \cup {c}
      /\ IsFiniteSet(Collected(r)') /\ Cardinality(Collected(r)') <= MaxTotal[r]
      /\ \A d \in Collected(r) : depthOf'[r][d] = depthOf[r][d]
      /\ \A d, e \in Collected(r)' : d # e => ~SamePaper(d, e)
  BY <1>3, <1>4, <1>5, <1>6 DEF CollectTypeOK
<1>8. QED
  BY <1>2, <1>3, <1>4, <1>7, JoinKeepsInv

LEMMA TakeNewKeepsInv ==
  ASSUME CollectTypeOK, NEW r \in Searches, PartsOf(r), NEW i \in pending[r],
         TakeNew(r, i), UNCHANGED <<cacheVars, cites, stage, level>>
  PROVE  CollectTypeOK' /\ PartsOf(r)' /\ Others(r)
<1>1. i.child \in Record
  BY DEF CollectTypeOK, Item
<1>2. /\ Owners(r, i.child) = {} /\ ~Full(r) /\ Add(r, i.child) /\ Join(r, i, i.child)
      /\ stage[r] = "merging"
      /\ UNCHANGED <<cacheVars, cites, stage, level, cancelled, truncated>>
      /\ pending' = [pending EXCEPT ![r] = @ \ {i}]
  BY DEF TakeNew
<1>3. /\ order' \in [Searches -> [Record -> Nat]]
      /\ depthOf' \in [Searches -> [Record -> Nat]]
      /\ \A s \in Searches \ {r} : order'[s] = order[s] /\ depthOf'[s] = depthOf[s]
      /\ Collected(r)' = Collected(r) \cup {i.child}
      /\ IsFiniteSet(Collected(r)') /\ Cardinality(Collected(r)') <= MaxTotal[r]
      /\ depthOf'[r][i.child] = level[r]
      /\ \A d \in Collected(r) : depthOf'[r][d] = depthOf[r][d]
      /\ \A d, e \in Collected(r)' : d # e => ~SamePaper(d, e)
  BY <1>1, <1>2, AddedIsNew
<1>4. SamePaper(i.child, i.child)
  BY <1>1, SameAsItself
<1>5. ~truncated[r]
  BY <1>2 DEF PartsOf, InLevel
<1>6. i.child \notin SeedRecords(r)
  <2>1. SUFFICES ASSUME NEW j \in DOMAIN Seeds[r], i.child = Seeds[r][j]
                 PROVE  FALSE
    BY DEF SeedRecords
  <2>2. \E d \in Collected(r) : SamePaper(d, i.child)
    BY <1>2, <1>5, <2>1 DEF PartsOf, SeedsAreKept
  <2>3. QED
    BY <1>1, <1>2, <2>2, UnownedIsNew
<1>7. QED
  BY <1>1, <1>2, <1>3, <1>4, <1>5, <1>6, JoinKeepsInv

LEMMA RefuseKeepsInv ==
  ASSUME CollectTypeOK, NEW r \in Searches, PartsOf(r), NEW i \in pending[r],
         Refuse(r, i), UNCHANGED <<cacheVars, cites, stage, level>>
  PROVE  CollectTypeOK' /\ PartsOf(r)' /\ Others(r)
<1>1. /\ stage[r] = "merging" /\ stage' = stage /\ level' = level /\ edges' = edges
      /\ order' = order /\ depthOf' = depthOf
      /\ cites' = cites /\ fetch' = fetch /\ CacheTypeOK'
  BY DEF Refuse, cacheVars, CollectTypeOK, CacheTypeOK
<1>2. /\ cancelled' \in [Searches -> BOOLEAN] /\ truncated' \in [Searches -> BOOLEAN]
      /\ cancelled'[r] \/ truncated'[r]
      /\ truncated[r] => truncated'[r]
      /\ truncated'[r] => truncated[r] \/ Full(r)
      /\ \A s \in Searches \ {r} :
           cancelled'[s] = cancelled[s] /\ truncated'[s] = truncated[s]
  BY DEF Refuse, CollectTypeOK
<1>3. /\ pending' \in [Searches -> SUBSET Item] /\ pending'[r] = {}
      /\ \A s \in Searches \ {r} : pending'[s] = pending[s]
  BY DEF Refuse, CollectTypeOK
<1>4. \A s \in Searches : IsFiniteSet(pending'[s])
  <2>1. \A s \in Searches \ {r} : IsFiniteSet(pending'[s])
    BY <1>3 DEF CollectTypeOK
  <2>2. IsFiniteSet({})
    BY FS_EmptySet
  <2>3. QED
    BY <1>3, <2>1, <2>2
<1>5. CollectTypeOK'
  BY <1>1, <1>2, <1>3, <1>4 DEF CollectTypeOK
<1>6. Others(r)
  BY <1>1, <1>2, <1>3 DEF Others, Same, AnswersStay
<1>7. Collected(r)' = Collected(r)
  BY <1>1 DEF Collected
<1>8. SoundByEdge(r)'
  BY <1>1, <1>7 DEF PartsOf, SoundByEdge, SamePaper, Keys
<1>9. InLevel(r)'
  BY <1>1, <1>2, <1>3, <1>7 DEF PartsOf, InLevel, Full
<1>10. SeedsAreKept(r)'
  BY <1>1, <1>2, <1>7 DEF PartsOf, SeedsAreKept, SamePaper, Keys
<1>11. LevelsAreFollowed(r)' /\ EndedAtLastLevel(r)'
  BY <1>1, <1>2 DEF LevelsAreFollowed, EndedAtLastLevel
<1>12. QED
  BY <1>5, <1>6, <1>8, <1>9, <1>10, <1>11 DEF PartsOf

LEMMA BeginKeepsInv ==
  ASSUME CollectTypeOK, NEW r \in Searches, PartsOf(r), BeginSeeds(r)
  PROVE  CollectTypeOK' /\ PartsOf(r)' /\ Others(r)
<1> DEFINE S == {SeedItem(r, i) : i \in DOMAIN Seeds[r]}
<1>1. IsFiniteSet(S) /\ S \subseteq Item
  BY SeedItemsAreFinite
<1>2. pending' = [pending EXCEPT ![r] = S]
  BY DEF BeginSeeds, SeedItem
<1>3. /\ \A i \in DOMAIN Seeds[r] : SeedItem(r, i) \in S
      /\ \A i \in S : i.child \in SeedRecords(r)
  BY DEF SeedItem, SeedRecords
<1> HIDE DEF S
<1>4. /\ pending' \in [Searches -> SUBSET Item] /\ pending'[r] = S
      /\ \A s \in Searches \ {r} : pending'[s] = pending[s]
  BY <1>1, <1>2 DEF CollectTypeOK
<1>5. /\ level' = level /\ edges' = edges /\ order' = order /\ depthOf' = depthOf
      /\ cancelled' = cancelled /\ truncated' = truncated
      /\ cites' = cites /\ fetch' = fetch /\ CacheTypeOK'
  BY DEF BeginSeeds, cacheVars, CollectTypeOK, CacheTypeOK
<1>6. /\ stage[r] = "idle" /\ stage'[r] = "seeding"
      /\ stage' \in [Searches -> {"idle", "seeding", "head", "fetching", "merging", "ended"}]
      /\ \A s \in Searches \ {r} : stage'[s] = stage[s]
  BY DEF BeginSeeds, CollectTypeOK
<1>7. \A s \in Searches : IsFiniteSet(pending'[s])
  BY <1>1, <1>4 DEF CollectTypeOK
<1>8. CollectTypeOK'
  BY <1>4, <1>5, <1>6, <1>7 DEF CollectTypeOK
<1>9. Others(r)
  BY <1>4, <1>5, <1>6 DEF Others, Same, AnswersStay
<1>10. /\ Collected(r)' = {} /\ Collected(r) = {} /\ IsFiniteSet(Collected(r))
       /\ level[r] = 0 /\ edges[r] = {}
  BY <1>5, <1>6 DEF Collected, PartsOf, InLevel
<1>11. truncated'[r] => Full(r)'
  BY <1>5, <1>10 DEF PartsOf, InLevel, Full
<1>12. SoundByEdge(r)'
  BY <1>5, <1>10 DEF PartsOf, SoundByEdge
<1>13. InLevel(r)'
  BY <1>3, <1>4, <1>5, <1>6, <1>10, <1>11 DEF InLevel, SeedRecords
<1>14. SeedsAreKept(r)'
  BY <1>3, <1>4, <1>6 DEF SeedsAreKept, SeedItem
<1>15. LevelsAreFollowed(r)' /\ EndedAtLastLevel(r)'
  BY <1>6, <1>10 DEF LevelsAreFollowed, EndedAtLastLevel
<1>16. QED
  BY <1>8, <1>9, <1>12, <1>13, <1>14, <1>15 DEF PartsOf

LEMMA LevelDoneKeepsInv ==
  ASSUME CollectTypeOK, NEW r \in Searches, PartsOf(r), LevelDone(r)
  PROVE  CollectTypeOK' /\ PartsOf(r)' /\ Others(r)
<1>1. /\ edges' = edges /\ order' = order /\ depthOf' = depthOf /\ pending' = pending
      /\ cancelled' = cancelled /\ truncated' = truncated
      /\ cites' = cites /\ fetch' = fetch /\ CacheTypeOK'
  BY DEF LevelDone, cacheVars, CollectTypeOK, CacheTypeOK
<1>2. /\ pending[r] = {} /\ stage[r] \in {"seeding", "merging"}
      /\ stage' \in [Searches -> {"idle", "seeding", "head", "fetching", "merging", "ended"}]
      /\ stage'[r] \in {"head", "ended"}
      /\ stage'[r] = "ended" => cancelled[r] \/ truncated[r]
      /\ \A s \in Searches \ {r} : stage'[s] = stage[s]
  BY DEF LevelDone, Merging, CollectTypeOK
<1>3. /\ level[r] \in Nat /\ level'[r] = level[r] + 1 /\ level' \in [Searches -> Nat]
      /\ \A s \in Searches \ {r} : level'[s] = level[s]
  BY DEF LevelDone, CollectTypeOK
<1>4. CollectTypeOK'
  BY <1>1, <1>2, <1>3 DEF CollectTypeOK
<1>5. Others(r)
  BY <1>1, <1>2, <1>3 DEF Others, Same, AnswersStay
<1>6. Collected(r)' = Collected(r)
  BY <1>1 DEF Collected
<1>7. \A c \in Collected(r) : depthOf[r][c] \in Nat /\ depthOf[r][c] <= level[r]
  BY DEF PartsOf, InLevel, Collected, CollectTypeOK
<1>8. SoundByEdge(r)'
  BY <1>1, <1>6 DEF PartsOf, SoundByEdge, SamePaper, Keys
<1>9. InLevel(r)'
  <2>1. \A c \in Collected(r) : depthOf[r][c] < level'[r]
    BY <1>3, <1>7
  <2>2. level'[r] > 0 /\ IsFiniteSet(Collected(r))
    BY <1>3 DEF PartsOf, InLevel
  <2>3. \A c \in Collected(r)' : /\ depthOf'[r][c] <= level'[r]
                                 /\ depthOf'[r][c] < level'[r]
                                 /\ depthOf'[r][c] = 0 <=> c \in SeedRecords(r)
    BY <1>1, <1>3, <1>6, <1>7, <2>1 DEF PartsOf, InLevel
  <2>4. /\ stage'[r] \notin {"idle", "seeding", "merging"} /\ pending'[r] = {}
        /\ level'[r] > 0 /\ IsFiniteSet(Collected(r)')
    BY <1>1, <1>2, <1>6, <2>2
  <2>5. truncated'[r] => Full(r)'
    BY <1>1, <1>6 DEF PartsOf, InLevel, Full
  <2>6. QED
    BY <2>3, <2>4, <2>5 DEF InLevel, SeedRecords
<1>10. SeedsAreKept(r)'
  BY <1>1, <1>2, <1>6 DEF PartsOf, SeedsAreKept, SamePaper, Keys
<1>11. LevelsAreFollowed(r)'
  <2>1. SUFFICES ASSUME ~cancelled[r], ~truncated[r], NEW p \in Collected(r),
                        depthOf[r][p] + 1 < level'[r]
                 PROVE  /\ \A v \in Providers[r] : fetch[r][<<v, p>>].at = "done"
                        /\ \A i \in Slice(r, p)' : Followed(r, p, i)'
    BY <1>1, <1>2, <1>6 DEF LevelsAreFollowed
  <2>2. \/ depthOf[r][p] + 1 < level[r]
        \/ depthOf[r][p] + 1 = level[r] /\ stage[r] = "merging"
    <3>1. stage[r] = "seeding" => level[r] = 0
      BY DEF PartsOf, InLevel
    <3>2. QED
      BY <1>2, <1>3, <1>7, <2>1, <3>1
  <2>3. /\ \A v \in Providers[r] : fetch[r][<<v, p>>].at = "done"
        /\ \A i \in Slice(r, p) : Followed(r, p, i)
    BY <1>2, <2>1, <2>2 DEF PartsOf, LevelsAreFollowed
  <2>4. Slice(r, p)' = Slice(r, p)
    BY <1>1 DEF Slice, Ranked
  <2>5. Grows(r)
    BY <1>1, <1>6 DEF Grows
  <2>6. QED
    BY <2>3, <2>4, <2>5, FollowedStays
<1>12. EndedAtLastLevel(r)'
  BY <1>1, <1>2 DEF EndedAtLastLevel
<1>13. QED
  BY <1>4, <1>5, <1>8, <1>9, <1>10, <1>11, <1>12 DEF PartsOf

LEMMA NextLevelKeepsInv ==
  ASSUME CollectTypeOK, NEW r \in Searches, PartsOf(r), NextLevel(r)
  PROVE  CollectTypeOK' /\ PartsOf(r)' /\ Others(r)
<1>1. /\ edges' = edges /\ order' = order /\ depthOf' = depthOf /\ pending' = pending
      /\ level' = level /\ cites' = cites /\ fetch' = fetch /\ CacheTypeOK'
  BY DEF NextLevel, cacheVars, CollectTypeOK, CacheTypeOK
<1>2. /\ pending[r] = {} /\ stage[r] = "head"
      /\ stage' \in [Searches -> {"idle", "seeding", "head", "fetching", "merging", "ended"}]
      /\ stage'[r] \in {"fetching", "ended"}
      /\ stage'[r] = "ended" => LoopEnds(r) \/ aborted[r] \/ Full(r)
      /\ \A s \in Searches \ {r} : stage'[s] = stage[s]
  BY DEF NextLevel, Merging, CollectTypeOK
<1>3. /\ cancelled' \in [Searches -> BOOLEAN] /\ truncated' \in [Searches -> BOOLEAN]
      /\ (cancelled'[r] <=> cancelled[r] \/ (~LoopEnds(r) /\ aborted[r]))
      /\ (truncated'[r] <=> truncated[r] \/ (~LoopEnds(r) /\ ~aborted[r] /\ Full(r)))
      /\ \A s \in Searches \ {r} :
           cancelled'[s] = cancelled[s] /\ truncated'[s] = truncated[s]
  <2>1. aborted[r] \in BOOLEAN /\ LoopEnds(r) \in BOOLEAN /\ Full(r) \in BOOLEAN
    BY DEF CollectTypeOK, CacheTypeOK, LoopEnds, Full
  <2>2. QED
    BY <2>1 DEF NextLevel, CollectTypeOK
<1>4. CollectTypeOK'
  BY <1>1, <1>2, <1>3 DEF CollectTypeOK
<1>5. Others(r)
  BY <1>1, <1>2, <1>3 DEF Others, Same, AnswersStay
<1>6. Collected(r)' = Collected(r) /\ Current(r)' = Current(r)
  BY <1>1 DEF Collected, Current
<1>7. SoundByEdge(r)'
  BY <1>1, <1>6 DEF PartsOf, SoundByEdge, SamePaper, Keys
<1>8. InLevel(r)'
  <2>1. truncated'[r] => Full(r)'
    BY <1>3, <1>6 DEF PartsOf, InLevel, Full
  <2>2. QED
    BY <1>1, <1>2, <1>6, <2>1 DEF PartsOf, InLevel
<1>9. SeedsAreKept(r)'
  BY <1>1, <1>2, <1>3, <1>6 DEF PartsOf, SeedsAreKept, SamePaper, Keys
<1>10. LevelsAreFollowed(r)'
  <2>1. SUFFICES ASSUME ~cancelled[r], ~truncated[r], NEW p \in Collected(r),
                        depthOf[r][p] + 1 < level[r]
                 PROVE  /\ \A v \in Providers[r] : fetch[r][<<v, p>>].at = "done"
                        /\ \A i \in Slice(r, p)' : Followed(r, p, i)'
    BY <1>1, <1>2, <1>3, <1>6 DEF LevelsAreFollowed
  <2>2. /\ \A v \in Providers[r] : fetch[r][<<v, p>>].at = "done"
        /\ \A i \in Slice(r, p) : Followed(r, p, i)
    BY <1>2, <2>1 DEF PartsOf, LevelsAreFollowed
  <2>3. Slice(r, p)' = Slice(r, p)
    BY <1>1 DEF Slice, Ranked
  <2>4. Grows(r)
    BY <1>1, <1>6 DEF Grows
  <2>5. QED
    BY <2>2, <2>3, <2>4, FollowedStays
<1>11. EndedAtLastLevel(r)'
  <2>1. LoopEnds(r)' <=> LoopEnds(r)
    BY <1>1, <1>6 DEF LoopEnds
  <2>2. QED
    BY <1>2, <1>3, <2>1 DEF EndedAtLastLevel
<1>12. QED
  BY <1>4, <1>5, <1>7, <1>8, <1>9, <1>10, <1>11 DEF PartsOf

LEMMA MergeKeepsInv ==
  ASSUME CollectTypeOK, NEW r \in Searches, PartsOf(r), Merge(r)
  PROVE  CollectTypeOK' /\ PartsOf(r)' /\ Others(r)
<1> DEFINE S == UNION {Slice(r, p) : p \in Current(r)}
<1>1. /\ IsFiniteSet(S) /\ S \subseteq Item
      /\ \A i \in S : i.parent \in Current(r) /\ i.provider \in Provider
      /\ \A p \in Current(r) : Slice(r, p) \subseteq S
  BY SlicesAreFinite
<1>2. pending' = [pending EXCEPT ![r] = S]
  BY DEF Merge
<1> HIDE DEF S
<1>3. /\ pending' \in [Searches -> SUBSET Item] /\ pending'[r] = S
      /\ \A s \in Searches \ {r} : pending'[s] = pending[s]
  BY <1>1, <1>2 DEF CollectTypeOK
<1>4. /\ level' = level /\ edges' = edges /\ order' = order /\ depthOf' = depthOf
      /\ cancelled' = cancelled /\ truncated' = truncated
      /\ cites' = cites /\ fetch' = fetch /\ CacheTypeOK'
  BY DEF Merge, cacheVars, CollectTypeOK, CacheTypeOK
<1>5. /\ stage[r] = "fetching" /\ stage'[r] = "merging"
      /\ stage' \in [Searches -> {"idle", "seeding", "head", "fetching", "merging", "ended"}]
      /\ \A s \in Searches \ {r} : stage'[s] = stage[s]
      /\ \A v \in Providers[r], p \in Current(r) : fetch[r][<<v, p>>].at = "done"
  BY DEF Merge, Asked, CollectTypeOK
<1>6. \A s \in Searches : IsFiniteSet(pending'[s])
  BY <1>1, <1>3 DEF CollectTypeOK
<1>7. CollectTypeOK'
  BY <1>3, <1>4, <1>5, <1>6 DEF CollectTypeOK
<1>8. Others(r)
  BY <1>3, <1>4, <1>5 DEF Others, Same, AnswersStay
<1>9. Collected(r)' = Collected(r) /\ Current(r)' = Current(r)
  BY <1>4 DEF Collected, Current
<1>10. SoundByEdge(r)'
  BY <1>4, <1>9 DEF PartsOf, SoundByEdge, SamePaper, Keys
<1>11. InLevel(r)'
  BY <1>1, <1>3, <1>4, <1>5, <1>9 DEF PartsOf, InLevel, Full
<1>12. SeedsAreKept(r)'
  BY <1>4, <1>5, <1>9 DEF PartsOf, SeedsAreKept, SamePaper, Keys
<1>13. LevelsAreFollowed(r)'
  <2>1. SUFFICES ASSUME ~cancelled[r], ~truncated[r], NEW p \in Collected(r),
                        depthOf[r][p] + 1 < level[r] \/ depthOf[r][p] + 1 = level[r]
                 PROVE  /\ \A v \in Providers[r] : fetch[r][<<v, p>>].at = "done"
                        /\ \A i \in Slice(r, p)' : i \in pending'[r] \/ Followed(r, p, i)'
    BY <1>4, <1>5, <1>9 DEF LevelsAreFollowed
  <2>2. Slice(r, p)' = Slice(r, p)
    BY <1>4 DEF Slice, Ranked
  <2>3. CASE depthOf[r][p] + 1 = level[r]
    <3>1. p \in Current(r)
      BY <2>3 DEF Current
    <3>2. QED
      BY <1>1, <1>3, <1>5, <2>2, <3>1
  <2>4. CASE depthOf[r][p] + 1 < level[r]
    <3>1. /\ \A v \in Providers[r] : fetch[r][<<v, p>>].at = "done"
          /\ \A i \in Slice(r, p) : Followed(r, p, i)
      BY <1>5, <2>1, <2>4 DEF PartsOf, LevelsAreFollowed
    <3>2. Grows(r)
      BY <1>4, <1>9 DEF Grows
    <3>3. QED
      BY <2>2, <3>1, <3>2, FollowedStays
  <2>5. QED
    BY <2>1, <2>3, <2>4
<1>14. EndedAtLastLevel(r)'
  BY <1>5 DEF EndedAtLastLevel
<1>15. QED
  BY <1>7, <1>8, <1>10, <1>11, <1>12, <1>13, <1>14 DEF PartsOf

-----------------------------------------------------------------------------
(* The requests of a level.                                                *)

\* A step of a request of r that it still has to finish.
Proceeds(r, q) ==
  /\ cache' \in [Query -> Row] /\ aborted' = aborted
  /\ \E f \in Fetch : fetch' = [fetch EXCEPT ![r][q] = f]
  /\ fetch[r][q].at # "done"

LEMMA RequestProceeds ==
  ASSUME CacheTypeOK, NEW r \in Searches, NEW q \in Query,
         ReadCache(r, q) \/ Answer(r, q) \/ StoreAnswer(r, q)
  PROVE  Proceeds(r, q)
<1>1. /\ fetch \in [Searches -> [Query -> Fetch]] /\ cache \in [Query -> Row]
      /\ fetch[r][q] \in Fetch /\ cache[q] \in Row
  BY DEF CacheTypeOK
<1>2. /\ fetch[r][q].at \in {"todo", "asking", "storing", "done"} /\ fetch[r][q].cut \in BOOLEAN
      /\ fetch[r][q].status \in {"none", "succeeded", "failed"}
      /\ fetch[r][q].saw \in {"none", "succeeded", "failed"}
      /\ cache[q].status \in {"none", "succeeded", "failed"}
  BY <1>1 DEF Fetch, Row
<1>3. CASE ReadCache(r, q)
  <2> DEFINE f == [fetch[r][q] EXCEPT !.at = IF Hit(q) THEN "done" ELSE "asking",
                                      !.status = IF Hit(q) THEN cache[q].status ELSE "none"]
  <2>1. f \in Fetch
    BY <1>1, <1>2 DEF Fetch
  <2>2. fetch' = [fetch EXCEPT ![r][q] = f]
    BY <1>1, <1>3 DEF ReadCache
  <2> HIDE DEF f
  <2>3. QED
    BY <1>1, <1>3, <2>1, <2>2 DEF ReadCache, Proceeds
<1>4. CASE Answer(r, q)
  <2>1. PICK report \in Reports(r) :
          fetch' = [fetch EXCEPT ![r][q] =
            [at |-> IF Preserved(q, Aggregate(report)) THEN "done" ELSE "storing",
             cut |-> report = "cancelled", status |-> Aggregate(report), saw |-> cache[q].status]]
    BY <1>4 DEF Answer
  <2> DEFINE f == [at |-> IF Preserved(q, Aggregate(report)) THEN "done" ELSE "storing",
                   cut |-> report = "cancelled", status |-> Aggregate(report),
                   saw |-> cache[q].status]
  <2>2. f \in Fetch
    BY <1>2 DEF Fetch, Aggregate
  <2>3. fetch' = [fetch EXCEPT ![r][q] = f]
    BY <2>1
  <2> HIDE DEF f
  <2>4. QED
    BY <1>1, <1>4, <2>2, <2>3 DEF Answer, Proceeds
<1>5. CASE StoreAnswer(r, q)
  <2> DEFINE f == [fetch[r][q] EXCEPT !.at = "done",
                                      !.status = IF Collides(r, q) THEN "failed" ELSE @]
             stored == [status |-> fetch[r][q].status, live |-> TRUE, cut |-> fetch[r][q].cut]
  <2>1. f \in Fetch
    BY <1>1, <1>2 DEF Fetch
  <2>2. stored \in Row
    BY <1>2 DEF Row
  <2>3. fetch' = [fetch EXCEPT ![r][q] = f]
    BY <1>1, <1>5 DEF StoreAnswer
  <2>4. cache' = cache \/ cache' = [cache EXCEPT ![q] = stored]
    BY <1>5 DEF StoreAnswer
  <2>5. fetch[r][q].at # "done" /\ aborted' = aborted
    BY <1>5 DEF StoreAnswer
  <2> HIDE DEF f, stored
  <2>6. cache' \in [Query -> Row]
    BY <1>1, <2>2, <2>4
  <2>7. QED
    BY <2>1, <2>3, <2>5, <2>6 DEF Proceeds
<1>6. QED
  BY <1>3, <1>4, <1>5

LEMMA RequestKeepsInv ==
  ASSUME CollectTypeOK, NEW r \in Searches, Request(r)
  PROVE  CollectTypeOK' /\ \A s \in Searches : Same(s)
<1>1. PICK q \in Asked(r) : ReadCache(r, q) \/ Answer(r, q) \/ StoreAnswer(r, q)
  BY DEF Request
<1>2. q \in Query
  BY SearchAssumption DEF Asked, Query, Current, Collected
<1>3. Proceeds(r, q)
  BY <1>1, <1>2, RequestProceeds DEF CollectTypeOK
<1>4. UNCHANGED <<cites, loopVars>>
  BY DEF Request
<1>5. fetch \in [Searches -> [Query -> Fetch]]
  BY DEF CollectTypeOK, CacheTypeOK
<1>6. PICK f \in Fetch : fetch' = [fetch EXCEPT ![r][q] = f]
  BY <1>3 DEF Proceeds
<1>7. fetch' \in [Searches -> [Query -> Fetch]]
  BY <1>2, <1>5, <1>6
<1>8. CacheTypeOK'
  BY <1>3, <1>7 DEF CollectTypeOK, CacheTypeOK, Proceeds
<1>9. ASSUME NEW s \in Searches, NEW x \in Query, fetch[s][x].at = "done"
      PROVE  fetch'[s][x] = fetch[s][x]
  BY <1>2, <1>3, <1>5, <1>6, <1>9 DEF Proceeds
<1>10. \A s \in Searches : AnswersStay(s)
  BY <1>4, <1>9 DEF AnswersStay, Query
<1>11. QED
  BY <1>4, <1>8, <1>10 DEF Same, CollectTypeOK, loopVars

LEMMA AbortKeepsInv ==
  ASSUME CollectTypeOK, NEW r \in Searches, Abort(r)
  PROVE  CollectTypeOK' /\ \A s \in Searches : Same(s)
<1>1. UNCHANGED <<cache, fetch, cites, loopVars>> /\ aborted' \in [Searches -> BOOLEAN]
  BY DEF Abort, CollectTypeOK, CacheTypeOK
<1>2. CacheTypeOK'
  BY <1>1 DEF CollectTypeOK, CacheTypeOK
<1>3. QED
  BY <1>1, <1>2 DEF Same, AnswersStay, CollectTypeOK, loopVars

LEMMA LapseKeepsInv ==
  ASSUME CollectTypeOK, NEW q \in Query, Lapse(q)
  PROVE  CollectTypeOK' /\ \A s \in Searches : Same(s)
<1>1. UNCHANGED <<fetch, aborted, cites, loopVars>>
  BY DEF Lapse, Expire
<1>2. cache \in [Query -> Row] /\ cache[q] \in Row
  BY DEF CollectTypeOK, CacheTypeOK
<1>3. cache' = [cache EXCEPT ![q].live = FALSE]
  BY DEF Lapse, Expire
<1>4. [cache[q] EXCEPT !.live = FALSE] \in Row
  BY <1>2 DEF Row
<1>5. cache' \in [Query -> Row]
  BY <1>2, <1>3, <1>4
<1>6. CacheTypeOK'
  BY <1>1, <1>5 DEF CollectTypeOK, CacheTypeOK
<1>7. QED
  BY <1>1, <1>6 DEF Same, AnswersStay, CollectTypeOK, loopVars

-----------------------------------------------------------------------------
LEMMA CollectInitInv == CollectInit => CollectInv
<1> SUFFICES ASSUME CollectInit PROVE CollectInv
  OBVIOUS
<1>1. CacheTypeOK
  BY DEF CollectInit, CacheInit, CacheTypeOK, NoRow, Row, NoFetch, Fetch
<1>2. IsFiniteSet({}) /\ Cardinality({}) = 0
  BY FS_EmptySet
<1>3. CollectTypeOK
  BY <1>1, <1>2 DEF CollectInit, CollectTypeOK
<1>4. ASSUME NEW r \in Searches
      PROVE  PartsOf(r)
  <2>1. /\ Collected(r) = {} /\ pending[r] = {} /\ edges[r] = {} /\ stage[r] = "idle"
        /\ level[r] = 0 /\ ~truncated[r]
    BY DEF CollectInit, Collected
  <2>2. SoundByEdge(r)
    BY <1>2, <2>1, SearchAssumption DEF SoundByEdge
  <2>3. InLevel(r)
    BY <1>2, <2>1 DEF InLevel
  <2>4. SeedsAreKept(r) /\ LevelsAreFollowed(r) /\ EndedAtLastLevel(r)
    BY <2>1 DEF SeedsAreKept, LevelsAreFollowed, EndedAtLastLevel
  <2>5. QED
    BY <2>2, <2>3, <2>4 DEF PartsOf
<1>5. QED
  BY <1>3, <1>4, InvByParts

LEMMA CollectStepInv == CollectInv /\ [CollectNext]_collectVars => CollectInv'
<1> SUFFICES ASSUME CollectInv, [CollectNext]_collectVars PROVE CollectInv'
  OBVIOUS
<1>1. CollectTypeOK /\ \A r \in Searches : PartsOf(r)
  BY InvByParts
<1>2. ASSUME CollectTypeOK', NEW r \in Searches, PartsOf(r)', Others(r)
      PROVE  CollectInv'
  <2>1. \A s \in Searches \ {r} : PartsOf(s)'
    BY <1>1, <1>2, SameStays DEF Others
  <2>2. \A s \in Searches : PartsOf(s)'
    BY <1>2, <2>1
  <2>3. QED
    BY <1>2, <2>2 DEF CollectInv, PartsOf
<1>3. ASSUME CollectTypeOK', \A s \in Searches : Same(s)
      PROVE  CollectInv'
  <2>1. \A s \in Searches : PartsOf(s)'
    BY <1>1, <1>3, SameStays
  <2>2. QED
    BY <1>3, <2>1 DEF CollectInv, PartsOf
<1>4. ASSUME NEW r \in Searches, BeginSeeds(r)
      PROVE  CollectInv'
  BY <1>1, <1>2, <1>4, BeginKeepsInv
<1>5. ASSUME NEW r \in Searches, Take(r)
      PROVE  CollectInv'
  <2>1. PICK i \in pending[r] : TakeSeed(r, i) \/ TakeKnown(r, i) \/ TakeNew(r, i) \/ Refuse(r, i)
    BY <1>5 DEF Take
  <2>2. UNCHANGED <<cacheVars, cites, stage, level>>
    BY <1>5 DEF Take
  <2>3. CASE TakeSeed(r, i)
    BY <1>1, <1>2, <2>2, <2>3, TakeSeedKeepsInv
  <2>4. CASE TakeKnown(r, i)
    BY <1>1, <1>2, <2>2, <2>4, TakeKnownKeepsInv
  <2>5. CASE TakeNew(r, i)
    BY <1>1, <1>2, <2>2, <2>5, TakeNewKeepsInv
  <2>6. CASE Refuse(r, i)
    BY <1>1, <1>2, <2>2, <2>6, RefuseKeepsInv
  <2>7. QED
    BY <2>1, <2>3, <2>4, <2>5, <2>6
<1>6. ASSUME NEW r \in Searches, LevelDone(r)
      PROVE  CollectInv'
  BY <1>1, <1>2, <1>6, LevelDoneKeepsInv
<1>7. ASSUME NEW r \in Searches, NextLevel(r)
      PROVE  CollectInv'
  BY <1>1, <1>2, <1>7, NextLevelKeepsInv
<1>8. ASSUME NEW r \in Searches, Request(r)
      PROVE  CollectInv'
  BY <1>1, <1>3, <1>8, RequestKeepsInv
<1>9. ASSUME NEW r \in Searches, Merge(r)
      PROVE  CollectInv'
  BY <1>1, <1>2, <1>9, MergeKeepsInv
<1>10. ASSUME NEW r \in Searches, Abort(r)
       PROVE  CollectInv'
  BY <1>1, <1>3, <1>10, AbortKeepsInv
<1>11. ASSUME NEW q \in Query, Lapse(q)
       PROVE  CollectInv'
  BY <1>1, <1>3, <1>11, LapseKeepsInv
<1>12. CASE UNCHANGED collectVars
  <2>1. CollectTypeOK'
    BY <1>1, <1>12 DEF collectVars, cacheVars, loopVars, CollectTypeOK, CacheTypeOK
  <2>2. \A s \in Searches : Same(s)
    BY <1>12 DEF collectVars, cacheVars, loopVars, Same, AnswersStay
  <2>3. QED
    BY <1>3, <2>1, <2>2
<1>13. QED
  BY <1>4, <1>5, <1>6, <1>7, <1>8, <1>9, <1>10, <1>11, <1>12 DEF CollectNext

-----------------------------------------------------------------------------
(* The reported depth is a distance.                                       *)

\* One edge at a time, a way gets at most one level further down.
LEMMA NoShorterWay ==
  ASSUME CollectTypeOK, NEW r \in Searches, PartsOf(r), NEW c \in Collected(r),
         NEW n \in Nat, NEW p \in [0..n -> Collected(r)], Way(r, c, n, p)
  PROVE  depthOf[r][c] <= n
<1>1. \A d \in Collected(r) : d \in Record /\ depthOf[r][d] \in Nat
  BY DEF CollectTypeOK, Collected
<1>2. \A k \in 0..n : p[k] \in Collected(r) /\ depthOf[r][p[k]] \in Nat
  BY <1>1
<1> DEFINE Deep == {j \in 1..(n + 1) : depthOf[r][p[j - 1]] > j - 1}
<1>3. Deep = {}
  <2>1. SUFFICES ASSUME Deep # {} PROVE FALSE
    OBVIOUS
  <2>2. PICK j \in Deep : \A k \in Deep : j <= k
    <3>1. Deep \in SUBSET (1..(n + 1)) /\ n + 1 \in Nat
      OBVIOUS
    <3> HIDE DEF Deep
    <3>2. QED
      BY <2>1, <3>1, LowestIndex
  <2>3. j # 1
    <3>1. depthOf[r][p[0]] = 0
      BY <1>2 DEF PartsOf, InLevel, Way
    <3>2. QED
      BY <3>1
  <2>4. j - 1 \in 1..n /\ j - 1 \notin Deep
    BY <2>2, <2>3
  <2>5. PICK e \in edges[r] : e.parent = p[(j - 1) - 1] /\ e.child = p[j - 1]
    BY <2>4 DEF Way
  <2>6. depthOf[r][p[j - 1]] <= depthOf[r][p[(j - 1) - 1]] + 1
    BY <2>5 DEF PartsOf, SoundByEdge
  <2>7. depthOf[r][p[(j - 1) - 1]] <= (j - 1) - 1
    BY <1>2, <2>4
  <2>8. QED
    BY <1>2, <2>4, <2>6, <2>7
<1>4. n + 1 \in 1..(n + 1) /\ (n + 1) - 1 = n
  OBVIOUS
<1>5. ~(depthOf[r][p[n]] > n)
  BY <1>3, <1>4
<1>6. QED
  BY <1>1, <1>5 DEF Way

\* Along the edges that lead to a paper from the level above, back to a seed.
LEMMA WayOfItsDepth ==
  ASSUME CollectTypeOK, NEW r \in Searches, PartsOf(r), NEW c \in Collected(r)
  PROVE  \E p \in [0..depthOf[r][c] -> Collected(r)] : Way(r, c, depthOf[r][c], p)
<1> DEFINE HasWay(d) == \E p \in [0..depthOf[r][d] -> Collected(r)] : Way(r, d, depthOf[r][d], p)
           N == depthOf[r][c] + 1
           Lost == {j \in 1..N : \E d \in Collected(r) : depthOf[r][d] + 1 = j /\ ~HasWay(d)}
<1>1. \A d \in Collected(r) : d \in Record /\ depthOf[r][d] \in Nat
  BY DEF CollectTypeOK, Collected
<1>2. N \in Nat /\ N \in 1..N
  BY <1>1
<1>3. SUFFICES ASSUME ~HasWay(c) PROVE FALSE
  OBVIOUS
<1> HIDE DEF HasWay
<1>4. N \in Lost
  BY <1>2, <1>3
<1>5. PICK j \in Lost : \A k \in Lost : j <= k
  <2>1. Lost \in SUBSET (1..N) /\ Lost # {}
    BY <1>4
  <2> HIDE DEF Lost, N
  <2>2. QED
    BY <1>2, <2>1, LowestIndex
<1>6. PICK d \in Collected(r) : depthOf[r][d] + 1 = j /\ ~HasWay(d)
  OBVIOUS
<1>7. CASE depthOf[r][d] = 0
  <2> DEFINE p == [k \in 0..0 |-> d]
  <2>1. p \in [0..depthOf[r][d] -> Collected(r)]
    BY <1>7
  <2>2. d \in SeedRecords(r)
    BY <1>7 DEF PartsOf, InLevel
  <2>3. Way(r, d, depthOf[r][d], p)
    BY <1>7, <2>2 DEF Way
  <2>4. QED
    BY <1>6, <2>1, <2>3 DEF HasWay
<1>8. CASE depthOf[r][d] # 0
  <2>1. PICK e \in edges[r] : e.child = d /\ depthOf[r][e.parent] + 1 = depthOf[r][d]
    BY <1>1, <1>8 DEF PartsOf, SoundByEdge
  <2>2. e.parent \in Collected(r)
    BY DEF PartsOf, SoundByEdge
  <2> DEFINE m == depthOf[r][e.parent]
  <2>3. m \in Nat /\ depthOf[r][d] = m + 1 /\ j = m + 2
    BY <1>1, <1>6, <2>1, <2>2
  <2>4. HasWay(e.parent)
    <3>1. m + 1 \in 1..N /\ m + 1 < j
      BY <1>2, <2>3
    <3>2. m + 1 \notin Lost
      BY <1>5, <3>1
    <3>3. QED
      BY <2>2, <3>1, <3>2
  <2>5. PICK p \in [0..m -> Collected(r)] : Way(r, e.parent, m, p)
    BY <2>4 DEF HasWay
  <2> HIDE DEF m
  <2> DEFINE q == [k \in 0..(m + 1) |-> IF k = m + 1 THEN d ELSE p[k]]
  <2>6. q \in [0..(m + 1) -> Collected(r)]
    BY <2>3
  <2>7. \A k \in 0..m : q[k] = p[k]
    BY <2>3
  <2>8. q[0] \in SeedRecords(r) /\ q[m + 1] = d
    BY <2>3, <2>5, <2>7 DEF Way
  <2>9. ASSUME NEW k \in 1..(m + 1)
        PROVE  \E x \in edges[r] : x.parent = q[k - 1] /\ x.child = q[k]
    <3>1. CASE k \in 1..m
      <4>1. k - 1 \in 0..m /\ k \in 0..m
        BY <2>3, <3>1
      <4>2. \E x \in edges[r] : x.parent = p[k - 1] /\ x.child = p[k]
        BY <2>5, <3>1 DEF Way
      <4>3. QED
        BY <2>7, <4>1, <4>2
    <3>2. CASE k = m + 1
      <4>1. q[k - 1] = e.parent
        BY <2>3, <2>5, <2>7, <3>2 DEF Way
      <4>2. QED
        BY <2>1, <2>8, <3>2, <4>1
    <3>3. QED
      BY <2>3, <3>1, <3>2
  <2> HIDE DEF q
  <2>10. Way(r, d, m + 1, q)
    BY <2>8, <2>9 DEF Way
  <2>11. QED
    BY <1>6, <2>3, <2>6, <2>10 DEF HasWay
<1>9. QED
  BY <1>7, <1>8

-----------------------------------------------------------------------------
\* The invariant that the collection keeps, whatever the providers list and however the
\* answers of several searches interleave in the cache (recursive-search.ts).
THEOREM CollectInductiveInv == CollectSpec => []CollectInv
BY CollectInitInv, CollectStepInv, PTL DEF CollectSpec

\* Every variable of the collection keeps its type (recursive-search.ts, cache.ts).
THEOREM CollectTypeCorrect == CollectSpec => []CollectTypeOK
<1>1. CollectInv => CollectTypeOK
  BY DEF CollectInv
<1>2. QED
  BY <1>1, CollectInductiveInv, PTL

\* No paper is collected twice whichever of its keys a provider names it by, the limit
\* holds for any limit, and the reported depth is the distance from the seeds in the
\* reported graph, for a graph of any size (recursive-search.ts, addSeen).
THEOREM CollectedIsSound == CollectSpec => []CollectionIsSound
<1>1. CollectInv => CollectionIsSound
  <2> SUFFICES ASSUME CollectInv, NEW r \in Searches
               PROVE  /\ \A c, d \in Collected(r) : c # d => ~SamePaper(c, d)
                      /\ Cardinality(Collected(r)) <= MaxTotal[r]
                      /\ \A e \in edges[r] : {e.parent, e.child} \subseteq Collected(r)
                      /\ \A c \in Collected(r) : IsDistance(r, c, depthOf[r][c])
    BY DEF CollectionIsSound
  <2>1. CollectTypeOK /\ PartsOf(r)
    BY InvByParts
  <2>2. ASSUME NEW c \in Collected(r)
        PROVE  IsDistance(r, c, depthOf[r][c])
    <3>1. depthOf[r][c] \in Nat
      BY <2>1 DEF CollectTypeOK, Collected
    <3>2. ASSUME NEW m \in 0..(depthOf[r][c] - 1), NEW p \in [0..m -> Collected(r)],
                 Way(r, c, m, p)
          PROVE  FALSE
      <4>1. m \in Nat /\ m < depthOf[r][c]
        BY <3>1
      <4>2. depthOf[r][c] <= m
        BY <2>1, <3>2, <4>1, NoShorterWay
      <4>3. QED
        BY <3>1, <4>1, <4>2
    <3>3. QED
      BY <2>1, <3>2, WayOfItsDepth DEF IsDistance
  <2>3. QED
    BY <2>1, <2>2 DEF PartsOf, SoundByEdge
<1>2. QED
  BY <1>1, CollectInductiveInv, PTL

\* A search that claims to have gone through has followed every reference that it is
\* meant to follow, for any depth and width (recursive-search.ts, recursiveCollect).
THEOREM CollectedIsComplete == CollectSpec => []CollectionIsComplete
<1>1. CollectInv => CollectionIsComplete
  <2> SUFFICES ASSUME CollectInv, NEW r \in Searches,
                      stage[r] = "ended", ~cancelled[r], ~truncated[r]
               PROVE  /\ \A i \in DOMAIN Seeds[r] : \E c \in Collected(r) :
                           SamePaper(c, Seeds[r][i]) /\ depthOf[r][c] = 0
                      /\ \A p \in Collected(r) : depthOf[r][p] + 1 < Depth[r] =>
                           /\ \A v \in Providers[r] : fetch[r][<<v, p>>].at = "done"
                           /\ \A i \in Slice(r, p) : Followed(r, p, i)
    BY DEF CollectionIsComplete, Followed
  <2>1. \A i \in DOMAIN Seeds[r] : \E c \in Collected(r) :
          SamePaper(c, Seeds[r][i]) /\ depthOf[r][c] = 0
    BY DEF CollectInv, SeedsAreKept
  <2>2. ASSUME NEW p \in Collected(r), depthOf[r][p] + 1 < Depth[r]
        PROVE  /\ \A v \in Providers[r] : fetch[r][<<v, p>>].at = "done"
               /\ \A i \in Slice(r, p) : Followed(r, p, i)
    <3>1. /\ level[r] >= Depth[r] \/ Current(r) = {}
          /\ depthOf[r][p] < level[r] /\ depthOf[r][p] \in Nat /\ level[r] \in Nat
      <4>1. level[r] >= Depth[r] \/ Current(r) = {}
        BY DEF CollectInv, EndedAtLastLevel, LoopEnds
      <4>2. depthOf[r][p] < level[r]
        BY DEF CollectInv, InLevel
      <4>3. depthOf[r][p] \in Nat /\ level[r] \in Nat
        BY DEF CollectInv, CollectTypeOK, Collected
      <4>4. QED
        BY <4>1, <4>2, <4>3
    <3>2. depthOf[r][p] + 1 # level[r] \/ level[r] >= Depth[r]
      BY <3>1 DEF Current
    <3>3. depthOf[r][p] + 1 < level[r]
      BY <2>2, <3>1, <3>2, SearchAssumption
    <3>4. QED
      BY <3>3 DEF CollectInv, LevelsAreFollowed
  <2>3. QED
    BY <2>1, <2>2
<1>2. QED
  BY <1>1, CollectInductiveInv, PTL

=============================================================================
