---------------------------- MODULE Lineage_proofs ---------------------------
(***************************************************************************)
(* Theorems about Lineage, for every graph of records and runs, every      *)
(* finite number of concurrent requests, and every number of crashes.      *)
(***************************************************************************)
EXTENDS Lineage, FiniteSetTheorems, TLAPS

USE DEF rowVars, edgeVars, boundVars, vars

-----------------------------------------------------------------------------
(* The graph.                                                              *)

LEMMA PointFacts ==
  /\ \A r \in Runs : Point(r) \in Points /\ Point(r) \notin Records \cup Fixed \cup Runs
  /\ \A r, s \in Runs : Point(r) = Point(s) => r = s
BY PointsAssumption DEF Point, Points

LEMMA EdgeFacts ==
  /\ \A r \in Runs : RunEdges(r) \subseteq Edges /\ PointEdges(r) \subseteq Edges
  /\ \A r \in Runs : \A e \in RunEdges(r) : Down(e) = r /\ Up(e) \in Inputs[r]
  /\ \A r \in Runs : \A e \in PointEdges(r) : Down(e) = Point(r) /\ Up(e) \in Inputs[r] \cup {r}
  /\ \A e \in SourceEdges : Down(e) \in Records /\ Up(e) \in Records
<1>1. \A r \in Runs : RunEdges(r) \subseteq Edges /\ PointEdges(r) \subseteq Edges
  BY DEF Edges
<1>2. \A r \in Runs : \A e \in RunEdges(r) : Down(e) = r /\ Up(e) \in Inputs[r]
  BY DEF RunEdges, Down, Up
<1>3. \A r \in Runs : \A e \in PointEdges(r) : Down(e) = Point(r) /\ Up(e) \in Inputs[r] \cup {r}
  BY DEF PointEdges, Down, Up
<1>4. \A e \in SourceEdges : Down(e) \in Records /\ Up(e) \in Records
  BY DEF SourceEdges, Down, Up
<1>5. QED
  BY <1>1, <1>2, <1>3, <1>4

LEMMA EdgeKinds ==
  \A e \in Edges :
    \/ e \in SourceEdges
    \/ \E r \in Runs : e \in RunEdges(r) \/ e \in PointEdges(r)
BY DEF Edges

LEMMA EdgeEnds ==
  /\ \A e \in Edges : Down(e) \in Nodes /\ Up(e) \in Records \cup Fixed \cup Runs
  /\ \A e \in Edges, r \in Runs : Down(e) = Point(r) => e \in PointEdges(r)
  /\ \A r, s \in Runs : \A e \in RunEdges(r) : e \notin PointEdges(s) /\ (e \in RunEdges(s) => r = s)
  /\ \A r, s \in Runs : \A e \in PointEdges(r) : e \in PointEdges(s) => r = s
<1>1. \A r \in Runs : Inputs[r] \subseteq Records \cup Fixed
  BY InputsAssumption
<1>2. ASSUME NEW e \in Edges
      PROVE  Down(e) \in Nodes /\ Up(e) \in Records \cup Fixed \cup Runs
  BY <1>1, EdgeFacts, EdgeKinds, PointFacts DEF Nodes
<1>3. ASSUME NEW e \in Edges, NEW r \in Runs, Down(e) = Point(r)
      PROVE  e \in PointEdges(r)
  BY <1>3, EdgeFacts, EdgeKinds, PointFacts
<1>4. \A r, s \in Runs : \A e \in RunEdges(r) : e \notin PointEdges(s) /\ (e \in RunEdges(s) => r = s)
  BY EdgeFacts, PointFacts
<1>5. \A r, s \in Runs : \A e \in PointEdges(r) : e \in PointEdges(s) => r = s
  BY EdgeFacts, PointFacts
<1>6. QED
  BY <1>2, <1>3, <1>4, <1>5

LEMMA FingerprintIsTyped ==
  ASSUME TypeOK, NEW n
  PROVE  /\ Fingerprint(n) \in Prints
         /\ n \in Records => Fingerprint(n) = <<version[n], "valid">>
BY NodesAssumption, ContentsAssumption DEF TypeOK, Fingerprint, Prints

\* A fingerprint that differs from a recorded one has a cause.
LEMMA DifferenceIsCaused ==
  ASSUME IInv, NEW e \in Edges, NEW p \in Prints, PrintIsCaused(e, p), Fingerprint(Up(e)) # p
  PROVE  Caused(Up(e))
<1> DEFINE u == Up(e)
<1>1. p = <<p[1], p[2]>> /\ p[1] \in Contents /\ p[2] \in {"absent", "valid", "invalid"}
  BY DEF Prints
<1>2. /\ p[1] # First => u \in touched
      /\ p[2] # "valid" => u \in Runs /\ standing[u] = "invalid"
  BY DEF PrintIsCaused
<1>3. CASE u \in touched
  BY <1>3 DEF Caused
<1>4. CASE u \in Runs /\ standing[u] = "invalid"
  BY <1>4 DEF IInv, InvalidForAReason, Caused
<1>5. CASE u \notin touched /\ ~(u \in Runs /\ standing[u] = "invalid")
  <2>1. p[1] = First /\ p[2] = "valid"
    BY <1>2, <1>5
  <2>2. u \in Runs => standing[u] = "valid"
    BY <1>5 DEF IInv, PrintsAreCaused, TypeOK
  <2>3. u \in Records => version[u] = First
    BY <1>5 DEF IInv, PrintsAreCaused
  <2>4. Fingerprint(u) = <<First, "valid">>
    BY <2>2, <2>3 DEF Fingerprint
  <2>5. QED
    BY <1>1, <2>1, <2>4
<1>6. QED
  BY <1>3, <1>4, <1>5

-----------------------------------------------------------------------------
(* What no step takes back.                                                *)

Grows ==
  /\ \A e \in Edges : edge[e] # "none" => edge'[e] # "none" /\ print'[e] = print[e]
  /\ \A e \in Edges : edge[e] = "invalid" => edge'[e] = "invalid"
  /\ touched \subseteq touched'
  /\ \A r \in Runs : standing[r] = "invalid" => standing'[r] = "invalid"
  /\ superseded \subseteq superseded'

LEMMA CausesStay ==
  ASSUME Grows
  PROVE  /\ \A n : IsSwept(n) => IsSwept(n)'
         /\ \A n : Caused(n) => Caused(n)'
         /\ \A e, p : PrintIsCaused(e, p) => PrintIsCaused(e, p)'
<1>1. \A n : IsSwept(n) => IsSwept(n)'
  BY DEF Grows, IsSwept
<1>2. \A n : Caused(n) => Caused(n)'
  BY <1>1 DEF Grows, Caused
<1>3. \A e, p : PrintIsCaused(e, p) => PrintIsCaused(e, p)'
  BY DEF Grows, PrintIsCaused
<1>4. QED
  BY <1>1, <1>2, <1>3

\* What a recovery has found drifted stays so.
LEMMA DriftStays ==
  ASSUME TypeOK, TypeOK', Grows, version' = version, NEW e \in Edges, edge[e] # "none",
         Up(e) \in touched, print[e] # Fingerprint(Up(e))
  PROVE  /\ edge'[e] # "none" /\ Up(e) \in touched' /\ print'[e] = print[e]
         /\ print'[e] # Fingerprint(Up(e))'
<1>1. Fingerprint(Up(e)) = <<version[Up(e)], "valid">>
  BY FingerprintIsTyped DEF TypeOK
<1>2. Fingerprint(Up(e))' = <<version'[Up(e)], "valid">>
  BY NodesAssumption DEF TypeOK, Fingerprint
<1>3. QED
  BY <1>1, <1>2 DEF Grows

\* A request that does not move.
LEMMA WorkerStays ==
  ASSUME IInv, TypeOK', Grows, version' = version, NEW w \in Workers, worker'[w] = worker[w],
         \A f \in Edges : edge'[f] = "valid" /\ f \notin late' =>
           \/ edge[f] = "valid" /\ f \notin late
           \/ Up(f) \notin worker[w].visited
  PROVE  WorkerIsCaused(worker[w])' /\ WorkerInOrder(worker[w])' /\ HadIsFound(worker[w])'
<1> DEFINE q == worker[w]
<1>a. TypeOK /\ q \in WorkerRecord
  BY DEF IInv, TypeOK
<1>1. WorkerIsCaused(worker[w])'
  <2>1. WorkerIsCaused(q)
    BY DEF IInv
  <2>2. QED
    BY <2>1, CausesStay DEF WorkerIsCaused
<1>2. WorkerInOrder(worker[w])'
  <2>1. WorkerInOrder(q) /\ q.rest \subseteq Edges
    BY <1>a DEF IInv, WorkerRecord
  <2>2. \A e \in q.rest : edge'[e] # "none"
    BY <2>1 DEF WorkerInOrder, Grows
  <2>3. QED
    BY <2>1, <2>2 DEF WorkerInOrder, InSweep
<1>3. HadIsFound(worker[w])'
  <2>1. ASSUME NEW e \in q.had
        PROVE  /\ Down(e) \in {q.run, Point(q.run)} /\ edge'[e] # "none"
               /\ Up(e) \in touched'
               /\ print'[e] # Fingerprint(Up(e))'
               /\ edge'[e] = "invalid" \/ Found(worker[w], e)'
    <3>1. /\ Down(e) \in {q.run, Point(q.run)} /\ edge[e] # "none"
          /\ Up(e) \in touched /\ print[e] # Fingerprint(Up(e))
          /\ edge[e] = "invalid" \/ Found(q, e)
      BY DEF IInv, HadIsFound
    <3>2. e \in Edges
      BY <1>a DEF WorkerRecord
    <3>3. /\ edge'[e] # "none" /\ Up(e) \in touched' /\ print'[e] = print[e]
          /\ print'[e] # Fingerprint(Up(e))'
      BY <1>a, <3>1, <3>2, DriftStays
    <3>4. Found(q, e) => Found(worker[w], e)'
      BY <3>3 DEF Found, InSweep
    <3>5. edge[e] = "invalid" => edge'[e] = "invalid"
      BY <3>2 DEF Grows
    <3>6. QED
      BY <3>1, <3>3, <3>4, <3>5
  <2>2. QED
    BY <2>1 DEF HadIsFound
<1>4. QED
  BY <1>1, <1>2, <1>3

LEMMA MarkingIsFinite ==
  ASSUME NEW S
  PROVE  IsFiniteSet(Marking(S))
<1>1. Marking(S) \subseteq Workers
  BY DEF Marking
<1>2. QED
  BY <1>1, WorkersAssumption, FS_Subset

-----------------------------------------------------------------------------
(* The ledgers and the records, while the requests stand still.            *)

\* The requests keep their places, as far as sweeps are concerned.
LEMMA PlacesStand ==
  ASSUME IInv, TypeOK', Grows, UNCHANGED lost, PrintsAreCaused',
         \A w \in Workers :
           /\ WorkerIsCaused(worker[w])' /\ WorkerInOrder(worker[w])' /\ HadIsFound(worker[w])'
           /\ worker'[w].pc = worker[w].pc /\ worker'[w].hit = worker[w].hit
           /\ worker'[w].queue = worker[w].queue /\ worker'[w].rest = worker[w].rest,
         \A r \in Runs : LedgerInOrder(r)',
         \A e \in Edges : edge'[e] = "invalid" => edge[e] = "invalid",
         \A n \in Runs \cup Points : standing'[n] = "invalid" => standing[n] = "invalid",
         \A e \in Edges : edge'[e] = "invalid" /\ Down(e) \in Runs \cup Points =>
           standing'[Down(e)] = standing[Down(e)],
         \A f \in Edges : edge'[f] = "valid" /\ f \notin late' =>
           \/ edge[f] = "valid" /\ f \notin late
           \/ ~IsSwept(Up(f)) /\ \A w \in Workers : Up(f) \notin worker[w].visited
  PROVE  IInv'
<1>1. \A w \in Workers, f \in Edges : Reaches(worker[w], f) => Reaches(worker[w], f)'
  BY DEF Reaches, InSweep
<1>2. InvalidForAReason'
  <2>1. \A e \in Edges : edge'[e] = "invalid" => Caused(Up(e))'
    BY CausesStay DEF IInv, InvalidForAReason, Caused
  <2>2. \A n \in Runs \cup Points : standing'[n] = "invalid" => IsSwept(n)'
    BY CausesStay DEF IInv, InvalidForAReason
  <2>3. QED
    BY <2>1, <2>2 DEF InvalidForAReason, Caused
<1>3. SweepIsComplete'
  <2>1. ASSUME lost' = 0, NEW e \in Edges, NEW f \in Edges,
               edge'[e] = "invalid", Up(f) = Down(e), edge'[f] = "valid", f \notin late'
        PROVE  \E w \in Workers : Reaches(worker[w], f)'
    <3>1. edge[e] = "invalid" /\ lost = 0 /\ IsSwept(Up(f))
      BY <2>1 DEF IsSwept
    <3>2. edge[f] = "valid" /\ f \notin late
      BY <2>1, <3>1
    <3>3. QED
      BY <1>1, <2>1, <3>1, <3>2 DEF IInv, SweepIsComplete
  <2>2. QED
    BY <2>1 DEF SweepIsComplete
<1>4. MarksAreOwed'
  <2>1. ASSUME NEW S \in SUBSET (Runs \cup Points)
        PROVE  /\ IsFiniteSet(Owed(S)')
               /\ Cardinality(Owed(S)') <= lost' + Cardinality(Marking(S)')
    <3>1. Owed(S)' \subseteq Owed(S)
      BY DEF Owed
    <3>2. Marking(S)' = Marking(S)
      BY DEF Marking
    <3>3. IsFiniteSet(Owed(S)) /\ Cardinality(Owed(S)) <= lost + Cardinality(Marking(S))
      BY DEF IInv, MarksAreOwed
    <3>4. IsFiniteSet(Owed(S)') /\ Cardinality(Owed(S)') <= Cardinality(Owed(S))
      BY <3>1, <3>3, FS_Subset
    <3>5. Cardinality(Owed(S)) \in Nat /\ Cardinality(Owed(S)') \in Nat
      BY <3>3, <3>4, FS_CardinalityType
    <3>6. Cardinality(Marking(S)) \in Nat /\ lost \in Nat
      BY MarkingIsFinite, FS_CardinalityType DEF IInv, TypeOK
    <3>7. QED
      BY <3>2, <3>3, <3>4, <3>5, <3>6
  <2>2. QED
    BY <2>1 DEF MarksAreOwed
<1>5. QED
  BY <1>2, <1>3, <1>4 DEF IInv

\* The requests do not move at all.
LEMMA RequestsStand ==
  ASSUME IInv, TypeOK', Grows, UNCHANGED <<version, worker, lost>>, PrintsAreCaused',
         \A r \in Runs : LedgerInOrder(r)',
         \A e \in Edges : edge'[e] = "invalid" => edge[e] = "invalid",
         \A n \in Runs \cup Points : standing'[n] = "invalid" => standing[n] = "invalid",
         \A e \in Edges : edge'[e] = "invalid" /\ Down(e) \in Runs \cup Points =>
           standing'[Down(e)] = standing[Down(e)],
         \A f \in Edges : edge'[f] = "valid" /\ f \notin late' =>
           \/ edge[f] = "valid" /\ f \notin late
           \/ ~IsSwept(Up(f)) /\ \A w \in Workers : Up(f) \notin worker[w].visited
  PROVE  IInv'
<1>1. ASSUME NEW w \in Workers
      PROVE  WorkerIsCaused(worker[w])' /\ WorkerInOrder(worker[w])' /\ HadIsFound(worker[w])'
  BY WorkerStays
<1>2. QED
  BY <1>1, PlacesStand

\* A record changes: what a recovery had found drifted is that still, or is dropped.
LEMMA ChangeStep ==
  ASSUME IInv, NEW u \in Records, Change(u)
  PROVE  IInv'
<1>a. TypeOK /\ touched \subseteq Records
  BY DEF IInv, TypeOK
<1>b. PICK c \in Contents :
        /\ changes < MaxChanges /\ changes' = changes + 1
        /\ version' = [version EXCEPT ![u] = c] /\ touched' = touched \cup {u}
        /\ worker' = [w \in Workers |-> [worker[w] EXCEPT !.had =
                        {e \in @ : Up(e) = u => print[e] # <<c, "valid">>}]]
        /\ UNCHANGED <<superseded, standing, edgeVars, ledger, late, lost, requests, crashes>>
  BY DEF Change
<1>1. ASSUME NEW w \in Workers
      PROVE  /\ worker'[w] \in WorkerRecord
             /\ worker'[w].pc = worker[w].pc /\ worker'[w].run = worker[w].run
             /\ worker'[w].todo = worker[w].todo /\ worker'[w].stale = worker[w].stale
             /\ worker'[w].queue = worker[w].queue /\ worker'[w].visited = worker[w].visited
             /\ worker'[w].rest = worker[w].rest /\ worker'[w].hit = worker[w].hit
             /\ worker'[w].had = {e \in worker[w].had : Up(e) = u => print[e] # <<c, "valid">>}
  <2>1. worker[w] \in WorkerRecord
    BY <1>a DEF TypeOK
  <2>2. QED
    BY <1>b, <2>1 DEF WorkerRecord
<1>2. TypeOK'
  <2>1. version' \in [Records -> Contents] /\ touched' \subseteq Records
    BY <1>a, <1>b DEF TypeOK
  <2>2. worker' \in [Workers -> WorkerRecord]
    BY <1>b, <1>1
  <2>3. changes' \in 0..MaxChanges
    BY <1>a, <1>b, BoundsAssumption DEF TypeOK
  <2>4. QED
    BY <1>a, <1>b, <2>1, <2>2, <2>3 DEF TypeOK
<1>3. Grows
  BY <1>b DEF Grows
<1>4. PrintsAreCaused'
  <2>1. \A v \in Records : version'[v] # First => v \in touched'
    BY <1>a, <1>b DEF IInv, PrintsAreCaused, TypeOK
  <2>2. QED
    BY <1>b, <2>1 DEF IInv, PrintsAreCaused, PrintIsCaused
<1>5. \A r \in Runs : LedgerInOrder(r)'
  BY <1>b DEF IInv, LedgerInOrder
<1>6. ASSUME NEW w \in Workers
      PROVE  WorkerIsCaused(worker[w])' /\ WorkerInOrder(worker[w])' /\ HadIsFound(worker[w])'
  <2>1. WorkerIsCaused(worker[w])'
    <3>1. WorkerIsCaused(worker[w])
      BY DEF IInv
    <3>2. QED
      BY <1>1, <1>3, <3>1, CausesStay DEF WorkerIsCaused
  <2>2. WorkerInOrder(worker[w])'
    <3>1. WorkerInOrder(worker[w])
      BY DEF IInv
    <3>2. QED
      BY <1>b, <1>1, <3>1 DEF WorkerInOrder, InSweep
  <2>3. HadIsFound(worker[w])'
    <3>1. ASSUME NEW e \in worker'[w].had
          PROVE  /\ Down(e) \in {worker[w].run, Point(worker[w].run)} /\ edge[e] # "none"
                 /\ Up(e) \in touched' /\ print[e] # Fingerprint(Up(e))'
                 /\ edge[e] = "invalid" \/ Found(worker[w], e)
      <4>1. /\ e \in worker[w].had /\ (Up(e) = u => print[e] # <<c, "valid">>)
        BY <1>1
      <4>2. /\ Down(e) \in {worker[w].run, Point(worker[w].run)} /\ edge[e] # "none"
            /\ Up(e) \in touched /\ print[e] # Fingerprint(Up(e))
            /\ edge[e] = "invalid" \/ Found(worker[w], e)
        BY <4>1 DEF IInv, HadIsFound
      <4>3. Up(e) \in Records
        BY <1>a, <4>2
      <4>4. Fingerprint(Up(e))' = <<version'[Up(e)], "valid">>
        BY <4>3, NodesAssumption DEF Fingerprint
      <4>5. Fingerprint(Up(e)) = <<version[Up(e)], "valid">>
        BY <1>a, <4>3, FingerprintIsTyped
      <4>6. version'[Up(e)] = IF Up(e) = u THEN c ELSE version[Up(e)]
        BY <1>a, <1>b, <4>3 DEF TypeOK
      <4>7. QED
        BY <1>b, <4>1, <4>2, <4>4, <4>5, <4>6
    <3>2. \A e : Found(worker[w], e) => Found(worker[w], e)'
      BY <1>b, <1>1 DEF Found, InSweep
    <3>3. QED
      BY <1>b, <1>1, <3>1, <3>2 DEF HadIsFound
  <2>4. QED
    BY <2>1, <2>2, <2>3
<1>7. QED
  BY <1>b, <1>1, <1>2, <1>3, <1>4, <1>5, <1>6, PlacesStand

LEMMA ReadUpstreamStep ==
  ASSUME IInv, NEW r \in Runs, ReadUpstream(r)
  PROVE  IInv'
<1>a. /\ TypeOK /\ LedgerInOrder(r) /\ ledger[r] \in LedgerRecord
      /\ ledger[r].pc \in {"inputs", "point"} /\ ledger[r].cur = None /\ ledger[r].left # {}
      /\ UNCHANGED <<rowVars, standing, edgeVars, worker, late, lost, boundVars>>
  BY DEF IInv, TypeOK, ReadUpstream
<1>1. PICK e : e = CHOOSE x \in ledger[r].left : TRUE
  OBVIOUS
<1>2. e \in ledger[r].left /\ e \in Edges
  BY <1>a, <1>1 DEF LedgerRecord
<1> DEFINE q == [ledger[r] EXCEPT !.cur = e, !.fp = Fingerprint(Up(e)), !.left = @ \ {e}]
<1>3. Fingerprint(Up(e)) \in Prints
  BY <1>a, FingerprintIsTyped
<1>4. /\ q \in LedgerRecord /\ q.pc = ledger[r].pc /\ q.cur = e
      /\ q.left = ledger[r].left \ {e} /\ q.fp = Fingerprint(Up(e))
  BY <1>a, <1>2, <1>3 DEF LedgerRecord
<1>5. ledger' = [ledger EXCEPT ![r] = q]
  BY <1>a, <1>1 DEF ReadUpstream, TypeOK
<1> HIDE DEF q
<1>6. /\ ledger' \in [Runs -> LedgerRecord] /\ ledger'[r] = q
      /\ \A s \in Runs : s # r => ledger'[s] = ledger[s]
  BY <1>a, <1>4, <1>5 DEF TypeOK
<1>7. TypeOK'
  BY <1>a, <1>6 DEF TypeOK
<1>8. Grows
  BY <1>a DEF Grows
<1>9. PrintIsCaused(e, Fingerprint(Up(e)))
  BY <1>a DEF PrintIsCaused, Fingerprint, IInv, PrintsAreCaused, TypeOK
<1>10. PrintsAreCaused'
  <2>1. ASSUME NEW s \in Runs, ledger'[s].cur # None
        PROVE  PrintIsCaused(ledger[s].cur, ledger[s].fp)'
    <3>1. CASE s = r
      BY <1>a, <1>4, <1>6, <1>9, <3>1 DEF PrintIsCaused
    <3>2. CASE s # r
      BY <1>a, <1>6, <2>1, <3>2 DEF IInv, PrintsAreCaused, PrintIsCaused
    <3>3. QED
      BY <3>1, <3>2
  <2>2. QED
    BY <1>a, <2>1 DEF IInv, PrintsAreCaused, PrintIsCaused
<1>11. ASSUME NEW s \in Runs
       PROVE  LedgerInOrder(s)'
  <2>1. CASE s = r
    <3>1. /\ q.left \cup ({q.cur} \ {None}) \subseteq ledger[r].left
          /\ q.cur \notin q.left /\ q.pc = ledger[r].pc
      BY <1>2, <1>4
    <3>2. /\ ledger[r].left \subseteq
               IF q.pc = "inputs" THEN RunEdges(r) ELSE IF q.pc = "point" THEN PointEdges(r) ELSE {}
          /\ \A x \in ledger[r].left : edge[x] = "none"
          /\ q.pc \in {"inputs", "insert"} => \A x \in PointEdges(r) : edge[x] = "none"
      BY <1>a, <3>1 DEF LedgerInOrder
    <3>3. LedgerInOrder(r)'
      BY <1>a, <1>6, <3>1, <3>2 DEF LedgerInOrder
    <3>4. QED
      BY <2>1, <3>3
  <2>2. CASE s # r
    BY <1>a, <1>6, <2>2 DEF IInv, LedgerInOrder
  <2>3. QED
    BY <2>1, <2>2
<1>12. QED
  BY <1>a, <1>7, <1>8, <1>10, <1>11, RequestsStand

\* The edge is inserted for the first time, and is late if its upstream was swept.
LEMMA InsertEdgeStep ==
  ASSUME IInv, NEW r \in Runs, InsertEdge(r)
  PROVE  IInv'
<1>a. /\ TypeOK /\ LedgerInOrder(r) /\ ledger[r] \in LedgerRecord
      /\ ledger[r].cur # None
      /\ UNCHANGED <<rowVars, standing, worker, lost, boundVars>>
  BY DEF IInv, TypeOK, InsertEdge
<1>1. PICK e : e = ledger[r].cur
  OBVIOUS
<1>2. /\ e \in Edges /\ edge[e] = "none" /\ ledger[r].pc \in {"inputs", "point"}
      /\ ledger[r].pc = "inputs" => e \in RunEdges(r)
      /\ ledger[r].pc = "point" => e \in PointEdges(r)
  BY <1>a, <1>1 DEF LedgerInOrder, LedgerRecord
<1>3. /\ edge' = [edge EXCEPT ![e] = "valid"]
      /\ print' = [print EXCEPT ![e] = ledger[r].fp]
      /\ late' = IF IsSwept(Up(e)) \/ \E w \in Workers : Up(e) \in worker[w].visited
                   THEN late \cup {e} ELSE late
  BY <1>1 DEF InsertEdge
<1> DEFINE pc == IF ledger[r].left # {} THEN ledger[r].pc
                 ELSE IF ledger[r].pc = "inputs" THEN "insert" ELSE "done"
           q == [ledger[r] EXCEPT !.cur = None, !.pc = pc]
<1>4. /\ q \in LedgerRecord /\ q.pc = pc /\ q.cur = None /\ q.left = ledger[r].left
  BY <1>a DEF LedgerRecord
<1>5. ledger' = [ledger EXCEPT ![r] = q]
  BY <1>a DEF InsertEdge, TypeOK
<1> HIDE DEF q
<1>6. /\ ledger' \in [Runs -> LedgerRecord] /\ ledger'[r] = q
      /\ \A s \in Runs : s # r => ledger'[s] = ledger[s]
  BY <1>a, <1>4, <1>5 DEF TypeOK
<1>7. /\ edge' \in [Edges -> {"none", "valid", "invalid"}] /\ edge'[e] = "valid"
      /\ \A f \in Edges : f # e => edge'[f] = edge[f]
  BY <1>a, <1>2, <1>3 DEF TypeOK
<1>8. /\ print' \in [Edges -> Prints] /\ print'[e] = ledger[r].fp
      /\ \A f \in Edges : f # e => print'[f] = print[f]
  BY <1>a, <1>2, <1>3 DEF TypeOK, LedgerRecord
<1>9. late' \subseteq Edges /\ late \subseteq late'
  BY <1>a, <1>2, <1>3 DEF TypeOK
<1>10. TypeOK'
  BY <1>a, <1>6, <1>7, <1>8, <1>9 DEF TypeOK
<1>11. Grows
  BY <1>a, <1>2, <1>7, <1>8 DEF Grows
<1>12. PrintsAreCaused'
  <2>1. \A f \in Edges : PrintIsCaused(f, print'[f])
    BY <1>a, <1>1, <1>8 DEF IInv, PrintsAreCaused
  <2>2. \A s \in Runs : ledger'[s].cur # None => PrintIsCaused(ledger'[s].cur, ledger'[s].fp)
    BY <1>4, <1>6 DEF IInv, PrintsAreCaused
  <2>3. QED
    BY <1>a, <2>1, <2>2 DEF IInv, PrintsAreCaused, PrintIsCaused
<1>13. ASSUME NEW s \in Runs
       PROVE  LedgerInOrder(s)'
  <2>1. CASE s = r
    <3>1. /\ ledger[r].left \subseteq
               IF ledger[r].pc = "inputs" THEN RunEdges(r)
               ELSE IF ledger[r].pc = "point" THEN PointEdges(r) ELSE {}
          /\ \A x \in ledger[r].left : edge[x] = "none" /\ x # e
          /\ ledger[r].pc = "inputs" => \A x \in PointEdges(r) : edge[x] = "none" /\ x # e
      BY <1>a, <1>1, <1>2, EdgeEnds DEF LedgerInOrder
    <3>2. ledger[r].left \subseteq Edges /\ PointEdges(r) \subseteq Edges
      BY <1>a, EdgeFacts DEF LedgerRecord
    <3>3. None \notin ledger[r].left
      BY <3>2, NoneAssumption
    <3>4. LedgerInOrder(r)'
      BY <1>2, <1>4, <1>6, <1>7, <3>1, <3>2, <3>3 DEF LedgerInOrder
    <3>5. QED
      BY <2>1, <3>4
  <2>2. CASE s # r
    <3>1. LedgerInOrder(s)
      BY DEF IInv
    <3>2. e \notin PointEdges(s) /\ e \notin RunEdges(s)
      BY <1>2, <2>2, EdgeEnds
    <3>3. /\ ledger[s].left \cup ({ledger[s].cur} \ {None}) \subseteq RunEdges(s) \cup PointEdges(s)
          /\ RunEdges(s) \cup PointEdges(s) \subseteq Edges
      BY <3>1, EdgeFacts DEF LedgerInOrder
    <3>4. \A x \in RunEdges(s) \cup PointEdges(s) : edge'[x] = edge[x]
      BY <1>7, <3>2, <3>3
    <3>5. QED
      BY <1>6, <2>2, <3>1, <3>3, <3>4 DEF LedgerInOrder
  <2>3. QED
    BY <2>1, <2>2
<1>14. \A f \in Edges : edge'[f] = "valid" /\ f \notin late' =>
         \/ edge[f] = "valid" /\ f \notin late
         \/ ~IsSwept(Up(f)) /\ \A w \in Workers : Up(f) \notin worker[w].visited
  BY <1>3, <1>7, <1>9
<1>15. \A f \in Edges : edge'[f] = "invalid" => edge[f] = "invalid"
  BY <1>7
<1>16. QED
  BY <1>a, <1>10, <1>11, <1>12, <1>13, <1>14, <1>15, RequestsStand

\* The row of a checkpoint is inserted before any edge leads to it.
LEMMA InsertCheckpointStep ==
  ASSUME IInv, NEW r \in Runs, InsertCheckpoint(r)
  PROVE  IInv'
<1> DEFINE p == Point(r)
<1>a. /\ TypeOK /\ LedgerInOrder(r) /\ ledger[r] \in LedgerRecord /\ ledger[r].pc = "insert"
      /\ standing' = [standing EXCEPT ![p] = "valid"]
      /\ UNCHANGED <<rowVars, edgeVars, worker, late, lost, boundVars>>
  BY DEF IInv, TypeOK, InsertCheckpoint
<1> DEFINE q == [ledger[r] EXCEPT !.pc = "point", !.left = PointEdges(r)]
<1>1. /\ q \in LedgerRecord /\ q.pc = "point" /\ q.cur = ledger[r].cur /\ q.left = PointEdges(r)
      /\ q.fp = ledger[r].fp
  BY <1>a, EdgeFacts DEF LedgerRecord
<1>2. ledger' = [ledger EXCEPT ![r] = q]
  BY DEF InsertCheckpoint
<1> HIDE DEF q
<1>3. /\ ledger' \in [Runs -> LedgerRecord] /\ ledger'[r] = q
      /\ \A s \in Runs : s # r => ledger'[s] = ledger[s]
  BY <1>a, <1>1, <1>2 DEF TypeOK
<1>4. p \in Points /\ p \notin Runs
  BY PointFacts
<1>5. /\ standing' \in [Runs \cup Points -> {"absent", "valid", "invalid"}]
      /\ standing'[p] = "valid"
      /\ \A n \in Runs \cup Points : n # p => standing'[n] = standing[n]
  BY <1>a, <1>4 DEF TypeOK
<1>6. TypeOK'
  BY <1>a, <1>3, <1>5 DEF TypeOK
<1>7. Grows
  BY <1>a, <1>4, <1>5 DEF Grows
<1>8. PrintsAreCaused'
  <2>1. \A s \in Runs : ledger'[s].cur # None =>
          ledger'[s].cur = ledger[s].cur /\ ledger'[s].fp = ledger[s].fp
    BY <1>1, <1>3
  <2>2. \A s \in Runs : standing'[s] = standing[s]
    BY <1>4, <1>5
  <2>3. QED
    BY <1>a, <2>1, <2>2 DEF IInv, PrintsAreCaused, PrintIsCaused
<1>9. \A e \in PointEdges(r) : edge[e] = "none"
  BY <1>a DEF LedgerInOrder
<1>10. ASSUME NEW s \in Runs
       PROVE  LedgerInOrder(s)'
  <2>1. CASE s = r
    <3>1. {ledger[r].cur} \ {None} = {} /\ ledger[r].cur \in Edges \cup {None}
      BY <1>a DEF LedgerInOrder, LedgerRecord
    <3>2. q.cur = None
      BY <1>1, <3>1
    <3>3. None \notin PointEdges(r)
      BY NoneAssumption, EdgeFacts
    <3>4. LedgerInOrder(r)'
      BY <1>a, <1>1, <1>3, <1>9, <3>2, <3>3 DEF LedgerInOrder
    <3>5. QED
      BY <2>1, <3>4
  <2>2. CASE s # r
    BY <1>a, <1>3, <2>2 DEF IInv, LedgerInOrder
  <2>3. QED
    BY <2>1, <2>2
<1>11. \A e \in Edges : edge'[e] = "invalid" /\ Down(e) \in Runs \cup Points =>
         standing'[Down(e)] = standing[Down(e)]
  <2>1. \A e \in Edges : Down(e) = p => edge[e] = "none"
    BY <1>9, EdgeEnds
  <2>2. QED
    BY <1>a, <1>5, <2>1
<1>12. QED
  BY <1>a, <1>5, <1>6, <1>7, <1>8, <1>10, <1>11, RequestsStand

-----------------------------------------------------------------------------
(* A request that moves.                                                   *)

\* The others stand still, and no edge is inserted.
LEMMA OneMoves ==
  ASSUME IInv, TypeOK', Grows, NEW w \in Workers, UNCHANGED <<version, print, ledger, late>>,
         \A g \in Workers : g # w => worker'[g] = worker[g],
         WorkerIsCaused(worker[w])', WorkerInOrder(worker[w])', HadIsFound(worker[w])',
         \A e \in Edges : edge'[e] # edge[e] => edge[e] # "none" /\ edge'[e] = "invalid",
         \A n \in Runs : standing'[n] # standing[n] => standing'[n] = "invalid",
         InvalidForAReason', SweepIsComplete', MarksAreOwed'
  PROVE  IInv'
<1>1. ASSUME NEW g \in Workers, g # w
      PROVE  WorkerIsCaused(worker[g])' /\ WorkerInOrder(worker[g])' /\ HadIsFound(worker[g])'
  <2>1. \A f \in Edges : edge'[f] = "valid" /\ f \notin late' => edge[f] = "valid" /\ f \notin late
    OBVIOUS
  <2>2. worker'[g] = worker[g]
    BY <1>1
  <2>3. QED
    BY <2>1, <2>2, WorkerStays
<1>2. /\ \A g \in Workers : WorkerIsCaused(worker[g])'
      /\ \A g \in Workers : WorkerInOrder(worker[g])'
      /\ \A g \in Workers : HadIsFound(worker[g])'
  BY <1>1
<1>3. PrintsAreCaused'
  <2>1. \A e \in Edges : PrintIsCaused(e, print[e])'
    BY DEF IInv, PrintsAreCaused, PrintIsCaused, Grows
  <2>2. \A r \in Runs : ledger'[r].cur # None => PrintIsCaused(ledger[r].cur, ledger[r].fp)'
    BY DEF IInv, PrintsAreCaused, PrintIsCaused, Grows
  <2>3. \A r \in Runs : standing'[r] # "absent"
    BY DEF IInv, PrintsAreCaused
  <2>4. \A u \in Records : version'[u] # First => u \in touched'
    BY DEF IInv, PrintsAreCaused, Grows
  <2>5. QED
    BY <2>1, <2>2, <2>3, <2>4 DEF PrintsAreCaused
<1>4. ASSUME NEW r \in Runs
      PROVE  LedgerInOrder(r)'
  <2>1. LedgerInOrder(r)
    BY DEF IInv
  <2>2. \A e \in Edges : edge[e] = "none" => edge'[e] = "none"
    OBVIOUS
  <2>3. RunEdges(r) \subseteq Edges /\ PointEdges(r) \subseteq Edges
    BY EdgeFacts
  <2>4. QED
    BY <2>1, <2>2, <2>3 DEF LedgerInOrder
<1>5. QED
  BY <1>2, <1>3, <1>4 DEF IInv

\* A statement that writes no edge and no row, outside of the marking of a row: what
\* the sweep was to reach, it still is.
LEMMA OneMovesQuietly ==
  ASSUME IInv, TypeOK', NEW w \in Workers,
         UNCHANGED <<version, touched, standing, edgeVars, ledger, late, lost>>,
         superseded \subseteq superseded',
         \A g \in Workers : g # w => worker'[g] = worker[g],
         WorkerIsCaused(worker[w])', WorkerInOrder(worker[w])', HadIsFound(worker[w])',
         worker[w].pc # "mark", worker'[w].pc # "mark",
         \A f \in Edges : Reaches(worker[w], f) /\ edge[f] = "valid" /\ f \notin late =>
           Reaches(worker[w], f)'
  PROVE  IInv'
<1>1. Grows
  BY DEF Grows
<1>2. InvalidForAReason'
  BY DEF IInv, InvalidForAReason, IsSwept
<1>3. SweepIsComplete'
  <2>1. \A g \in Workers, f \in Edges : g # w /\ Reaches(worker[g], f) => Reaches(worker[g], f)'
    BY DEF Reaches, InSweep
  <2>2. \A g \in Workers, f \in Edges :
          Reaches(worker[g], f) /\ edge[f] = "valid" /\ f \notin late => Reaches(worker[g], f)'
    BY <2>1
  <2>3. QED
    BY <2>2 DEF IInv, SweepIsComplete
<1>4. MarksAreOwed'
  <2>1. \A S : Owed(S)' = Owed(S)
    BY DEF Owed
  <2>2. \A S : Marking(S)' = Marking(S)
    BY DEF Marking
  <2>3. QED
    BY <2>1, <2>2 DEF IInv, MarksAreOwed
<1>5. QED
  BY <1>1, <1>2, <1>3, <1>4, OneMoves

\* The record of a request that has become idle, or goes on after its reconciliation.
LEMMA IdleIsTyped ==
  /\ Idle \in WorkerRecord /\ Idle.pc = "idle" /\ Idle.run = None
  /\ Idle.todo = {} /\ Idle.stale = {} /\ Idle.queue = {} /\ Idle.visited = {}
  /\ Idle.rest = {} /\ Idle.hit = None /\ Idle.had = {}
BY DEF Idle, WorkerRecord

LEMMA ReconciledIsTyped ==
  ASSUME TypeOK, NEW w \in Workers
  PROVE  LET q == Reconciled(w) IN
         /\ q \in WorkerRecord
         /\ IF worker[w].run = None THEN q = Idle
            ELSE q.pc = "point" /\ q.run = worker[w].run /\ q.had = worker[w].had
         /\ q.todo = {} /\ q.stale = {} /\ q.queue = {} /\ q.visited = {} /\ q.rest = {}
<1> DEFINE q == [Idle EXCEPT !.pc = "point", !.run = worker[w].run, !.had = worker[w].had]
<1>1. worker[w].run \in Runs \cup {None} /\ worker[w].had \in SUBSET Edges
  BY DEF TypeOK, WorkerRecord
<1>2. /\ q \in WorkerRecord /\ q.pc = "point" /\ q.run = worker[w].run /\ q.had = worker[w].had
      /\ q.todo = {} /\ q.stale = {} /\ q.queue = {} /\ q.visited = {} /\ q.rest = {}
  BY <1>1 DEF Idle, WorkerRecord
<1> HIDE DEF q
<1>3. CASE worker[w].run = None
  BY <1>3, IdleIsTyped DEF Reconciled
<1>4. CASE worker[w].run # None
  <2>1. Reconciled(w) = q
    BY <1>4 DEF Reconciled, q
  <2>2. QED
    BY <1>2, <1>4, <2>1
<1>5. QED
  BY <1>3, <1>4

\* What the rest of a sweep leaves of the record p of its request.
Follows(q, p, queue, visited, rest) ==
  \/ /\ rest # {} /\ q.pc = "edges"
     /\ q.queue = queue /\ q.visited = visited /\ q.rest = rest
     /\ q.run = p.run /\ q.had = p.had /\ q.todo = p.todo /\ q.stale = p.stale
  \/ /\ rest = {} /\ queue \ visited # {} /\ q.pc = "pop"
     /\ q.queue = queue \ visited /\ q.visited = visited /\ q.rest = {}
     /\ q.run = p.run /\ q.had = p.had /\ q.todo = p.todo /\ q.stale = p.stale
  \/ rest = {} /\ queue \ visited = {} /\ p.run = None /\ q = Idle
  \/ /\ rest = {} /\ queue \ visited = {} /\ p.run # None /\ q.pc = "point"
     /\ q.queue = {} /\ q.visited = {} /\ q.rest = {} /\ q.todo = {} /\ q.stale = {}
     /\ q.run = p.run /\ q.had = p.had

LEMMA SweepIsTyped ==
  ASSUME TypeOK, NEW w \in Workers,
         NEW queue \in SUBSET Nodes, NEW visited \in SUBSET Nodes, NEW rest \in SUBSET Edges
  PROVE  \E q \in WorkerRecord :
           q = Sweep(w, queue, visited, rest) /\ Follows(q, worker[w], queue, visited, rest)
<1>a. worker[w] \in WorkerRecord
  BY DEF TypeOK
<1>1. CASE rest # {}
  <2> DEFINE q == [worker[w] EXCEPT !.pc = "edges", !.hit = None, !.queue = queue,
                                    !.visited = visited, !.rest = rest]
  <2>1. /\ q \in WorkerRecord /\ q.pc = "edges"
        /\ q.queue = queue /\ q.visited = visited /\ q.rest = rest
        /\ q.run = worker[w].run /\ q.had = worker[w].had
        /\ q.todo = worker[w].todo /\ q.stale = worker[w].stale
    BY <1>a DEF WorkerRecord
  <2>2. q = Sweep(w, queue, visited, rest)
    BY <1>1 DEF Sweep
  <2> HIDE DEF q
  <2>3. QED
    BY <1>1, <2>1, <2>2 DEF Follows
<1>2. CASE rest = {} /\ queue \ visited # {}
  <2> DEFINE q == [worker[w] EXCEPT !.pc = "pop", !.hit = None, !.queue = queue \ visited,
                                    !.visited = visited, !.rest = {}]
  <2>1. /\ q \in WorkerRecord /\ q.pc = "pop"
        /\ q.queue = queue \ visited /\ q.visited = visited /\ q.rest = {}
        /\ q.run = worker[w].run /\ q.had = worker[w].had
        /\ q.todo = worker[w].todo /\ q.stale = worker[w].stale
    BY <1>a DEF WorkerRecord
  <2>2. q = Sweep(w, queue, visited, rest)
    BY <1>2 DEF Sweep
  <2> HIDE DEF q
  <2>3. QED
    BY <1>2, <2>1, <2>2 DEF Follows
<1>3. CASE rest = {} /\ queue \ visited = {}
  <2>1. Sweep(w, queue, visited, rest) = Reconciled(w)
    BY <1>3 DEF Sweep
  <2>2. PICK q : q = Reconciled(w)
    OBVIOUS
  <2>3. /\ q \in WorkerRecord
        /\ IF worker[w].run = None THEN q = Idle
           ELSE q.pc = "point" /\ q.run = worker[w].run /\ q.had = worker[w].had
        /\ q.todo = {} /\ q.stale = {} /\ q.queue = {} /\ q.visited = {} /\ q.rest = {}
    BY <2>2, ReconciledIsTyped
  <2>4. QED
    BY <1>3, <2>1, <2>2, <2>3 DEF Follows
<1>4. QED
  BY <1>1, <1>2, <1>3

\* A request that goes on with its sweep, or has ended it.
LEMMA SweepFacts ==
  ASSUME IInv, NEW w \in Workers, InSweep(worker[w]),
         NEW queue \in SUBSET Nodes, NEW visited \in SUBSET Nodes, NEW rest \in SUBSET Edges,
         worker' = [worker EXCEPT ![w] = Sweep(w, queue, visited, rest)],
         UNCHANGED <<rowVars, edgeVars, late>>, Grows,
         \A n \in queue \cup visited : Caused(n),
         \A e \in rest : edge[e] # "none" /\ Caused(Up(e)),
         \A f \in Edges : Up(f) \in visited /\ edge[f] = "valid" /\ f \notin late => f \in rest,
         \A e \in worker[w].had : edge[e] = "invalid" \/ e \in rest \/ Up(e) \in queue \ visited
  PROVE  /\ worker' \in [Workers -> WorkerRecord]
         /\ \A g \in Workers : g # w => worker'[g] = worker[g]
         /\ worker'[w].pc # "mark"
         /\ WorkerIsCaused(worker[w])' /\ WorkerInOrder(worker[w])' /\ HadIsFound(worker[w])'
         /\ \A f \in Edges :
              (Up(f) \in queue \/ f \in rest) /\ edge[f] = "valid" /\ f \notin late =>
                Reaches(worker[w], f)'
<1>a. /\ TypeOK /\ worker[w] \in WorkerRecord /\ worker[w].todo = {}
      /\ \A n \in worker[w].stale : Caused(n)
      /\ worker[w].run = None => worker[w].had = {}
  BY DEF IInv, TypeOK, WorkerInOrder, WorkerIsCaused, InSweep
<1>1. PICK q \in WorkerRecord :
        q = Sweep(w, queue, visited, rest) /\ Follows(q, worker[w], queue, visited, rest)
  BY <1>a, SweepIsTyped
<1>2. /\ worker' \in [Workers -> WorkerRecord] /\ worker'[w] = q
      /\ \A g \in Workers : g # w => worker'[g] = worker[g]
  BY <1>a, <1>1 DEF TypeOK
<1>b. /\ q.todo = {} /\ q.pc \in {"edges", "pop", "idle", "point"}
      /\ q.stale \subseteq worker[w].stale /\ q.queue \subseteq queue /\ q.visited \subseteq visited
      /\ q.rest \subseteq rest /\ q.had \subseteq worker[w].had
      /\ q.had # {} => q.run = worker[w].run
  BY <1>a, <1>1, IdleIsTyped DEF Follows
<1>3. WorkerIsCaused(worker[w])'
  <2>1. \A n \in q.stale \cup q.queue \cup q.visited : Caused(n)'
    BY <1>a, <1>b, CausesStay
  <2>2. \A e \in q.rest : Caused(Up(e))'
    BY <1>b, CausesStay
  <2>3. QED
    BY <1>2, <1>b, <2>1, <2>2 DEF WorkerIsCaused, Caused, IsSwept
<1>4. WorkerInOrder(worker[w])'
  <2>1. \A f \in Edges : Up(f) \in q.visited /\ edge[f] = "valid" /\ f \notin late => f \in q.rest
    BY <1>1, IdleIsTyped DEF Follows
  <2>2. /\ ~InSweep(q) => q.queue = {} /\ q.visited = {} /\ q.rest = {}
        /\ q.pc = "pop" => q.rest = {}
        /\ q.pc = "edges" => q.rest # {}
        /\ q.pc \in {"point", "source"} => q.run \in Runs
        /\ q.run = None => q.had = {}
    BY <1>a, <1>1, IdleIsTyped DEF Follows, InSweep, WorkerRecord
  <2>3. QED
    BY <1>2, <1>b, <2>1, <2>2 DEF WorkerInOrder, InSweep
<1>5. HadIsFound(worker[w])'
  <2>1. ASSUME NEW e \in q.had
        PROVE  /\ Down(e) \in {q.run, Point(q.run)} /\ edge[e] # "none"
               /\ Up(e) \in touched /\ print[e] # Fingerprint(Up(e))
               /\ edge[e] = "invalid" \/ Found(q, e)
    <3>1. e \in worker[w].had /\ q.run = worker[w].run
      BY <1>b
    <3>2. /\ Down(e) \in {q.run, Point(q.run)} /\ edge[e] # "none"
          /\ Up(e) \in touched /\ print[e] # Fingerprint(Up(e))
      BY <3>1 DEF IInv, HadIsFound
    <3>3. edge[e] = "invalid" \/ Found(q, e)
      BY <1>1, <3>1, IdleIsTyped DEF Follows, Found, InSweep
    <3>4. QED
      BY <3>2, <3>3
  <2>2. \A u \in touched : Fingerprint(u)' = Fingerprint(u)
    BY <1>a, NodesAssumption DEF Fingerprint, TypeOK
  <2>3. \A e : Found(q, e) => Found(worker[w], e)'
    BY <1>2 DEF Found, InSweep
  <2>4. QED
    BY <1>2, <2>1, <2>2, <2>3 DEF HadIsFound
<1>6. ASSUME NEW f \in Edges, Up(f) \in queue \/ f \in rest, edge[f] = "valid", f \notin late
      PROVE  Reaches(worker[w], f)'
  <2>1. Up(f) \in visited => f \in rest
    BY <1>6
  <2>2. Reaches(q, f)
    BY <1>1, <1>6, <2>1 DEF Follows, Reaches, InSweep
  <2>3. QED
    BY <1>2, <2>2 DEF Reaches, InSweep
<1>7. q.pc # "mark"
  BY <1>b
<1>8. QED
  BY <1>2, <1>3, <1>4, <1>5, <1>6, <1>7

-----------------------------------------------------------------------------
(* The requests begin, and reconcile the project.                          *)

LEMMA BeginsStep ==
  ASSUME IInv, NEW w \in Workers, NEW q \in WorkerRecord, Begins(w, q),
         superseded \subseteq superseded', superseded' \subseteq Fixed,
         \A n \in q.queue : n \in superseded',
         q.pc \in {"select", "pop"}, q.pc = "select" => q.queue = {},
         q.todo = {}, q.stale = {}, q.visited = {}, q.rest = {},
         q.pc = "pop" \/ q.run = None => q.had = {},
         \A e \in q.had :
           /\ Down(e) \in {q.run, Point(q.run)} /\ edge[e] # "none"
           /\ Up(e) \in touched /\ print[e] # Fingerprint(Up(e))
  PROVE  IInv'
<1>a. /\ TypeOK /\ worker[w].pc = "idle" /\ requests < MaxRequests /\ requests' = requests + 1
      /\ worker' = [worker EXCEPT ![w] = q]
      /\ UNCHANGED <<version, touched, standing, edgeVars, ledger, late, lost, changes, crashes>>
  BY DEF IInv, Begins
<1>1. /\ worker' \in [Workers -> WorkerRecord] /\ worker'[w] = q
      /\ \A g \in Workers : g # w => worker'[g] = worker[g]
  BY <1>a DEF TypeOK
<1>2. TypeOK'
  <2>1. requests' \in 0..MaxRequests
    BY <1>a, BoundsAssumption DEF TypeOK
  <2>2. QED
    BY <1>a, <1>1, <2>1 DEF TypeOK
<1>3. WorkerIsCaused(worker[w])'
  BY <1>1 DEF WorkerIsCaused, Caused
<1>4. WorkerInOrder(worker[w])'
  BY <1>1 DEF WorkerInOrder, InSweep
<1>5. HadIsFound(worker[w])'
  <2>1. \A u \in touched : Fingerprint(u)' = Fingerprint(u)
    BY <1>a, NodesAssumption DEF Fingerprint, TypeOK
  <2>2. q.had # {} => q.pc = "select"
    OBVIOUS
  <2>3. QED
    BY <1>a, <1>1, <2>1, <2>2 DEF HadIsFound, Found, InSweep
<1>6. \A f \in Edges : ~Reaches(worker[w], f)
  BY <1>a DEF Reaches, InSweep
<1>7. QED
  BY <1>a, <1>1, <1>2, <1>3, <1>4, <1>5, <1>6, OneMovesQuietly

LEMMA InspectStep ==
  ASSUME IInv, NEW w \in Workers, Inspect(w)
  PROVE  IInv'
<1> DEFINE q == [Idle EXCEPT !.pc = "select"]
<1>1. /\ q \in WorkerRecord /\ q.pc = "select" /\ q.todo = {} /\ q.stale = {}
      /\ q.queue = {} /\ q.visited = {} /\ q.rest = {} /\ q.had = {}
  BY DEF Idle, WorkerRecord
<1>2. Begins(w, q) /\ UNCHANGED superseded /\ superseded \subseteq Fixed
  BY DEF Inspect, IInv, TypeOK
<1> HIDE DEF q
<1>3. QED
  BY <1>1, <1>2, BeginsStep

\* What has drifted has a record that changed: the fingerprint of the edge was the
\* first one of the record, or it is the present one.
LEMMA RecoverStep ==
  ASSUME IInv, NEW w \in Workers, NEW r \in Runs, Recover(w, r)
  PROVE  IInv'
<1> DEFINE q == [Idle EXCEPT !.pc = "select", !.run = r, !.had = Drifted(r)]
<1>a. Drifted(r) \in SUBSET Edges /\ r # None
  BY EdgeFacts, NoneAssumption DEF Drifted
<1>1. /\ q \in WorkerRecord /\ q.pc = "select" /\ q.todo = {} /\ q.stale = {} /\ q.run = r
      /\ q.queue = {} /\ q.visited = {} /\ q.rest = {} /\ q.had = Drifted(r)
  BY <1>a DEF Idle, WorkerRecord
<1>2. Begins(w, q) /\ UNCHANGED superseded /\ superseded \subseteq Fixed
  BY DEF Recover, IInv, TypeOK, FirstStep
<1> HIDE DEF q
<1>3. ASSUME NEW e \in Drifted(r)
      PROVE  /\ Down(e) \in {r, Point(r)} /\ edge[e] # "none"
             /\ Up(e) \in touched /\ print[e] # Fingerprint(Up(e))
  <2>1. /\ e \in RunEdges(r) \cup PointEdges(r) /\ e \in Edges
        /\ Up(e) \in Records /\ edge[e] # "none" /\ print[e] # Fingerprint(Up(e))
    BY <1>a DEF Drifted
  <2>2. Down(e) \in {r, Point(r)}
    BY <2>1, EdgeFacts
  <2>3. print[e] \in Prints /\ PrintIsCaused(e, print[e])
    BY <2>1 DEF IInv, TypeOK, PrintsAreCaused
  <2>4. Up(e) \notin Runs
    BY <2>1, NodesAssumption
  <2>5. Up(e) \in touched
    <3>1. SUFFICES ASSUME Up(e) \notin touched PROVE FALSE
      OBVIOUS
    <3>2. version[Up(e)] = First
      BY <2>1, <3>1 DEF IInv, PrintsAreCaused
    <3>3. print[e][1] = First /\ print[e][2] = "valid"
      BY <2>3, <2>4, <3>1 DEF PrintIsCaused
    <3>4. print[e] = <<First, "valid">>
      BY <2>3, <3>3 DEF Prints
    <3>5. Fingerprint(Up(e)) = <<First, "valid">>
      BY <2>1, <3>2, FingerprintIsTyped DEF IInv
    <3>6. QED
      BY <2>1, <3>4, <3>5
  <2>6. QED
    BY <2>1, <2>2, <2>5
<1>4. QED
  BY <1>a, <1>1, <1>2, <1>3, BeginsStep

LEMMA SupersedeStep ==
  ASSUME IInv, NEW w \in Workers, NEW g \in Fixed, Supersede(w, g)
  PROVE  IInv'
<1> DEFINE q == [Idle EXCEPT !.pc = "pop", !.queue = {g}]
<1>1. /\ q \in WorkerRecord /\ q.pc = "pop" /\ q.todo = {} /\ q.stale = {}
      /\ q.queue = {g} /\ q.visited = {} /\ q.rest = {} /\ q.had = {}
  BY DEF Idle, WorkerRecord, Nodes
<1>2. Begins(w, q) /\ superseded' = superseded \cup {g} /\ superseded \subseteq Fixed
  BY DEF Supersede, IInv, TypeOK
<1> HIDE DEF q
<1>3. QED
  BY <1>1, <1>2, BeginsStep

\* What the rest of a scan leaves of the record p of its request.
FollowsScan(q, p, todo, stale) ==
  \/ /\ todo # {} /\ q.pc = "scan" /\ q.todo = todo /\ q.stale = stale
     /\ q.queue = p.queue /\ q.visited = p.visited /\ q.rest = p.rest
     /\ q.run = p.run /\ q.had = p.had
  \/ /\ todo = {} /\ stale # {} /\ q.pc = "pop" /\ q.todo = {} /\ q.stale = {}
     /\ q.queue = stale /\ q.visited = p.visited /\ q.rest = p.rest
     /\ q.run = p.run /\ q.had = p.had
  \/ todo = {} /\ stale = {} /\ p.run = None /\ q = Idle
  \/ /\ todo = {} /\ stale = {} /\ p.run # None /\ q.pc = "point"
     /\ q.queue = {} /\ q.visited = {} /\ q.rest = {} /\ q.todo = {} /\ q.stale = {}
     /\ q.run = p.run /\ q.had = p.had

LEMMA ScanIsTyped ==
  ASSUME TypeOK, NEW w \in Workers,
         NEW todo \in SUBSET (Edges \X Prints), NEW stale \in SUBSET Nodes
  PROVE  \E q \in WorkerRecord :
           q = Scan(w, todo, stale) /\ FollowsScan(q, worker[w], todo, stale)
<1>a. worker[w] \in WorkerRecord
  BY DEF TypeOK
<1>1. CASE todo # {}
  <2> DEFINE q == [worker[w] EXCEPT !.pc = "scan", !.todo = todo, !.stale = stale]
  <2>1. /\ q \in WorkerRecord /\ q.pc = "scan" /\ q.todo = todo /\ q.stale = stale
        /\ q.queue = worker[w].queue /\ q.visited = worker[w].visited
        /\ q.rest = worker[w].rest /\ q.run = worker[w].run /\ q.had = worker[w].had
    BY <1>a DEF WorkerRecord
  <2>2. q = Scan(w, todo, stale)
    BY <1>1 DEF Scan
  <2> HIDE DEF q
  <2>3. QED
    BY <1>1, <2>1, <2>2 DEF FollowsScan
<1>2. CASE todo = {} /\ stale # {}
  <2> DEFINE q == [worker[w] EXCEPT !.pc = "pop", !.todo = {}, !.stale = {}, !.queue = stale]
  <2>1. /\ q \in WorkerRecord /\ q.pc = "pop" /\ q.todo = {} /\ q.stale = {}
        /\ q.queue = stale /\ q.visited = worker[w].visited
        /\ q.rest = worker[w].rest /\ q.run = worker[w].run /\ q.had = worker[w].had
    BY <1>a DEF WorkerRecord
  <2>2. q = Scan(w, todo, stale)
    BY <1>2 DEF Scan
  <2> HIDE DEF q
  <2>3. QED
    BY <1>2, <2>1, <2>2 DEF FollowsScan
<1>3. CASE todo = {} /\ stale = {}
  <2>1. Scan(w, todo, stale) = Reconciled(w)
    BY <1>3 DEF Scan
  <2>2. PICK q : q = Reconciled(w)
    OBVIOUS
  <2>3. /\ q \in WorkerRecord
        /\ IF worker[w].run = None THEN q = Idle
           ELSE q.pc = "point" /\ q.run = worker[w].run /\ q.had = worker[w].had
        /\ q.todo = {} /\ q.stale = {} /\ q.queue = {} /\ q.visited = {} /\ q.rest = {}
    BY <2>2, ReconciledIsTyped
  <2>4. QED
    BY <1>3, <2>1, <2>2, <2>3 DEF FollowsScan
<1>4. QED
  BY <1>1, <1>2, <1>3

LEMMA ScanStep ==
  ASSUME IInv, NEW w \in Workers, worker[w].pc \in {"select", "scan"},
         NEW todo \in SUBSET (Edges \X Prints), NEW stale \in SUBSET Nodes,
         Becomes(w, Scan(w, todo, stale)), UNCHANGED <<standing, edgeVars>>,
         \A row \in todo : PrintIsCaused(row[1], row[2]),
         \A n \in stale : Caused(n),
         \A e \in worker[w].had :
           edge[e] = "invalid" \/ <<e, print[e]>> \in todo \/ Up(e) \in stale
  PROVE  IInv'
<1>a. /\ TypeOK /\ worker[w] \in WorkerRecord
      /\ worker[w].queue = {} /\ worker[w].visited = {} /\ worker[w].rest = {}
      /\ worker[w].run = None => worker[w].had = {}
      /\ worker' = [worker EXCEPT ![w] = Scan(w, todo, stale)]
      /\ UNCHANGED <<rowVars, standing, edgeVars, ledger, late, lost, boundVars>>
  BY DEF IInv, TypeOK, WorkerInOrder, InSweep, Becomes
<1>1. PICK q \in WorkerRecord :
        q = Scan(w, todo, stale) /\ FollowsScan(q, worker[w], todo, stale)
  BY <1>a, ScanIsTyped
<1>2. /\ worker' \in [Workers -> WorkerRecord] /\ worker'[w] = q
      /\ \A g \in Workers : g # w => worker'[g] = worker[g]
  BY <1>a, <1>1 DEF TypeOK
<1>3. TypeOK'
  BY <1>a, <1>2 DEF TypeOK
<1>b. /\ q.pc \in {"scan", "pop", "idle", "point"} /\ (q.pc = "scan" <=> q.todo # {})
      /\ q.todo \subseteq todo /\ q.stale \subseteq stale /\ q.queue \subseteq stale
      /\ q.visited = {} /\ q.rest = {} /\ q.had \subseteq worker[w].had
      /\ q.had # {} => q.run = worker[w].run
      /\ q.pc # "pop" => q.queue = {}
  BY <1>a, <1>1, IdleIsTyped DEF FollowsScan
<1>4. WorkerIsCaused(worker[w])'
  <2>1. Grows
    BY <1>a DEF Grows
  <2>2. \A row \in q.todo : PrintIsCaused(row[1], row[2])'
    BY <1>b, <2>1, CausesStay
  <2>3. \A n \in q.stale \cup q.queue : Caused(n)'
    BY <1>b, <2>1, CausesStay
  <2>4. QED
    BY <1>2, <1>b, <2>2, <2>3 DEF WorkerIsCaused, Caused, IsSwept, PrintIsCaused
<1>5. WorkerInOrder(worker[w])'
  <2>1. /\ q.pc \in {"point", "source"} => q.run \in Runs
        /\ q.run = None => q.had = {}
    BY <1>a, <1>1, IdleIsTyped DEF FollowsScan, WorkerRecord
  <2>2. QED
    BY <1>2, <1>b, <2>1 DEF WorkerInOrder, InSweep
<1>6. HadIsFound(worker[w])'
  <2>1. ASSUME NEW e \in q.had
        PROVE  /\ Down(e) \in {q.run, Point(q.run)} /\ edge[e] # "none"
               /\ Up(e) \in touched /\ print[e] # Fingerprint(Up(e))
               /\ edge[e] = "invalid" \/ Found(q, e)
    <3>1. e \in worker[w].had /\ q.run = worker[w].run
      BY <1>b
    <3>2. /\ Down(e) \in {q.run, Point(q.run)} /\ edge[e] # "none"
          /\ Up(e) \in touched /\ print[e] # Fingerprint(Up(e))
      BY <3>1 DEF IInv, HadIsFound
    <3>3. edge[e] = "invalid" \/ Found(q, e)
      BY <1>a, <1>1, <3>1, IdleIsTyped DEF FollowsScan, Found, InSweep
    <3>4. QED
      BY <3>2, <3>3
  <2>2. \A u \in touched : Fingerprint(u)' = Fingerprint(u)
    BY <1>a, NodesAssumption DEF Fingerprint, TypeOK
  <2>3. \A e : Found(q, e) => Found(worker[w], e)'
    BY <1>a, <1>2 DEF Found, InSweep
  <2>4. QED
    BY <1>a, <1>2, <2>1, <2>2, <2>3 DEF HadIsFound
<1>7. \A f \in Edges : ~Reaches(worker[w], f)
  BY DEF Reaches, InSweep
<1>8. worker[w].pc # "mark" /\ worker'[w].pc # "mark"
  BY <1>2, <1>b
<1>9. QED
  BY <1>a, <1>2, <1>3, <1>4, <1>5, <1>6, <1>7, <1>8, OneMovesQuietly

LEMMA SelectStep ==
  ASSUME IInv, NEW w \in Workers, Select(w)
  PROVE  IInv'
<1> DEFINE all == {<<e, print[e]>> : e \in {f \in Edges : edge[f] = "valid"}}
<1>1. \A e \in Edges : print[e] \in Prints /\ PrintIsCaused(e, print[e])
  BY DEF IInv, TypeOK, PrintsAreCaused
<1>2. all \in SUBSET (Edges \X Prints)
  BY <1>1
<1>3. \A row \in all : PrintIsCaused(row[1], row[2])
  BY <1>1
<1>4. \A e \in worker[w].had : edge[e] = "invalid" \/ <<e, print[e]>> \in all
  <2>1. \A e \in worker[w].had : e \in Edges /\ edge[e] # "none"
    BY DEF IInv, TypeOK, WorkerRecord, HadIsFound
  <2>2. \A e \in Edges : edge[e] \in {"none", "valid", "invalid"}
    BY DEF IInv, TypeOK
  <2>3. QED
    BY <2>1, <2>2
<1>5. worker[w].pc = "select" /\ Becomes(w, Scan(w, all, {})) /\ UNCHANGED <<standing, edgeVars>>
  BY DEF Select
<1> HIDE DEF all
<1>6. QED
  BY <1>2, <1>3, <1>4, <1>5, ScanStep

\* A row that is found changed has a cause.
LEMMA CompareStep ==
  ASSUME IInv, NEW w \in Workers, Compare(w)
  PROVE  IInv'
<1>a. /\ TypeOK /\ worker[w] \in WorkerRecord /\ worker[w].pc = "scan" /\ worker[w].todo # {}
      /\ worker[w].queue = {} /\ worker[w].visited = {} /\ worker[w].rest = {}
      /\ UNCHANGED <<standing, edgeVars>>
  BY DEF IInv, TypeOK, WorkerInOrder, InSweep, Compare
<1>1. PICK row : row = CHOOSE x \in worker[w].todo : TRUE
  OBVIOUS
<1>2. row \in worker[w].todo /\ worker[w].todo \in SUBSET (Edges \X Prints)
  BY <1>a, <1>1 DEF WorkerRecord
<1>3. row \in Edges \X Prints /\ row = <<row[1], row[2]>>
  BY <1>2
<1>4. PICK e \in Edges, p \in Prints : e = row[1] /\ p = row[2] /\ row = <<e, p>>
  BY <1>3
<1> DEFINE todo  == worker[w].todo \ {row}
           stale == IF Fingerprint(Up(e)) # p THEN worker[w].stale \cup {Up(e)} ELSE worker[w].stale
<1>5. Becomes(w, Scan(w, todo, stale))
  BY <1>1, <1>4 DEF Compare
<1>6. /\ \A x \in worker[w].todo : PrintIsCaused(x[1], x[2])
      /\ \A n \in worker[w].stale : Caused(n)
      /\ worker[w].stale \in SUBSET Nodes
  BY <1>a DEF IInv, WorkerIsCaused, WorkerRecord
<1>7. todo \in SUBSET (Edges \X Prints) /\ \A x \in todo : PrintIsCaused(x[1], x[2])
  BY <1>2, <1>6
<1>8. stale \in SUBSET Nodes
  BY <1>6, EdgeEnds DEF Nodes
<1>9. \A n \in stale : Caused(n)
  <2>1. PrintIsCaused(e, p)
    BY <1>2, <1>4, <1>6
  <2>2. Fingerprint(Up(e)) # p => Caused(Up(e))
    BY <2>1, DifferenceIsCaused
  <2>3. QED
    BY <1>6, <2>2
<1>10. \A x \in worker[w].had : edge[x] = "invalid" \/ <<x, print[x]>> \in todo \/ Up(x) \in stale
  <2>1. ASSUME NEW x \in worker[w].had
        PROVE  edge[x] = "invalid" \/ <<x, print[x]>> \in todo \/ Up(x) \in stale
    <3>1. /\ print[x] # Fingerprint(Up(x))
          /\ edge[x] = "invalid" \/ <<x, print[x]>> \in worker[w].todo \/ Up(x) \in worker[w].stale
      BY <1>a DEF IInv, HadIsFound, Found
    <3>2. CASE row = <<x, print[x]>>
      <4>1. x = e /\ print[x] = p
        BY <1>4, <3>2
      <4>2. QED
        BY <3>1, <4>1
    <3>3. CASE row # <<x, print[x]>>
      BY <3>1, <3>3
    <3>4. QED
      BY <3>2, <3>3
  <2>2. QED
    BY <2>1
<1> HIDE DEF todo, stale
<1>11. QED
  BY <1>a, <1>5, <1>7, <1>8, <1>9, <1>10, ScanStep

-----------------------------------------------------------------------------
(* The sweep.                                                              *)

LEMMA PopStep ==
  ASSUME IInv, NEW w \in Workers, Pop(w)
  PROVE  IInv'
<1>a. /\ TypeOK /\ worker[w] \in WorkerRecord /\ worker[w].pc = "pop" /\ worker[w].rest = {}
      /\ worker[w].queue \in SUBSET Nodes /\ worker[w].visited \in SUBSET Nodes
      /\ WorkerInOrder(worker[w]) /\ WorkerIsCaused(worker[w]) /\ HadIsFound(worker[w])
      /\ worker[w].had \subseteq Edges
      /\ UNCHANGED <<rowVars, standing, edgeVars, ledger, late, lost, boundVars>>
  BY DEF IInv, TypeOK, WorkerInOrder, WorkerRecord, Pop, Becomes
<1>1. PICK u \in worker[w].queue :
        worker' = [worker EXCEPT ![w] =
                     Sweep(w, worker[w].queue \ {u}, worker[w].visited \cup {u}, Dependants(u))]
  BY DEF Pop, Becomes
<1> DEFINE queue   == worker[w].queue \ {u}
           visited == worker[w].visited \cup {u}
           rest    == Dependants(u)
<1>2. queue \in SUBSET Nodes /\ visited \in SUBSET Nodes /\ rest \in SUBSET Edges
  BY <1>a, <1>1 DEF Dependants
<1>3. \A n \in queue \cup visited : Caused(n)
  BY <1>a, <1>1 DEF WorkerIsCaused
<1>4. \A e \in rest : edge[e] # "none" /\ Caused(Up(e))
  BY <1>3 DEF Dependants
<1>5. \A f \in Edges : Up(f) \in visited /\ edge[f] = "valid" /\ f \notin late => f \in rest
  BY <1>a DEF WorkerInOrder, Dependants
<1>6. \A e \in worker[w].had : edge[e] = "invalid" \/ e \in rest \/ Up(e) \in queue \ visited
  <2>1. ASSUME NEW e \in worker[w].had, edge[e] # "invalid"
        PROVE  e \in rest \/ Up(e) \in queue \ visited
    <3>1. edge[e] = "valid" /\ Up(e) \in worker[w].queue \ worker[w].visited
      BY <1>a, <2>1 DEF HadIsFound, Found, InSweep, TypeOK
    <3>2. QED
      BY <1>a, <3>1 DEF Dependants
  <2>2. QED
    BY <2>1
<1>7. Grows
  BY <1>a DEF Grows
<1>8. \A f \in Edges : Reaches(worker[w], f) /\ edge[f] = "valid" => Up(f) \in queue \/ f \in rest
  BY <1>a DEF Reaches, Dependants
<1>b. InSweep(worker[w])
  BY <1>a DEF InSweep
<1>c. worker' = [worker EXCEPT ![w] = Sweep(w, queue, visited, rest)]
  BY <1>1
<1> HIDE DEF queue, visited, rest
<1>9. /\ worker' \in [Workers -> WorkerRecord]
      /\ \A g \in Workers : g # w => worker'[g] = worker[g]
      /\ worker'[w].pc # "mark"
      /\ WorkerIsCaused(worker[w])' /\ WorkerInOrder(worker[w])' /\ HadIsFound(worker[w])'
      /\ \A f \in Edges :
           (Up(f) \in queue \/ f \in rest) /\ edge[f] = "valid" /\ f \notin late =>
             Reaches(worker[w], f)'
  BY <1>a, <1>b, <1>c, <1>2, <1>3, <1>4, <1>5, <1>6, <1>7, SweepFacts
<1>10. TypeOK'
  BY <1>a, <1>9 DEF TypeOK
<1>11. QED
  BY <1>a, <1>8, <1>9, <1>10, OneMovesQuietly

\* The edge is invalid from here on, and its row is owed until it is marked.
LEMMA InvalidateEdgeStep ==
  ASSUME IInv, NEW w \in Workers, InvalidateEdge(w)
  PROVE  IInv'
<1>a. /\ TypeOK /\ worker[w] \in WorkerRecord /\ worker[w].pc = "edges"
      /\ WorkerInOrder(worker[w]) /\ WorkerIsCaused(worker[w]) /\ HadIsFound(worker[w])
      /\ worker[w].had \subseteq Edges /\ worker[w].rest \subseteq Edges
      /\ UNCHANGED <<rowVars, standing, print, ledger, late, lost, boundVars>>
  BY DEF IInv, TypeOK, WorkerRecord, InvalidateEdge, Becomes
<1>1. PICK e \in worker[w].rest :
        /\ edge' = [edge EXCEPT ![e] = "invalid"]
        /\ worker' = [worker EXCEPT ![w] =
             [worker[w] EXCEPT !.pc = "mark", !.hit = Down(e), !.rest = @ \ {e}]]
  BY DEF InvalidateEdge, Becomes
<1>b. e \in Edges /\ edge[e] # "none" /\ Caused(Up(e)) /\ Down(e) \in Nodes
  BY <1>a, EdgeEnds DEF WorkerInOrder, WorkerIsCaused
<1> DEFINE q == [worker[w] EXCEPT !.pc = "mark", !.hit = Down(e), !.rest = @ \ {e}]
<1>2. /\ q \in WorkerRecord /\ q.pc = "mark" /\ q.hit = Down(e) /\ q.rest = worker[w].rest \ {e}
      /\ q.queue = worker[w].queue /\ q.visited = worker[w].visited
      /\ q.todo = worker[w].todo /\ q.stale = worker[w].stale
      /\ q.run = worker[w].run /\ q.had = worker[w].had
  BY <1>a, <1>b DEF WorkerRecord
<1>3. worker' = [worker EXCEPT ![w] = q]
  BY <1>1
<1> HIDE DEF q
<1>4. /\ worker' \in [Workers -> WorkerRecord] /\ worker'[w] = q
      /\ \A g \in Workers : g # w => worker'[g] = worker[g]
  BY <1>a, <1>2, <1>3 DEF TypeOK
<1>5. /\ edge' \in [Edges -> {"none", "valid", "invalid"}] /\ edge'[e] = "invalid"
      /\ \A f \in Edges : f # e => edge'[f] = edge[f]
  BY <1>a, <1>b, <1>1 DEF TypeOK
<1>6. TypeOK'
  BY <1>a, <1>4, <1>5 DEF TypeOK
<1>7. Grows
  BY <1>a, <1>5 DEF Grows
<1>8. IsSwept(Down(e))'
  BY <1>b, <1>5 DEF IsSwept
<1>9. WorkerIsCaused(worker[w])'
  <2>1. \A row \in q.todo : PrintIsCaused(row[1], row[2])'
    BY <1>a, <1>2, <1>7, CausesStay DEF WorkerIsCaused
  <2>2. \A n \in q.stale \cup q.queue \cup q.visited : Caused(n)'
    BY <1>a, <1>2, <1>7, CausesStay DEF WorkerIsCaused
  <2>3. \A x \in q.rest : Caused(Up(x))'
    BY <1>a, <1>2, <1>7, CausesStay DEF WorkerIsCaused
  <2>4. QED
    BY <1>b, <1>2, <1>4, <1>8, <2>1, <2>2, <2>3
    DEF WorkerIsCaused, Caused, IsSwept, PrintIsCaused
<1>10. WorkerInOrder(worker[w])'
  <2>1. \A f \in Edges : Up(f) \in q.visited /\ edge'[f] = "valid" /\ f \notin late => f \in q.rest
    BY <1>a, <1>2, <1>5 DEF WorkerInOrder
  <2>2. \A x \in q.rest : edge'[x] # "none"
    BY <1>a, <1>2, <1>5 DEF WorkerInOrder
  <2>3. q.todo = {} /\ (q.run = None => q.had = {})
    BY <1>a, <1>2 DEF WorkerInOrder
  <2>4. QED
    BY <1>a, <1>2, <1>4, <2>1, <2>2, <2>3 DEF WorkerInOrder, InSweep
<1>11. HadIsFound(worker[w])'
  <2>1. ASSUME NEW x \in q.had
        PROVE  /\ Down(x) \in {q.run, Point(q.run)} /\ edge'[x] # "none"
               /\ Up(x) \in touched /\ print[x] # Fingerprint(Up(x))
               /\ edge'[x] = "invalid" \/ Found(q, x)
    <3>1. x \in worker[w].had /\ x \in Edges
      BY <1>a, <1>2
    <3>2. /\ Down(x) \in {q.run, Point(q.run)} /\ edge[x] # "none"
          /\ Up(x) \in touched /\ print[x] # Fingerprint(Up(x))
          /\ edge[x] = "invalid" \/ Found(worker[w], x)
      BY <1>a, <1>2, <3>1 DEF HadIsFound
    <3>3. Found(worker[w], x) => x = e \/ Found(q, x)
      BY <1>a, <1>2 DEF Found, InSweep
    <3>4. QED
      BY <1>5, <3>1, <3>2, <3>3
  <2>2. \A u \in touched : Fingerprint(u)' = Fingerprint(u)
    BY <1>a, NodesAssumption DEF Fingerprint, TypeOK
  <2>3. \A x : Found(q, x) => Found(worker[w], x)'
    BY <1>2, <1>4 DEF Found, InSweep
  <2>4. QED
    BY <1>a, <1>4, <2>1, <2>2, <2>3 DEF HadIsFound
<1>12. InvalidForAReason'
  <2>1. \A f \in Edges : edge'[f] = "invalid" => Caused(Up(f))'
    <3>1. \A f \in Edges : edge'[f] = "invalid" => Caused(Up(f))
      BY <1>b, <1>5 DEF IInv, InvalidForAReason, Caused
    <3>2. QED
      BY <3>1, <1>7, CausesStay
  <2>2. \A n \in Runs \cup Points : standing'[n] = "invalid" => IsSwept(n)'
    BY <1>a, <1>7, CausesStay DEF IInv, InvalidForAReason
  <2>3. QED
    BY <2>1, <2>2 DEF InvalidForAReason, Caused
<1>13. SweepIsComplete'
  <2>1. ASSUME lost = 0, NEW x \in Edges, NEW f \in Edges,
               edge'[x] = "invalid", Up(f) = Down(x), edge'[f] = "valid", f \notin late
        PROVE  \E g \in Workers : Reaches(worker[g], f)'
    <3>1. edge[f] = "valid" /\ f # e
      BY <1>5, <2>1
    <3>2. CASE x = e
      <4>1. Reaches(worker[w], f)'
        BY <1>2, <1>4, <2>1, <3>2 DEF Reaches
      <4>2. QED
        BY <4>1
    <3>3. CASE x # e
      <4>1. PICK g \in Workers : Reaches(worker[g], f)
        BY <1>5, <2>1, <3>1, <3>3 DEF IInv, SweepIsComplete
      <4>2. Reaches(worker[g], f)'
        BY <1>a, <1>2, <1>4, <3>1, <4>1 DEF Reaches, InSweep
      <4>3. QED
        BY <4>2
    <3>4. QED
      BY <3>2, <3>3
  <2>2. QED
    BY <1>a, <2>1 DEF SweepIsComplete
<1>14. MarksAreOwed'
  <2>1. ASSUME NEW S \in SUBSET (Runs \cup Points)
        PROVE  /\ IsFiniteSet(Owed(S)')
               /\ Cardinality(Owed(S)') <= lost + Cardinality(Marking(S)')
    <3>1. /\ IsFiniteSet(Owed(S)) /\ Cardinality(Owed(S)) <= lost + Cardinality(Marking(S))
          /\ IsFiniteSet(Marking(S)) /\ lost \in Nat
          /\ Cardinality(Owed(S)) \in Nat /\ Cardinality(Marking(S)) \in Nat
      BY MarkingIsFinite, FS_CardinalityType DEF IInv, MarksAreOwed, TypeOK
    <3>2. CASE Down(e) \in S
      <4>1. Owed(S)' \subseteq Owed(S) \cup {e}
        BY <1>a, <1>5 DEF Owed
      <4>2. /\ IsFiniteSet(Owed(S) \cup {e})
            /\ Cardinality(Owed(S) \cup {e}) =
                 IF e \in Owed(S) THEN Cardinality(Owed(S)) ELSE Cardinality(Owed(S)) + 1
        BY <3>1, FS_AddElement
      <4>3. IsFiniteSet(Owed(S)') /\ Cardinality(Owed(S)') <= Cardinality(Owed(S) \cup {e})
        BY <4>1, <4>2, FS_Subset
      <4>4. Marking(S)' = Marking(S) \cup {w} /\ w \notin Marking(S)
        BY <1>a, <1>2, <1>4, <3>2 DEF Marking
      <4>5. Cardinality(Marking(S)') = Cardinality(Marking(S)) + 1
        BY <3>1, <4>4, FS_AddElement
      <4>6. Cardinality(Owed(S)') \in Nat /\ Cardinality(Owed(S) \cup {e}) \in Nat
        BY <4>2, <4>3, FS_CardinalityType
      <4>7. QED
        BY <3>1, <4>2, <4>3, <4>5, <4>6
    <3>3. CASE Down(e) \notin S
      <4>1. Owed(S)' = Owed(S)
        BY <1>a, <1>b, <1>5, <3>3 DEF Owed
      <4>2. Marking(S)' = Marking(S)
        BY <1>a, <1>2, <1>4, <3>3 DEF Marking
      <4>3. QED
        BY <3>1, <4>1, <4>2
    <3>4. QED
      BY <3>2, <3>3
  <2>2. QED
    BY <1>a, <2>1 DEF MarksAreOwed
<1>15. QED
  BY <1>a, <1>b, <1>4, <1>5, <1>6, <1>7, <1>9, <1>10, <1>11, <1>12, <1>13, <1>14, OneMoves

\* The row is marked: no edge that leads to it is owed any more.
LEMMA MarkNodeStep ==
  ASSUME IInv, NEW w \in Workers, MarkNode(w)
  PROVE  IInv'
<1>a. /\ TypeOK /\ worker[w] \in WorkerRecord /\ worker[w].pc = "mark"
      /\ WorkerInOrder(worker[w]) /\ WorkerIsCaused(worker[w]) /\ HadIsFound(worker[w])
      /\ UNCHANGED <<rowVars, edgeVars, ledger, late, lost, boundVars>>
  BY DEF IInv, TypeOK, MarkNode, Becomes
<1>1. PICK n : n = worker[w].hit
  OBVIOUS
<1>2. n \in Nodes /\ IsSwept(n)
  BY <1>a, <1>1 DEF WorkerIsCaused
<1>3. standing' = IF n \in Runs \cup Points THEN [standing EXCEPT ![n] = "invalid"] ELSE standing
  BY <1>1 DEF MarkNode, Voided
<1>4. /\ standing' \in [Runs \cup Points -> {"absent", "valid", "invalid"}]
      /\ \A x \in Runs \cup Points : standing'[x] = IF x = n THEN "invalid" ELSE standing[x]
  BY <1>a, <1>3 DEF TypeOK
<1> DEFINE queue   == worker[w].queue \cup {n}
           visited == worker[w].visited
           rest    == worker[w].rest
<1>b. InSweep(worker[w])
  BY <1>a DEF InSweep
<1>c. worker' = [worker EXCEPT ![w] = Sweep(w, queue, visited, rest)]
  BY <1>1 DEF MarkNode, Becomes, Behind
<1>5. queue \in SUBSET Nodes /\ visited \in SUBSET Nodes /\ rest \in SUBSET Edges
  BY <1>a, <1>2 DEF WorkerRecord
<1>6. \A x \in queue \cup visited : Caused(x)
  BY <1>a, <1>2 DEF WorkerIsCaused, Caused
<1>7. \A e \in rest : edge[e] # "none" /\ Caused(Up(e))
  BY <1>a DEF WorkerIsCaused, WorkerInOrder
<1>8. \A f \in Edges : Up(f) \in visited /\ edge[f] = "valid" /\ f \notin late => f \in rest
  BY <1>a DEF WorkerInOrder
<1>9. \A e \in worker[w].had : edge[e] = "invalid" \/ e \in rest \/ Up(e) \in queue \ visited
  BY <1>a DEF HadIsFound, Found, InSweep
<1>10. Grows
  BY <1>a, <1>4 DEF Grows
<1>11. \A f \in Edges : Reaches(worker[w], f) => Up(f) \in queue \/ f \in rest
  BY <1>1 DEF Reaches
<1>d. UNCHANGED <<rowVars, edgeVars, late>>
  BY <1>a
<1> HIDE DEF queue, visited, rest
<1>12. /\ worker' \in [Workers -> WorkerRecord]
       /\ \A g \in Workers : g # w => worker'[g] = worker[g]
       /\ worker'[w].pc # "mark"
       /\ WorkerIsCaused(worker[w])' /\ WorkerInOrder(worker[w])' /\ HadIsFound(worker[w])'
       /\ \A f \in Edges :
            (Up(f) \in queue \/ f \in rest) /\ edge[f] = "valid" /\ f \notin late =>
              Reaches(worker[w], f)'
  BY <1>b, <1>c, <1>d, <1>5, <1>6, <1>7, <1>8, <1>9, <1>10, SweepFacts
<1>13. TypeOK'
  BY <1>a, <1>4, <1>12 DEF TypeOK
<1>14. InvalidForAReason'
  <2>1. \A x \in Runs \cup Points : standing'[x] = "invalid" => IsSwept(x)
    BY <1>2, <1>4 DEF IInv, InvalidForAReason
  <2>2. \A x : IsSwept(x)' <=> IsSwept(x)
    BY <1>a DEF IsSwept
  <2>3. QED
    BY <1>a, <2>1, <2>2 DEF IInv, InvalidForAReason
<1>15. SweepIsComplete'
  <2>1. ASSUME lost = 0, NEW e \in Edges, NEW f \in Edges,
               edge[e] = "invalid", Up(f) = Down(e), edge[f] = "valid", f \notin late
        PROVE  \E g \in Workers : Reaches(worker[g], f)'
    <3>1. PICK g \in Workers : Reaches(worker[g], f)
      BY <2>1 DEF IInv, SweepIsComplete
    <3>2. CASE g = w
      BY <1>11, <1>12, <2>1, <3>1, <3>2
    <3>3. CASE g # w
      <4>1. Reaches(worker[g], f)'
        BY <1>12, <3>1, <3>3 DEF Reaches, InSweep
      <4>2. QED
        BY <4>1
    <3>4. QED
      BY <3>2, <3>3
  <2>2. QED
    BY <1>a, <2>1 DEF SweepIsComplete
<1>16. MarksAreOwed'
  <2>1. ASSUME NEW S \in SUBSET (Runs \cup Points)
        PROVE  /\ IsFiniteSet(Owed(S)')
               /\ Cardinality(Owed(S)') <= lost + Cardinality(Marking(S)')
    <3>1. PICK T \in SUBSET (Runs \cup Points) : T = S \ {n}
      OBVIOUS
    <3>2. /\ IsFiniteSet(Owed(T)) /\ Cardinality(Owed(T)) <= lost + Cardinality(Marking(T))
          /\ IsFiniteSet(Marking(T)) /\ lost \in Nat
      BY MarkingIsFinite DEF IInv, MarksAreOwed, TypeOK
    <3>3. Owed(S)' \subseteq Owed(T)
      BY <1>a, <1>4, <3>1 DEF Owed
    <3>4. Marking(T) \subseteq Marking(S)'
      BY <1>1, <1>12, <3>1 DEF Marking
    <3>5. IsFiniteSet(Marking(S)')
      <4>1. Marking(S)' \subseteq Workers
        BY DEF Marking
      <4>2. QED
        BY <4>1, WorkersAssumption, FS_Subset
    <3>6. IsFiniteSet(Owed(S)') /\ Cardinality(Owed(S)') <= Cardinality(Owed(T))
      BY <3>2, <3>3, FS_Subset
    <3>7. Cardinality(Marking(T)) <= Cardinality(Marking(S)')
      BY <3>4, <3>5, FS_Subset
    <3>8. /\ Cardinality(Owed(S)') \in Nat /\ Cardinality(Owed(T)) \in Nat
          /\ Cardinality(Marking(S)') \in Nat /\ Cardinality(Marking(T)) \in Nat
      BY <3>2, <3>5, <3>6, FS_CardinalityType
    <3>9. QED
      BY <3>2, <3>6, <3>7, <3>8
  <2>2. QED
    BY <1>a, <2>1 DEF MarksAreOwed
<1>17. \A x \in Runs : standing'[x] # standing[x] => standing'[x] = "invalid"
  BY <1>4
<1>18. QED
  BY <1>a, <1>10, <1>12, <1>13, <1>14, <1>15, <1>16, <1>17, OneMoves

-----------------------------------------------------------------------------
(* The check of a checkpoint, and the crash.                               *)

LEMMA CheckPointStep ==
  ASSUME IInv, NEW w \in Workers, CheckPoint(w)
  PROVE  IInv'
<1>a. /\ TypeOK /\ worker[w] \in WorkerRecord /\ worker[w].pc = "point"
      /\ WorkerInOrder(worker[w]) /\ WorkerIsCaused(worker[w]) /\ HadIsFound(worker[w])
      /\ UNCHANGED <<rowVars, standing, edgeVars, ledger, late, lost, boundVars>>
  BY DEF IInv, TypeOK, CheckPoint, Becomes
<1> DEFINE p == [worker[w] EXCEPT !.pc = "source"]
<1>1. /\ p \in WorkerRecord /\ p.pc = "source" /\ p.todo = worker[w].todo
      /\ p.stale = worker[w].stale /\ p.queue = worker[w].queue
      /\ p.visited = worker[w].visited /\ p.rest = worker[w].rest
      /\ p.run = worker[w].run /\ p.had = worker[w].had
  BY <1>a DEF WorkerRecord
<1>2. worker' = [worker EXCEPT ![w] = p] \/ worker' = [worker EXCEPT ![w] = Idle]
  BY DEF CheckPoint, Becomes
<1> HIDE DEF p
<1>3. PICK q \in WorkerRecord :
        /\ worker' = [worker EXCEPT ![w] = q]
        /\ q = p \/ q = Idle
  BY <1>1, <1>2, IdleIsTyped
<1>4. /\ worker' \in [Workers -> WorkerRecord] /\ worker'[w] = q
      /\ \A g \in Workers : g # w => worker'[g] = worker[g]
  BY <1>a, <1>3 DEF TypeOK
<1>5. /\ q.pc \in {"source", "idle"} /\ q.todo = {} /\ q.queue = {} /\ q.visited = {}
      /\ q.rest = {} /\ q.stale \subseteq worker[w].stale
      /\ q.had \subseteq worker[w].had /\ (q.had # {} => q.run = worker[w].run)
      /\ (q.pc = "source" => q.run \in Runs) /\ (q.run = None => q.had = {})
  BY <1>a, <1>1, <1>3, IdleIsTyped DEF WorkerInOrder, InSweep
<1>6. TypeOK'
  BY <1>a, <1>4 DEF TypeOK
<1>7. WorkerIsCaused(worker[w])'
  <2>1. \A n \in q.stale : Caused(n)
    BY <1>a, <1>5 DEF WorkerIsCaused
  <2>2. \A n : Caused(n) => Caused(n)'
    BY <1>a DEF Caused, IsSwept
  <2>3. QED
    BY <1>4, <1>5, <2>1, <2>2 DEF WorkerIsCaused, Caused, IsSwept
<1>8. WorkerInOrder(worker[w])'
  BY <1>4, <1>5 DEF WorkerInOrder, InSweep
<1>9. HadIsFound(worker[w])'
  <2>1. \A u \in touched : Fingerprint(u)' = Fingerprint(u)
    BY <1>a, NodesAssumption DEF Fingerprint, TypeOK
  <2>2. QED
    BY <1>a, <1>4, <1>5, <2>1 DEF HadIsFound, Found, InSweep
<1>10. \A f \in Edges : ~Reaches(worker[w], f)
  BY <1>a DEF Reaches, InSweep
<1>11. QED
  BY <1>a, <1>4, <1>5, <1>6, <1>7, <1>8, <1>9, <1>10, OneMovesQuietly

LEMMA CheckSourceStep ==
  ASSUME IInv, NEW w \in Workers, CheckSource(w)
  PROVE  IInv'
<1>a. /\ TypeOK /\ worker[w].pc = "source" /\ worker' = [worker EXCEPT ![w] = Idle]
      /\ UNCHANGED <<rowVars, standing, edgeVars, ledger, late, lost, boundVars>>
  BY DEF IInv, CheckSource, Becomes
<1>1. /\ worker' \in [Workers -> WorkerRecord] /\ worker'[w] = Idle
      /\ \A g \in Workers : g # w => worker'[g] = worker[g]
  BY <1>a, IdleIsTyped DEF TypeOK
<1>2. TypeOK'
  BY <1>a, <1>1 DEF TypeOK
<1>3. WorkerIsCaused(worker[w])' /\ WorkerInOrder(worker[w])' /\ HadIsFound(worker[w])'
  BY <1>1, IdleIsTyped DEF WorkerIsCaused, WorkerInOrder, InSweep, HadIsFound
<1>4. \A f \in Edges : ~Reaches(worker[w], f)
  BY <1>a DEF Reaches, InSweep
<1>5. QED
  BY <1>a, <1>1, <1>2, <1>3, <1>4, IdleIsTyped, OneMovesQuietly

\* Whatever a sweep was about to mark is owed by an interrupted sweep from here on.
LEMMA CrashStep ==
  ASSUME IInv, Crash
  PROVE  IInv'
<1>a. /\ TypeOK /\ crashes < MaxCrashes /\ crashes' = crashes + 1
      /\ lost' = lost + Cardinality({w \in Workers : Sweeping(w)})
      /\ worker' = [w \in Workers |-> Idle]
      /\ UNCHANGED <<rowVars, standing, edgeVars, late, changes, requests>>
  BY DEF IInv, Crash
<1>b. ledger' = [r \in Runs |->
                    [ledger[r] EXCEPT !.pc = "done", !.left = {}, !.cur = None]]
  BY DEF Crash
<1>1. PICK cut : cut = {w \in Workers : Sweeping(w)}
  OBVIOUS
<1>2. IsFiniteSet(cut) /\ Cardinality(cut) \in Nat /\ lost' = lost + Cardinality(cut) /\ lost \in Nat
  <2>1. cut \subseteq Workers
    BY <1>1
  <2>2. IsFiniteSet(cut)
    BY <2>1, WorkersAssumption, FS_Subset
  <2>3. QED
    BY <1>a, <1>1, <2>2, FS_CardinalityType DEF TypeOK
<1>3. worker' \in [Workers -> WorkerRecord] /\ \A w \in Workers : worker'[w] = Idle
  BY <1>a, IdleIsTyped
<1>4. ASSUME NEW r \in Runs
      PROVE  ledger'[r] \in LedgerRecord /\ ledger'[r].pc = "done" /\ ledger'[r].left = {}
             /\ ledger'[r].cur = None
  BY <1>a, <1>b DEF TypeOK, LedgerRecord
<1>5. ledger' \in [Runs -> LedgerRecord]
  <2>1. ledger' = [r \in Runs |-> ledger'[r]]
    BY <1>b
  <2>2. QED
    BY <1>4, <2>1
<1>6. TypeOK'
  <2>1. crashes' \in 0..MaxCrashes
    BY <1>a, BoundsAssumption DEF TypeOK
  <2>2. QED
    BY <1>a, <1>2, <1>3, <1>5, <2>1 DEF TypeOK
<1>7. \A r \in Runs : LedgerInOrder(r)'
  BY <1>4 DEF LedgerInOrder
<1>8. PrintsAreCaused'
  BY <1>a, <1>4 DEF IInv, PrintsAreCaused, PrintIsCaused
<1>9. ASSUME NEW w \in Workers
      PROVE  WorkerIsCaused(worker[w])' /\ WorkerInOrder(worker[w])' /\ HadIsFound(worker[w])'
  BY <1>3, IdleIsTyped DEF WorkerIsCaused, WorkerInOrder, InSweep, HadIsFound
<1>10. InvalidForAReason'
  BY <1>a DEF IInv, InvalidForAReason, IsSwept
<1>11. SweepIsComplete'
  <2>1. lost' = 0 => lost = 0 /\ Cardinality(cut) = 0
    BY <1>2
  <2>2. lost' = 0 => cut = {}
    BY <1>2, <2>1, FS_EmptySet
  <2>3. \A g \in Workers, f \in Edges : cut = {} => ~Reaches(worker[g], f)
    BY <1>1 DEF Sweeping, Reaches, InSweep
  <2>4. QED
    BY <1>a, <2>1, <2>2, <2>3 DEF IInv, SweepIsComplete
<1>12. MarksAreOwed'
  <2>1. ASSUME NEW S \in SUBSET (Runs \cup Points)
        PROVE  /\ IsFiniteSet(Owed(S)')
               /\ Cardinality(Owed(S)') <= lost' + Cardinality(Marking(S)')
    <3>1. Owed(S)' = Owed(S)
      BY <1>a DEF Owed
    <3>2. /\ IsFiniteSet(Owed(S)) /\ Cardinality(Owed(S)) <= lost + Cardinality(Marking(S))
          /\ Cardinality(Owed(S)) \in Nat /\ Cardinality(Marking(S)) \in Nat
      BY MarkingIsFinite, FS_CardinalityType DEF IInv, MarksAreOwed
    <3>3. Marking(S) \subseteq cut
      BY <1>1 DEF Marking, Sweeping
    <3>4. Cardinality(Marking(S)) <= Cardinality(cut)
      BY <1>2, <3>3, FS_Subset
    <3>5. Marking(S)' = {}
      BY <1>3, IdleIsTyped DEF Marking
    <3>6. Cardinality(Marking(S)') = 0
      BY <3>5, FS_EmptySet
    <3>7. QED
      BY <1>2, <3>1, <3>2, <3>4, <3>6
  <2>2. QED
    BY <2>1 DEF MarksAreOwed
<1>13. QED
  BY <1>6, <1>7, <1>8, <1>9, <1>10, <1>11, <1>12 DEF IInv

-----------------------------------------------------------------------------
(* The theorems.                                                           *)

LEMMA InitInv ==
  ASSUME Init
  PROVE  IInv
<1>a. /\ version = [u \in Records |-> First] /\ touched = {} /\ superseded = {}
      /\ late = {} /\ lost = 0 /\ changes = 0 /\ requests = 0 /\ crashes = 0
      /\ \A x \in Runs \cup Points : standing[x] = IF x \in Runs THEN "valid" ELSE "absent"
      /\ \A e \in Edges : edge[e] = (IF e \in SourceEdges THEN "valid" ELSE "none")
      /\ \A e \in Edges : print[e] = <<First, "valid">>
      /\ \A w \in Workers : worker[w] = Idle
  BY DEF Init
<1>1. ASSUME NEW r \in Runs
      PROVE  ledger[r] \in LedgerRecord /\ ledger[r].pc = "inputs" /\ ledger[r].left = RunEdges(r)
             /\ ledger[r].cur = None
  BY EdgeFacts, ContentsAssumption DEF Init, LedgerRecord, Prints
<1>2. TypeOK
  <2>1. standing \in [Runs \cup Points -> {"absent", "valid", "invalid"}]
    BY DEF Init
  <2>2. edge \in [Edges -> {"none", "valid", "invalid"}] /\ print \in [Edges -> Prints]
    BY ContentsAssumption DEF Init, Prints
  <2>3. worker \in [Workers -> WorkerRecord]
    BY IdleIsTyped DEF Init
  <2>4. ledger = [r \in Runs |-> ledger[r]]
    BY DEF Init
  <2>5. ledger \in [Runs -> LedgerRecord]
    BY <1>1, <2>4
  <2>6. QED
    BY <1>a, <2>1, <2>2, <2>3, <2>5, BoundsAssumption, ContentsAssumption DEF TypeOK
<1>3. ASSUME NEW r \in Runs
      PROVE  LedgerInOrder(r)
  <2>1. \A e \in RunEdges(r) \cup PointEdges(r) : e \in Edges /\ e \notin SourceEdges
    BY EdgeFacts, PointFacts, NodesAssumption
  <2>2. None \notin RunEdges(r)
    BY EdgeFacts, NoneAssumption
  <2>3. QED
    BY <1>a, <1>1, <2>1, <2>2 DEF LedgerInOrder
<1>4. PrintsAreCaused
  BY <1>a, <1>1 DEF PrintsAreCaused, PrintIsCaused
<1>5. ASSUME NEW w \in Workers
      PROVE  WorkerIsCaused(worker[w]) /\ WorkerInOrder(worker[w]) /\ HadIsFound(worker[w])
  BY <1>a, IdleIsTyped DEF WorkerIsCaused, WorkerInOrder, InSweep, HadIsFound
<1>6. InvalidForAReason /\ SweepIsComplete
  BY <1>a DEF InvalidForAReason, SweepIsComplete
<1>7. MarksAreOwed
  <2>1. ASSUME NEW S \in SUBSET (Runs \cup Points)
        PROVE  IsFiniteSet(Owed(S)) /\ Cardinality(Owed(S)) <= lost + Cardinality(Marking(S))
    <3>1. Owed(S) = {}
      BY <1>a DEF Owed
    <3>2. IsFiniteSet(Owed(S)) /\ Cardinality(Owed(S)) = 0
      BY <3>1, FS_EmptySet
    <3>3. Cardinality(Marking(S)) \in Nat
      BY MarkingIsFinite, FS_CardinalityType
    <3>4. QED
      BY <1>a, <3>2, <3>3
  <2>2. QED
    BY <2>1 DEF MarksAreOwed
<1>8. QED
  BY <1>2, <1>3, <1>4, <1>5, <1>6, <1>7 DEF IInv

LEMMA InvStep ==
  ASSUME IInv, [Next]_vars
  PROVE  IInv'
<1>1. ASSUME NEW u \in Records, Change(u)
      PROVE  IInv'
  BY <1>1, ChangeStep
<1>2. ASSUME NEW r \in Runs, ReadUpstream(r) \/ InsertEdge(r) \/ InsertCheckpoint(r)
      PROVE  IInv'
  BY <1>2, ReadUpstreamStep, InsertEdgeStep, InsertCheckpointStep
<1>3. ASSUME NEW w \in Workers, Inspect(w)
      PROVE  IInv'
  BY <1>3, InspectStep
<1>4. ASSUME NEW w \in Workers, NEW r \in Runs, Recover(w, r)
      PROVE  IInv'
  BY <1>4, RecoverStep
<1>5. ASSUME NEW w \in Workers, NEW g \in Fixed, Supersede(w, g)
      PROVE  IInv'
  BY <1>5, SupersedeStep
<1>6. ASSUME NEW w \in Workers, WorkerStep(w)
      PROVE  IInv'
  BY <1>6, SelectStep, CompareStep, PopStep, InvalidateEdgeStep, MarkNodeStep,
     CheckPointStep, CheckSourceStep DEF WorkerStep
<1>7. CASE Crash
  BY <1>7, CrashStep
<1>8. CASE UNCHANGED vars
  <2>1. UNCHANGED <<version, touched, superseded, standing, edge, print, ledger, worker, late,
                    lost, changes, requests, crashes>>
    BY <1>8
  <2>2. TypeOK' /\ InvalidForAReason' /\ PrintsAreCaused'
    BY <2>1 DEF IInv, TypeOK, InvalidForAReason, IsSwept, PrintsAreCaused, PrintIsCaused
  <2>3. \A r \in Runs : LedgerInOrder(r)'
    BY <2>1 DEF IInv, LedgerInOrder
  <2>4. Grows
    BY <2>1 DEF Grows
  <2>5. QED
    BY <2>1, <2>2, <2>3, <2>4, RequestsStand DEF IInv
<1>9. QED
  BY <1>1, <1>2, <1>3, <1>4, <1>5, <1>6, <1>7, <1>8 DEF Next

\* The inductive invariant.
THEOREM InductiveInv == Spec => []IInv
<1>1. Init => IInv
  BY InitInv
<1>2. IInv /\ [Next]_vars => IInv'
  BY InvStep
<1>3. QED
  BY <1>1, <1>2, PTL DEF Spec

\* Every row, ledger and request has its shape, for any graph and any number of
\* requests.
THEOREM TypeCorrect == Spec => []TypeOK
<1>1. IInv => TypeOK
  BY DEF IInv
<1>2. QED
  BY <1>1, InductiveInv, PTL

\* invalidateFromNodes marks nothing without a cause upstream, although requests
\* compare rows that others have written since.
THEOREM InvalidationsHaveReasons == Spec => []InvalidForAReason
<1>1. IInv => InvalidForAReason
  BY DEF IInv
<1>2. QED
  BY <1>1, InductiveInv, PTL

\* When every sweep has ended and none was cut by a crash, nothing downstream of an
\* invalid node is valid, but what was registered after a sweep had passed.
THEOREM SweepsReachEverything == Spec => []NothingIsMissed
<1>1. IInv => NothingIsMissed
  BY DEF IInv, NothingIsMissed, SweepIsComplete, Reaches, Sweeping, InSweep
<1>2. QED
  BY <1>1, InductiveInv, PTL

\* A recovery is granted on a drifted record only if as many sweeps hang or were cut
\* as the run and its checkpoint have edges to that record.
LEMMA GrantsAreCounted == IInv => GrantIsSound
<1> SUFFICES ASSUME IInv, NEW w \in Workers, worker[w].pc = "point",
                    standing[Point(worker[w].run)] = "valid", SourceIsGood(worker[w].run),
                    NEW u \in Records
             PROVE  Cardinality({e \in worker[w].had : Up(e) = u}) <= Unfinished
  BY DEF GrantIsSound, Granted
<1>1. PICK r \in Runs : r = worker[w].run
  BY DEF IInv, WorkerInOrder
<1>2. PICK S \in SUBSET (Runs \cup Points) : S = {r, Point(r)}
  BY PointFacts
<1> DEFINE drifted == {e \in worker[w].had : Up(e) = u}
<1>3. drifted \subseteq Owed(S)
  <2>1. ASSUME NEW e \in drifted
        PROVE  e \in Owed(S)
    <3>1. /\ e \in Edges /\ Down(e) \in {r, Point(r)} /\ edge[e] = "invalid"
      BY <1>1 DEF IInv, TypeOK, WorkerRecord, HadIsFound, Found, InSweep
    <3>2. standing[Down(e)] # "invalid"
      BY <1>1, <3>1 DEF SourceIsGood
    <3>3. QED
      BY <1>2, <3>1, <3>2 DEF Owed
  <2>2. QED
    BY <2>1
<1>4. /\ IsFiniteSet(Owed(S)) /\ Cardinality(Owed(S)) <= lost + Cardinality(Marking(S))
      /\ lost \in Nat /\ IsFiniteSet(Marking(S))
  BY MarkingIsFinite DEF IInv, MarksAreOwed, TypeOK
<1>5. IsFiniteSet(drifted) /\ Cardinality(drifted) <= Cardinality(Owed(S))
  BY <1>3, <1>4, FS_Subset
<1>6. PICK marking : marking = {v \in Workers : worker[v].pc = "mark"}
  OBVIOUS
<1>7. Marking(S) \subseteq marking /\ IsFiniteSet(marking)
  <2>1. marking \subseteq Workers /\ Marking(S) \subseteq marking
    BY <1>6 DEF Marking
  <2>2. QED
    BY <2>1, WorkersAssumption, FS_Subset
<1>8. Cardinality(Marking(S)) <= Cardinality(marking)
  BY <1>7, FS_Subset
<1>9. /\ Cardinality(drifted) \in Nat /\ Cardinality(Owed(S)) \in Nat
      /\ Cardinality(Marking(S)) \in Nat /\ Cardinality(marking) \in Nat
  BY <1>4, <1>5, <1>7, FS_CardinalityType
<1>10. Unfinished = lost + Cardinality(marking)
  BY <1>6 DEF Unfinished
<1> HIDE DEF drifted
<1>11. Cardinality(drifted) <= Unfinished
  BY <1>4, <1>5, <1>8, <1>9, <1>10
<1>12. QED
  BY <1>11 DEF drifted

\* assertCheckpointRecoverable after the inspection that precedes it: the rows it
\* reads are good although the inputs have drifted only while sweeps are cut short.
THEOREM GrantsAreSound == Spec => []GrantIsSound
BY GrantsAreCounted, InductiveInv, PTL
=============================================================================
