------------------------ MODULE ProjectMemory_proofs ------------------------
(***************************************************************************)
(* Theorems about ProjectMemory, for every number of projects,             *)
(* configurations, ports, processes, requests and crashes.                 *)
(***************************************************************************)
EXTENDS ProjectMemory, FiniteSetTheorems, WellFoundedInduction, TLAPS

USE DEF poolVars, memoryVars, counters, vars

-----------------------------------------------------------------------------
(* The ports.                                                              *)

\* Every set of ports that is not empty has a lowest one: of what lies below
\* each of them, within a finite interval, one set has no smaller among them.
LEMMA LowestPort ==
  ASSUME NEW S \in SUBSET Port, NEW b \in S
  PROVE  \E n \in S : \A m \in S : n <= m
<1>0. b \in Nat /\ S \subseteq Nat
  BY PoolAssumption
<1> DEFINE Below(n) == {m \in 0..b : m < n}
           Belows == {Below(n) : n \in S \cap (0..b)}
           Smaller == StrictSubsetOrdering(0..b)
<1>1. IsFiniteSet(0..b)
  BY <1>0, FS_Interval
<1>2. IsWellFoundedOn(Smaller, FiniteSubsetsOf(0..b))
  BY FS_StrictSubsetOrderingWellFounded
<1>3. Belows \subseteq FiniteSubsetsOf(0..b)
  <2>1. Belows \subseteq SUBSET (0..b)
    OBVIOUS
  <2>2. QED
    BY <1>1, <2>1, FS_FiniteSubsetsOfFinite
<1>4. Belows # {}
  <2>1. b \in 0..b
    BY <1>0
  <2>2. QED
    BY <2>1
<1>5. PICK x \in Belows : \A y \in Belows : <<y, x>> \notin Smaller
  <2> HIDE DEF Smaller, Belows
  <2>1. QED
    BY <1>2, <1>3, <1>4, WFMin
<1>6. PICK n \in S \cap (0..b) : x = Below(n)
  OBVIOUS
<1>7. ASSUME NEW m \in S \cap (0..b), m < n
      PROVE  FALSE
  <2>1. Below(m) \subseteq Below(n) /\ m \in Below(n) /\ m \notin Below(m)
    BY <1>0, <1>7
  <2>2. <<Below(m), x>> \in Smaller
    BY <1>6, <2>1 DEF StrictSubsetOrdering
  <2>3. QED
    BY <1>5, <2>2
<1>8. QED
  BY <1>0, <1>7

LEMMA AllocatedIsFree ==
  ASSUME FreePorts # {}
  PROVE  AllocatePort \in FreePorts
<1>1. PICK b \in FreePorts : TRUE
  OBVIOUS
<1>2. FreePorts \in SUBSET Port
  BY DEF FreePorts
<1>3. \E n \in FreePorts : \A m \in FreePorts : n <= m
  BY <1>1, <1>2, LowestPort
<1>4. QED
  BY <1>3, Zenon DEF AllocatePort

-----------------------------------------------------------------------------
(* What the files of the settings say after each write.                    *)

Assigned(p, c) == p \in Project /\ c \in Store /\ (c \in Config => pools[c] # None \/ FreePorts # {})

\* Registering a configuration gives it a port that no other has.
LEMMA RegisteredIsSound ==
  ASSUME PoolTypeOK, PoolsMatchUse, NEW p, NEW c, Assigned(p, c)
  PROVE  /\ Registered(c) \in [Config -> Port \cup {None}]
         /\ c \in Config => Registered(c)[c] # None
         /\ \A d \in Config : d # c => Registered(c)[d] = pools[d]
         /\ \A d, e \in Config :
              d # e /\ Registered(c)[d] # None => Registered(c)[d] # Registered(c)[e]
<1> USE PoolAssumption DEF Assigned, Store, PoolTypeOK
<1>1. CASE c = Global \/ pools[c] # None
  BY <1>1 DEF Registered, PoolsMatchUse
<1>2. CASE ~(c = Global \/ pools[c] # None)
  <2>1. AllocatePort \in FreePorts
    BY <1>2, AllocatedIsFree
  <2>2. Registered(c) = [pools EXCEPT ![c] = AllocatePort]
    BY <1>2 DEF Registered
  <2>3. AllocatePort \in Port /\ \A d \in Config : pools[d] # AllocatePort
    BY <2>1 DEF FreePorts
  <2>4. QED
    BY <1>2, <2>2, <2>3 DEF PoolsMatchUse
<1>3. QED
  BY <1>1, <1>2

\* The death of the server after any of the writes leaves the pool of every
\* override registered; after the last, no unused pool has kept its port.
LEMMA WriteIsSound ==
  ASSUME PoolTypeOK, PoolsMatchUse, NEW p, NEW c, Assigned(p, c),
         NEW i \in 1..3, AfterWrite(p, c, i)
  PROVE  /\ override' \in [Project -> Store]
         /\ pools' \in [Config -> Port \cup {None}]
         /\ \A q \in Project : override'[q] # Global => pools'[override'[q]] # None
         /\ \A d, e \in Config : d # e /\ pools'[d] # None => pools'[d] # pools'[e]
         /\ i = 3 /\ crashes = 0 =>
              \A d \in Config : pools'[d] # None => ~Unused(override', d)
<1> USE PoolAssumption DEF Assigned, Store, PoolTypeOK
<1> DEFINE now == [override EXCEPT ![p] = c]
           old == override[p]
           all == Registered(c)
           freed == IF Unused(now, old) THEN [all EXCEPT ![old] = None] ELSE all
<1>1. /\ all \in [Config -> Port \cup {None}]
      /\ c \in Config => all[c] # None
      /\ \A d \in Config : d # c => all[d] = pools[d]
      /\ \A d, e \in Config : d # e /\ all[d] # None => all[d] # all[e]
  BY RegisteredIsSound
<1>2. /\ i = 1 => override' = override /\ pools' = all
      /\ i = 2 => override' = now /\ pools' = all
      /\ i = 3 => override' = now /\ pools' = freed
  <2>1. Writes(p, c) = <<[override |-> override, pools |-> all],
                         [override |-> now, pools |-> all],
                         [override |-> now, pools |-> freed]>>
    BY DEF Writes
  <2>2. override' = Writes(p, c)[i].override /\ pools' = Writes(p, c)[i].pools
    BY DEF AfterWrite
  <2>3. QED
    <3> HIDE DEF all, now, freed
    <3>1. QED
      BY <2>1, <2>2
<1>3. i = 1 \/ i = 2 \/ i = 3
  OBVIOUS
<1>4. now \in [Project -> Store] /\ old \in Store
  OBVIOUS
<1>5. /\ \A q \in Project : override[q] # Global => all[override[q]] # None
      /\ \A q \in Project : now[q] # Global => all[now[q]] # None
  <2> HIDE DEF all
  <2>1. \A q \in Project : override[q] # Global => pools[override[q]] # None
    BY DEF PoolsMatchUse
  <2>2. QED
    BY <1>1, <2>1
<1>6. /\ freed \in [Config -> Port \cup {None}]
      /\ \A q \in Project : now[q] # Global => freed[now[q]] # None
      /\ \A d, e \in Config : d # e /\ freed[d] # None => freed[d] # freed[e]
  <2> HIDE DEF all, now
  <2>1. QED
    BY <1>1, <1>4, <1>5 DEF Unused
<1>7. crashes = 0 => \A d \in Config : freed[d] # None => ~Unused(now, d)
  <2> SUFFICES ASSUME crashes = 0, NEW d \in Config, freed[d] # None, Unused(now, d)
               PROVE  FALSE
    OBVIOUS
  <2>1. d # c /\ d # old
    BY <1>1 DEF Unused
  <2>2. pools[d] # None
    BY <1>1, <2>1
  <2>3. PICK q \in Project : override[q] = d
    BY <2>2 DEF Unused, PoolsMatchUse
  <2>4. QED
    BY <2>1, <2>3 DEF Unused
<1>8. QED
  <2> HIDE DEF all, now, freed
  <2>1. QED
    BY <1>1, <1>2, <1>3, <1>4, <1>5, <1>6, <1>7

-----------------------------------------------------------------------------
(* What a step makes of the requests.                                      *)

LEMMA GotoIsTyped ==
  ASSUME TypeOK, NEW r \in Request, NEW at, Goto(r, at),
         at \in {"idle", "mark", "select", "resolve", "route", "probe", "probe again", "wait",
                "remote", "finish", "failing", "put", "drop", "rows", "stop"}
  PROVE  /\ req' \in [Request -> Requests]
         /\ \A q \in Request : q # r => req'[q] = req[q]
         /\ req'[r].at = at /\ req'[r].op = req[r].op /\ req'[r].project = req[r].project
         /\ req'[r].pool = req[r].pool /\ req'[r].port = req[r].port
         /\ req'[r].known = req[r].known /\ req'[r].doc = req[r].doc
<1>1. req[r] \in Requests
  BY DEF TypeOK
<1>2. [req[r] EXCEPT !.at = at] \in Requests
  BY <1>1 DEF Requests
<1>3. req' = [req EXCEPT ![r] = [req[r] EXCEPT !.at = at]]
  BY DEF Goto
<1>4. QED
  BY <1>1, <1>2, <1>3 DEF TypeOK, Requests

LEMMA EndIsTyped ==
  ASSUME TypeOK, NEW r \in Request, End(r)
  PROVE  /\ req' \in [Request -> Requests]
         /\ \A q \in Request : q # r => req'[q] = req[q]
         /\ req'[r].at = "idle" /\ req'[r].op = "none"
<1>1. Idle \in Requests
  BY DEF Idle, Requests
<1>2. QED
  BY <1>1 DEF End, Idle, TypeOK

LEMMA ThrowIsTyped ==
  ASSUME TypeOK, NEW r \in Request, Throw(r)
  PROVE  /\ req' \in [Request -> Requests]
         /\ \A q \in Request : q # r => req'[q] = req[q]
         /\ \/ /\ req'[r].at = "failing" /\ req'[r].op = "ingest" /\ req[r].op = "ingest"
               /\ req'[r].project = req[r].project /\ req'[r].known = req[r].known
            \/ req'[r].at = "idle" /\ req'[r].op = "none" /\ req[r].op # "ingest"
<1>1. CASE req[r].op = "ingest"
  <2>1. Goto(r, "failing")
    BY <1>1 DEF Throw
  <2>2. QED
    BY <1>1, <2>1, GotoIsTyped
<1>2. CASE req[r].op # "ingest"
  <2>1. End(r)
    BY <1>2 DEF Throw
  <2>2. QED
    BY <1>2, <2>1, EndIsTyped
<1>3. QED
  BY <1>1, <1>2

\* The requests, and what an ingestion may count on, after a step of request r
\* that leaves the rows and the stores as they are.
LEMMA OnlyRequest ==
  ASSUME IInv, NEW r \in Request, UNCHANGED memoryVars,
         \A q \in Request : q # r => req'[q] = req[q],
         req'[r].op = "ingest" =>
           /\ req[r].op = "ingest" /\ req'[r].project = req[r].project
           /\ req'[r].known = req[r].known
           /\ req[r].at = "mark" => req'[r].at = "mark"
  PROVE  IngestHasRow' /\ LedgerKnowsStored'
BY DEF IInv, IngestHasRow, LedgerKnowsStored, Store

LEMMA PoolsKept ==
  ASSUME IInv, UNCHANGED <<override, pools, crashes>>
  PROVE  PoolsMatchUse'
BY DEF IInv, PoolsMatchUse, Unused

LEMMA KilledIsTyped ==
  ASSUME PoolTypeOK, NEW c \in Config
  PROVE  Killed(c) \in [Child -> Process]
<1>1. ASSUME NEW t \in Child
      PROVE  [proc[t] EXCEPT !.state = "dead"] \in Process
  <2>1. proc[t] \in Process
    BY DEF PoolTypeOK
  <2>2. QED
    BY <2>1 DEF Process
<1>2. CASE pidFile[c] = None
  BY <1>2 DEF Killed, PoolTypeOK
<1>3. CASE pidFile[c] # None
  <2>1. pidFile[c] \in Child
    BY <1>3 DEF PoolTypeOK
  <2>2. Killed(c) = [proc EXCEPT ![pidFile[c]] = [proc[pidFile[c]] EXCEPT !.state = "dead"]]
    BY <1>3 DEF Killed
  <2>3. QED
    BY <1>1, <2>1, <2>2 DEF PoolTypeOK
<1>4. QED
  BY <1>2, <1>3

LEMMA StopIsTyped ==
  ASSUME PoolTypeOK, NEW c \in Config, StopPool(c)
  PROVE  /\ pidFile' \in [Config -> Child \cup {None}]
         /\ proc' \in [Child -> Process]
BY KilledIsTyped DEF StopPool, PoolTypeOK

-----------------------------------------------------------------------------
(* The steps of a request.                                                 *)

\* Apart from its own, a step of request r changes no request, and it leaves no
\* pending row behind that nobody holds.
Kept(r) ==
  /\ \A q \in Request : q # r => req'[q] = req[q]
  /\ \A p \in Project : link'[p].status = "pending" =>
       \/ HeldBy(r, p)'
       \/ link[p].status = "pending" /\ ~HeldBy(r, p)

\* A step on the way to the instance changes no row, no store and no setting.
LEMMA OnTheWay ==
  ASSUME IInv, NEW r \in Request, UNCHANGED <<override, pools, memoryVars, counters>>,
         pidFile' \in [Config -> Child \cup {None}], proc' \in [Child -> Process],
         req' \in [Request -> Requests], \A q \in Request : q # r => req'[q] = req[q],
         InOrder(req'[r]), req[r].at # "mark", req'[r].at # "mark",
         req'[r].op = "ingest" <=> req[r].op = "ingest",
         req'[r].op = "ingest" =>
           req'[r].project = req[r].project /\ req'[r].known = req[r].known
  PROVE  IInv' /\ Kept(r)
<1>1. TypeOK'
  BY DEF IInv, TypeOK, PoolTypeOK
<1>2. RequestInOrder'
  BY DEF IInv, RequestInOrder
<1>3. IngestHasRow' /\ LedgerKnowsStored'
  BY OnlyRequest
<1>4. PoolsMatchUse'
  BY PoolsKept
<1>5. Kept(r)
  BY DEF Kept, HeldBy
<1>6. QED
  BY <1>1, <1>2, <1>3, <1>4, <1>5 DEF IInv

LEMMA SelectStep ==
  ASSUME IInv, NEW r \in Request, Select(r)
  PROVE  IInv' /\ Kept(r)
<1> DEFINE l == link[req[r].project]
<1>a. req[r] \in Requests /\ TypeOK
  BY DEF IInv, TypeOK
<1>b. req[r].at = "select" /\ req[r].op # "ingest" /\ req[r].project \in Project
  BY DEF Select, IInv, RequestInOrder, InOrder
<1>1. /\ req' \in [Request -> Requests]
      /\ \A q \in Request : q # r => req'[q] = req[q]
      /\ req'[r].at \in {"idle", "resolve", "drop"}
      /\ req'[r].op # "ingest"
      /\ req'[r].at # "idle" => req'[r].project = req[r].project
  <2>1. CASE l.status = "active" /\ req' = [req EXCEPT ![r].at = "resolve", ![r].doc = l.at]
    <3>1. l.at \in Store \cup {None}
      BY <1>a, <1>b DEF TypeOK, Links
    <3>2. [req[r] EXCEPT !.at = "resolve", !.doc = l.at] \in Requests
      BY <1>a, <3>1 DEF Requests
    <3>3. QED
      BY <1>a, <1>b, <2>1, <3>2 DEF TypeOK, Requests
  <2>2. CASE Goto(r, "drop")
    BY <1>a, <1>b, <2>2, GotoIsTyped
  <2>3. CASE End(r)
    BY <1>a, <2>3, EndIsTyped
  <2>4. QED
    BY <2>1, <2>2, <2>3 DEF Select
<1>2. InOrder(req'[r])
  BY <1>b, <1>1 DEF InOrder
<1>3. UNCHANGED <<override, pools, pidFile, proc, memoryVars, counters>>
  BY DEF Select
<1>4. pidFile' \in [Config -> Child \cup {None}] /\ proc' \in [Child -> Process]
  BY <1>a, <1>3 DEF TypeOK, PoolTypeOK
<1>5. QED
  BY <1>b, <1>1, <1>2, <1>3, <1>4, OnTheWay

LEMMA ResolveStep ==
  ASSUME IInv, NEW r \in Request, Resolve(r)
  PROVE  IInv' /\ Kept(r)
<1> DEFINE c == override[req[r].project]
<1>a. req[r] \in Requests /\ TypeOK /\ InOrder(req[r])
  BY DEF IInv, TypeOK, RequestInOrder
<1>b. req[r].at = "resolve" /\ req[r].project \in Project
  BY <1>a DEF Resolve, InOrder
<1>c. c \in Store
  BY <1>a, <1>b DEF TypeOK, PoolTypeOK, Store
<1>1. /\ req' \in [Request -> Requests]
      /\ \A q \in Request : q # r => req'[q] = req[q]
      /\ InOrder(req'[r]) /\ req'[r].at # "mark"
      /\ req'[r].op = "ingest" <=> req[r].op = "ingest"
      /\ req'[r].op = "ingest" =>
           req'[r].project = req[r].project /\ req'[r].known = req[r].known
  <2>1. CASE req' = [req EXCEPT ![r].at = "remote", ![r].pool = Global]
    <3> DEFINE q == [req[r] EXCEPT !.at = "remote", !.pool = Global]
    <3>2. q \in Requests
      BY <1>a DEF Requests, Store
    <3>3. /\ q.at = "remote"
          /\ q.op = req[r].op /\ q.project = req[r].project /\ q.known = req[r].known
      BY <1>a DEF Requests
    <3>4. /\ req' = [req EXCEPT ![r] = q]
          /\ req' \in [Request -> Requests] /\ req'[r] = q
          /\ \A h \in Request : h # r => req'[h] = req[h]
      BY <1>a, <2>1, <3>2 DEF TypeOK
    <3>5. QED
      <4> HIDE DEF q
      <4>1. QED
        BY <1>a, <1>b, <3>3, <3>4 DEF InOrder
  <2>2. CASE Throw(r)
    BY <1>a, <1>b, <2>2, ThrowIsTyped DEF InOrder
  <2>3. CASE /\ c \in Config /\ pools[c] # None
             /\ req' = [req EXCEPT ![r].at = "route", ![r].pool = c, ![r].port = pools[c]]
    <3>1. pools[c] \in Port
      BY <1>a, <2>3 DEF TypeOK, PoolTypeOK
    <3> DEFINE q == [req[r] EXCEPT !.at = "route", !.pool = c, !.port = pools[c]]
    <3>2. q \in Requests
      BY <1>a, <1>c, <3>1 DEF Requests
    <3>3. /\ q.at = "route" /\ q.pool = c /\ q.port = pools[c]
          /\ q.op = req[r].op /\ q.project = req[r].project /\ q.known = req[r].known
      BY <1>a DEF Requests
    <3>4. /\ req' = [req EXCEPT ![r] = q]
          /\ req' \in [Request -> Requests] /\ req'[r] = q
          /\ \A h \in Request : h # r => req'[h] = req[h]
      BY <1>a, <2>3, <3>2 DEF TypeOK
    <3>5. QED
      <4> HIDE DEF q
      <4>1. QED
        BY <1>a, <1>b, <2>3, <3>1, <3>3, <3>4 DEF InOrder
  <2>4. QED
    BY <2>1, <2>2, <2>3 DEF Resolve
<1>2. UNCHANGED <<override, pools, pidFile, proc, memoryVars, counters>>
  BY DEF Resolve
<1>3. pidFile' \in [Config -> Child \cup {None}] /\ proc' \in [Child -> Process]
  BY <1>a, <1>2 DEF TypeOK, PoolTypeOK
<1>4. QED
  BY <1>b, <1>1, <1>2, <1>3, OnTheWay

LEMMA ProbeSteps ==
  ASSUME IInv, NEW r \in Request, Route(r) \/ Probe(r) \/ Wait(r)
  PROVE  IInv' /\ Kept(r)
<1>a. req[r] \in Requests /\ TypeOK /\ InOrder(req[r])
  BY DEF IInv, TypeOK, RequestInOrder
<1>1. /\ req' \in [Request -> Requests]
      /\ \A q \in Request : q # r => req'[q] = req[q]
      /\ InOrder(req'[r]) /\ req[r].at # "mark" /\ req'[r].at # "mark"
      /\ req'[r].op = "ingest" <=> req[r].op = "ingest"
      /\ req'[r].op = "ingest" =>
           req'[r].project = req[r].project /\ req'[r].known = req[r].known
  <2>1. CASE Route(r)
    <3> DEFINE q == [req[r] EXCEPT !.at = "probe", !.routed = (pidFile[req[r].pool] # None)]
    <3>1. q \in Requests
      BY <1>a DEF Requests
    <3>2. /\ q.at = "probe" /\ q.pool = req[r].pool /\ q.port = req[r].port
          /\ q.op = req[r].op /\ q.project = req[r].project /\ q.known = req[r].known
      BY <1>a DEF Requests
    <3>3. /\ req' = [req EXCEPT ![r] = q]
          /\ req' \in [Request -> Requests] /\ req'[r] = q
          /\ \A h \in Request : h # r => req'[h] = req[h]
      BY <1>a, <2>1, <3>1 DEF TypeOK, Route
    <3>4. QED
      <4> HIDE DEF q
      <4>1. QED
        BY <1>a, <2>1, <3>2, <3>3 DEF InOrder, Route
  <2>2. CASE Probe(r)
    <3>1. PICK at \in {"remote", "probe again"} : Goto(r, at)
      BY <2>2, Zenon DEF Probe
    <3>2. /\ req' \in [Request -> Requests]
          /\ \A q \in Request : q # r => req'[q] = req[q]
          /\ req'[r].at = at /\ req'[r].op = req[r].op /\ req'[r].project = req[r].project
          /\ req'[r].pool = req[r].pool /\ req'[r].port = req[r].port
          /\ req'[r].known = req[r].known
      BY <1>a, <3>1, GotoIsTyped
    <3>3. QED
      BY <1>a, <2>2, <3>2 DEF Probe, InOrder
  <2>3. CASE Wait(r) /\ Goto(r, "remote")
    <3>1. /\ req' \in [Request -> Requests]
          /\ \A q \in Request : q # r => req'[q] = req[q]
          /\ req'[r].at = "remote" /\ req'[r].op = req[r].op
          /\ req'[r].project = req[r].project /\ req'[r].known = req[r].known
      BY <1>a, <2>3, GotoIsTyped
    <3>2. QED
      BY <1>a, <2>3, <3>1 DEF Wait, InOrder
  <2>4. CASE Wait(r) /\ Throw(r)
    BY <1>a, <2>4, ThrowIsTyped DEF Wait, InOrder
  <2>5. QED
    BY <2>1, <2>2, <2>3, <2>4 DEF Wait
<1>2. UNCHANGED <<override, pools, pidFile, proc, memoryVars, counters>>
  BY DEF Route, Probe, Wait
<1>3. pidFile' \in [Config -> Child \cup {None}] /\ proc' \in [Child -> Process]
  BY <1>a, <1>2 DEF TypeOK, PoolTypeOK
<1>4. QED
  BY <1>1, <1>2, <1>3, OnTheWay

LEMMA ProbeAgainStep ==
  ASSUME IInv, NEW r \in Request, ProbeAgain(r)
  PROVE  IInv' /\ Kept(r)
<1> DEFINE c == req[r].pool
           n == req[r].port
<1>a. req[r] \in Requests /\ TypeOK /\ InOrder(req[r])
  BY DEF IInv, TypeOK, RequestInOrder
<1>b. req[r].at = "probe again" /\ c \in Config /\ n \in Port
  BY <1>a DEF ProbeAgain, InOrder
<1>1. pidFile' \in [Config -> Child \cup {None}] /\ proc' \in [Child -> Process]
  <2>1. Killed(c) \in [Child -> Process]
    BY <1>a, <1>b, KilledIsTyped DEF TypeOK
  <2>2. PICK t \in Child :
          /\ proc' = [(IF Healthy(n) THEN Killed(c) ELSE proc) EXCEPT ![t] =
                        [pool |-> c, port |-> n, state |-> "booting"]]
          /\ pidFile' = [pidFile EXCEPT ![c] = t]
    BY Zenon DEF ProbeAgain, Respawn
  <2>3. (IF Healthy(n) THEN Killed(c) ELSE proc) \in [Child -> Process]
    BY <1>a, <2>1 DEF TypeOK, PoolTypeOK
  <2>4. [pool |-> c, port |-> n, state |-> "booting"] \in Process
    BY <1>b DEF Process
  <2>5. proc' \in [Child -> Process]
    BY <2>2, <2>3, <2>4
  <2>6. QED
    BY <1>a, <1>b, <2>2, <2>5 DEF TypeOK, PoolTypeOK
<1>2. Goto(r, "wait") /\ UNCHANGED <<override, pools, memoryVars, counters>>
  BY DEF ProbeAgain
<1>3. /\ req' \in [Request -> Requests]
      /\ \A q \in Request : q # r => req'[q] = req[q]
      /\ req'[r].at = "wait" /\ req'[r].op = req[r].op /\ req'[r].project = req[r].project
      /\ req'[r].pool = req[r].pool /\ req'[r].port = req[r].port
      /\ req'[r].known = req[r].known
  BY <1>a, <1>2, GotoIsTyped
<1>4. InOrder(req'[r])
  BY <1>a, <1>b, <1>3 DEF InOrder
<1>5. QED
  BY <1>b, <1>1, <1>2, <1>3, <1>4, OnTheWay

LEMMA StopStep ==
  ASSUME IInv, NEW r \in Request, Stop(r)
  PROVE  IInv' /\ Kept(r)
<1>a. req[r] \in Requests /\ TypeOK /\ InOrder(req[r])
  BY DEF IInv, TypeOK, RequestInOrder
<1>1. pidFile' \in [Config -> Child \cup {None}] /\ proc' \in [Child -> Process]
  <2>1. CASE UNCHANGED <<pidFile, proc>>
    BY <1>a, <2>1 DEF TypeOK, PoolTypeOK
  <2>2. CASE req[r].pool # None /\ StopPool(req[r].pool)
    <3>1. req[r].pool \in Config /\ StopPool(req[r].pool)
      BY <1>a, <2>2 DEF Stop, InOrder, Requests, Store
    <3>2. QED
      BY <1>a, <3>1, StopIsTyped DEF TypeOK
  <2>3. QED
    BY <2>1, <2>2 DEF Stop
<1>2. End(r) /\ UNCHANGED <<override, pools, memoryVars, counters>>
  BY DEF Stop
<1>3. /\ req' \in [Request -> Requests]
      /\ \A q \in Request : q # r => req'[q] = req[q]
      /\ req'[r].at = "idle" /\ req'[r].op = "none"
  BY <1>a, <1>2, EndIsTyped
<1>4. InOrder(req'[r]) /\ req[r].at # "mark" /\ req[r].op # "ingest"
  BY <1>a, <1>3 DEF InOrder, Stop
<1>5. QED
  BY <1>1, <1>2, <1>3, <1>4, OnTheWay

\* A new request finds its row, as far as the project has one.
LEMMA BeginStep ==
  ASSUME IInv, NEW r \in Request, NEW p \in Project, NEW q \in Requests, Begin(r, p, q),
         q.project = p, InOrder(q),
         q.op = "ingest" => q.at = "mark" /\ q.known = (link[p].status # "none")
  PROVE  IInv' /\ Kept(r)
<1>1. /\ req' \in [Request -> Requests]
      /\ \A h \in Request : h # r => req'[h] = req[h]
      /\ req'[r] = q
  BY DEF Begin, IInv, TypeOK
<1>2. made' \in 0..MaxRequests
  BY MaxAssumption DEF Begin, IInv, TypeOK
<1>3. TypeOK'
  BY <1>1, <1>2 DEF Begin, IInv, TypeOK, PoolTypeOK
<1>4. RequestInOrder'
  BY <1>1 DEF IInv, RequestInOrder
<1>5. IngestHasRow'
  BY <1>1 DEF Begin, IInv, IngestHasRow
<1>6. LedgerKnowsStored'
  BY DEF Begin, IInv, LedgerKnowsStored
<1>7. PoolsMatchUse'
  BY PoolsKept DEF Begin
<1>8. Kept(r)
  <2>1. req[r].op # "ingest" /\ UNCHANGED link
    BY DEF Begin, Idle
  <2>2. QED
    BY <1>1, <2>1 DEF Kept, HeldBy
<1>9. QED
  BY <1>3, <1>4, <1>5, <1>6, <1>7, <1>8 DEF IInv

LEMMA BeginSteps ==
  ASSUME IInv, NEW r \in Request, NEW p \in Project,
         \/ Ingest(r, p) \/ Search(r, p) \/ Revoke(r, p) \/ Remove(r, p)
         \/ \E c \in Config \cup {Global} : Settings(r, p, c)
  PROVE  IInv' /\ Kept(r)
<1>1. ASSUME NEW op \in {"ingest", "search", "list", "delete", "remove"},
             NEW at \in {"mark", "resolve", "select", "drop"},
             op = "ingest" <=> at = "mark", Start(r, op, p, at)
      PROVE  IInv' /\ Kept(r) /\ Kept(r)
  <2> DEFINE q == [Idle EXCEPT !.op = op, !.project = p, !.at = at,
                               !.known = (link[p].status # "none"), !.doc = link[p].at]
  <2>1. link[p].at \in Store \cup {None}
    BY DEF IInv, TypeOK, Links
  <2>2. q \in Requests
    BY <2>1 DEF Idle, Requests
  <2>3. q.op = op /\ q.project = p /\ q.at = at /\ q.known = (link[p].status # "none")
    BY DEF Idle
  <2>4. Begin(r, p, q)
    BY <1>1 DEF Start
  <2>5. QED
    <3> HIDE DEF q
    <3>1. InOrder(q)
      BY <1>1, <2>3 DEF InOrder
    <3>2. QED
      BY <1>1, <2>2, <2>3, <2>4, <3>1, BeginStep
<1>2. ASSUME NEW c \in Config \cup {Global}, Settings(r, p, c)
      PROVE  IInv' /\ Kept(r) /\ Kept(r)
  <2> DEFINE q == [Idle EXCEPT !.op = "settings", !.project = p, !.pool = c, !.at = "put"]
  <2>1. q \in Requests
    BY DEF Idle, Requests, Store
  <2>2. q.op = "settings" /\ q.project = p /\ q.at = "put" /\ q.pool = c
    BY DEF Idle
  <2>3. Begin(r, p, q)
    BY <1>2 DEF Settings
  <2>4. QED
    <3> HIDE DEF q
    <3>1. InOrder(q)
      BY <2>2 DEF InOrder, Store
    <3>2. QED
      BY <2>1, <2>2, <2>3, <3>1, BeginStep
<1>3. CASE Ingest(r, p)
  BY <1>1, <1>3 DEF Ingest
<1>4. CASE Search(r, p)
  BY <1>1, <1>4 DEF Search
<1>5. CASE Revoke(r, p)
  <2>1. PICK op \in {"list", "delete"} : Start(r, op, p, "resolve")
    BY <1>5, Zenon DEF Revoke
  <2>2. QED
    BY <1>1, <2>1
<1>6. CASE Remove(r, p)
  <2>1. PICK at \in {"select", "drop"} : Start(r, "remove", p, at)
    BY <1>6, Zenon DEF Remove
  <2>2. QED
    BY <1>1, <2>1
<1>7. QED
  BY <1>2, <1>3, <1>4, <1>5, <1>6

\* The settings are saved, and a pool that nobody uses is stopped.
LEMMA PutStep ==
  ASSUME IInv, NEW r \in Request, Put(r)
  PROVE  IInv' /\ Kept(r)
<1> DEFINE p == req[r].project
           c == req[r].pool
<1>a. req[r] \in Requests /\ TypeOK /\ PoolTypeOK /\ InOrder(req[r]) /\ PoolsMatchUse
  BY DEF IInv, TypeOK, RequestInOrder
<1>b. p \in Project /\ c \in Store
  BY <1>a DEF Put, InOrder
<1>1. /\ req' \in [Request -> Requests]
      /\ \A q \in Request : q # r => req'[q] = req[q]
      /\ req'[r].at = "idle" /\ req'[r].op = "none"
  BY <1>a, EndIsTyped DEF Put
<1>2. RequestInOrder'
  BY <1>1 DEF IInv, RequestInOrder, InOrder
<1>3. IngestHasRow' /\ LedgerKnowsStored'
  BY <1>1, OnlyRequest DEF Put
<1>4. PoolTypeOK' /\ PoolsMatchUse'
  <2>1. CASE UNCHANGED <<override, pools, pidFile, proc>>
    BY <1>a, <2>1, PoolsKept DEF Put, PoolTypeOK
  <2>2. CASE ~UNCHANGED <<override, pools, pidFile, proc>>
    <3>1. Assigned(p, c) /\ SaveSettings(p, c)
      BY <1>b, <2>2, PoolAssumption DEF Put, Assigned, Store
    <3>2. /\ override' \in [Project -> Store]
          /\ pools' \in [Config -> Port \cup {None}]
          /\ \A q \in Project : override'[q] # Global => pools'[override'[q]] # None
          /\ \A d, e \in Config : d # e /\ pools'[d] # None => pools'[d] # pools'[e]
          /\ crashes = 0 => \A d \in Config : pools'[d] # None => ~Unused(override', d)
      BY <1>a, <3>1, WriteIsSound DEF SaveSettings
    <3>3. pidFile' \in [Config -> Child \cup {None}] /\ proc' \in [Child -> Process]
      <4>1. CASE Released(p, c) = {}
        BY <1>a, <3>1, <4>1 DEF SaveSettings, PoolTypeOK
      <4>2. CASE Released(p, c) # {}
        <5>1. PICK d \in Released(p, c) : StopPool(d)
          BY <3>1, <4>2, Zenon DEF SaveSettings
        <5>2. d \in Config
          BY DEF Released
        <5>3. QED
          BY <1>a, <5>1, <5>2, StopIsTyped
      <4>3. QED
        BY <4>1, <4>2
    <3>4. crashes' = crashes
      BY DEF Put
    <3>5. QED
      BY <3>2, <3>3, <3>4 DEF PoolTypeOK, PoolsMatchUse, Store, Unused
  <2>3. QED
    BY <2>1, <2>2
<1>5. TypeOK'
  BY <1>a, <1>1, <1>4 DEF Put, TypeOK
<1>6. Kept(r)
  <2>1. req[r].op # "ingest" /\ UNCHANGED link
    BY <1>a DEF Put, InOrder
  <2>2. QED
    BY <1>1, <2>1 DEF Kept, HeldBy
<1>7. QED
  BY <1>2, <1>3, <1>4, <1>5, <1>6 DEF IInv

LEMMA DropStep ==
  ASSUME IInv, NEW r \in Request, Drop(r)
  PROVE  IInv' /\ Kept(r)
<1> DEFINE p == req[r].project
           c == IF Released(p, Global) = {} THEN None ELSE override[p]
           q == [req[r] EXCEPT !.at = "rows", !.pool = c]
<1>a. /\ req[r] \in Requests /\ TypeOK /\ PoolTypeOK /\ InOrder(req[r]) /\ PoolsMatchUse
      /\ req[r].op # "ingest"
  BY DEF IInv, TypeOK, RequestInOrder, InOrder, Drop
<1>b. p \in Project
  BY <1>a DEF Drop, InOrder
<1>1. c \in Config \cup {None}
  <2>1. CASE Released(p, Global) = {}
    BY <2>1
  <2>2. CASE Released(p, Global) # {}
    <3>1. PICK d \in Config :
            Registered(Global)[d] # None /\ Writes(p, Global)[3].pools[d] = None
      BY <2>2 DEF Released
    <3>2. Registered(Global) = pools
      BY DEF Registered
    <3>3. Writes(p, Global)[3].pools # pools
      BY <3>1, <3>2
    <3>4. Writes(p, Global)[3].pools =
            IF Unused([override EXCEPT ![p] = Global], override[p])
            THEN [pools EXCEPT ![override[p]] = None] ELSE pools
      BY <3>2 DEF Writes
    <3>5. override[p] # Global
      BY <3>3, <3>4 DEF Unused
    <3>6. QED
      BY <1>a, <1>b, <3>5 DEF PoolTypeOK
  <2>3. QED
    BY <2>1, <2>2
<1>2. q \in Requests
  BY <1>a, <1>1 DEF Requests, Store
<1>3. q.at = "rows" /\ q.pool = c /\ q.op = req[r].op /\ q.project = p
  BY <1>a DEF Requests
<1>4. /\ req' \in [Request -> Requests] /\ req'[r] = q
      /\ \A h \in Request : h # r => req'[h] = req[h]
  BY <1>a, <1>2 DEF Drop, TypeOK
<1>5. /\ override' \in [Project -> Store]
      /\ pools' \in [Config -> Port \cup {None}]
      /\ \A h \in Project : override'[h] # Global => pools'[override'[h]] # None
      /\ \A d, e \in Config : d # e /\ pools'[d] # None => pools'[d] # pools'[e]
      /\ crashes = 0 => \A d \in Config : pools'[d] # None => ~Unused(override', d)
  <2>1. Assigned(p, Global) /\ AfterWrite(p, Global, 3)
    BY <1>b, PoolAssumption DEF Drop, Assigned, Store
  <2>2. QED
    BY <1>a, <2>1, WriteIsSound
<1> HIDE DEF q, c
<1>6. PoolTypeOK' /\ PoolsMatchUse'
  BY <1>a, <1>5 DEF Drop, PoolTypeOK, PoolsMatchUse, Store, Unused
<1>7. TypeOK'
  BY <1>a, <1>4, <1>6 DEF Drop, TypeOK
<1>8. RequestInOrder'
  BY <1>a, <1>b, <1>1, <1>3, <1>4, PoolAssumption DEF IInv, RequestInOrder, InOrder
<1>9. IngestHasRow' /\ LedgerKnowsStored'
  BY <1>a, <1>3, <1>4, OnlyRequest DEF Drop
<1>10. Kept(r)
  BY <1>a, <1>3, <1>4 DEF Drop, Kept, HeldBy
<1>11. QED
  BY <1>6, <1>7, <1>8, <1>9, <1>10 DEF IInv

-----------------------------------------------------------------------------
(* The steps that change rows and stores.                                  *)

\* A step of request r that gives the row of its project another status, and
\* takes none away.
LEMMA RowStep ==
  ASSUME IInv, NEW r \in Request, UNCHANGED <<poolVars, exists, stored, counters>>,
         req' \in [Request -> Requests], \A q \in Request : q # r => req'[q] = req[q],
         InOrder(req'[r]), link' \in [Project -> Links],
         \A p \in Project : link'[p].status = "none" => link[p].status = "none",
         req'[r].op = "ingest" =>
           /\ req[r].op = "ingest" /\ req'[r].project = req[r].project
           /\ req[r].project \in exists => link'[req[r].project].status # "none",
         \A p \in Project : link'[p].status = "pending" =>
           \/ HeldBy(r, p)'
           \/ link[p].status = "pending" /\ ~HeldBy(r, p)
  PROVE  IInv' /\ Kept(r)
<1>0. \A q \in Request : req[q].op = "ingest" => req[q].project \in Project
  BY DEF IInv, RequestInOrder, InOrder
<1>1. TypeOK'
  BY DEF IInv, TypeOK, PoolTypeOK
<1>2. RequestInOrder'
  BY DEF IInv, RequestInOrder
<1>3. IngestHasRow'
  BY <1>0 DEF IInv, IngestHasRow
<1>4. LedgerKnowsStored'
  BY DEF IInv, TypeOK, LedgerKnowsStored, Store
<1>5. PoolsMatchUse'
  BY PoolsKept
<1>6. QED
  BY <1>1, <1>2, <1>3, <1>4, <1>5 DEF IInv, Kept

LEMMA SetStatusIsTyped ==
  ASSUME TypeOK, NEW p \in Project, NEW l \in Links, SetStatus(p, l), l.status # "none"
  PROVE  /\ link' \in [Project -> Links]
         /\ \A q \in Project : link'[q].status = "none" <=> link[q].status = "none"
         /\ \A q \in Project : q # p => link'[q] = link[q]
         /\ link'[p].status # "none" => link'[p] = l
BY DEF SetStatus, TypeOK

LEMMA MarkStep ==
  ASSUME IInv, NEW r \in Request, Mark(r)
  PROVE  IInv' /\ Kept(r)
<1> DEFINE p == req[r].project
           pending == [status |-> "pending", at |-> None]
<1>a. /\ req[r] \in Requests /\ TypeOK /\ InOrder(req[r]) /\ IngestHasRow
  BY DEF IInv, TypeOK, RequestInOrder
<1>b. req[r].at = "mark" /\ p \in Project /\ pending \in Links
  BY <1>a DEF Mark, InOrder, Links
<1>c. pending.status = "pending"
  OBVIOUS
<1> HIDE DEF pending
<1>1. /\ link' \in [Project -> Links]
      /\ \A q \in Project : link'[q].status = "none" => link[q].status = "none"
  <2>1. CASE SetStatus(p, pending)
    BY <1>a, <1>b, <1>c, <2>1, SetStatusIsTyped
  <2>2. CASE link' = [link EXCEPT ![p] = pending]
    BY <1>a, <1>b, <1>c, <2>2 DEF TypeOK
  <2>3. CASE UNCHANGED link
    BY <1>a, <2>3 DEF TypeOK
  <2>4. QED
    BY <2>1, <2>2, <2>3 DEF Mark, pending
<1>2. /\ req' \in [Request -> Requests] /\ \A q \in Request : q # r => req'[q] = req[q]
      /\ \/ /\ req'[r].at = "resolve" /\ req'[r].op = req[r].op /\ req'[r].project = p
            /\ \/ req[r].known /\ SetStatus(p, pending)
               \/ link' = [link EXCEPT ![p] = pending]
         \/ req'[r].at = "idle" /\ req'[r].op = "none"
  <2>1. CASE Goto(r, "resolve") /\ req[r].known /\ SetStatus(p, pending)
    BY <1>a, <2>1, GotoIsTyped
  <2>2. CASE Goto(r, "resolve") /\ link' = [link EXCEPT ![p] = pending]
    BY <1>a, <2>2, GotoIsTyped
  <2>3. CASE End(r)
    BY <1>a, <2>3, EndIsTyped
  <2>4. QED
    BY <2>1, <2>2, <2>3 DEF Mark, pending
<1>3. req'[r].op = "ingest" =>
        /\ req[r].op = "ingest" /\ req'[r].project = p
        /\ p \in exists => link'[p].status # "none"
  <2> SUFFICES ASSUME req'[r].op = "ingest"
               PROVE  /\ req[r].op = "ingest" /\ req'[r].project = p
                      /\ p \in exists => link'[p].status # "none"
    OBVIOUS
  <2>1. req[r].op = "ingest" /\ req'[r].project = p
    BY <1>2
  <2>2. CASE req[r].known /\ SetStatus(p, pending)
    <3>1. p \in exists => link[p].status # "none"
      BY <1>a, <2>1, <2>2 DEF IngestHasRow
    <3>2. link[p].status # "none" => link'[p] = pending
      BY <1>a, <1>b, <1>c, <2>2, SetStatusIsTyped
    <3>3. QED
      BY <1>c, <2>1, <3>1, <3>2
  <2>3. CASE link' = [link EXCEPT ![p] = pending]
    BY <1>a, <1>b, <1>c, <2>1, <2>3 DEF TypeOK
  <2>4. QED
    BY <1>2, <2>1, <2>2, <2>3
<1>4. InOrder(req'[r])
  BY <1>a, <1>b, <1>2 DEF InOrder
<1>5. UNCHANGED <<poolVars, exists, stored, counters>>
  BY DEF Mark
<1>6. ASSUME NEW q \in Project, link'[q].status = "pending"
      PROVE  HeldBy(r, q)' \/ (link[q].status = "pending" /\ ~HeldBy(r, q))
  <2>1. q # p => link'[q] = link[q]
    BY <1>a, <1>b, <1>c, SetStatusIsTyped DEF Mark, TypeOK, pending
  <2>2. ~HeldBy(r, q)
    BY <1>b DEF HeldBy
  <2>3. CASE q = p /\ req'[r].at = "resolve"
    BY <1>a, <1>b, <1>2, <2>3 DEF HeldBy, InOrder
  <2>4. CASE q = p /\ req'[r].at # "resolve"
    <3>1. UNCHANGED link
      BY <1>a, <2>4, GotoIsTyped DEF Mark
    <3>2. QED
      BY <1>6, <2>2, <3>1
  <2>5. QED
    BY <1>6, <2>1, <2>2, <2>3, <2>4
<1>7. QED
  BY <1>1, <1>2, <1>3, <1>4, <1>5, <1>6, RowStep

LEMMA FinishStep ==
  ASSUME IInv, NEW r \in Request, Finish(r)
  PROVE  IInv' /\ Kept(r)
<1> DEFINE p == req[r].project
<1>a. req[r] \in Requests /\ TypeOK /\ InOrder(req[r])
  BY DEF IInv, TypeOK, RequestInOrder
<1>b. req[r].at = "finish" /\ p \in Project
  BY <1>a DEF Finish, InOrder
<1>1. Outcome(r) \in Links /\ Outcome(r).status \notin {"none", "pending"}
  <2>1. link[p].at \in Store \cup {None} /\ req[r].doc \in Store \cup {None}
    BY <1>a, <1>b DEF TypeOK, Links, Requests
  <2>2. QED
    BY <2>1 DEF Outcome, Links
<1>2. /\ link' \in [Project -> Links]
      /\ \A q \in Project : link'[q].status = "none" => link[q].status = "none"
  BY <1>a, <1>b, <1>1, SetStatusIsTyped DEF Finish
<1>3. /\ req' \in [Request -> Requests] /\ \A q \in Request : q # r => req'[q] = req[q]
      /\ \/ req'[r].at = "idle" /\ req'[r].op = "none"
         \/ req'[r].at = "drop" /\ req'[r].project = p /\ req'[r].op = "remove"
         \/ /\ req'[r].at = "failing" /\ req'[r].project = p
            /\ req'[r].op = "ingest" /\ req[r].op = "ingest"
  <2>1. CASE req[r].op = "remove" /\ Goto(r, "drop")
    BY <1>a, <2>1, GotoIsTyped
  <2>2. CASE End(r)
    BY <1>a, <2>2, EndIsTyped
  <2>3. CASE Throw(r)
    BY <1>a, <2>3, ThrowIsTyped
  <2>4. QED
    BY <2>1, <2>2, <2>3 DEF Finish
<1>4. InOrder(req'[r])
  BY <1>b, <1>3 DEF InOrder
<1>5. UNCHANGED <<poolVars, exists, stored, counters>>
  BY DEF Finish
<1>6. req[r].op = "ingest" /\ p \in exists => link'[p].status # "none"
  <2>1. req[r].op = "ingest" /\ p \in exists => link[p].status # "none"
    BY <1>b DEF IInv, IngestHasRow
  <2>2. QED
    BY <1>b, <1>2, <2>1
<1>7. ASSUME NEW q \in Project, link'[q].status = "pending"
      PROVE  link[q].status = "pending" /\ ~HeldBy(r, q)
  <2>1. q # p /\ link'[q] = link[q]
    BY <1>a, <1>b, <1>1, <1>7, SetStatusIsTyped DEF Finish
  <2>2. QED
    BY <1>7, <2>1 DEF HeldBy
<1>8. QED
  BY <1>2, <1>3, <1>4, <1>5, <1>6, <1>7, RowStep

LEMMA MarkFailedStep ==
  ASSUME IInv, NEW r \in Request, MarkFailed(r)
  PROVE  IInv' /\ Kept(r)
<1> DEFINE p == req[r].project
           l == [status |-> "failed", at |-> link[p].at]
<1>a. req[r] \in Requests /\ TypeOK /\ InOrder(req[r])
  BY DEF IInv, TypeOK, RequestInOrder
<1>b. p \in Project
  BY <1>a DEF MarkFailed, InOrder
<1>1. l \in Links /\ l.status = "failed"
  BY <1>a, <1>b DEF TypeOK, Links
<1>2. SetStatus(p, l) /\ End(r) /\ UNCHANGED <<poolVars, exists, stored, counters>>
  BY DEF MarkFailed
<1> HIDE DEF l
<1>3. /\ link' \in [Project -> Links]
      /\ \A q \in Project : link'[q].status = "none" => link[q].status = "none"
  BY <1>a, <1>b, <1>1, <1>2, SetStatusIsTyped
<1>4. /\ req' \in [Request -> Requests] /\ \A q \in Request : q # r => req'[q] = req[q]
      /\ req'[r].at = "idle" /\ req'[r].op = "none"
  BY <1>a, <1>2, EndIsTyped
<1>5. InOrder(req'[r])
  BY <1>4 DEF InOrder
<1>6. ASSUME NEW q \in Project, link'[q].status = "pending"
      PROVE  link[q].status = "pending" /\ ~HeldBy(r, q)
  <2>1. q # p /\ link'[q] = link[q]
    BY <1>a, <1>b, <1>1, <1>2, <1>6, SetStatusIsTyped
  <2>2. QED
    BY <1>6, <2>1 DEF HeldBy
<1>7. QED
  BY <1>2, <1>3, <1>4, <1>5, <1>6, RowStep

\* A deleted project has neither a row nor, from then on, an ingestion to count on.
LEMMA RowsStep ==
  ASSUME IInv, NEW r \in Request, Rows(r)
  PROVE  IInv' /\ Kept(r)
<1> DEFINE p == req[r].project
<1>a. /\ req[r] \in Requests /\ TypeOK /\ InOrder(req[r]) /\ IngestHasRow /\ LedgerKnowsStored
      /\ req[r].op # "ingest"
  BY DEF IInv, TypeOK, RequestInOrder, InOrder, Rows
<1>b. req[r].at = "rows" /\ p \in Project
  BY <1>a DEF Rows, InOrder
<1>1. /\ link' \in [Project -> Links]
      /\ \A q \in Project : q # p => link'[q] = link[q]
  BY <1>a, <1>b DEF Rows, NoLink, Links, TypeOK
<1>2. exists' = exists \ {p} /\ exists \subseteq Project
  BY <1>a DEF Rows, TypeOK
<1>3. Goto(r, "stop") /\ UNCHANGED <<poolVars, stored, counters>>
  BY DEF Rows
<1>4. /\ req' \in [Request -> Requests] /\ \A q \in Request : q # r => req'[q] = req[q]
      /\ req'[r].at = "stop" /\ req'[r].op = req[r].op /\ req'[r].project = p
      /\ req'[r].pool = req[r].pool
  BY <1>a, <1>3, GotoIsTyped
<1>5. TypeOK'
  BY <1>a, <1>1, <1>2, <1>3, <1>4 DEF TypeOK, PoolTypeOK
<1>6. RequestInOrder'
  BY <1>a, <1>b, <1>4 DEF IInv, RequestInOrder, InOrder
<1>7. IngestHasRow'
  BY <1>a, <1>1, <1>2, <1>4 DEF IngestHasRow
<1>8. LedgerKnowsStored'
  BY <1>a, <1>1, <1>2, <1>3 DEF LedgerKnowsStored
<1>9. PoolsMatchUse'
  BY <1>3, PoolsKept
<1>10. Kept(r)
  <2>1. link'[p].status # "pending" /\ req[r].op # "ingest"
    BY <1>a, <1>b DEF Rows, NoLink, TypeOK
  <2>2. QED
    BY <1>1, <1>4, <2>1 DEF Kept, HeldBy
<1>11. QED
  BY <1>5, <1>6, <1>7, <1>8, <1>9, <1>10 DEF IInv

\* Whoever serves a call, a text is stored only for an ingestion, which has its
\* row, or where the text was stored before.
LEMMA AffectIsKnown ==
  ASSUME IInv, NEW r \in Request, req[r].at = "remote", NEW s,
         Accepts(r, s), Affect(r, s), UNCHANGED <<exists, link>>
  PROVE  /\ stored' \in [Store -> [Project -> {"absent", "document", "memory"}]]
         /\ LedgerKnowsStored'
<1> DEFINE p == req[r].project
<1>a. p \in Project /\ TypeOK /\ IngestHasRow /\ LedgerKnowsStored
  BY DEF IInv, RequestInOrder, InOrder
<1>1. CASE stored' = stored
  BY <1>a, <1>1 DEF TypeOK, LedgerKnowsStored
<1>2. ASSUME NEW e \in {"absent", "document", "memory"}, stored' = [stored EXCEPT ![s][p] = e],
             e # "absent" => req[r].op = "ingest" \/ stored[s][p] = "memory"
      PROVE  /\ stored' \in [Store -> [Project -> {"absent", "document", "memory"}]]
             /\ LedgerKnowsStored'
  <2>1. stored' \in [Store -> [Project -> {"absent", "document", "memory"}]]
    BY <1>a, <1>2 DEF TypeOK
  <2>2. ASSUME NEW q \in exists', NEW d \in Store, stored'[d][q] # "absent"
        PROVE  link'[q].status # "none"
    <3>1. q \in exists /\ q \in Project
      BY <1>a DEF TypeOK
    <3>2. CASE stored'[d][q] = stored[d][q]
      BY <1>a, <2>2, <3>1, <3>2 DEF LedgerKnowsStored
    <3>3. CASE stored'[d][q] # stored[d][q]
      <4>1. d = s /\ q = p /\ e # "absent"
        BY <1>a, <1>2, <2>2, <3>1, <3>3 DEF TypeOK
      <4>2. CASE req[r].op = "ingest"
        BY <1>a, <3>1, <4>1, <4>2 DEF IngestHasRow
      <4>3. CASE stored[s][p] = "memory"
        BY <1>a, <3>1, <4>1, <4>3 DEF LedgerKnowsStored
      <4>4. QED
        BY <1>2, <4>1, <4>2, <4>3
    <3>4. QED
      BY <3>2, <3>3
  <2>3. QED
    BY <2>1, <2>2 DEF LedgerKnowsStored
<1>3. CASE req[r].op \in {"delete", "remove"}
  BY <1>2, <1>3 DEF Affect, Effect
<1>4. CASE req[r].op = "forget"
  BY <1>2, <1>4 DEF Affect, Effect, Accepts
<1>5. CASE req[r].op = "ingest"
  BY <1>2, <1>5 DEF Affect, Effect
<1>6. CASE req[r].op \notin {"delete", "remove", "forget", "ingest"}
  BY <1>1, <1>6 DEF Affect, Effect
<1>7. QED
  BY <1>3, <1>4, <1>5, <1>6

LEMMA StoreStep ==
  ASSUME IInv, NEW r \in Request, UNCHANGED <<poolVars, exists, link, counters>>,
         stored' \in [Store -> [Project -> {"absent", "document", "memory"}]],
         LedgerKnowsStored',
         req' \in [Request -> Requests], \A q \in Request : q # r => req'[q] = req[q],
         InOrder(req'[r]), req[r].at # "mark", req'[r].at # "mark",
         req'[r].op = "ingest" <=> req[r].op = "ingest",
         req'[r].op = "ingest" => req'[r].project = req[r].project
  PROVE  IInv' /\ Kept(r)
<1>1. TypeOK'
  BY DEF IInv, TypeOK, PoolTypeOK
<1>2. RequestInOrder'
  BY DEF IInv, RequestInOrder
<1>3. IngestHasRow'
  BY DEF IInv, IngestHasRow
<1>4. PoolsMatchUse'
  BY PoolsKept
<1>5. Kept(r)
  BY DEF Kept, HeldBy
<1>6. QED
  BY <1>1, <1>2, <1>3, <1>4, <1>5 DEF IInv

LEMMA RemoteStep ==
  ASSUME IInv, NEW r \in Request, Remote(r)
  PROVE  IInv' /\ Kept(r)
<1>a. req[r] \in Requests /\ TypeOK /\ InOrder(req[r])
  BY DEF IInv, TypeOK, RequestInOrder
<1>b. req[r].at = "remote" /\ req[r].project \in Project
  BY <1>a DEF Remote, InOrder
<1>1. PICK s \in Serving(r) :
        /\ Accepts(r, s)
        /\ Affect(r, s)
        /\ CASE req[r].op = "search" -> End(r)
             [] req[r].op = "list" -> req' = [req EXCEPT ![r].op = "forget", ![r].at = "resolve"]
             [] OTHER -> req' = [req EXCEPT ![r].at = "finish", ![r].doc = s]
  BY Zenon DEF Remote
<1>2. UNCHANGED <<poolVars, exists, link, counters>>
  BY DEF Remote
<1>3. /\ stored' \in [Store -> [Project -> {"absent", "document", "memory"}]]
      /\ LedgerKnowsStored'
  BY <1>b, <1>1, <1>2, AffectIsKnown
<1>4. s \in Store \cup {None}
  <2>1. \A t \in Child : proc[t].pool \in Config \cup {None}
    BY <1>a DEF TypeOK, PoolTypeOK, Process
  <2>2. QED
    BY <1>1, <2>1 DEF Serving, Listening, Store
<1>5. /\ req' \in [Request -> Requests] /\ \A q \in Request : q # r => req'[q] = req[q]
      /\ InOrder(req'[r]) /\ req'[r].at # "mark"
      /\ req'[r].op = "ingest" <=> req[r].op = "ingest"
      /\ req'[r].op = "ingest" => req'[r].project = req[r].project
  <2>1. CASE req[r].op = "search" /\ End(r)
    BY <1>a, <1>b, <2>1, EndIsTyped DEF InOrder
  <2>2. CASE req[r].op = "list" /\ req' = [req EXCEPT ![r].op = "forget", ![r].at = "resolve"]
    <3> DEFINE q == [req[r] EXCEPT !.op = "forget", !.at = "resolve"]
    <3>1. q \in Requests
      BY <1>a DEF Requests
    <3>2. q.op = "forget" /\ q.at = "resolve" /\ q.project = req[r].project
      BY <1>a DEF Requests
    <3>3. /\ req' \in [Request -> Requests] /\ req'[r] = q
          /\ \A h \in Request : h # r => req'[h] = req[h]
      BY <1>a, <2>2, <3>1 DEF TypeOK
    <3>4. QED
      <4> HIDE DEF q
      <4>1. QED
        BY <1>b, <2>2, <3>2, <3>3 DEF InOrder
  <2>3. CASE req' = [req EXCEPT ![r].at = "finish", ![r].doc = s]
    <3> DEFINE q == [req[r] EXCEPT !.at = "finish", !.doc = s]
    <3>1. q \in Requests
      BY <1>a, <1>4 DEF Requests
    <3>2. q.op = req[r].op /\ q.at = "finish" /\ q.project = req[r].project
      BY <1>a DEF Requests
    <3>3. /\ req' \in [Request -> Requests] /\ req'[r] = q
          /\ \A h \in Request : h # r => req'[h] = req[h]
      BY <1>a, <2>3, <3>1 DEF TypeOK
    <3>4. QED
      <4> HIDE DEF q
      <4>1. QED
        BY <1>b, <3>2, <3>3 DEF InOrder
  <2>4. QED
    BY <1>1, <2>1, <2>2, <2>3
<1>6. QED
  BY <1>b, <1>2, <1>3, <1>5, StoreStep

LEMMA RemoteFailsStep ==
  ASSUME IInv, NEW r \in Request, RemoteFails(r)
  PROVE  IInv' /\ Kept(r)
<1>a. TypeOK /\ InOrder(req[r]) /\ LedgerKnowsStored
  BY DEF IInv, RequestInOrder
<1>b. req[r].at = "remote" /\ req[r].project \in Project
  BY <1>a DEF RemoteFails, InOrder
<1>1. Throw(r) /\ UNCHANGED <<poolVars, exists, link, counters>>
  BY DEF RemoteFails
<1>2. /\ stored' \in [Store -> [Project -> {"absent", "document", "memory"}]]
      /\ LedgerKnowsStored'
  <2>1. CASE UNCHANGED stored
    BY <1>a, <1>1, <2>1 DEF TypeOK, LedgerKnowsStored
  <2>2. CASE \E s \in Serving(r) : Accepts(r, s) /\ Affect(r, s)
    BY <1>b, <1>1, <2>2, AffectIsKnown
  <2>3. QED
    BY <2>1, <2>2 DEF RemoteFails
<1>3. /\ req' \in [Request -> Requests] /\ \A q \in Request : q # r => req'[q] = req[q]
      /\ InOrder(req'[r]) /\ req'[r].at # "mark"
      /\ req'[r].op = "ingest" <=> req[r].op = "ingest"
      /\ req'[r].op = "ingest" => req'[r].project = req[r].project
  BY <1>a, <1>b, <1>1, ThrowIsTyped DEF InOrder
<1>4. QED
  BY <1>b, <1>1, <1>2, <1>3, StoreStep

-----------------------------------------------------------------------------
(* The death of the server, and the processes outside it.                  *)

LEMMA CrashStep ==
  ASSUME IInv, Crash
  PROVE  IInv'
<1>a. TypeOK /\ PoolTypeOK /\ PoolsMatchUse
  BY DEF IInv, TypeOK
<1>1. crashes' \in 0..MaxCrashes /\ crashes' # 0
  BY <1>a, MaxAssumption DEF Crash, TypeOK
<1>2. /\ req' \in [Request -> Requests]
      /\ \A r \in Request : req'[r].at = "idle" /\ req'[r].op = "none"
  <2>1. Idle \in Requests /\ Idle.at = "idle" /\ Idle.op = "none"
    BY DEF Idle, Requests
  <2>2. QED
    BY <2>1 DEF Crash
<1> DEFINE Sound == /\ override' \in [Project -> Store]
                    /\ pools' \in [Config -> Port \cup {None}]
                    /\ \A q \in Project : override'[q] # Global => pools'[override'[q]] # None
                    /\ \A d, e \in Config : d # e /\ pools'[d] # None => pools'[d] # pools'[e]
<1>3. Sound
  <2>1. CASE UNCHANGED <<override, pools>>
    BY <1>a, <2>1 DEF PoolTypeOK, PoolsMatchUse, Store
  <2>2. ASSUME NEW r \in Request, NEW i \in 1..3, req[r].at = "put",
               req[r].pool \in Config => FreePorts # {} \/ pools[req[r].pool] # None,
               AfterWrite(req[r].project, req[r].pool, i)
        PROVE  Sound
    <3>1. Assigned(req[r].project, req[r].pool)
      BY <2>2 DEF Assigned, IInv, RequestInOrder, InOrder
    <3>2. QED
      BY <1>a, <2>2, <3>1, WriteIsSound
  <2>3. ASSUME NEW r \in Request, NEW i \in 1..3, req[r].at = "drop",
               AfterWrite(req[r].project, Global, i)
        PROVE  Sound
    <3>1. Assigned(req[r].project, Global)
      BY <2>3, PoolAssumption DEF Assigned, Store, IInv, RequestInOrder, InOrder
    <3>2. QED
      BY <1>a, <2>3, <3>1, WriteIsSound
  <2>4. QED
    <3> HIDE DEF Sound
    <3>1. QED
      BY <2>1, <2>2, <2>3 DEF Crash
<1>4. UNCHANGED <<pidFile, proc, memoryVars, made>>
  BY DEF Crash
<1>5. TypeOK' /\ PoolsMatchUse'
  BY <1>a, <1>1, <1>2, <1>3, <1>4 DEF TypeOK, PoolTypeOK, PoolsMatchUse, Store
<1>6. RequestInOrder' /\ IngestHasRow'
  BY <1>2 DEF RequestInOrder, InOrder, IngestHasRow
<1>7. LedgerKnowsStored'
  BY <1>4 DEF IInv, LedgerKnowsStored
<1>8. QED
  BY <1>5, <1>6, <1>7 DEF IInv

LEMMA OutsideStep ==
  ASSUME IInv, Outside
  PROVE  IInv'
<1>1. PICK t \in Child : Boot(t) \/ Exit(t)
  BY Zenon DEF Outside
<1>2. UNCHANGED <<override, pools, pidFile, memoryVars, req, counters>>
  BY <1>1 DEF Outside, Boot, Exit
<1>3. proc' \in [Child -> Process]
  <2>1. \A state \in {"listening", "dead"} : [proc[t] EXCEPT !.state = state] \in Process
    <3>1. proc[t] \in Process
      BY DEF IInv, TypeOK, PoolTypeOK
    <3>2. QED
      BY <3>1 DEF Process
  <2>2. QED
    BY <1>1, <2>1 DEF Boot, Exit, IInv, TypeOK, PoolTypeOK
<1>4. TypeOK'
  BY <1>2, <1>3 DEF IInv, TypeOK, PoolTypeOK
<1>5. RequestInOrder' /\ IngestHasRow' /\ LedgerKnowsStored'
  BY <1>2 DEF IInv, RequestInOrder, IngestHasRow, LedgerKnowsStored
<1>6. PoolsMatchUse'
  BY <1>2, PoolsKept
<1>7. QED
  BY <1>4, <1>5, <1>6 DEF IInv

-----------------------------------------------------------------------------
(* The invariant.                                                          *)

LEMMA InitInv == Init => IInv
<1> SUFFICES ASSUME Init PROVE IInv
  OBVIOUS
<1> USE PoolAssumption, MaxAssumption DEF Init, PoolInit
<1>1. Idle \in Requests /\ Idle.at = "idle" /\ Idle.op = "none"
  BY DEF Idle, Requests
<1>2. NoLink \in Links /\ Unborn \in Process
  BY DEF NoLink, Links, Unborn, Process
<1>3. TypeOK
  BY <1>1, <1>2 DEF TypeOK, PoolTypeOK, Store
<1>4. RequestInOrder /\ IngestHasRow
  BY <1>1 DEF RequestInOrder, InOrder, IngestHasRow
<1>5. PoolsMatchUse /\ LedgerKnowsStored
  BY DEF PoolsMatchUse, LedgerKnowsStored, Store
<1>6. QED
  BY <1>3, <1>4, <1>5 DEF IInv

\* Every step of a request keeps the invariant, and the rows it leaves pending.
LEMMA RequestSteps ==
  ASSUME IInv, NEW r \in Request,
         \/ \E p \in Project :
              \/ Ingest(r, p) \/ Search(r, p) \/ Revoke(r, p) \/ Remove(r, p)
              \/ \E c \in Config \cup {Global} : Settings(r, p, c)
         \/ Put(r) \/ Mark(r) \/ Select(r) \/ Resolve(r) \/ Route(r) \/ Probe(r) \/ ProbeAgain(r)
         \/ Wait(r) \/ Remote(r) \/ RemoteFails(r) \/ Finish(r) \/ MarkFailed(r)
         \/ Drop(r) \/ Rows(r) \/ Stop(r)
  PROVE  IInv' /\ Kept(r)
BY BeginSteps, PutStep, MarkStep, SelectStep, ResolveStep, ProbeSteps, ProbeAgainStep,
   RemoteStep, RemoteFailsStep, FinishStep, MarkFailedStep, DropStep, RowsStep, StopStep

LEMMA InvStep == IInv /\ [Next]_vars => IInv'
<1> SUFFICES ASSUME IInv, [Next]_vars PROVE IInv'
  OBVIOUS
<1>1. CASE Outside
  BY <1>1, OutsideStep
<1>2. CASE Crash
  BY <1>2, CrashStep
<1>3. CASE UNCHANGED vars
  BY <1>3 DEF IInv, TypeOK, PoolTypeOK, RequestInOrder, PoolsMatchUse, Unused, IngestHasRow,
              LedgerKnowsStored
<1>4. CASE Next /\ ~Outside /\ ~Crash
  <2>1. PICK r \in Request :
          \/ \E p \in Project :
               \/ Ingest(r, p) \/ Search(r, p) \/ Revoke(r, p) \/ Remove(r, p)
               \/ \E c \in Config \cup {Global} : Settings(r, p, c)
          \/ Put(r) \/ Mark(r) \/ Select(r) \/ Resolve(r) \/ Route(r) \/ Probe(r) \/ ProbeAgain(r)
          \/ Wait(r) \/ Remote(r) \/ RemoteFails(r) \/ Finish(r) \/ MarkFailed(r)
          \/ Drop(r) \/ Rows(r) \/ Stop(r)
    BY <1>4, Zenon DEF Next
  <2>2. QED
    BY <2>1, RequestSteps
<1>5. QED
  BY <1>1, <1>2, <1>3, <1>4

\* The invariant on which the others rest: requests in order, ingestions with a row.
THEOREM InductiveInv == Spec => []IInv
BY InitInv, InvStep, PTL DEF Spec

\* Every variable keeps its type.
THEOREM TypeCorrect == Spec => []TypeOK
<1>1. IInv => TypeOK
  BY DEF IInv
<1>2. QED
  BY <1>1, InductiveInv, PTL

\* A project never names a configuration without a registered pool, two pools never
\* share a port, and no pool is left without a user by a server that has not died,
\* whatever changes of settings and deletions overlap.
THEOREM PoolsMatchTheirUse == Spec => []PoolsMatchUse
<1>1. IInv => PoolsMatchUse
  BY DEF IInv
<1>2. QED
  BY <1>1, InductiveInv, PTL

\* Nothing is stored of a project that exists unless its ledger has a row for it,
\* although the row is written by one statement and the text stored by a later call
\* whose answer may be lost.
THEOREM LedgerKnowsWhatIsStored == Spec => []LedgerKnowsStored
<1>1. IInv => LedgerKnowsStored
  BY DEF IInv
<1>2. QED
  BY <1>1, InductiveInv, PTL

LEMMA PendingStep ==
  ASSUME IInv, [Next]_vars
  PROVE  \A p \in Project : Orphaned(p)' => Orphaned(p) \/ crashes' # crashes
<1>1. CASE UNCHANGED <<link, req>>
  BY <1>1 DEF Orphaned, Held, HeldBy
<1>2. CASE Crash
  <2>1. crashes' # crashes
    BY <1>2 DEF Crash, IInv, TypeOK
  <2>2. QED
    BY <2>1
<1>3. CASE Next /\ ~Crash /\ ~UNCHANGED <<link, req>>
  <2>1. PICK r \in Request :
          \/ \E p \in Project :
               \/ Ingest(r, p) \/ Search(r, p) \/ Revoke(r, p) \/ Remove(r, p)
               \/ \E c \in Config \cup {Global} : Settings(r, p, c)
          \/ Put(r) \/ Mark(r) \/ Select(r) \/ Resolve(r) \/ Route(r) \/ Probe(r) \/ ProbeAgain(r)
          \/ Wait(r) \/ Remote(r) \/ RemoteFails(r) \/ Finish(r) \/ MarkFailed(r)
          \/ Drop(r) \/ Rows(r) \/ Stop(r)
    <3>1. ~Outside
      BY <1>3 DEF Outside
    <3>2. QED
      BY <1>3, <3>1, Zenon DEF Next
  <2>2. Kept(r)
    BY <2>1, RequestSteps
  <2>3. ASSUME NEW p \in Project, Orphaned(p)'
        PROVE  Orphaned(p)
    <3>1. link[p].status = "pending" /\ ~HeldBy(r, p)
      BY <2>2, <2>3 DEF Kept, Orphaned, Held
    <3>2. \A q \in Request : q # r => ~HeldBy(q, p)
      BY <2>2, <2>3 DEF Kept, Orphaned, Held, HeldBy
    <3>3. QED
      BY <3>1, <3>2 DEF Orphaned, Held
  <2>4. QED
    BY <2>3
<1>4. QED
  BY <1>1, <1>2, <1>3

\* A pending row, which would refuse every later ingestion, loses the ingestion that
\* holds it only by the death of the server, on every path through the ingestion,
\* the lost answers and failures included.
THEOREM PendingRowsAreHeld == Spec => PendingIsHeld
<1>1. IInv /\ [Next]_vars =>
        [\A p \in Project : Orphaned(p)' => Orphaned(p) \/ crashes' # crashes]_vars
  BY PendingStep
<1>2. QED
  BY <1>1, InductiveInv, PTL DEF Spec, PendingIsHeld
=============================================================================
