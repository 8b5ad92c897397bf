--------------------------- MODULE EmbeddingPool ---------------------------
(***************************************************************************)
(* The pools of embedding configurations: the two files that say which     *)
(* configuration a project uses and which port a configuration has         *)
(* (project-embedding-settings.ts), and the child processes that serve     *)
(* them (supermemory-instance.ts).                                         *)
(*                                                                         *)
(* The files are written one after the other by code that does not await,  *)
(* so that only the death of the server shows what lies between.  A child  *)
(* is spawned detached and outlives the server.  It listens on its port if *)
(* it is the first to, and may exit at any time.  A signal is taken to end *)
(* it at once, and no pid to be given twice.                               *)
(***************************************************************************)
EXTENDS Naturals, FiniteSets

CONSTANTS
  Project,
  Config,  \* embedding configurations, each of which has its pool key
  Global,  \* GLOBAL_POOL_KEY: the shared instance, which is never started here
  Port,
  Child,   \* bound: processes that may be spawned
  None

ASSUME PoolAssumption ==
  /\ Port \subseteq Nat
  /\ Global \notin Config
  /\ None \notin Port \cup Config \cup {Global} \cup Child \cup Project

VARIABLES
  override,  \* project-embedding-settings.json: configuration, or Global
  pools,     \* embedding-pools.json: port of a registered configuration, or None
  pidFile,   \* the child that the pid file names (the route file lives as long)
  proc       \* the child processes

poolVars == <<override, pools, pidFile, proc>>

Process == [pool : Config \cup {None}, port : Port \cup {None},
            state : {"unborn", "booting", "listening", "dead"}]
Unborn == [pool |-> None, port |-> None, state |-> "unborn"]

PoolTypeOK ==
  /\ override \in [Project -> Config \cup {Global}]
  /\ pools \in [Config -> Port \cup {None}]
  /\ pidFile \in [Config -> Child \cup {None}]
  /\ proc \in [Child -> Process]

PoolInit ==
  /\ override = [p \in Project |-> Global]
  /\ pools = [c \in Config |-> None]
  /\ pidFile = [c \in Config |-> None]
  /\ proc = [t \in Child |-> Unborn]

-----------------------------------------------------------------------------
\* allocatePort: the lowest port that no registered pool has.
FreePorts == Port \ {pools[c] : c \in Config}
AllocatePort == CHOOSE n \in FreePorts : \A m \in FreePorts : n <= m

Registered(c) ==
  IF c = Global \/ pools[c] # None THEN pools ELSE [pools EXCEPT ![c] = AllocatePort]

\* projectsUsingPool finds nobody.
Unused(o, c) == c # Global /\ \A p \in Project : o[p] # c

\* (The override is written before its pool is registered.)
Writes_OverrideFirst(p, c) ==
  LET o == [override EXCEPT ![p] = c]
      freed == IF Unused(o, override[p])
               THEN [Registered(c) EXCEPT ![override[p]] = None] ELSE Registered(c)
  IN <<[override |-> o, pools |-> pools],
       [override |-> o, pools |-> Registered(c)],
       [override |-> o, pools |-> freed]>>
\* The files as project p changes to configuration c, after each write: the new
\* pool is registered, the override saved, and the pool that nobody uses any more released.
Writes(p, c) ==
  LET o == [override EXCEPT ![p] = c]
      freed == IF Unused(o, override[p])
               THEN [Registered(c) EXCEPT ![override[p]] = None] ELSE Registered(c)
  IN <<[override |-> override, pools |-> Registered(c)],
       [override |-> o, pools |-> Registered(c)],
       [override |-> o, pools |-> freed]>>

AfterWrite(p, c, i) ==
  /\ override' = Writes(p, c)[i].override
  /\ pools' = Writes(p, c)[i].pools

\* The pools that a change releases.
Released(p, c) ==
  {d \in Config : Registered(c)[d] # None /\ Writes(p, c)[3].pools[d] = None}

\* stopPoolInstance: whom the pid file names, which need not be who listens.
Killed(c) == IF pidFile[c] = None THEN proc ELSE [proc EXCEPT ![pidFile[c]].state = "dead"]
StopPool(c) ==
  /\ proc' = Killed(c)
  /\ pidFile' = [pidFile EXCEPT ![c] = None]

\* The settings endpoint saves and stops without an await in between.
SaveSettings(p, c) ==
  /\ AfterWrite(p, c, 3)
  /\ IF Released(p, c) = {} THEN UNCHANGED <<pidFile, proc>>
     ELSE \E d \in Released(p, c) : StopPool(d)

-----------------------------------------------------------------------------
Listening(n) == {t \in Child : proc[t].state = "listening" /\ proc[t].port = n}
Healthy(n) == Listening(n) # {}

\* ensurePoolInstance, the end: stop whoever answers without a route, and spawn.
Respawn(c, n) ==
  \E t \in Child :
    /\ proc[t].state = "unborn"
    /\ proc' = [(IF Healthy(n) THEN Killed(c) ELSE proc) EXCEPT ![t] =
                  [pool |-> c, port |-> n, state |-> "booting"]]
    /\ pidFile' = [pidFile EXCEPT ![c] = t]

\* A child comes up if the port is free.
Boot(t) ==
  /\ proc[t].state = "booting" /\ ~Healthy(proc[t].port)
  /\ proc' = [proc EXCEPT ![t].state = "listening"]
  /\ UNCHANGED <<override, pools, pidFile>>

Exit(t) ==
  /\ proc[t].state \in {"booting", "listening"}
  /\ proc' = [proc EXCEPT ![t].state = "dead"]
  /\ UNCHANGED <<override, pools, pidFile>>

=============================================================================
