------------------------------ MODULE JobQueue ------------------------------
(***************************************************************************)
(* What the durable task queue promises, without leases, tick coroutines   *)
(* or back-off: jobs run one at a time, a job that ended never runs again, *)
(* a job is given up only when its own attempts are used up, and the only  *)
(* extra executions come from interruptions (process restarts).            *)
(* TaskQueue implements this module.                                       *)
(***************************************************************************)
EXTENDS Naturals

CONSTANTS
  Jobs,         \* identities of jobs: the idempotency keys of the table tasks
  Budget        \* Budget[j]: attempts job j may fail before it is given up

VARIABLES
  state,        \* "absent", "pending", "executing", "done" or "dead"
  tries         \* number of executions started

jobVars == <<state, tries>>

Init ==
  /\ state = [j \in Jobs |-> "absent"]
  /\ tries = [j \in Jobs |-> 0]

Submit(j) ==
  /\ state[j] = "absent"
  /\ state' = [state EXCEPT ![j] = "pending"]
  /\ UNCHANGED tries

Start(j) ==
  /\ state[j] = "pending"
  /\ \A i \in Jobs : state[i] # "executing"
  /\ state' = [state EXCEPT ![j] = "executing"]
  /\ tries' = [tries EXCEPT ![j] = @ + 1]

Succeed(j) ==
  /\ state[j] = "executing"
  /\ state' = [state EXCEPT ![j] = "done"]
  /\ UNCHANGED tries

\* A failed execution is retried exactly while the budget is not used up.
Fail(j) ==
  /\ state[j] = "executing"
  /\ state' = [state EXCEPT ![j] = IF tries[j] >= Budget[j] THEN "dead"
                                                           ELSE "pending"]
  /\ UNCHANGED tries

\* A restart puts whatever was executing back, whatever its budget.
Interrupt ==
  /\ \E j \in Jobs : state[j] = "executing"
  /\ state' = [j \in Jobs |-> IF state[j] = "executing" THEN "pending"
                                                        ELSE state[j]]
  /\ UNCHANGED tries

Next ==
  \/ \E j \in Jobs : Submit(j) \/ Start(j) \/ Succeed(j) \/ Fail(j)
  \/ Interrupt

Spec == Init /\ [][Next]_jobVars
=============================================================================
