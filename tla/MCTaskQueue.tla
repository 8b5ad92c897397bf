---------------------------- MODULE MCTaskQueue -----------------------------
(* TLC instance of TaskQueue: two indexing tasks with two attempts and one *)
(* reproduction task with a single attempt, two tick coroutines.           *)
EXTENDS TaskQueue

\* Delay is the formula of tick, in units of 5 seconds.
ASSUME DelayIsTheFormula ==
  \A a \in 1..12 : Delay(a) = IF 2 ^ (a - 1) > 60 THEN 60 ELSE 2 ^ (a - 1)

CONSTANTS index1, index2, repro

MCTasks == {index1, index2, repro}
MCMaterial == {index1, index2}
MCMaxAttempts == [t \in MCTasks |-> IF t = repro THEN 1 ELSE 2]
=============================================================================
