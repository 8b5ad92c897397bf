-------------------------- MODULE TaskQueue_proofs --------------------------
(***************************************************************************)
(* Theorems about TaskQueue, for every set of tasks, every number of tick  *)
(* coroutines and every bound on crashes.                                  *)
(***************************************************************************)
EXTENDS TaskQueue, TLAPS

USE DEF rowVars, procVars, vars

\* The back-off of a failed attempt is a natural number.
LEMMA DelayIsNat == \A a \in Nat : Delay(a) \in Nat
  BY DEF Delay, Doubling

LEMMA IdleTickType == IdleTick \in TickRecord
  BY DEF IdleTick, TickRecord

LEMMA BudgetIsPositive == \A t \in Tasks : MaxAttempts[t] \in Nat /\ MaxAttempts[t] > 0
  BY MaxAttemptsAssumption

LEMMA InitInv == Init => IInv
<1> SUFFICES ASSUME Init PROVE IInv
  OBVIOUS
<1>1. TypeOK
  <2>1. crashes \in 0..MaxCrashes
    BY MaxCrashesAssumption DEF Init
  <2>2. QED
    BY <2>1, IdleTickType DEF Init, TypeOK, Statuses
<1> USE DEF Init, IdleTick
<1>2. FlagGuardsTicks /\ HeldRow
  BY DEF FlagGuardsTicks, HeldRow, Holding
<1>3. RunningIsHeld /\ OneAtATime
  BY DEF RunningIsHeld, OneAtATime
<1>4. AttemptsRoom
  <2> SUFFICES ASSUME NEW t \in Tasks
               PROVE  /\ attempts[t] <= MaxAttempts[t] + crashes
                      /\ attempts[t] < MaxAttempts[t] + crashes
    BY Zenon DEF AttemptsRoom
  <2>1. attempts[t] = 0 /\ crashes = 0
    OBVIOUS
  <2>2. QED
    BY <2>1, BudgetIsPositive
<1>5. QED
  BY <1>1, <1>2, <1>3, <1>4 DEF IInv

\* Each step keeps every column and every coroutine within its type.
LEMMA TypeStep == IInv /\ [Next]_vars => TypeOK'
<1> SUFFICES ASSUME IInv, [Next]_vars PROVE TypeOK'
  OBVIOUS
<1> USE MaxAttemptsAssumption, MaxCrashesAssumption, DelayIsNat, IdleTickType
    DEF IInv, TypeOK, Statuses
<1>1. ASSUME NEW t \in Tasks, Enqueue(t) PROVE TypeOK'
  BY <1>1 DEF Enqueue
<1>2. ASSUME NEW t \in Tasks, LeaseLapses(t) PROVE TypeOK'
  BY <1>2 DEF LeaseLapses
<1>3. ASSUME NEW k \in Ticks, StartTick(k) PROVE TypeOK'
  BY <1>3 DEF StartTick, Returned, TickRecord, Holding
<1>4. ASSUME NEW k \in Ticks, BodySucceeds(k) PROVE TypeOK'
  BY <1>4 DEF BodySucceeds, MarkFile, TickRecord, Holding
<1>5. ASSUME NEW k \in Ticks, BodyFails(k) PROVE TypeOK'
  BY <1>5 DEF BodyFails, TickRecord, Holding
<1>6. ASSUME NEW k \in Ticks, MarkFileFailed(k) PROVE TypeOK'
  BY <1>6 DEF MarkFileFailed, MarkFile, TickRecord, Holding
<1>7. ASSUME NEW k \in Ticks, FinishSuccess(k) PROVE TypeOK'
  BY <1>7 DEF FinishSuccess, TickRecord, Holding
<1>8. ASSUME NEW k \in Ticks, FinishFailure(k) PROVE TypeOK'
  BY <1>8 DEF FinishFailure, TickRecord, Holding
<1>9. ASSUME NEW k \in Ticks, EndTick(k) PROVE TypeOK'
  BY <1>9 DEF EndTick
<1>10. CASE TimePasses
  BY <1>10 DEF TimePasses
<1>11. CASE Crash
  <2>1. crashes' \in 0..MaxCrashes
    BY <1>11 DEF Crash
  <2>2. tick' \in [Ticks -> TickRecord]
    BY <1>11 DEF Crash
  <2>3. QED
    BY <1>11, <2>1, <2>2 DEF Crash
<1>12. CASE Recover
  BY <1>12 DEF Recover, Interrupted
<1>13. CASE UNCHANGED vars
  BY <1>13
<1>14. QED
  BY <1>1, <1>2, <1>3, <1>4, <1>5, <1>6, <1>7, <1>8, <1>9, <1>10, <1>11,
     <1>12, <1>13 DEF Next, TickStep

\* Each step keeps working and the coroutines in agreement.
LEMMA FlagStep == IInv /\ [Next]_vars => FlagGuardsTicks'
<1> SUFFICES ASSUME IInv, [Next]_vars PROVE FlagGuardsTicks'
  OBVIOUS
<1> USE DEF IInv, TypeOK, FlagGuardsTicks, TickRecord, Holding, IdleTick
<1>1. ASSUME NEW t \in Tasks, Enqueue(t) \/ LeaseLapses(t) PROVE FlagGuardsTicks'
  BY <1>1 DEF Enqueue, LeaseLapses
<1>2. ASSUME NEW k \in Ticks, StartTick(k) PROVE FlagGuardsTicks'
  BY <1>2 DEF StartTick, Free
<1>3. ASSUME NEW k \in Ticks, BodySucceeds(k) \/ BodyFails(k) PROVE FlagGuardsTicks'
  BY <1>3 DEF BodySucceeds, BodyFails
<1>4. ASSUME NEW k \in Ticks, MarkFileFailed(k) PROVE FlagGuardsTicks'
  BY <1>4 DEF MarkFileFailed
<1>5. ASSUME NEW k \in Ticks, FinishSuccess(k) \/ FinishFailure(k) PROVE FlagGuardsTicks'
  BY <1>5 DEF FinishSuccess, FinishFailure
<1>6. ASSUME NEW k \in Ticks, EndTick(k) PROVE FlagGuardsTicks'
  BY <1>6 DEF EndTick, Ended
<1>7. CASE TimePasses
  BY <1>7 DEF TimePasses
<1>8. CASE Crash \/ Recover
  BY <1>8 DEF Crash, Recover
<1>9. CASE UNCHANGED vars
  BY <1>9
<1>10. QED
  BY <1>1, <1>2, <1>3, <1>4, <1>5, <1>6, <1>7, <1>8, <1>9 DEF Next, TickStep

\* Each step keeps the row of a claimed task as the claim left it, and every
\* running row in the hands of a coroutine.
LEMMA HoldingStep ==
  IInv /\ [Next]_vars => HeldRow' /\ RunningIsHeld' /\ OneAtATime'
<1> SUFFICES ASSUME IInv, [Next]_vars
             PROVE  HeldRow' /\ RunningIsHeld' /\ OneAtATime'
  OBVIOUS
<1> DEFINE Goal == HeldRow' /\ RunningIsHeld' /\ OneAtATime'
<1> USE DEF IInv, HeldRow, RunningIsHeld, OneAtATime, Holds, Holding
<1>1. ASSUME NEW t \in Tasks, Enqueue(t) PROVE Goal
  BY <1>1 DEF Enqueue, NewKey, TypeOK, TickRecord
<1>2. ASSUME NEW t \in Tasks, LeaseLapses(t) PROVE Goal
  BY <1>2 DEF LeaseLapses
<1>3. ASSUME NEW k \in Ticks, StartTick(k) PROVE Goal
  <2>1. \A j \in Ticks : tick[j].pc = "idle"
    BY <1>3 DEF StartTick, Free, FlagGuardsTicks
  <2>2. \A u \in Tasks : status[u] # "running"
    BY <1>3, <2>1 DEF StartTick
  <2>3. CASE \E t \in Tasks :
          /\ status' = [status EXCEPT ![t] = "running"]
          /\ attempts' = [attempts EXCEPT ![t] = @ + 1]
          /\ tick' = [tick EXCEPT ![k] = [pc |-> "body", task |-> t,
                                          attempts |-> attempts[t] + 1]]
    BY <1>3, <2>1, <2>2, <2>3 DEF TypeOK, TickRecord
  <2>4. CASE /\ tick' = [tick EXCEPT ![k].pc = "empty"]
             /\ UNCHANGED <<status, attempts>>
    BY <1>3, <2>1, <2>2, <2>4 DEF TypeOK, TickRecord
  <2>5. QED
    BY <1>3, <2>3, <2>4 DEF StartTick, Returned
<1>4. ASSUME NEW k \in Ticks, BodySucceeds(k) \/ BodyFails(k) \/ MarkFileFailed(k)
      PROVE  Goal
  BY <1>4 DEF BodySucceeds, BodyFails, MarkFileFailed, TypeOK, TickRecord
<1>5. ASSUME NEW k \in Ticks, FinishSuccess(k) \/ FinishFailure(k) PROVE Goal
  <2>1. \A j \in Ticks : j # k => tick[j].pc = "idle"
    BY <1>5 DEF FinishSuccess, FinishFailure, FlagGuardsTicks
  <2>2. PICK s \in {"succeeded", "failed", "retrying"} :
          /\ status' = [status EXCEPT ![tick[k].task] = s]
          /\ tick' = [tick EXCEPT ![k].pc = "release"]
          /\ UNCHANGED <<attempts, mode>>
    BY <1>5 DEF FinishSuccess, FinishFailure
  <2>3. tick[k].task \in Tasks /\ status[tick[k].task] = "running"
    BY <1>5 DEF FinishSuccess, FinishFailure
  <2>4. \A u \in Tasks : status'[u] # "running"
    BY <2>2, <2>3 DEF TypeOK
  <2>5. QED
    BY <2>1, <2>2, <2>4 DEF TypeOK, TickRecord
<1>6. ASSUME NEW k \in Ticks, EndTick(k) PROVE Goal
  BY <1>6 DEF EndTick, Ended, TypeOK, TickRecord, IdleTick
<1>7. CASE TimePasses
  BY <1>7 DEF TimePasses
<1>8. CASE Crash
  BY <1>8 DEF Crash, IdleTick
<1>9. CASE Recover
  BY <1>9 DEF Recover, Interrupted, FlagGuardsTicks, TypeOK
<1>10. CASE UNCHANGED vars
  BY <1>10
<1>11. QED
  BY <1>1, <1>2, <1>3, <1>4, <1>5, <1>6, <1>7, <1>8, <1>9, <1>10
  DEF Next, TickStep

\* Each step keeps the executions of a task within its attempts and crashes.
LEMMA AttemptsStep == IInv /\ [Next]_vars => AttemptsRoom'
<1> SUFFICES ASSUME IInv, [Next]_vars, NEW t \in Tasks
             PROVE  /\ attempts'[t] <= MaxAttempts[t] + crashes'
                    /\ status'[t] \in {"absent", "queued", "retrying"}
                         => attempts'[t] < MaxAttempts[t] + crashes'
                    /\ status'[t] = "running" /\ mode' = "down"
                         => attempts'[t] < MaxAttempts[t] + crashes'
  BY Zenon DEF AttemptsRoom
<1> DEFINE Goal == /\ attempts'[t] <= MaxAttempts[t] + crashes'
                   /\ status'[t] \in {"absent", "queued", "retrying"}
                        => attempts'[t] < MaxAttempts[t] + crashes'
                   /\ status'[t] = "running" /\ mode' = "down"
                        => attempts'[t] < MaxAttempts[t] + crashes'
<1>a. /\ attempts[t] \in Nat /\ MaxAttempts[t] \in Nat /\ crashes \in Nat
      /\ status \in [Tasks -> Statuses] /\ attempts \in [Tasks -> Nat]
  BY BudgetIsPositive, MaxCrashesAssumption DEF IInv, TypeOK
<1>b. /\ attempts[t] <= MaxAttempts[t] + crashes
      /\ status[t] \in {"absent", "queued", "retrying"}
           => attempts[t] < MaxAttempts[t] + crashes
      /\ status[t] = "running" /\ mode = "down"
           => attempts[t] < MaxAttempts[t] + crashes
  BY DEF IInv, AttemptsRoom
<1>1. ASSUME NEW u \in Tasks, Enqueue(u) PROVE Goal
  BY <1>1, <1>a, <1>b DEF Enqueue, NewKey
<1>2. ASSUME NEW k \in Ticks, StartTick(k) PROVE Goal
  BY <1>2, <1>a, <1>b DEF StartTick, Oldest, Claimable
<1>3. ASSUME NEW k \in Ticks, FinishSuccess(k) PROVE Goal
  BY <1>3, <1>a, <1>b DEF FinishSuccess
<1>4. ASSUME NEW k \in Ticks, FinishFailure(k) PROVE Goal
  <2>1. attempts[tick[k].task] = tick[k].attempts /\ tick[k].task \in Tasks
    BY <1>4 DEF FinishFailure, IInv, HeldRow, Holding
  <2>2. CASE t = tick[k].task
    BY <1>4, <2>1, <2>2, <1>a, <1>b DEF FinishFailure, Terminal
  <2>3. CASE t # tick[k].task
    BY <1>4, <2>1, <2>3, <1>a, <1>b DEF FinishFailure
  <2>4. QED
    BY <2>2, <2>3
<1>5. CASE Crash
  BY <1>5, <1>a, <1>b DEF Crash
<1>6. CASE Recover
  <2>1. attempts'[t] = attempts[t] /\ crashes' = crashes /\ mode' = "up" /\ mode = "down"
    BY <1>6 DEF Recover
  <2>2. status[t] = "running" \/ status'[t] = status[t]
    BY <1>6 DEF Recover, Interrupted
  <2>3. QED
    BY <2>1, <2>2, <1>a, <1>b
<1>7. CASE UNCHANGED <<status, attempts, mode, crashes>>
  BY <1>7, <1>b
<1>8. QED
  <2>1. ASSUME NEW u \in Tasks, LeaseLapses(u) PROVE Goal
    BY <2>1, <1>7 DEF LeaseLapses
  <2>2. ASSUME NEW k \in Ticks,
               BodySucceeds(k) \/ BodyFails(k) \/ MarkFileFailed(k) \/ EndTick(k)
        PROVE  Goal
    BY <2>2, <1>7 DEF BodySucceeds, BodyFails, MarkFileFailed, EndTick
  <2>3. ASSUME TimePasses \/ UNCHANGED vars PROVE Goal
    BY <2>3, <1>7 DEF TimePasses
  <2>4. QED
    BY <1>1, <1>2, <1>3, <1>4, <1>5, <1>6, <2>1, <2>2, <2>3 DEF Next, TickStep

\* Every reachable state satisfies the inductive invariant.
THEOREM Invariance == Spec => []IInv
<1>1. Init => IInv
  BY InitInv
<1>2. IInv /\ [Next]_vars => IInv'
  BY TypeStep, FlagStep, HoldingStep, AttemptsStep DEF IInv
<1>3. QED
  BY <1>1, <1>2, PTL DEF Spec

\* The columns and the coroutines keep their types.
THEOREM TypeCorrect == Spec => []TypeOK
<1>1. IInv => TypeOK
  BY DEF IInv
<1>2. QED
  BY <1>1, Invariance, PTL

\* However many ticks fire while a body runs, whatever lease has lapsed and
\* wherever the process died, two rows are never in status running.
THEOREM AtMostOneRunning == Spec => []OneAtATime
<1>1. IInv => OneAtATime
  BY DEF IInv
<1>2. QED
  BY <1>1, Invariance, PTL

\* No restart strands a task in status running.
THEOREM NoStrandedTask == Spec => []RunningIsHeld
<1>1. IInv => RunningIsHeld
  BY DEF IInv
<1>2. QED
  BY <1>1, Invariance, PTL

\* The finishing UPDATEs of tick, which name only the id of the row, write to
\* a row that still is what the claim left and that nobody else holds.
THEOREM FinishWritesOwnRow == Spec => []HolderOwnsRow
<1>1. IInv => HolderOwnsRow
  BY DEF IInv, HolderOwnsRow, HeldRow, FlagGuardsTicks, Holds, Holding
<1>2. QED
  BY <1>1, Invariance, PTL

\* The executions of a task are bounded by its attempts and the crashes.
THEOREM BoundedAttempts == Spec => []AttemptsBounded
<1>1. IInv => AttemptsBounded
  BY Zenon DEF IInv, AttemptsRoom, AttemptsBounded
<1>2. QED
  BY <1>1, Invariance, PTL

\* A finished task is never revived.
THEOREM FinishedStays == Spec => FinishedIsFinal
<1>1. IInv /\ [Next]_vars
        => [\A t \in Tasks : status[t] \in Finished => status'[t] = status[t]]_vars
  <2> SUFFICES ASSUME IInv, Next, NEW t \in Tasks, status[t] \in Finished
               PROVE  status'[t] = status[t]
    OBVIOUS
  <2> USE DEF IInv, TypeOK, Finished
  <2>1. ASSUME NEW u \in Tasks, Enqueue(u) \/ LeaseLapses(u)
        PROVE  status'[t] = status[t]
    BY <2>1 DEF Enqueue, NewKey, LeaseLapses
  <2>2. ASSUME NEW k \in Ticks, StartTick(k) PROVE status'[t] = status[t]
    BY <2>2 DEF StartTick, Oldest, Claimable
  <2>3. ASSUME NEW k \in Ticks, FinishSuccess(k) \/ FinishFailure(k)
        PROVE  status'[t] = status[t]
    BY <2>3 DEF FinishSuccess, FinishFailure, HeldRow, Holding
  <2>4. ASSUME NEW k \in Ticks,
               BodySucceeds(k) \/ BodyFails(k) \/ MarkFileFailed(k) \/ EndTick(k)
        PROVE  status'[t] = status[t]
    BY <2>4 DEF BodySucceeds, BodyFails, MarkFileFailed, EndTick
  <2>5. CASE TimePasses \/ Crash
    BY <2>5 DEF TimePasses, Crash
  <2>6. CASE Recover
    BY <2>6 DEF Recover, Interrupted
  <2>7. QED
    BY <2>1, <2>2, <2>3, <2>4, <2>5, <2>6 DEF Next, TickStep
<1>2. QED
  BY <1>1, Invariance, PTL DEF Spec, FinishedIsFinal

LEMMA MeaningOf ==
  /\ Meaning["absent"] = "absent" /\ Meaning["queued"] = "pending"
  /\ Meaning["retrying"] = "pending" /\ Meaning["running"] = "executing"
  /\ Meaning["succeeded"] = "done" /\ Meaning["failed"] = "dead"
  BY DEF Meaning

\* claim, tick, enqueue and recoverInterruptedWork implement the abstract
\* queue: each step is a step of JobQueue or invisible to it.
THEOREM Refinement == Spec => ImplementsJobQueue
<1> DEFINE st == [t \in Tasks |-> Meaning[status[t]]]
<1> USE MeaningOf
<1>1. Init => Abstract!Init
  BY DEF Init, Abstract!Init
<1>2. IInv /\ [Next]_vars => [Abstract!Next]_(Abstract!jobVars)
  <2> SUFFICES ASSUME IInv, [Next]_vars
               PROVE  Abstract!Next \/ UNCHANGED <<st, attempts>>
    BY DEF Abstract!jobVars
  <2> USE DEF IInv, TypeOK
  <2>1. ASSUME NEW t \in Tasks, Enqueue(t) PROVE Abstract!Submit(t)
    BY <2>1 DEF Enqueue, NewKey, Abstract!Submit
  <2>2. ASSUME NEW k \in Ticks, StartTick(k)
        PROVE  (\E t \in Tasks : Abstract!Start(t)) \/ UNCHANGED <<st, attempts>>
    <3>1. \A u \in Tasks : status[u] # "running"
      BY <2>2 DEF StartTick, Free, FlagGuardsTicks, RunningIsHeld, Holds, Holding
    <3>2. \A u \in Tasks : st[u] # "executing"
      BY <3>1 DEF Statuses
    <3>3. ASSUME NEW t \in Tasks, Oldest(t),
                 status' = [status EXCEPT ![t] = "running"],
                 attempts' = [attempts EXCEPT ![t] = @ + 1]
          PROVE  Abstract!Start(t)
      BY <3>2, <3>3 DEF Oldest, Claimable, Abstract!Start
    <3>4. QED
      BY <2>2, <3>3 DEF StartTick
  <2>3. ASSUME NEW k \in Ticks, FinishSuccess(k), NEW t \in Tasks, t = tick[k].task
        PROVE  Abstract!Succeed(t)
    BY <2>3 DEF FinishSuccess, HeldRow, Holding, Abstract!Succeed
  <2>4. ASSUME NEW k \in Ticks, FinishFailure(k), NEW t \in Tasks, t = tick[k].task
        PROVE  Abstract!Fail(t)
    BY <2>4 DEF FinishFailure, Terminal, HeldRow, Holding, Abstract!Fail
  <2>5. ASSUME Recover PROVE Abstract!Interrupt \/ UNCHANGED <<st, attempts>>
    <3>1. CASE \E t \in Tasks : status[t] = "running"
      BY <2>5, <3>1 DEF Recover, Interrupted, Abstract!Interrupt, Statuses
    <3>2. CASE \A t \in Tasks : status[t] # "running"
      <4>1. status' = status
        BY <2>5, <3>2 DEF Recover, Interrupted
      <4>2. QED
        BY <2>5, <4>1 DEF Recover
    <3>3. QED
      BY <3>1, <3>2
  <2>6. CASE UNCHANGED <<status, attempts>>
    BY <2>6
  <2>7. QED
    <3>1. ASSUME NEW t \in Tasks, LeaseLapses(t) PROVE UNCHANGED <<status, attempts>>
      BY <3>1 DEF LeaseLapses
    <3>2. ASSUME NEW k \in Ticks,
                 BodySucceeds(k) \/ BodyFails(k) \/ MarkFileFailed(k) \/ EndTick(k)
          PROVE  UNCHANGED <<status, attempts>>
      BY <3>2 DEF BodySucceeds, BodyFails, MarkFileFailed, EndTick
    <3>3. TimePasses \/ Crash \/ UNCHANGED vars => UNCHANGED <<status, attempts>>
      BY DEF TimePasses, Crash
    <3>4. \A k \in Ticks : FinishSuccess(k) \/ FinishFailure(k) => tick[k].task \in Tasks
      BY DEF HeldRow, Holding, FinishSuccess, FinishFailure
    <3>5. ASSUME NEW t \in Tasks,
                 Abstract!Submit(t) \/ Abstract!Start(t)
                   \/ Abstract!Succeed(t) \/ Abstract!Fail(t)
          PROVE  Abstract!Next
      BY <3>5 DEF Abstract!Next
    <3>6. Abstract!Interrupt => Abstract!Next
      BY DEF Abstract!Next
    <3>7. ASSUME NEW k \in Ticks, TickStep(k)
          PROVE  Abstract!Next \/ UNCHANGED <<st, attempts>>
      <4>1. CASE FinishSuccess(k) \/ FinishFailure(k)
        <5>1. PICK t \in Tasks : t = tick[k].task
          BY <4>1, <3>4
        <5>2. Abstract!Succeed(t) \/ Abstract!Fail(t)
          BY <4>1, <5>1, <2>3, <2>4
        <5>3. QED
          BY <5>2, <3>5
      <4>2. CASE StartTick(k)
        BY <4>2, <2>2, <3>5
      <4>3. QED
        BY <3>7, <4>1, <4>2, <3>2, <2>6 DEF TickStep
    <3>8. QED
      BY <2>1, <2>5, <2>6, <3>1, <3>3, <3>5, <3>6, <3>7 DEF Next
<1>3. QED
  BY <1>1, <1>2, Invariance, PTL DEF Spec, ImplementsJobQueue, Abstract!Spec

=============================================================================
