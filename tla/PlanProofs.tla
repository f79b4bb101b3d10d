----------------------------- MODULE PlanProofs -----------------------------
(***************************************************************************)
(* What holds of TaskDag for every plan, retry limit and number of crashes:*)
(* a step runs only after its dependencies, and repairs stay within        *)
(* bounds.  And of PlanExecution and RecoveryLoop for any plan, any limits *)
(* and any failures: the effort of a run and of a session is bounded,      *)
(* however its retries, resumes and repairs interleave.                    *)
(***************************************************************************)
EXTENDS TaskDag, PlanExecution, RecoveryLoop, WellFoundedInduction, TLAPS

\* What both the memory of the kernel and plan.json satisfy.
DepsDone(st) ==
    \A s \in Steps :
        st[s] \in {"in_progress", "completed", "failed"} =>
            \A d \in deps[s] : st[d] \in Satisfied

\* The list made by Scan still holds pending steps whose dependencies are
\* done when its later elements are started.
ReadyInv ==
    /\ \A s \in ready : IsReady(s)
    /\ pc = "down" => ready = {}

\* While a step is worked on it is in progress and off the list.
WorkingInv ==
    pc = "working" =>
        /\ current \in Steps
        /\ current \notin ready
        /\ status[current] = "in_progress"
        /\ repairNo <= RetryLimit[current]

OrderInv == TypeOK /\ DepsDone(status) /\ DepsDone(saved) /\ ReadyInv /\ WorkingInv

\* The fresh plan satisfies the order invariant.
LEMMA OrderInit == Init => OrderInv
<1> SUFFICES ASSUME Init PROVE OrderInv
  OBVIOUS
<1>1. TypeOK
  BY LimitsAssumption DEF Init, TypeOK, StepStatuses, PcValues
<1>2. DepsDone(status) /\ DepsDone(saved) /\ ReadyInv /\ WorkingInv
  BY DEF Init, DepsDone, ReadyInv, WorkingInv
<1> QED
  BY <1>1, <1>2 DEF OrderInv

\* Every step of the kernel keeps the types.
LEMMA TypeStep == TypeOK /\ WorkingInv /\ [Next]_vars => TypeOK'
<1> SUFFICES ASSUME TypeOK, WorkingInv, [Next]_vars PROVE TypeOK'
  OBVIOUS
<1> USE StepsAssumption, LimitsAssumption DEF TypeOK, StepStatuses, PcValues
<1>1. CASE Validate
  BY <1>1 DEF Validate
<1>2. CASE Scan
  BY <1>2 DEF Scan
<1>3. CASE NothingReady
  BY <1>3 DEF NothingReady, BlockOrphans
<1>4. CASE StartStep
  BY <1>4 DEF StartStep
<1>5. CASE RepairStep
  BY <1>5 DEF RepairStep, WorkingInv
<1>6. CASE StepSucceeds
  BY <1>6 DEF StepSucceeds, WorkingInv
<1>7. CASE StepFails
  BY <1>7 DEF StepFails, MayRepair
<1>8. CASE RecordPlan
  BY <1>8 DEF RecordPlan
<1>9. CASE FinishPlan
  BY <1>9 DEF FinishPlan, Verdict
<1>10. CASE ApplyResult
  BY <1>10 DEF ApplyResult
<1>11. CASE Crash
  BY <1>11 DEF Crash
<1>12. CASE Resume
  BY <1>12 DEF Resume, ResumedStatus
<1>13. CASE UNCHANGED vars
  BY <1>13 DEF vars
<1> QED
  BY <1>1, <1>2, <1>3, <1>4, <1>5, <1>6, <1>7, <1>8, <1>9, <1>10, <1>11, <1>12, <1>13 DEF Next

\* Every step keeps completed steps closed under dependencies.
LEMMA OrderStep == OrderInv /\ [Next]_vars => OrderInv'
<1> SUFFICES ASSUME OrderInv, [Next]_vars PROVE OrderInv'
  OBVIOUS
<1> USE DEF OrderInv
<1>0. TypeOK'
  BY TypeStep
<1> USE <1>0 DEF DepsDone, ReadyInv, WorkingInv, IsReady, Satisfied
<1>1. CASE Validate
  BY <1>1 DEF Validate, TypeOK
<1>2. CASE Scan
  BY <1>2 DEF Scan, TypeOK
<1>3. CASE NothingReady
  BY <1>3 DEF NothingReady, BlockOrphans, TypeOK
<1>4. CASE StartStep
  <2> PICK s \in ready :
          /\ current' = s
          /\ ready' = ready \ {s}
          /\ status' = [status EXCEPT ![s] = "in_progress"]
    BY <1>4 DEF StartStep
  <2>1. s \in Steps /\ IsReady(s) /\ pc' = "working" /\ UNCHANGED <<deps, saved>>
    BY <1>4 DEF StartStep, TypeOK
  <2>2. \A t \in Steps : t # s => status'[t] = status[t]
    BY DEF TypeOK
  <2>3. status'[s] = "in_progress"
    BY <2>1 DEF TypeOK
  <2>4. DepsDone(status)'
    BY <2>1, <2>2, <2>3 DEF TypeOK
  <2>5. ReadyInv'
    BY <2>1, <2>2, <2>3 DEF TypeOK
  <2>6. WorkingInv'
    <3>1. repairNo' = 0 /\ RetryLimit[s] \in Nat
      BY <1>4, <2>1, LimitsAssumption DEF StartStep
    <3> QED
      BY <2>1, <2>3, <3>1
  <2> QED
    BY <2>1, <2>4, <2>5, <2>6, <1>0
<1>5. CASE RepairStep
  <2>1. current \in Steps /\ RetryLimit[current] \in Nat /\ repairNo \in Nat
    BY <1>5, LimitsAssumption DEF RepairStep, TypeOK
  <2>2. repairNo' <= RetryLimit[current]
    BY <1>5, <2>1 DEF RepairStep, MayRepair
  <2> QED
    BY <1>5, <1>0, <2>1, <2>2 DEF RepairStep
<1>6. CASE StepSucceeds
  BY <1>6 DEF StepSucceeds, TypeOK
<1>7. CASE StepFails
  BY <1>7 DEF StepFails, MayRepair, TypeOK
<1>8. CASE RecordPlan
  BY <1>8 DEF RecordPlan, TypeOK
<1>9. CASE FinishPlan
  BY <1>9 DEF FinishPlan, Verdict, TypeOK
<1>10. CASE ApplyResult
  BY <1>10 DEF ApplyResult, TypeOK
<1>11. CASE Crash
  BY <1>11 DEF Crash, TypeOK
<1>12. CASE Resume
  <2>1. \A s \in Steps : status'[s] = ResumedStatus(s) /\ saved'[s] = ResumedStatus(s)
    BY <1>12 DEF Resume
  <2>2. \A s \in Steps : ResumedStatus(s) \in Satisfied <=> saved[s] \in Satisfied
    BY DEF ResumedStatus
  <2>3. \A s \in Steps : ResumedStatus(s) \in {"in_progress", "completed", "failed"}
                            => saved[s] = "completed"
    BY DEF ResumedStatus
  <2>4. deps' = deps /\ deps \in [Steps -> SUBSET Steps]
    BY <1>12 DEF Resume, TypeOK
  <2>5. DepsDone(status)' /\ DepsDone(saved)'
    BY <2>1, <2>2, <2>3, <2>4
  <2>6. ready' = {} /\ pc' = "validate"
    BY <1>12 DEF Resume
  <2> QED
    BY <2>1, <2>4, <2>5, <2>6, <1>0
<1>13. CASE UNCHANGED vars
  BY <1>13 DEF vars
<1> QED
  BY <1>1, <1>2, <1>3, <1>4, <1>5, <1>6, <1>7, <1>8, <1>9, <1>10, <1>11, <1>12, <1>13 DEF Next

-----------------------------------------------------------------------------
\* How often a step may have been attempted: 1 + retry_limit times before
\* each crash so far, and Used times by the running kernel.
Cap(s, c) == (1 + RetryLimit[s]) * c

Used(s) ==
    IF status[s] \in {"pending", "blocked"} \/ pc = "down" THEN 0
    ELSE IF pc = "working" /\ current = s THEN 1 + repairNo
    ELSE 1 + RetryLimit[s]

BoundInv ==
    /\ repairs <= MaxRepairs
    /\ \A s \in Steps : attempts[s] <= Cap(s, crashes) + Used(s)

\* A crash adds one round of attempts to the cap.
LEMMA CapFacts ==
    ASSUME NEW s \in Steps, NEW c \in Nat
    PROVE  /\ RetryLimit[s] \in Nat
           /\ Cap(s, c) \in Nat
           /\ Cap(s, c + 1) = Cap(s, c) + 1 + RetryLimit[s]
<1>1. RetryLimit[s] \in Nat
  BY LimitsAssumption
<1>2. \A r \in Nat : (1 + r) * (c + 1) = (1 + r) * c + 1 + r /\ (1 + r) * c \in Nat
  OBVIOUS
<1> QED
  BY <1>1, <1>2 DEF Cap

\* The fresh plan has used no attempt and no repair.
LEMMA BoundInit == Init => BoundInv
<1> SUFFICES ASSUME Init PROVE BoundInv
  OBVIOUS
<1>1. \A s \in Steps : Cap(s, 0) \in Nat
  BY CapFacts
<1>2. \A s \in Steps : attempts[s] = 0 /\ Used(s) = 0
  BY DEF Init, Used
<1>3. crashes = 0 /\ repairs = 0
  BY DEF Init
<1> QED
  BY <1>1, <1>2, <1>3, LimitsAssumption DEF BoundInv

\* Every step keeps attempts and repairs within their caps.
LEMMA BoundStep == OrderInv /\ BoundInv /\ [Next]_vars => BoundInv'
<1> SUFFICES ASSUME OrderInv, BoundInv, [Next]_vars PROVE BoundInv'
  OBVIOUS
<1>t. TypeOK /\ WorkingInv /\ ReadyInv
  BY DEF OrderInv
<1>c. crashes \in Nat /\ repairs \in Nat /\ repairNo \in Nat /\ MaxRepairs \in Nat
  BY <1>t, LimitsAssumption DEF TypeOK
<1>a. \A s \in Steps : attempts[s] \in Nat
  BY <1>t DEF TypeOK
<1>r. \A s \in Steps : RetryLimit[s] \in Nat /\ Cap(s, crashes) \in Nat
  BY <1>c, CapFacts
<1>1. CASE Validate
  <2>1. attempts' = attempts /\ crashes' = crashes /\ repairs' = repairs
    BY <1>1 DEF Validate
  <2>2. \A s \in Steps : Used(s) \in Nat /\ Used(s)' \in Nat /\ Used(s) <= Used(s)'
    BY <1>1, <1>t, <1>c, <1>r DEF Validate, Used, TypeOK, WorkingInv
  <2> QED
    BY <2>1, <2>2, <1>a, <1>c, <1>r DEF BoundInv, Cap
<1>2. CASE Scan
  <2>1. attempts' = attempts /\ crashes' = crashes /\ repairs' = repairs
    BY <1>2 DEF Scan
  <2>2. \A s \in Steps : Used(s) \in Nat /\ Used(s)' \in Nat /\ Used(s) <= Used(s)'
    BY <1>2, <1>t, <1>c, <1>r DEF Scan, Used, TypeOK, WorkingInv
  <2> QED
    BY <2>1, <2>2, <1>a, <1>c, <1>r DEF BoundInv, Cap
<1>3. CASE NothingReady
  <2>1. attempts' = attempts /\ crashes' = crashes /\ repairs' = repairs
    BY <1>3 DEF NothingReady
  <2>2. \A s \in Steps : Used(s) \in Nat /\ Used(s)' \in Nat /\ Used(s) <= Used(s)'
    BY <1>3, <1>t, <1>c, <1>r DEF NothingReady, BlockOrphans, Used, TypeOK, WorkingInv
  <2> QED
    BY <2>1, <2>2, <1>a, <1>c, <1>r DEF BoundInv, Cap
<1>4. CASE StartStep
  <2> PICK s \in ready : current' = s /\ status' = [status EXCEPT ![s] = "in_progress"]
                         /\ attempts' = [attempts EXCEPT ![s] = @ + 1]
    BY <1>4 DEF StartStep
  <2>1. s \in Steps /\ status[s] = "pending"
    BY <1>t DEF TypeOK, ReadyInv, IsReady
  <2>2. pc' = "working" /\ pc # "working" /\ pc # "down" /\ repairNo' = 0 /\ repairs' = repairs
        /\ crashes' = crashes
    BY <1>4, <1>c DEF StartStep
  <2>3. attempts'[s] = attempts[s] + 1 /\ Used(s)' = Used(s) + 1
    BY <1>4, <2>1, <2>2, <1>t, <1>c DEF StartStep, TypeOK, Used
  <2>4. \A t \in Steps : t # s => attempts'[t] = attempts[t] /\ Used(t)' = Used(t)
    BY <1>4, <2>1, <2>2, <1>t DEF StartStep, TypeOK, Used, WorkingInv
  <2>5. \A t \in Steps : Used(t) \in Nat
    BY <1>c, <1>r DEF Used
  <2>6. \A t \in Steps : attempts'[t] <= Cap(t, crashes) + Used(t)'
    BY <2>1, <2>3, <2>4, <2>5, <1>a, <1>r DEF BoundInv
  <2> QED
    BY <2>2, <2>6, <1>c DEF BoundInv, Cap
<1>5. CASE RepairStep
  <2> PICK s \in Steps : s = current
    BY <1>5, <1>t DEF RepairStep, WorkingInv
  <2>1. s \in Steps /\ status[s] = "in_progress" /\ current' = current
    BY <1>5, <1>t DEF RepairStep, WorkingInv
  <2>2. pc' = "working" /\ pc = "working" /\ repairNo' = repairNo + 1 /\ repairs' = repairs + 1 /\ repairs' <= MaxRepairs
        /\ crashes' = crashes
    BY <1>5, <1>c DEF RepairStep, MayRepair
  <2>3. attempts'[s] = attempts[s] + 1 /\ Used(s)' = Used(s) + 1
    BY <1>5, <2>1, <2>2, <1>t, <1>c DEF RepairStep, TypeOK, Used
  <2>4. \A t \in Steps : t # s => attempts'[t] = attempts[t] /\ Used(t)' = Used(t)
    BY <1>5, <2>1, <2>2, <1>t DEF RepairStep, TypeOK, Used, WorkingInv
  <2>5. \A t \in Steps : Used(t) \in Nat
    BY <1>c, <1>r DEF Used
  <2>6. \A t \in Steps : attempts'[t] <= Cap(t, crashes) + Used(t)'
    <3>1. \A t \in Steps : attempts[t] <= Cap(t, crashes) + Used(t)
      BY DEF BoundInv
    <3>2. attempts'[s] <= Cap(s, crashes) + Used(s)'
      BY <2>1, <2>3, <2>5, <3>1, <1>a, <1>r
    <3>3. \A t \in Steps : t # s => attempts'[t] <= Cap(t, crashes) + Used(t)'
      BY <2>4, <3>1
    <3> QED
      BY <3>2, <3>3
  <2> QED
    BY <2>2, <2>6, <1>c DEF BoundInv, Cap
<1>6. CASE StepSucceeds
  <2>1. attempts' = attempts /\ crashes' = crashes /\ repairs' = repairs
    BY <1>6 DEF StepSucceeds
  <2>2. \A s \in Steps : Used(s) \in Nat /\ Used(s)' \in Nat /\ Used(s) <= Used(s)'
    BY <1>6, <1>t, <1>c, <1>r DEF StepSucceeds, Used, TypeOK, WorkingInv
  <2> QED
    BY <2>1, <2>2, <1>a, <1>c, <1>r DEF BoundInv, Cap
<1>7. CASE StepFails
  <2>1. attempts' = attempts /\ crashes' = crashes /\ repairs' = repairs
    BY <1>7 DEF StepFails
  <2>2. \A s \in Steps : Used(s) \in Nat /\ Used(s)' \in Nat /\ Used(s) <= Used(s)'
    BY <1>7, <1>t, <1>c, <1>r DEF StepFails, Used, TypeOK, WorkingInv
  <2> QED
    BY <2>1, <2>2, <1>a, <1>c, <1>r DEF BoundInv, Cap
<1>8. CASE RecordPlan
  <2>1. attempts' = attempts /\ crashes' = crashes /\ repairs' = repairs
    BY <1>8 DEF RecordPlan
  <2>2. \A s \in Steps : Used(s) \in Nat /\ Used(s)' \in Nat /\ Used(s) <= Used(s)'
    BY <1>8, <1>t, <1>c, <1>r DEF RecordPlan, Used, TypeOK, WorkingInv
  <2> QED
    BY <2>1, <2>2, <1>a, <1>c, <1>r DEF BoundInv, Cap
<1>9. CASE FinishPlan
  <2>1. attempts' = attempts /\ crashes' = crashes /\ repairs' = repairs
    BY <1>9 DEF FinishPlan
  <2>2. \A s \in Steps : Used(s) \in Nat /\ Used(s)' \in Nat /\ Used(s) <= Used(s)'
    BY <1>9, <1>t, <1>c, <1>r DEF FinishPlan, Verdict, Used, TypeOK, WorkingInv
  <2> QED
    BY <2>1, <2>2, <1>a, <1>c, <1>r DEF BoundInv, Cap
<1>10. CASE ApplyResult
  <2>1. attempts' = attempts /\ crashes' = crashes /\ repairs' = repairs
    BY <1>10 DEF ApplyResult
  <2>2. \A s \in Steps : Used(s) \in Nat /\ Used(s)' \in Nat /\ Used(s) <= Used(s)'
    BY <1>10, <1>t, <1>c, <1>r DEF ApplyResult, Used, TypeOK, WorkingInv
  <2> QED
    BY <2>1, <2>2, <1>a, <1>c, <1>r DEF BoundInv, Cap
<1>11. CASE Crash
  <2>1. crashes' = crashes + 1 /\ attempts' = attempts /\ repairs' = 0 /\ pc' = "down"
    BY <1>11 DEF Crash
  <2>2. \A s \in Steps : Used(s) <= 1 + RetryLimit[s] /\ Used(s)' = 0
    BY <2>1, <1>t, <1>c, <1>r DEF Used, WorkingInv
  <2>3. \A s \in Steps : Cap(s, crashes + 1) = Cap(s, crashes) + 1 + RetryLimit[s]
    BY <1>c, CapFacts
  <2>4. \A s \in Steps : Used(s) \in Nat
    BY <1>c, <1>r DEF Used
  <2>5. \A s \in Steps : attempts'[s] <= Cap(s, crashes') + Used(s)'
    BY <2>1, <2>2, <2>3, <2>4, <1>a, <1>r DEF BoundInv
  <2> QED
    BY <2>1, <2>5, <1>c DEF BoundInv, Cap
<1>12. CASE Resume
  <2>1. attempts' = attempts /\ crashes' = crashes /\ repairs' = repairs
    BY <1>12 DEF Resume
  <2>2. \A s \in Steps : Used(s) \in Nat /\ Used(s)' \in Nat /\ Used(s) <= Used(s)'
    BY <1>12, <1>t, <1>c, <1>r DEF Resume, ResumedStatus, Used, TypeOK, WorkingInv
  <2> QED
    BY <2>1, <2>2, <1>a, <1>c, <1>r DEF BoundInv, Cap
<1>13. CASE UNCHANGED vars
  BY <1>13 DEF vars, BoundInv, Used, Cap
<1> QED
  BY <1>1, <1>2, <1>3, <1>4, <1>5, <1>6, <1>7, <1>8, <1>9, <1>10, <1>11, <1>12, <1>13 DEF Next

-----------------------------------------------------------------------------
\* Where the loop of run_dag is over.
Ended == pc \in {"finishing", "apply", "done"}

\* _block_orphans runs only when nothing is ready any more, and a resume
\* makes blocked steps pending: the loop never meets a blocked step.
NoneBlockedInv == ~Ended /\ pc # "down" => \A s \in Steps : status[s] # "blocked"

\* Once the loop is over, what is not done waits for what is not done.
WaitingInv ==
    Ended => \A s \in Steps : status[s] \in {"pending", "blocked"} =>
                 \E d \in deps[s] : status[d] \notin Satisfied

\* The verdict recorded is that of the statuses recorded with it.
RecordedInv ==
    pc \in {"apply", "done"} =>
        /\ planStatus = "completed" => AllSatisfied
        /\ planStatus = "blocked" => \A s \in Steps : status[s] # "failed"

VerdictInv == NoneBlockedInv /\ WaitingInv /\ RecordedInv

\* No step of the fresh plan is blocked.
LEMMA VerdictInit == Init => VerdictInv
BY DEF Init, VerdictInv, NoneBlockedInv, WaitingInv, RecordedInv, Ended

\* A step whose patches or status changes before the loop is over leaves no
\* step blocked.
LEMMA RunningStep ==
    ASSUME TypeOK, NoneBlockedInv, ~Ended, pc # "down", ~Ended',
           \A s \in Steps : status'[s] # "blocked" \/ status'[s] = status[s]
    PROVE  VerdictInv'
BY DEF VerdictInv, NoneBlockedInv, WaitingInv, RecordedInv, Ended

\* Every step of the kernel keeps the verdict true.
LEMMA VerdictStep == OrderInv /\ VerdictInv /\ [Next]_vars => VerdictInv'
<1> SUFFICES ASSUME OrderInv, VerdictInv, [Next]_vars PROVE VerdictInv'
  OBVIOUS
<1>t. TypeOK /\ WorkingInv /\ NoneBlockedInv
  BY DEF OrderInv, VerdictInv
<1>1. CASE Validate
  BY <1>1, <1>t, RunningStep DEF Validate, Ended
<1>2. CASE Scan
  BY <1>2, <1>t, RunningStep DEF Scan, Ended
<1>3. CASE NothingReady
  <2>1. /\ \A s \in Steps : status[s] # "blocked" /\ ~IsReady(s)
        /\ \A s \in Steps : status'[s] = BlockOrphans[s]
        /\ pc' = "finishing" /\ deps' = deps
    BY <1>3, <1>t DEF NothingReady, NoneBlockedInv, Ended
  <2>2. \A s \in Steps : status'[s] \in {"pending", "blocked"} => status[s] = "pending"
    BY <2>1 DEF BlockOrphans
  <2>3. \A d \in Steps : status[d] \notin Satisfied => status'[d] \notin Satisfied
    BY <2>1 DEF BlockOrphans, Satisfied
  <2>4. \A s \in Steps : status[s] = "pending" =>
            \E d \in deps[s] : d \in Steps /\ status[d] \notin Satisfied
    BY <2>1, <1>t DEF IsReady, TypeOK
  <2>5. WaitingInv'
    BY <2>1, <2>2, <2>3, <2>4 DEF WaitingInv
  <2> QED
    BY <2>1, <2>5 DEF VerdictInv, NoneBlockedInv, RecordedInv, Ended
<1>4. CASE StartStep
  BY <1>4, <1>t, RunningStep DEF StartStep, Ended, TypeOK
<1>5. CASE RepairStep
  BY <1>5, <1>t, RunningStep DEF RepairStep, Ended
<1>6. CASE StepSucceeds
  BY <1>6, <1>t, RunningStep DEF StepSucceeds, Ended, TypeOK
<1>7. CASE StepFails
  BY <1>7, <1>t, RunningStep DEF StepFails, Ended, TypeOK
<1>8. CASE RecordPlan
  BY <1>8, <1>t, RunningStep DEF RecordPlan, Ended
<1>9. CASE FinishPlan
  BY <1>9 DEF FinishPlan, Verdict, AllSatisfied, VerdictInv, NoneBlockedInv, WaitingInv,
              RecordedInv, Ended
<1>10. CASE ApplyResult
  BY <1>10 DEF ApplyResult, AllSatisfied, VerdictInv, NoneBlockedInv, WaitingInv,
               RecordedInv, Ended
<1>11. CASE Crash
  BY <1>11 DEF Crash, VerdictInv, NoneBlockedInv, WaitingInv, RecordedInv, Ended
<1>12. CASE Resume
  BY <1>12, <1>t DEF Resume, ResumedStatus, TypeOK, VerdictInv, NoneBlockedInv, WaitingInv,
                    RecordedInv, Ended
<1>13. CASE UNCHANGED vars
  BY <1>13 DEF vars, AllSatisfied, VerdictInv, NoneBlockedInv, WaitingInv, RecordedInv, Ended
<1> QED
  BY <1>1, <1>2, <1>3, <1>4, <1>5, <1>6, <1>7, <1>8, <1>9, <1>10, <1>11, <1>12, <1>13 DEF Next

-----------------------------------------------------------------------------
\* Every reachable state of the executor satisfies its type and the parts of
\* the inductive invariant above.
THEOREM InvariantHolds == Spec => [](OrderInv /\ BoundInv)
<1>1. Init => OrderInv /\ BoundInv
  BY OrderInit, BoundInit
<1>2. OrderInv /\ BoundInv /\ [Next]_vars => (OrderInv /\ BoundInv)'
  BY OrderStep, BoundStep
<1> QED
  BY <1>1, <1>2, PTL DEF Spec

\* The variables of the kernel keep their types.
THEOREM TypeHolds == Spec => []TypeOK
<1>1. OrderInv => TypeOK
  BY DEF OrderInv
<1> QED
  BY <1>1, InvariantHolds, PTL

\* TaskDagKernel never starts or completes a step before everything it
\* depends on is done, for every plan, outcome and crash.
THEOREM DependenciesFirstHolds == Spec => []DependenciesFirst
<1>1. OrderInv => DependenciesFirst
  BY DEF OrderInv, DepsDone, DependenciesFirst
<1> QED
  BY <1>1, InvariantHolds, PTL

\* Repairs stay within max_total_repairs and attempts within retry_limit,
\* per run of the process.
THEOREM RepairsBoundedHolds == Spec => []RepairsBounded
<1>1. OrderInv /\ BoundInv => RepairsBounded
  <2> SUFFICES ASSUME OrderInv, BoundInv PROVE RepairsBounded
    OBVIOUS
  <2>1. crashes \in Nat /\ repairNo \in Nat /\ \A s \in Steps : attempts[s] \in Nat
    BY DEF OrderInv, TypeOK
  <2>2. \A s \in Steps : RetryLimit[s] \in Nat /\ Cap(s, crashes) \in Nat
                         /\ Cap(s, crashes + 1) = Cap(s, crashes) + 1 + RetryLimit[s]
    BY <2>1, CapFacts
  <2>3. \A s \in Steps : Used(s) \in Nat /\ Used(s) <= 1 + RetryLimit[s]
    BY <2>1, <2>2 DEF Used, OrderInv, WorkingInv
  <2>4. \A s \in Steps : attempts[s] <= Cap(s, crashes + 1)
    BY <2>1, <2>2, <2>3 DEF BoundInv
  <2>5. \A s \in Steps : Cap(s, crashes + 1) = (1 + RetryLimit[s]) * (1 + crashes)
    BY <2>1, <2>2 DEF Cap
  <2> QED
    BY <2>4, <2>5 DEF RepairsBounded, BoundInv
<1> QED
  BY <1>1, InvariantHolds, PTL

\* The steps keep the order of their dependencies and the limits of repairs and attempts.
THEOREM StepsSoundHolds == Spec => []StepsSound
BY DependenciesFirstHolds, RepairsBoundedHolds, PTL DEF StepsSound

\* What run_dag reports of a plan is what its steps say, for every plan,
\* order of outcomes and crash.
THEOREM VerdictHonestHolds == Spec => []VerdictHonest
<1>1. OrderInv /\ VerdictInv /\ [Next]_vars => VerdictInv'
  BY VerdictStep
<1>2. VerdictInv => VerdictHonest
  BY DEF VerdictInv, WaitingInv, RecordedInv, Ended, VerdictHonest
<1> QED
  BY <1>1, <1>2, VerdictInit, InvariantHolds, PTL DEF Spec

-----------------------------------------------------------------------------
-----------------------------------------------------------------------------
(* The plan loop. *)

StepStates == [status : {"pending", "in_progress", "completed", "failed"}, attempts : Nat]

PlanTypes ==
    /\ steps \in [PlanSteps -> StepStates] /\ recordedPlan \in [PlanSteps -> StepStates]
    /\ planLoop \in {"turn", "answered"} => currentStep \in PlanSteps
    /\ turnsUsed \in Nat /\ modelTurns \in Nat /\ resumes \in Nat
    /\ novaFallback \in BOOLEAN

\* A step that waits for a turn may still be tried: a retry is granted to a
\* step that has tries left, and a resume gives every step one more.
TriesLeft(p) ==
    \A s \in PlanSteps :
        /\ p[s].attempts <= StepRetries + 1 + resumes
        /\ p[s].status = "pending" => p[s].attempts <= StepRetries + resumes

\* Without the local model every turn is counted before the next is granted.
TurnsCounted == ~novaFallback => modelTurns <= turnsUsed /\ modelTurns <= MaxTurns

PlanInv == PlanTypes /\ TriesLeft(steps) /\ TriesLeft(recordedPlan) /\ TurnsCounted

-----------------------------------------------------------------------------
LEMMA FirstOf ==
    ASSUME NEW S \in SUBSET Nat, S # {}
    PROVE  First(S) \in S
<1>1. PICK m \in S : \A n \in S : <<n, m>> \notin OpToRel(<, Nat)
  BY NatLessThanWellFounded, WFMin, Zenon
<1>2. \A n \in S : ~(n < m)
  BY <1>1, Zenon DEF OpToRel
<1>3. \A n \in S : m <= n
  BY <1>2
<1> QED
  BY <1>3 DEF First

LEMMA StatusOfRecord ==
    ASSUME NEW r \in StepStates, NEW mark \in {"pending", "in_progress", "completed", "failed"}
    PROVE  /\ [r EXCEPT !.status = mark] \in StepStates
           /\ [r EXCEPT !.status = mark].status = mark
           /\ [r EXCEPT !.status = mark].attempts = r.attempts
BY DEF StepStates

\* A new status of one step.
LEMMA StatusSet ==
    ASSUME NEW p \in [PlanSteps -> StepStates], NEW s \in PlanSteps,
           NEW mark \in {"pending", "in_progress", "completed", "failed"}
    PROVE  /\ [p EXCEPT ![s].status = mark] \in [PlanSteps -> StepStates]
           /\ [p EXCEPT ![s].status = mark][s].status = mark
           /\ \A t \in PlanSteps :
                 /\ [p EXCEPT ![s].status = mark][t].attempts = p[t].attempts
                 /\ t # s => [p EXCEPT ![s].status = mark][t] = p[t]
<1> DEFINE r == [p[s] EXCEPT !.status = mark]
<1>1. r \in StepStates /\ r.status = mark /\ r.attempts = p[s].attempts
  BY StatusOfRecord
<1>2. [p EXCEPT ![s].status = mark] = [p EXCEPT ![s] = r]
  OBVIOUS
<1> HIDE DEF r
<1> QED
  BY <1>1, <1>2

\* A verdict on one step, which does not make it wait, keeps its tries.
LEMMA Judged ==
    ASSUME PlanInv, NEW p \in [PlanSteps -> StepStates], TriesLeft(p), NEW s \in PlanSteps,
           NEW mark \in {"in_progress", "completed", "failed"}
    PROVE  /\ [p EXCEPT ![s].status = mark] \in [PlanSteps -> StepStates]
           /\ TriesLeft([p EXCEPT ![s].status = mark])
           /\ [p EXCEPT ![s].status = mark][s].attempts = p[s].attempts
<1> DEFINE r == [p[s] EXCEPT !.status = mark]
           q == [p EXCEPT ![s].status = mark]
<1>0. mark \in {"pending", "in_progress", "completed", "failed"}
  OBVIOUS
<1>1. r \in StepStates /\ r.status = mark /\ r.attempts = p[s].attempts
  BY <1>0, StatusOfRecord
<1>3. q = [p EXCEPT ![s] = r]
  OBVIOUS
<1> HIDE DEF r, q
<1>2. TriesLeft(q)
  BY <1>1, <1>3 DEF TriesLeft
<1>4. q \in [PlanSteps -> StepStates] /\ q[s].attempts = p[s].attempts
  BY <1>1, <1>3
<1> QED
  BY <1>2, <1>4 DEF q

LEMMA PlanInitGood ==
    ASSUME PlanInit
    PROVE  PlanInv
BY PlanAssumption DEF PlanInit, PlanInv, PlanTypes, StepStates, TriesLeft, TurnsCounted

LEMMA BegunStep ==
    ASSUME steps \in [PlanSteps -> StepStates], NEW s \in PlanSteps
    PROVE  /\ Marked(s, "in_progress") \in [PlanSteps -> StepStates]
           /\ Marked(s, "in_progress")[s].status = "in_progress"
           /\ Marked(s, "in_progress")[s].attempts = steps[s].attempts + 1
           /\ \A t \in PlanSteps : t # s => Marked(s, "in_progress")[t] = steps[t]
<1> DEFINE judged == [steps[s] EXCEPT !.status = "in_progress"]
           r == [judged EXCEPT !.attempts = @ + 1]
<1>0. judged \in StepStates /\ judged.status = "in_progress" /\ judged.attempts = steps[s].attempts
  BY StatusOfRecord
<1>1. r \in StepStates /\ r.status = "in_progress" /\ r.attempts = steps[s].attempts + 1
  <2> HIDE DEF judged
  <2> QED
    BY <1>0 DEF StepStates
<1>2. Marked(s, "in_progress") = [steps EXCEPT ![s] = r]
  BY DEF Marked
<1> HIDE DEF r, judged
<1> QED
  BY <1>1, <1>2

LEMMA CompletedStep ==
    ASSUME steps \in [PlanSteps -> StepStates], NEW s \in PlanSteps
    PROVE  /\ Marked(s, "completed") \in [PlanSteps -> StepStates]
           /\ Marked(s, "completed")[s].status = "completed"
           /\ Marked(s, "completed")[s].attempts = steps[s].attempts
           /\ \A t \in PlanSteps : t # s => Marked(s, "completed")[t] = steps[t]
<1> DEFINE judged == [steps[s] EXCEPT !.status = "completed"]
           r == [judged EXCEPT !.attempts = @]
<1>0. judged \in StepStates /\ judged.status = "completed" /\ judged.attempts = steps[s].attempts
  BY StatusOfRecord
<1>1. r \in StepStates /\ r.status = "completed" /\ r.attempts = steps[s].attempts
  <2> HIDE DEF judged
  <2> QED
    BY <1>0 DEF StepStates
<1>2. Marked(s, "completed") = [steps EXCEPT ![s] = r]
  BY DEF Marked
<1> HIDE DEF r, judged
<1> QED
  BY <1>1, <1>2

\* A step that is chosen waits or is under way: marking it spends a try that
\* it has.
LEMMA NextTurnGood ==
    ASSUME PlanInv, NextTurn
    PROVE  PlanInv'
<1> DEFINE s == First(Candidates)
<1>1. s \in Candidates /\ Candidates \subseteq PlanSteps
  <2>1. With("in_progress") \subseteq PlanSteps /\ Ready \subseteq PlanSteps
    BY DEF Ready, With
  <2>2. Candidates \subseteq PlanSteps
    BY <2>1 DEF Candidates
  <2>3. PlanSteps \subseteq Nat
    BY PlanAssumption DEF PlanSteps
  <2>4. Candidates \in SUBSET Nat /\ Candidates # {}
    BY <2>2, <2>3 DEF NextTurn
  <2> QED
    BY <2>2, <2>4, FirstOf
<1>2. steps[s].status \in {"in_progress", "pending"}
  BY <1>1 DEF Candidates, Ready, With
<1>3. s \notin With("in_progress") => steps[s].status = "pending"
  BY <1>1, <1>2 DEF With
<1> DEFINE begun == IF s \in With("in_progress") THEN steps ELSE Marked(s, "in_progress")
<1>4. begun \in [PlanSteps -> StepStates] /\ TriesLeft(begun)
  <2>1. CASE s \in With("in_progress")
    BY <2>1 DEF PlanInv, PlanTypes
  <2>2. CASE s \notin With("in_progress")
    <3>1. begun = Marked(s, "in_progress") /\ steps[s].status = "pending"
      BY <2>2, <1>3
    <3> HIDE DEF begun
    <3>2. steps \in [PlanSteps -> StepStates] /\ s \in PlanSteps
      BY <1>1 DEF PlanInv, PlanTypes
    <3> HIDE DEF s
    <3>3. /\ begun \in [PlanSteps -> StepStates]
          /\ begun[s].status = "in_progress" /\ begun[s].attempts = steps[s].attempts + 1
          /\ \A t \in PlanSteps : t # s => begun[t] = steps[t]
      BY <3>1, <3>2, BegunStep
    <3>4. steps[s].attempts \in Nat /\ steps[s].attempts <= StepRetries + resumes
      BY <3>1, <3>2 DEF PlanInv, TriesLeft, StepStates
    <3>5. TriesLeft(steps) /\ resumes \in Nat
      BY DEF PlanInv, PlanTypes
    <3> QED
      BY <3>2, <3>3, <3>4, <3>5, PlanAssumption DEF TriesLeft
  <2> QED
    BY <2>1, <2>2
<1> HIDE DEF begun
<1>5. /\ steps' = begun \/ steps' = [begun EXCEPT ![s].status = "failed"]
      /\ UNCHANGED <<recordedPlan, turnsUsed, modelTurns, resumes, novaFallback>>
      /\ currentStep' = s
  BY DEF NextTurn, begun, run
<1>6. steps' \in [PlanSteps -> StepStates] /\ TriesLeft(steps)'
  <2>1. s \in PlanSteps
    BY <1>1
  <2>2. /\ [begun EXCEPT ![s].status = "failed"] \in [PlanSteps -> StepStates]
        /\ TriesLeft([begun EXCEPT ![s].status = "failed"])
    BY <1>4, <2>1, Judged
  <2>3. TriesLeft(steps')
    BY <1>4, <1>5, <2>2
  <2> QED
    BY <1>4, <1>5, <2>2, <2>3 DEF TriesLeft
<1> QED
  BY <1>1, <1>5, <1>6 DEF PlanInv, PlanTypes, TriesLeft, TurnsCounted

LEMMA TurnGood ==
    ASSUME PlanInv, NEW asking \in 0..2, NEW outcome \in TurnOutcomes, Turn(outcome, asking)
    PROVE  PlanInv'
<1>1. PICK mark \in Judgement(outcome) : steps' = [steps EXCEPT ![currentStep].status = mark]
  BY DEF Turn
<1>2. mark \in {"in_progress", "completed", "failed"} /\ currentStep \in PlanSteps
  BY DEF Judgement, Turn, PlanInv, PlanTypes
<1>3. steps' \in [PlanSteps -> StepStates] /\ TriesLeft(steps')
  BY <1>1, <1>2, Judged DEF PlanInv, PlanTypes
<1>4. /\ UNCHANGED <<recordedPlan, resumes, currentStep, novaFallback>>
      /\ turnsUsed' = turnsUsed + asking /\ modelTurns' = modelTurns + asking
      /\ asking <= MaxTurns - turnsUsed
  BY DEF Turn, run, Budget
<1>5. TurnsCounted' /\ turnsUsed' \in Nat /\ modelTurns' \in Nat
  BY <1>4, PlanAssumption DEF PlanInv, PlanTypes, TurnsCounted
<1> QED
  BY <1>2, <1>3, <1>4, <1>5 DEF PlanInv, PlanTypes, TriesLeft

LEMMA FallsBackGood ==
    ASSUME PlanInv, NEW asking \in 0..2, FallsBack(asking)
    PROVE  PlanInv'
<1>1. steps' \in [PlanSteps -> StepStates] /\ TriesLeft(steps')
  <2>1. CASE Ready = {}
    BY <2>1 DEF FallsBack, PlanInv, PlanTypes
  <2>2. CASE Ready # {}
    <3>1. Ready \in SUBSET Nat /\ Ready \subseteq PlanSteps
      BY PlanAssumption DEF Ready, With, PlanSteps
    <3>2. First(Ready) \in PlanSteps
      BY <2>2, <3>1, FirstOf
    <3> DEFINE s == First(Ready)
    <3>3. steps' = Marked(s, "completed") /\ steps \in [PlanSteps -> StepStates]
      BY <2>2 DEF FallsBack, PlanInv, PlanTypes
    <3> HIDE DEF s
    <3>4. /\ steps' \in [PlanSteps -> StepStates] /\ steps'[s].status = "completed"
          /\ steps'[s].attempts = steps[s].attempts
          /\ \A t \in PlanSteps : t # s => steps'[t] = steps[t]
      BY <3>2, <3>3, CompletedStep DEF s
    <3> QED
      BY <3>2, <3>4 DEF PlanInv, TriesLeft, s
  <2> QED
    BY <2>1, <2>2
<1>2. /\ UNCHANGED <<recordedPlan, resumes, currentStep, novaFallback>> /\ novaFallback
      /\ turnsUsed' \in Nat /\ modelTurns' \in Nat /\ currentStep \in PlanSteps
  BY DEF FallsBack, run, PlanInv, PlanTypes
<1> QED
  BY <1>1, <1>2 DEF PlanInv, PlanTypes, TriesLeft, TurnsCounted

LEMMA AfterTurnGood ==
    ASSUME PlanInv, AfterTurn
    PROVE  PlanInv'
<1> DEFINE judged == IF RunFailed THEN [steps EXCEPT ![currentStep].status = "failed"] ELSE steps
           failed == [judged EXCEPT ![currentStep].status = "failed"]
           pending == [judged EXCEPT ![currentStep].status = "pending"]
<1>1. currentStep \in PlanSteps
  BY DEF AfterTurn, PlanInv, PlanTypes
<1>2. /\ judged \in [PlanSteps -> StepStates] /\ TriesLeft(judged)
      /\ judged[currentStep].attempts = steps[currentStep].attempts
  <2>1. steps \in [PlanSteps -> StepStates] /\ TriesLeft(steps)
    BY DEF PlanInv, PlanTypes
  <2> QED
    BY <1>1, <2>1, Judged
<1> HIDE DEF judged
<1>3. failed \in [PlanSteps -> StepStates] /\ TriesLeft(failed)
  BY <1>1, <1>2, Judged
<1>4. steps[currentStep].attempts <= StepRetries =>
          pending \in [PlanSteps -> StepStates] /\ TriesLeft(pending)
  <2>1. /\ pending \in [PlanSteps -> StepStates] /\ pending[currentStep].status = "pending"
        /\ \A t \in PlanSteps :
              /\ pending[t].attempts = judged[t].attempts
              /\ t # currentStep => pending[t] = judged[t]
    BY <1>1, <1>2, StatusSet
  <2> HIDE DEF pending
  <2> QED
    BY <1>1, <1>2, <2>1, PlanAssumption DEF StepStates, TriesLeft, PlanInv, PlanTypes
<1> HIDE DEF failed, pending
<1>5. /\ \/ steps' = judged /\ recordedPlan' = judged
         \/ steps' = failed /\ recordedPlan' = judged
         \/ steps' = pending /\ recordedPlan' = pending /\ steps[currentStep].attempts <= StepRetries
      /\ turnsUsed' \in {turnsUsed, turnsUsed + 1}
      /\ UNCHANGED <<novaFallback, modelTurns, resumes, currentStep>>
  BY DEF AfterTurn, CanRetry, run, judged, failed, pending
<1> QED
  BY <1>1, <1>2, <1>3, <1>4, <1>5 DEF PlanInv, PlanTypes, TriesLeft, TurnsCounted

\* Every step of the resumed plan has one more try.
LEMMA ResumeGood ==
    ASSUME PlanInv, ResumePlan
    PROVE  PlanInv'
<1>1. ASSUME NEW s \in PlanSteps
      PROVE  steps'[s] \in StepStates /\ steps'[s].attempts = recordedPlan[s].attempts
  <2>1. recordedPlan[s] \in StepStates
    BY DEF PlanInv, PlanTypes
  <2>2. steps'[s] \in {recordedPlan[s], [recordedPlan[s] EXCEPT !.status = "pending"]}
    BY DEF ResumePlan
  <2> QED
    <3>1. PICK r \in StepStates : r = recordedPlan[s]
      BY <2>1
    <3>2. LET q == [r EXCEPT !.status = "pending"] IN q \in StepStates /\ q.attempts = r.attempts
      BY StatusOfRecord
    <3> QED
      BY <2>2, <3>1, <3>2
<1>2. steps' \in [PlanSteps -> StepStates] /\ recordedPlan' = steps' /\ resumes' = resumes + 1
  BY <1>1 DEF ResumePlan
<1>3. \A s \in PlanSteps : recordedPlan[s].attempts <= StepRetries + 1 + resumes
  BY DEF PlanInv, TriesLeft
<1>4. TriesLeft(steps)' /\ TriesLeft(recordedPlan)'
  BY <1>1, <1>2, <1>3, PlanAssumption DEF TriesLeft, PlanInv, PlanTypes, StepStates
<1> QED
  BY <1>2, <1>4, PlanAssumption DEF ResumePlan, PlanInv, PlanTypes, TurnsCounted

LEMMA PlanStaysGood ==
    ASSUME PlanInv,
           LoopEnds \/ PlanFinish \/ CancelTurn \/ TimeOut \/ PlanKilled \/ UNCHANGED planVars
    PROVE  PlanInv'
BY DEF LoopEnds, PlanFinish, CancelTurn, TimeOut, PlanKilled, planVars, run, PlanInv, PlanTypes,
       TriesLeft, TurnsCounted

LEMMA PlanStep ==
    ASSUME PlanInv, [PlanNext]_planVars
    PROVE  PlanInv'
BY NextTurnGood, TurnGood, FallsBackGood, AfterTurnGood, ResumeGood, PlanStaysGood
   DEF PlanNext, LoopStep

\* In every state of a plan each step has been tried no more often than its
\* limit and the resumes allow, and the model was asked no more often than
\* the agent may (ExecutionPipeline._run_hosted_execution).
THEOREM PlanBoundedHolds == PlanSpec => []PlanBounded
<1>1. PlanInit => PlanInv
  BY PlanInitGood
<1>2. PlanInv /\ [PlanNext]_planVars => PlanInv'
  BY PlanStep
<1>3. PlanInv => PlanBounded
  BY DEF PlanInv, TriesLeft, TurnsCounted, PlanBounded, RetriesBounded, OneTurnBudget
<1> QED
  BY <1>1, <1>2, <1>3, PTL DEF PlanSpec

-----------------------------------------------------------------------------
(* The repair loop. *)

\* The model is asked for a repair only at a failure that is counted, and on
\* one failure with the same evidence only while that is not yet stagnant.
RecoveryInv ==
    /\ recoveryAttempts \in Nat /\ repairTurns \in Nat /\ modelFailures \in 0..2
    /\ lastEvidence \in [Failures -> Evidence \union {"none"}]
    /\ stagnant \in [Failures -> Nat] /\ sameEvidence \in [Failures -> Nat]
    /\ repairLoop \in [phase : {"idle", "decide", "turn"}, iteration : 0..MaxIterations,
                       failure : Failures \union {"none"}]
    /\ repairLoop.phase # "idle" => repairLoop.failure \in Failures /\ repairLoop.iteration > 0
    /\ sessionTurns \in 0..MaxRepairTurns
    /\ repairTurns <= recoveryAttempts /\ repairTurns <= MaxAttempts
    /\ \A f \in Failures : sameEvidence[f] <= stagnant[f] + 1 /\ sameEvidence[f] <= MaxStagnant + 1

\* An answer that goes on is given within both limits.
LEMMA GoesOnWithin ==
    ASSUME RecoveryInv, NEW f \in Failures, NEW e \in Evidence, NEW clue,
           Terminal(f, e, clue, recoveryAttempts + 1) = "CONTINUE"
    PROVE  recoveryAttempts + 1 <= MaxAttempts /\ Stagnation(f, e) <= MaxStagnant
<1>1. Action(f, e, clue, recoveryAttempts + 1) # "STOP_FAILED"
  BY DEF Terminal, Strategy, Stops
<1>2. ~(recoveryAttempts + 1 > MaxAttempts \/ Stagnation(f, e) > MaxStagnant)
                                              \/ clue = "blocked"
  BY <1>1 DEF Action
<1>3. clue # "blocked"
  BY DEF Terminal, Strategy, Stops, Action
<1>4. Stagnation(f, e) \in Nat
  BY DEF Stagnation, RecoveryInv
<1> QED
  BY <1>2, <1>3, <1>4, RecoveryAssumption DEF RecoveryInv

LEMMA DecideGood ==
    ASSUME RecoveryInv, NEW e \in Evidence, NEW clue \in Clues, DecideRepair(e, clue)
    PROVE  RecoveryInv'
<1> DEFINE f == repairLoop.failure
           turns == IF Terminal(f, e, clue, recoveryAttempts + 1) = "CONTINUE" THEN 1 ELSE 0
<1>1. f \in Failures
  BY DEF DecideRepair, RecoveryInv
<1>2. turns \in {0, 1} /\ (turns = 1 => recoveryAttempts + 1 <= MaxAttempts
                                          /\ Stagnation(f, e) <= MaxStagnant)
  BY <1>1, GoesOnWithin
<1>3. /\ repairLoop' = IF turns = 1 THEN [repairLoop EXCEPT !.phase = "turn"] ELSE Idle
      /\ repairTurns' = repairTurns + turns
      /\ sameEvidence' = [sameEvidence EXCEPT
                              ![f] = turns + IF EvidenceChanged(f, e) THEN 0 ELSE @]
      /\ Remembered(f, e, FALSE) /\ UNCHANGED sessionTurns
  BY DEF DecideRepair
<1> HIDE DEF turns, f
<1>4. /\ recoveryAttempts' = recoveryAttempts + 1 /\ UNCHANGED modelFailures
      /\ lastEvidence' = [lastEvidence EXCEPT ![f] = e]
      /\ stagnant' = [stagnant EXCEPT ![f] = Stagnation(f, e)]
  BY <1>3 DEF Remembered
<1>5. repairTurns' <= recoveryAttempts' /\ repairTurns' <= MaxAttempts /\ repairTurns' \in Nat
  BY <1>2, <1>3, <1>4, RecoveryAssumption DEF RecoveryInv
<1>6. ASSUME NEW g \in Failures
      PROVE  sameEvidence'[g] <= stagnant'[g] + 1 /\ sameEvidence'[g] <= MaxStagnant + 1
  BY <1>1, <1>2, <1>3, <1>4, RecoveryAssumption DEF RecoveryInv, Stagnation
<1>7. /\ lastEvidence' \in [Failures -> Evidence \union {"none"}]
      /\ stagnant' \in [Failures -> Nat] /\ sameEvidence' \in [Failures -> Nat]
  BY <1>1, <1>2, <1>3, <1>4 DEF RecoveryInv, Stagnation
<1>8. /\ repairLoop' \in [phase : {"idle", "decide", "turn"}, iteration : 0..MaxIterations,
                          failure : Failures \union {"none"}]
      /\ repairLoop'.phase # "idle" => repairLoop'.failure \in Failures /\ repairLoop'.iteration > 0
  BY <1>1, <1>3, RecoveryAssumption DEF RecoveryInv, Idle, f, DecideRepair
<1> QED
  BY <1>3, <1>4, <1>5, <1>6, <1>7, <1>8 DEF RecoveryInv

LEMMA ToolGood ==
    ASSUME RecoveryInv, NEW f \in Failures, NEW e \in Evidence, NEW byModel \in BOOLEAN,
           ToolFailure(f, e, byModel)
    PROVE  RecoveryInv'
<1>1. ASSUME NEW g \in Failures
      PROVE  sameEvidence'[g] <= stagnant'[g] + 1 /\ sameEvidence'[g] <= MaxStagnant + 1
  BY RecoveryAssumption DEF RecoveryInv, ToolFailure, Remembered, Stagnation
<1>2. modelFailures' \in 0..2 /\ recoveryAttempts' = recoveryAttempts + 1
  BY DEF RecoveryInv, ToolFailure, Remembered
<1>3. /\ lastEvidence' \in [Failures -> Evidence \union {"none"}]
      /\ stagnant' \in [Failures -> Nat] /\ sameEvidence' \in [Failures -> Nat]
  BY DEF RecoveryInv, ToolFailure, Remembered, Stagnation
<1> QED
  BY <1>1, <1>2, <1>3 DEF RecoveryInv, ToolFailure

LEMMA LoopGood ==
    ASSUME RecoveryInv,
           \/ \E f \in Failures : VerificationFails(f)
           \/ TimeIsUp
           \/ \E succeeded \in BOOLEAN, f \in Failures : RepairTurnEnds(succeeded, f)
           \/ UNCHANGED recoveryVars
    PROVE  RecoveryInv'
<1>1. ASSUME NEW f \in Failures, VerificationFails(f) PROVE RecoveryInv'
  <2>1. repairLoop' = [phase |-> "decide", iteration |-> 1, failure |-> f]
    BY <1>1 DEF VerificationFails, Idle
  <2>2. sessionTurns' \in 0..MaxRepairTurns
    <3>1. sessionTurns \in 0..MaxRepairTurns /\ sessionTurns < MaxRepairTurns
      BY <1>1 DEF VerificationFails, RecoveryInv
    <3>2. sessionTurns' = sessionTurns + 1
      BY <1>1 DEF VerificationFails
    <3> QED
      BY <3>1, <3>2, RecoveryAssumption
  <2>3. UNCHANGED <<recoveryAttempts, lastEvidence, stagnant, modelFailures, repairTurns, sameEvidence>>
    BY <1>1 DEF VerificationFails
  <2>4. 1 \in 0..MaxIterations
    BY RecoveryAssumption
  <2> QED
    BY <2>1, <2>2, <2>3, <2>4 DEF RecoveryInv
<1>2. CASE TimeIsUp
  BY <1>2, RecoveryAssumption DEF TimeIsUp, RecoveryInv, Idle
<1>3. ASSUME NEW succeeded \in BOOLEAN, NEW f \in Failures, RepairTurnEnds(succeeded, f)
      PROVE  RecoveryInv'
  <2>1. UNCHANGED <<recoveryAttempts, lastEvidence, stagnant, modelFailures, repairTurns,
                    sameEvidence, sessionTurns>>
    BY <1>3 DEF RepairTurnEnds
  <2>2. CASE repairLoop' = Idle
    BY <2>1, <2>2, RecoveryAssumption DEF RecoveryInv, Idle
  <2>3. CASE repairLoop' # Idle
    <3>1. /\ repairLoop.iteration # MaxIterations
          /\ repairLoop' = [phase |-> "decide", iteration |-> repairLoop.iteration + 1, failure |-> f]
      BY <1>3, <2>3 DEF RepairTurnEnds
    <3>2. repairLoop.iteration \in 0..MaxIterations
      BY DEF RecoveryInv
    <3>3. repairLoop.iteration + 1 \in 0..MaxIterations /\ repairLoop.iteration + 1 > 0
      BY <3>1, <3>2, RecoveryAssumption
    <3> QED
      BY <2>1, <3>1, <3>3 DEF RecoveryInv
  <2> QED
    BY <2>2, <2>3
<1>4. CASE UNCHANGED recoveryVars
  BY <1>4 DEF recoveryVars, RecoveryInv
<1> QED
  BY <1>1, <1>2, <1>3, <1>4

\* Over a whole session the model is asked for a repair no more often than
\* the controller's limit, and on one failure whose evidence stays no more
\* often than the ladder is long (RecoveryController.handle_failure).
THEOREM RepairsWithinLimitsHolds == RecoverySpec => []RepairsWithinLimits
<1>1. RecoveryInit => RecoveryInv
  BY RecoveryAssumption DEF RecoveryInit, RecoveryInv, Idle
<1>2. RecoveryInv /\ [RecoveryNext]_recoveryVars => RecoveryInv'
  BY DecideGood, ToolGood, LoopGood DEF RecoveryNext
<1>3. RecoveryInv => RepairsWithinLimits
  BY DEF RecoveryInv, RepairsWithinLimits
<1> QED
  BY <1>1, <1>2, <1>3, PTL DEF RecoverySpec
=============================================================================
