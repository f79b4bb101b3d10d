------------------------------ MODULE TaskDag ------------------------------
(***************************************************************************)
(* The task-DAG executor: class TaskDagKernel of nexus/runtime/kernel.py,  *)
(* driven by TwoNodeBackend.run (nexus/two_node_backend.py), persisted     *)
(* through the run ledger, and resumed after a crash by                    *)
(* Agent.resume_interrupted (nexus/agent/core.py).                         *)
(*                                                                         *)
(* A step's work is abstracted to its outcome.  A successful step leaves   *)
(* proposals (patches) in the memory of the process; they reach the        *)
(* workspace only when the whole DAG is over.                              *)
(***************************************************************************)
EXTENDS Naturals, FiniteSets

CONSTANTS
    Steps,        \* the steps of the plan; their order is the plan's order
    RetryLimit,   \* PlanStep.retry_limit of each step
    MaxRepairs,   \* max_total_repairs of the kernel
    MaxCrashes    \* bound: times the process is killed and resumed

ASSUME StepsAssumption == Steps \subseteq Nat /\ IsFiniteSet(Steps)
ASSUME LimitsAssumption ==
    /\ RetryLimit \in [Steps -> Nat]
    /\ MaxRepairs \in Nat
    /\ MaxCrashes \in Nat

VARIABLES
    deps,         \* depends_on of each step; never changes
    status,       \* PlanStep.status of each step
    attempts,     \* PlanStep.attempts of each step (kept over a crash, so that
                  \* it counts every attempt, also those plan.json misses)
    planStatus,   \* ExecutionPlan.status
    ready,        \* what is left of the list of _ready_steps
    current,      \* the step _run_step is working on (0 when there is none)
    repairNo,     \* repair_number of the current step
    repairs,      \* self.repairs of this kernel
    pc,           \* where the kernel is
    saved,        \* the statuses in plan.json
    checkpoints,  \* steps with a task-<id>-verified checkpoint on disk
    proposals,    \* steps whose patches this process holds in memory
    applied,      \* steps whose patches were executed in the workspace
    crashes       \* crashes so far

vars == <<deps, status, attempts, planStatus, ready, current, repairNo,
          repairs, pc, saved, checkpoints, proposals, applied, crashes>>

StepStatuses == {"pending", "in_progress", "completed", "failed", "blocked", "skipped"}
PcValues == {"validate", "scan", "step", "working", "verified", "finishing",
             "apply", "done", "rejected", "down"}

\* Statuses that satisfy a dependency.
Satisfied == {"completed", "skipped"}

\* _validate_graph accepts: no step depends on itself and no set of steps
\* waits for itself.  (Ids are distinct and known by construction of Steps.)
Acyclic(graph) ==
    \A S \in SUBSET Steps :
        S # {} => \E s \in S : graph[s] \cap S = {}

Init ==
    /\ deps \in [Steps -> SUBSET Steps]
    /\ status = [s \in Steps |-> "pending"]
    /\ attempts = [s \in Steps |-> 0]
    /\ planStatus = "pending"
    /\ ready = {}
    /\ current = 0
    /\ repairNo = 0
    /\ repairs = 0
    /\ pc = "validate"
    /\ saved = status
    /\ checkpoints = {}
    /\ proposals = {}
    /\ applied = {}
    /\ crashes = 0

-----------------------------------------------------------------------------
\* run_dag checks the graph before anything else; a bad one raises.
Validate ==
    /\ pc = "validate"
    /\ pc' = IF Acyclic(deps) THEN "scan" ELSE "rejected"
    /\ UNCHANGED <<deps, status, attempts, planStatus, ready, current, repairNo,
                   repairs, saved, checkpoints, proposals, applied, crashes>>

\* The test of _ready_steps.
IsReady(s) ==
    /\ status[s] = "pending"
    /\ \A d \in deps[s] : status[d] \in Satisfied

\* One pass of the while loop of run_dag starts with a fresh list.
Scan ==
    /\ pc = "scan"
    /\ \E s \in Steps : IsReady(s)
    /\ ready' = {s \in Steps : IsReady(s)}
    /\ pc' = "step"
    /\ UNCHANGED <<deps, status, attempts, planStatus, current, repairNo, repairs,
                   saved, checkpoints, proposals, applied, crashes>>

\* _block_orphans works from a snapshot: dependants of a step it blocks in
\* this very pass stay pending.
BlockOrphans ==
    [s \in Steps |->
        IF status[s] = "pending" /\ \E d \in deps[s] : status[d] \in {"failed", "blocked"}
          THEN "blocked" ELSE status[s]]

NothingReady ==
    /\ pc = "scan"
    /\ \A s \in Steps : ~IsReady(s)
    /\ status' = BlockOrphans
    /\ pc' = "finishing"
    /\ UNCHANGED <<deps, attempts, planStatus, ready, current, repairNo, repairs,
                   saved, checkpoints, proposals, applied, crashes>>

\* _run_step begins: the steps of the list are taken in the plan's order.
StartStep ==
    /\ pc = "step"
    /\ \E s \in ready :
          /\ \A t \in ready : s <= t
          /\ current' = s
          /\ ready' = ready \ {s}
          /\ status' = [status EXCEPT ![s] = "in_progress"]
          /\ attempts' = [attempts EXCEPT ![s] = @ + 1]
    /\ repairNo' = 0
    /\ pc' = "working"
    /\ UNCHANGED <<deps, planStatus, repairs, saved, checkpoints, proposals,
                   applied, crashes>>

\* Faulty variant: the total of repairs is not looked at.
MayRepairPerStep == repairNo < RetryLimit[current]

\* The condition of the repair loop.
MayRepair == repairNo < RetryLimit[current] /\ repairs < MaxRepairs

\* execute (or the last repair) and verify did not succeed: one repair.
RepairStep ==
    /\ pc = "working"
    /\ MayRepair
    /\ repairNo' = repairNo + 1
    /\ repairs' = repairs + 1
    /\ attempts' = [attempts EXCEPT ![current] = @ + 1]
    /\ UNCHANGED <<deps, status, planStatus, ready, current, pc, saved,
                   checkpoints, proposals, applied, crashes>>

\* The step succeeds and is checkpointed.
StepSucceeds ==
    /\ pc = "working"
    /\ status' = [status EXCEPT ![current] = "completed"]
    /\ proposals' = proposals \cup {current}
    /\ checkpoints' = checkpoints \cup {current}
    /\ pc' = "verified"
    /\ UNCHANGED <<deps, attempts, planStatus, ready, current, repairNo, repairs,
                   saved, applied, crashes>>

\* The step fails and no repair is left.
StepFails ==
    /\ pc = "working"
    /\ ~MayRepair
    /\ status' = [status EXCEPT ![current] = "failed"]
    /\ pc' = "verified"
    /\ UNCHANGED <<deps, attempts, planStatus, ready, current, repairNo, repairs,
                   saved, checkpoints, proposals, applied, crashes>>

\* record_tasks and record_plan follow each step.
RecordPlan ==
    /\ pc = "verified"
    /\ saved' = status
    /\ current' = 0
    /\ pc' = IF ready = {} THEN "scan" ELSE "step"
    /\ UNCHANGED <<deps, status, attempts, planStatus, ready, repairNo, repairs,
                   checkpoints, proposals, applied, crashes>>

AllSatisfied == \A s \in Steps : status[s] \in Satisfied

\* Faulty variant: the reviewer's word is enough.
VerdictOfReview(approved) == IF approved THEN "completed" ELSE "failed"

\* The end of run_dag: the reviewer is asked only when every step is done.
Verdict(approved) ==
    IF AllSatisfied THEN IF approved THEN "completed" ELSE "failed"
    ELSE IF \E s \in Steps : status[s] = "failed" THEN "failed"
    ELSE "blocked"

FinishPlan ==
    /\ pc = "finishing"
    /\ \E approved \in BOOLEAN : planStatus' = Verdict(approved)
    /\ saved' = status
    /\ pc' = "apply"
    /\ UNCHANGED <<deps, status, attempts, ready, current, repairNo, repairs,
                   checkpoints, proposals, applied, crashes>>

\* apply_result of _run_two_node_turn: the patches held in memory, and only
\* those, are executed in the workspace, unless a step failed or the reviewer
\* explained its rejection (TwoNodeResult.proposals).  The candidate that may
\* replace a rejected one is that of a new plan: NovaTurn follows it.
ApplyResult ==
    /\ pc = "apply"
    /\ \/ /\ planStatus = "completed" \/ AllSatisfied
          /\ applied' = applied \cup proposals
       \/ /\ planStatus # "completed"
          /\ applied' = applied
    /\ pc' = "done"
    /\ UNCHANGED <<deps, status, attempts, planStatus, ready, current, repairNo,
                   repairs, saved, checkpoints, proposals, crashes>>

-----------------------------------------------------------------------------
\* The process is killed: only plan.json, the checkpoints and the workspace
\* remain.
Crash ==
    /\ pc \notin {"done", "rejected", "down"}
    /\ crashes < MaxCrashes
    /\ crashes' = crashes + 1
    /\ status' = saved
    /\ ready' = {}
    /\ current' = 0
    /\ repairNo' = 0
    /\ repairs' = 0
    /\ proposals' = {}
    /\ pc' = "down"
    /\ UNCHANGED <<deps, attempts, planStatus, saved, checkpoints, applied>>

\* Faulty variant: an interrupted step gets a status no plan has.
ResumedStatusUnnormalised(s) ==
    IF saved[s] = "completed" THEN saved[s] ELSE "interrupted"

\* resume_interrupted, then _resumed_plan: what was not completed is pending.
ResumedStatus(s) ==
    IF saved[s] \in {"in_progress", "failed", "blocked"} THEN "pending" ELSE saved[s]

\* The plan is read back and begin() persists it for the new turn.
Resume ==
    /\ pc = "down"
    /\ status' = [s \in Steps |-> ResumedStatus(s)]
    /\ saved' = status'
    /\ planStatus' = "pending"
    /\ pc' = "validate"
    /\ UNCHANGED <<deps, attempts, ready, current, repairNo, repairs, checkpoints,
                   proposals, applied, crashes>>

Next ==
    \/ Validate \/ Scan \/ NothingReady
    \/ StartStep \/ RepairStep \/ StepSucceeds \/ StepFails \/ RecordPlan
    \/ FinishPlan \/ ApplyResult
    \/ Crash \/ Resume

\* The kernel is one synchronous loop: whenever it can go on it does.
Spec == Init /\ [][Next]_vars
FairSpec == Spec /\ WF_vars(Next)

-----------------------------------------------------------------------------
\* Type invariant of the kernel.
TypeOK ==
    /\ deps \in [Steps -> SUBSET Steps]
    /\ status \in [Steps -> StepStatuses]
    /\ attempts \in [Steps -> Nat]
    /\ planStatus \in {"pending", "completed", "failed", "blocked"}
    /\ ready \subseteq Steps
    /\ current \in Steps \cup {0}
    /\ repairNo \in Nat
    /\ repairs \in Nat
    /\ pc \in PcValues
    /\ saved \in [Steps -> StepStatuses]
    /\ checkpoints \subseteq Steps
    /\ proposals \subseteq Steps
    /\ applied \subseteq Steps
    /\ crashes \in 0..MaxCrashes

\* A step is started, and its result kept, only when every step it depends
\* on is done, in every order of outcomes, and also after a crash and a
\* resume from plan.json ("dependency-aware" in the class's docstring).
DependenciesFirst ==
    \A s \in Steps :
        status[s] \in {"in_progress", "completed", "failed"} =>
            \A d \in deps[s] : status[d] \in Satisfied

\* "Bounded repairs": one kernel never repairs more than max_total_repairs
\* times, and a step is attempted at most 1 + retry_limit times per run of
\* the process.
RepairsBounded ==
    /\ repairs <= MaxRepairs
    /\ \A s \in Steps : attempts[s] <= (1 + RetryLimit[s]) * (1 + crashes)

\* What a reader of plan.json relies on at every moment, also after a crash: the steps kept the
\* order of their dependencies, and the model's share of attempts.
StepsSound == DependenciesFirst /\ RepairsBounded

\* A run reported completed has every step done, and one that is not
\* reported completed says why: a failed step, a rejected review, or a step
\* that waits for one that never got done.
VerdictHonest ==
    pc \in {"apply", "done"} =>
        /\ planStatus = "completed" => AllSatisfied
        /\ planStatus = "blocked" => \A s \in Steps : status[s] # "failed"
        /\ \A s \in Steps : status[s] \in {"pending", "blocked"} =>
              \E d \in deps[s] : status[d] \notin Satisfied

\* Every plan is executed to an end or rejected: no failure, repair or
\* crash (there are finitely many) leaves the loop running.
Terminates == <>(pc \in {"done", "rejected"})

\* README.md: "interrupted work resumes the persisted plan from its latest
\* checkpoint, preserving completed steps and retrying only unfinished
\* work".  A plan that ends completed has the work of every completed step
\* in the workspace.
CompletedWorkApplied ==
    pc = "done" /\ planStatus = "completed" =>
        \A s \in Steps : status[s] = "completed" => s \in applied
=============================================================================
