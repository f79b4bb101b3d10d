----------------------------- MODULE PlanExecution -----------------------------
(***************************************************************************)
(* A planned turn: the plan's steps and their order (nexus/planner.py), the*)
(* loop that runs one hosted turn per step under one budget of model turns *)
(* (ExecutionPipeline._run_hosted_execution), what a turn decides about its*)
(* step (Agent._run_hosted_turn), the plan the ledger keeps, a cancel, a   *)
(* kill and the resume from the ledger.                                    *)
(***************************************************************************)
EXTENDS Naturals, FiniteSets

CONSTANTS
    StepCount,   \* steps of the plan
    DependsOn,   \* step -> the steps before it
    StepRetries, \* PlanStep.retry_limit
    MaxTurns,    \* agent.max_turns
    MaxKills,    \* bound: processes killed
    MaxCancels   \* bound: cancel requests

ASSUME PlanAssumption ==
    /\ StepCount \in Nat /\ StepRetries \in Nat /\ MaxTurns \in Nat
    /\ MaxKills \in Nat /\ MaxCancels \in Nat
    /\ DependsOn \in [1..StepCount -> SUBSET (1..StepCount)]
    /\ \A s \in 1..StepCount : \A d \in DependsOn[s] : d < s

VARIABLES
    novaFallback,  \* enable_nova_fallback and local_intern_enabled; never changes
    steps,         \* the plan in memory: each step's [status, attempts]
    recordedPlan,  \* the plan of the ledger
    planLoop,      \* where the run is: "next", "turn", "answered", "over", "ended" or "dead"
    currentStep,   \* the step of this iteration
    response,      \* how the last turn answered
    turnsUsed,     \* model turns counted by the loop
    modelTurns,    \* bookkeeping: model turns there were
    turnCancelled, \* Agent._cancelled
    timedOut,      \* cancel_event.is_set(): the team of this agent is out of time
    asked,         \* bookkeeping: a cancel was requested in this run
    ignored,       \* bookkeeping: a turn was started after it
    worked,        \* bookkeeping: steps some turn has worked on
    resumes,       \* runs that continued this plan
    cancels        \* cancel requests so far

planVars == <<novaFallback, steps, recordedPlan, planLoop, currentStep, response, turnsUsed,
              modelTurns, turnCancelled, timedOut, asked, ignored, worked, resumes, cancels>>

PlanSteps == 1..StepCount

PlanInit ==
    /\ novaFallback \in BOOLEAN
    /\ steps = [s \in PlanSteps |-> [status |-> "pending", attempts |-> 0]]
    /\ recordedPlan = steps
    /\ planLoop = "next" /\ currentStep = 1 /\ response = "none"
    /\ turnsUsed = 0 /\ modelTurns = 0 /\ resumes = 0 /\ cancels = 0
    /\ turnCancelled = FALSE /\ timedOut = FALSE /\ asked = FALSE /\ ignored = FALSE /\ worked = {}

-----------------------------------------------------------------------------
(* ExecutionPlan.                                                          *)

With(status) == {s \in PlanSteps : steps[s].status = status}
IsComplete == With("completed") = PlanSteps

Ready == {s \in With("pending") : DependsOn[s] \subseteq With("completed")}
First(S) == CHOOSE s \in S : \A t \in S : s <= t

\* The step in progress, or else the next ready one.
Candidates == IF With("in_progress") # {} THEN With("in_progress") ELSE Ready

\* advance_step and retry_step.
Marked(s, status) ==
    [steps EXCEPT ![s].status = status,
                  ![s].attempts = IF status = "in_progress" THEN @ + 1 ELSE @]

-----------------------------------------------------------------------------
(* The loop.                                                               *)

run == <<timedOut, asked, resumes, cancels>>

\* The step in progress, or the next ready one, gets a turn, which clears an earlier request to
\* cancel; without a model turn left the step fails.
NextTurn ==
    /\ planLoop = "next" /\ ~IsComplete /\ Candidates # {}
    /\ LET s == First(Candidates)
           begun == IF s \in With("in_progress") THEN steps ELSE Marked(s, "in_progress") IN
       /\ currentStep' = s
       /\ IF turnsUsed < MaxTurns
          THEN /\ steps' = begun /\ planLoop' = "turn" /\ worked' = worked \union {s}
               /\ turnCancelled' = FALSE /\ ignored' = (ignored \/ asked)
          ELSE /\ steps' = [begun EXCEPT ![s].status = "failed"] /\ planLoop' = "over"
               /\ UNCHANGED <<worked, turnCancelled, ignored>>
    /\ UNCHANGED <<novaFallback, recordedPlan, response, turnsUsed, modelTurns, run>>

LoopEnds ==
    /\ planLoop = "next" /\ (IsComplete \/ Candidates = {})
    /\ planLoop' = "over"
    /\ UNCHANGED <<novaFallback, steps, recordedPlan, currentStep, response, turnsUsed,
                   modelTurns, turnCancelled, ignored, worked, run>>

-----------------------------------------------------------------------------
(* One hosted turn.                                                        *)

Cancelled == turnCancelled \/ timedOut

\* step_budget: what is left of the limit.
Budget == MaxTurns - turnsUsed

\* A turn that ran to its end judges its step, unless an edit waits for approval; a command that
\* waits for confirmation is no reason to wait.  A turn that was cancelled, that failed or that is
\* out of budget leaves the step as it is.
Judgement(outcome) ==
    CASE outcome = "done"         -> {"completed"}
      [] outcome = "missed"       -> {"failed"}
      [] outcome = "confirmation" -> {"completed", "failed"}
      [] OTHER                    -> {"in_progress"}
TurnOutcomes == {"done", "missed", "approval", "confirmation", "cancelled", "failed", "error"}
EndsEarly == {"cancelled", "failed", "error"}

Turn(outcome, asking) ==
    /\ planLoop = "turn"
    /\ outcome = "cancelled" <=> Cancelled
    /\ asking <= Budget /\ (asking > 0 \/ outcome \in EndsEarly)
    /\ \E status \in Judgement(outcome) : steps' = [steps EXCEPT ![currentStep].status = status]
    /\ planLoop' = "answered" /\ response' = outcome
    /\ turnsUsed' = turnsUsed + asking /\ modelTurns' = modelTurns + asking
    /\ UNCHANGED <<novaFallback, recordedPlan, currentStep, turnCancelled, ignored, worked, run>>

\* The providers are out of quota: planner.current_plan.next_step is marked completed, and the
\* local model answers instead, or fails, which ends the run.  Only its turn is in the events.
FallsBack(asking) ==
    /\ planLoop = "turn" /\ novaFallback /\ ~Cancelled
    /\ asking <= Budget
    /\ steps' = IF Ready = {} THEN steps ELSE Marked(First(Ready), "completed")
    /\ modelTurns' = modelTurns + asking + 1
    /\ response' = "fallback"
    /\ \/ planLoop' = "answered" /\ turnsUsed' = turnsUsed + 1
       \/ planLoop' = "over" /\ UNCHANGED turnsUsed
    /\ UNCHANGED <<novaFallback, recordedPlan, currentStep, turnCancelled, ignored, worked, run>>

-----------------------------------------------------------------------------
(* What the loop makes of the answer.                                      *)

\* Faulty variant: a step is tried again while there are model turns.
CanRetryUnbounded(used) == used < MaxTurns

CanRetry(used) == steps[currentStep].attempts <= StepRetries /\ used < MaxTurns

\* Faulty variant: a run that failed is not told from an answer.
RunFailedUnnoticed == FALSE

\* "Run failed" in the answer: the step has failed, and costs a turn.
RunFailed == response = "failed"

AfterTurn ==
    /\ planLoop = "answered"
    /\ LET counted == IF RunFailed THEN turnsUsed + 1 ELSE turnsUsed
           judged == IF RunFailed THEN [steps EXCEPT ![currentStep].status = "failed"] ELSE steps
           retried == /\ judged[currentStep].status = "failed" /\ response # "confirmation"
                      /\ CanRetry(counted)
           stops == \/ response \in {"approval", "confirmation", "error"}
                    \/ judged[currentStep].status = "failed" /\ ~retried
       IN /\ turnsUsed' = counted
          /\ steps' = IF retried THEN [judged EXCEPT ![currentStep].status = "pending"]
                      ELSE IF response = "error" THEN [judged EXCEPT ![currentStep].status = "failed"]
                      ELSE judged
          /\ recordedPlan' = IF retried THEN steps' ELSE judged
          /\ planLoop' = IF stops THEN "over" ELSE "next"
    /\ response' = "none"
    /\ UNCHANGED <<novaFallback, currentStep, modelTurns, turnCancelled, ignored, worked, run>>

\* RunFinalizer.finish records the plan once more.
PlanFinish ==
    /\ planLoop = "over" /\ planLoop' = "ended" /\ recordedPlan' = steps /\ response' = "none"
    /\ UNCHANGED <<novaFallback, steps, currentStep, turnsUsed, modelTurns, turnCancelled,
                   ignored, worked, run>>

-----------------------------------------------------------------------------
(* From outside.                                                           *)

Running == planLoop \in {"next", "turn", "answered"}

\* Agent.cancel, called for a client that went away; the cancel_event of a team that ran out of time.
CancelTurn ==
    /\ Running /\ cancels < MaxCancels
    /\ turnCancelled' = TRUE /\ asked' = TRUE /\ cancels' = cancels + 1
    /\ UNCHANGED <<novaFallback, steps, recordedPlan, planLoop, currentStep, response, turnsUsed,
                   modelTurns, timedOut, ignored, worked, resumes>>

TimeOut ==
    /\ Running /\ ~timedOut
    /\ timedOut' = TRUE /\ asked' = TRUE
    /\ UNCHANGED <<novaFallback, steps, recordedPlan, planLoop, currentStep, response, turnsUsed,
                   modelTurns, turnCancelled, ignored, worked, resumes, cancels>>

PlanKilled ==
    /\ planLoop \notin {"ended", "dead"} /\ resumes < MaxKills
    /\ planLoop' = "dead"
    /\ UNCHANGED <<novaFallback, steps, recordedPlan, currentStep, response, turnsUsed,
                   modelTurns, turnCancelled, ignored, worked, run>>

\* resume_interrupted: unfinished steps of the recorded plan are pending again, with the attempts
\* they had.  A run that ended with a failed step is terminal.
ResumePlan ==
    /\ resumes < MaxKills
    /\ \/ planLoop = "dead"
       \/ planLoop = "ended" /\ ~IsComplete /\ With("failed") = {}
    /\ steps' = [s \in PlanSteps |-> 
                     IF recordedPlan[s].status \in {"in_progress", "failed"}
                     THEN [recordedPlan[s] EXCEPT !.status = "pending"] ELSE recordedPlan[s]]
    /\ recordedPlan' = steps'
    /\ planLoop' = "next" /\ response' = "none" /\ turnsUsed' = 0 /\ modelTurns' = 0
    /\ turnCancelled' = FALSE /\ timedOut' = FALSE /\ asked' = FALSE /\ resumes' = resumes + 1
    /\ UNCHANGED <<novaFallback, currentStep, ignored, worked, cancels>>

-----------------------------------------------------------------------------
LoopStep ==
    \/ NextTurn \/ LoopEnds \/ AfterTurn \/ PlanFinish
    \/ \E asking \in 0..2 : FallsBack(asking) \/ \E outcome \in TurnOutcomes : Turn(outcome, asking)
PlanNext == LoopStep \/ CancelTurn \/ TimeOut \/ PlanKilled \/ ResumePlan

\* The loop runs in one thread, and every hosted turn returns.
PlanSpec == PlanInit /\ [][PlanNext]_planVars /\ WF_planVars(LoopStep)

-----------------------------------------------------------------------------
PlanTypeOK ==
    /\ \A p \in {steps, recordedPlan} : \A s \in PlanSteps :
          /\ p[s].status \in {"pending", "in_progress", "completed", "failed"}
          /\ p[s].attempts \in Nat
    /\ planLoop \in {"next", "turn", "answered", "over", "ended", "dead"} /\ currentStep \in PlanSteps
    /\ turnsUsed \in Nat /\ worked \subseteq PlanSteps

\* A step is tried StepRetries + 1 times in one run, and once more for every resume.
RetriesBounded == \A s \in PlanSteps : steps[s].attempts <= StepRetries + 1 + resumes

\* "Execute every ready plan step under one global model-turn budget": no run of the plan asks the
\* model more often than the agent's limit.  (A turn that the local model had to finish counts once,
\* whatever the hosted one had asked before.)
OneTurnBudget == ~novaFallback => modelTurns <= MaxTurns

\* The effort of one run: each step, and all turns together.
PlanBounded == RetriesBounded /\ OneTurnBudget

\* The run ends or is killed, whatever the model and the tools do, unless its team ran out of
\* time: the standing cancel_event ends every turn at once, and no branch of the loop.
PlanEnds == []<>(planLoop \in {"ended", "dead"} \/ timedOut)

\* A step that counts as completed was the step of some turn. (When the local model answers, the
\* next ready step is marked instead of the current one.)
CompletedWasWorkedOn == \A s \in PlanSteps : steps[s].status = "completed" => s \in worked

\* Once a cancel was requested, the run starts no other turn of the model.
CancelStops == ~ignored
=============================================================================
