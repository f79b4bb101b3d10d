------------------------------ MODULE RecoveryLoop ------------------------------
(***************************************************************************)
(* Recovery from failures (nexus/recovery/) and the repair loop that is    *)
(* driven by it (nexus/repair.py).  One RecoveryController serves the      *)
(* whole session: a failing tool of any turn, a failing execution stage    *)
(* and every iteration of the repair loop go through its handle_failure,   *)
(* which escalates along a ladder when the same failure comes back with    *)
(* the same evidence and ends in a terminal answer.                        *)
(* A failure and what is known about it are model values; what the text of *)
(* a failure tells (Clue) decides between the actions of the ladder.       *)
(***************************************************************************)
EXTENDS Naturals, FiniteSets

CONSTANTS
    Failures,      \* fingerprints of failures
    Evidence,      \* fingerprints of the evidence that comes with one
    MaxAttempts,   \* max_repairs + 2
    MaxStagnant,   \* max_stagnant_repeats
    MaxIterations, \* of the repair loop
    MaxRepairTurns \* bound: turns of the session whose verification fails

ASSUME RecoveryAssumption ==
    /\ MaxAttempts \in Nat \ {0} /\ MaxStagnant \in Nat \ {0} /\ MaxIterations \in Nat \ {0}
    /\ MaxRepairTurns \in Nat
    /\ "none" \notin Evidence

\* What the text of a failure and its context tell, in the order in which decide looks at it.
Clues == {"blocked", "hypothesis", "context", "systemic", "model", "nothing"}

VARIABLES
    recoveryAttempts, \* RecoveryStateMachine._attempts
    lastEvidence,     \* _last_evidence_by_failure
    stagnant,         \* _stagnant_counts
    modelFailures,    \* history_failures: how many, of which bad ones by this model
    repairLoop,       \* RepairLoop.run: [phase, iteration, failure]
    repairTurns,      \* repair turns that the model was asked for in this session
    sameEvidence,     \* bookkeeping: repair turns on a failure since its evidence changed
    sessionTurns

recoveryVars == <<recoveryAttempts, lastEvidence, stagnant, modelFailures, repairLoop,
                  repairTurns, sameEvidence, sessionTurns>>

Idle == [phase |-> "idle", iteration |-> 0, failure |-> "none"]

RecoveryInit ==
    /\ recoveryAttempts = 0 /\ modelFailures = 0 /\ repairTurns = 0 /\ sessionTurns = 0
    /\ lastEvidence = [f \in Failures |-> "none"]
    /\ stagnant = [f \in Failures |-> 0]
    /\ sameEvidence = [f \in Failures |-> 0]
    /\ repairLoop = Idle

-----------------------------------------------------------------------------
(* RecoveryStateMachine.decide                                             *)

EvidenceChanged(f, e) == lastEvidence[f] # e
Stagnation(f, e) == IF EvidenceChanged(f, e) THEN 0 ELSE stagnant[f] + 1

Ladder == <<"EXPAND_CONTEXT", "REVISE_PLAN", "SWITCH_MODEL", "ROLLBACK_TO_CHECKPOINT">>

\* The action for the n-th failure of the session, f with evidence e.
Action(f, e, clue, n) ==
    LET s == Stagnation(f, e) IN
    IF clue = "blocked" THEN "STOP_BLOCKED"
    ELSE IF n > MaxAttempts \/ s > MaxStagnant THEN "STOP_FAILED"
    ELSE IF s = 0
         THEN CASE clue \in {"hypothesis", "systemic"} -> "REVISE_PLAN"
                [] clue = "context" -> "EXPAND_CONTEXT"
                [] clue = "model" -> "SWITCH_MODEL"
                [] OTHER -> "APPLY_SMALLER_PATCH"
    ELSE IF s <= 4 THEN Ladder[s] ELSE "STOP_FAILED"

Stops == {"STOP_BLOCKED", "STOP_FAILED"}

\* handle_failure: a model that failed twice is replaced, unless the action stops or rolls back.
Strategy(f, e, clue, n) ==
    LET a == Action(f, e, clue, n)
    IN IF modelFailures + 1 >= 2 /\ a \notin Stops \union {"ROLLBACK_TO_CHECKPOINT"}
       THEN "SWITCH_MODEL" ELSE a

Terminal(f, e, clue, n) ==
    IF Strategy(f, e, clue, n) \in Stops THEN Strategy(f, e, clue, n) ELSE "CONTINUE"

\* Faulty variant: a failure that comes with evidence seen before is not counted.
RememberedOnlyNew(f, e, byModel) ==
    /\ recoveryAttempts' = IF EvidenceChanged(f, e) THEN recoveryAttempts + 1 ELSE recoveryAttempts
    /\ lastEvidence' = [lastEvidence EXCEPT ![f] = e]
    /\ stagnant' = [stagnant EXCEPT ![f] = Stagnation(f, e)]
    /\ modelFailures' = IF byModel /\ modelFailures < 2 THEN modelFailures + 1 ELSE modelFailures

Remembered(f, e, byModel) ==
    /\ recoveryAttempts' = recoveryAttempts + 1
    /\ lastEvidence' = [lastEvidence EXCEPT ![f] = e]
    /\ stagnant' = [stagnant EXCEPT ![f] = Stagnation(f, e)]
    /\ modelFailures' = IF byModel /\ modelFailures < 2 THEN modelFailures + 1 ELSE modelFailures

-----------------------------------------------------------------------------
(* The sources of failures.                                                *)

\* A tool fails during a turn of the model, or the execution stage does; the answer is logged.
\* (The count stops being followed once it is beyond the limit.)
ToolFailure(f, e, byModel) ==
    /\ repairLoop.phase \in {"idle", "turn"}
    /\ recoveryAttempts <= MaxAttempts
    /\ Remembered(f, e, byModel)
    /\ sameEvidence' = [sameEvidence EXCEPT ![f] = IF EvidenceChanged(f, e) THEN 0 ELSE @]
    /\ UNCHANGED <<repairLoop, repairTurns, sessionTurns>>

\* _stage_repair: verification of a turn failed.
VerificationFails(f) ==
    /\ repairLoop.phase = "idle" /\ sessionTurns < MaxRepairTurns
    /\ sessionTurns' = sessionTurns + 1
    /\ repairLoop' = [Idle EXCEPT !.phase = "decide", !.iteration = 1, !.failure = f]
    /\ UNCHANGED <<recoveryAttempts, lastEvidence, stagnant, modelFailures, repairTurns,
                   sameEvidence>>

\* An iteration asks the controller first, and asks the model only if that does not stop it.
DecideRepair(e, clue) ==
    LET f == repairLoop.failure IN
    /\ repairLoop.phase = "decide"
    /\ Remembered(f, e, FALSE)
    /\ LET asked == IF Terminal(f, e, clue, recoveryAttempts + 1) = "CONTINUE" THEN 1 ELSE 0
       IN /\ repairLoop' = IF asked = 1 THEN [repairLoop EXCEPT !.phase = "turn"] ELSE Idle
          /\ repairTurns' = repairTurns + asked
          /\ sameEvidence' = [sameEvidence EXCEPT ![f] = asked + IF EvidenceChanged(f, e) THEN 0 ELSE @]
    /\ UNCHANGED sessionTurns

\* The time budget is looked at before each iteration.
TimeIsUp ==
    /\ repairLoop.phase = "decide"
    /\ repairLoop' = Idle
    /\ UNCHANGED <<recoveryAttempts, lastEvidence, stagnant, modelFailures, repairTurns,
                   sameEvidence, sessionTurns>>

\* The repair turn ends: with verified edits and checks the repair succeeded; otherwise the next
\* iteration works on what this one reported.
RepairTurnEnds(succeeded, f) ==
    /\ repairLoop.phase = "turn"
    /\ repairLoop' = IF succeeded \/ repairLoop.iteration = MaxIterations THEN Idle
               ELSE [phase |-> "decide", iteration |-> repairLoop.iteration + 1, failure |-> f]
    /\ UNCHANGED <<recoveryAttempts, lastEvidence, stagnant, modelFailures, repairTurns,
                   sameEvidence, sessionTurns>>

RecoveryNext ==
    \/ \E f \in Failures, e \in Evidence, byModel \in BOOLEAN : ToolFailure(f, e, byModel)
    \/ \E f \in Failures : VerificationFails(f)
    \/ \E e \in Evidence, clue \in Clues : DecideRepair(e, clue)
    \/ TimeIsUp
    \/ \E succeeded \in BOOLEAN, f \in Failures : RepairTurnEnds(succeeded, f)

RecoverySpec == RecoveryInit /\ [][RecoveryNext]_recoveryVars

-----------------------------------------------------------------------------
(* What recovery promises.                                                 *)

RecoveryTypeOK ==
    /\ recoveryAttempts \in Nat /\ repairTurns \in Nat /\ modelFailures \in 0..2
    /\ lastEvidence \in [Failures -> Evidence \union {"none"}]
    /\ stagnant \in [Failures -> Nat] /\ sameEvidence \in [Failures -> Nat]
    /\ repairLoop.phase \in {"idle", "decide", "turn"} /\ repairLoop.iteration \in 0..MaxIterations
    /\ sessionTurns \in 0..MaxRepairTurns

\* Retries are useful only when something changes: over the whole session, with failing tools and
\* other failures in between and across repair loops, the model is asked at most MaxAttempts times
\* for a repair, and at most once more than the ladder is long on one failure whose evidence stays.
RepairsWithinLimits ==
    /\ repairTurns <= MaxAttempts
    /\ \A f \in Failures : sameEvidence[f] <= MaxStagnant + 1

=============================================================================
