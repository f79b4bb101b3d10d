------------------------------ MODULE StagedChange ------------------------------
(***************************************************************************)
(* A coordinated change of several files (multifile/): the dependency      *)
(* graph over the planned files, the executor that applies them stage by   *)
(* stage with a verification after each, the artifacts it leaves for a     *)
(* later resume, the patch manager that writes a set of files and rolls    *)
(* back, and the handler that decides what to do after a failed stage.     *)
(* A file is only the version it holds (NoFile: it does not exist): 0 is   *)
(* what the plan was made from, 1 what the change writes, 2 a torn write,  *)
(* 3 what another program wrote.                                           *)
(***************************************************************************)
EXTENDS Integers, Sequences, FiniteSets, SequencesExt

CONSTANTS
    Paths,          \* the repository's files
    Plans,          \* the change sets executed
    ErrorTypes,     \* what RecoveryContext.error_type tells apart
    MaxExecutions,  \* executions of one plan in one run directory
    MaxForeignSteps,    \* steps of other programs
    MaxFaults,      \* failing file operations
    MaxKills        \* kills of the process

NoFile == -1
PathVersions == {NoFile, 0, 1, 2, 3}
MaxScopeExpansions == 3

\* The types of change that the default applier tells apart.
ChangeTypes == {"CREATE", "DELETE", "MODIFY"}

\* What the consistency validator can find wrong; its warnings (a package without its
\* __init__, a change without tests) block nothing.
Defects == {"UNEXPLAINED", "PROTECTED", "GENERATED", "STALE_CALLER", "STALE_IMPORT",
            "NO_MIGRATION"}

\* A change set: the planned files in order with their change type, the edges
\* <<producer, consumer>>, the stages, what is wrong with it, and whether an acceptance
\* criterion is a command.
StageStatus == {"PENDING", "IN_PROGRESS", "COMPLETED", "FAILED", "SKIPPED"}
PlanOK(p) ==
    /\ p.files \in Seq(Paths)
    /\ p.kind \in [Paths -> ChangeTypes]
    /\ p.edges \subseteq Paths \X Paths
    /\ p.stages \in Seq([paths : Seq(Paths), mandatory : BOOLEAN, commands : BOOLEAN])
    /\ p.defects \subseteq Defects
    /\ p.criteria \in BOOLEAN

ASSUME StagedAssumption ==
    /\ \A p \in Plans : PlanOK(p)
    /\ {MaxExecutions, MaxForeignSteps, MaxFaults, MaxKills} \subseteq Nat

VARIABLES
    plan,       \* the change set
    tree,       \* the repository: the version of each file
    scPc,       \* where the executor or the patch manager is
    stage,      \* the stage being executed (0: flat execution)
    todo,       \* the files still to apply, in order, in this stage
    status,     \* ChangeStage.status, one per stage
    checked,    \* stage.verification_passed, one per stage
    execOutcome,    \* ChangeSetExecutionResult.status
    appliedFiles,   \* the files applied by this execution, in order
    artifact,   \* stages/<id>.json: "none", "torn" or the status in it
    done,       \* stages that some execution completed (history)
    resume,     \* what prepare_resume answered
    backups,    \* apply_patch's backup
    expansions, strategies, decision,   \* the recovery handler
    executions, foreignSteps, faults, kills

execVars == <<scPc, stage, todo, status, checked, execOutcome, appliedFiles>>
handlerVars == <<expansions, strategies, decision>>
stagedCounters == <<executions, foreignSteps, faults, kills>>
stagedVars == <<plan, tree, execVars, artifact, done, resume, backups, handlerVars, stagedCounters>>

StageIds == DOMAIN plan.stages
Planned == ToSet(plan.files)

StagedTypeOK ==
    /\ plan \in Plans
    /\ tree \in [Paths -> PathVersions]
    /\ scPc \in {"idle", "apply", "verify", "persist", "final", "patch", "over"}
    /\ stage \in 0..Len(plan.stages)
    /\ todo \in Seq(Paths) /\ appliedFiles \in Seq(Paths)
    /\ status \in [StageIds -> StageStatus]
    /\ checked \in [StageIds -> BOOLEAN]
    /\ execOutcome \in {"none", "BLOCKED", "FAILED", "PARTIAL", "COMPLETED", "RAISED",
                    "REJECTED", "SUCCESS", "ROLLED_BACK"}
    /\ artifact \in [StageIds -> {"none", "torn", "COMPLETED"}]
    /\ done \subseteq StageIds
    /\ resume \in [safe : BOOLEAN, last : 0..Len(plan.stages)]
    /\ backups \in [Paths -> PathVersions]
    /\ expansions \in 0..MaxScopeExpansions
    /\ strategies \subseteq StageIds \X ErrorTypes
    /\ decision \in {"none", "ROLLBACK_STAGE", "ROLLBACK_FULL", "EXPAND_SCOPE",
                     "REVISE_DEPENDENCY_ORDER", "STOP_FAILED", "STOP_BLOCKED"}

Fresh(p) ==
    /\ status = [i \in DOMAIN p.stages |-> "PENDING"]
    /\ checked = [i \in DOMAIN p.stages |-> FALSE]

StagedInit ==
    /\ plan \in Plans
    /\ tree = [f \in Paths |-> IF plan.kind[f] = "CREATE" THEN NoFile ELSE 0]
    /\ scPc = "idle" /\ stage = 0 /\ todo = <<>> /\ appliedFiles = <<>>
    /\ Fresh(plan)
    /\ execOutcome = "none"
    /\ artifact = [i \in StageIds |-> "none"]
    /\ done = {}
    /\ resume = [safe |-> FALSE, last |-> 0]
    /\ backups = [f \in Paths |-> NoFile]
    /\ expansions = 0 /\ strategies = {} /\ decision = "none"
    /\ executions = 0 /\ foreignSteps = 0 /\ faults = 0 /\ kills = 0

-----------------------------------------------------------------------------
(* The dependency graph (graph.py). *)

\* detect_cycles: a file that reaches itself through the edges.
Reaches(f, g) ==
    \E n \in 2..(Cardinality(Paths) + 1) : \E walk \in [1..n -> Paths] :
        /\ walk[1] = f /\ walk[n] = g
        /\ \A k \in 1..(n - 1) : <<walk[k], walk[k + 1]>> \in plan.edges

HasCycle == \E f \in Planned : Reaches(f, f)

\* topological_sort raises on a cycle, and also when an edge starts at a file that is
\* not planned: nothing ever lowers the in-degree that such an edge adds.
Sortable ==
    /\ ~HasCycle
    /\ \A e \in plan.edges : e[2] \in Planned => e[1] \in Planned

Respects(order) ==
    \A i, j \in DOMAIN order : <<order[i], order[j]>> \in plan.edges => i < j

TopologicalSorts == {order \in SetToSeqs(Planned) : Respects(order)}

\* build_graph raises DependencyConflictError, which execute does not catch.
Duplicated == Cardinality(Planned) < Len(plan.files)

-----------------------------------------------------------------------------
(* StagedChangeSetExecutor. *)

\* The stage that follows, or the end of the loop in _execute_staged: FAILED stays when
\* only optional stages failed, and final verification follows COMPLETED alone.
EnterStage(n, st) ==
    IF n <= Len(plan.stages)
    THEN /\ stage' = n
         /\ status' = [st EXCEPT ![n] = "IN_PROGRESS"]
         /\ todo' = SelectSeq(plan.stages[n].paths, LAMBDA f : f \in Planned)
         /\ scPc' = "apply"
         /\ UNCHANGED execOutcome
    ELSE /\ status' = st /\ todo' = <<>>
         /\ stage' = 0
         /\ IF \E i \in StageIds : st[i] = "FAILED"
            THEN scPc' = "over" /\ UNCHANGED execOutcome
            ELSE scPc' = "final" /\ execOutcome' = "COMPLETED"

\* execute: the snapshot check only looks whether an identifier is there; the
\* consistency validator may refuse; graph.validate() returns its errors and nobody
\* reads them, so only flat execution, which sorts, refuses a cycle.
Execute ==
    /\ scPc \in {"idle", "over"}
    /\ executions < MaxExecutions
    /\ executions' = executions + 1
    /\ appliedFiles' = <<>>
    /\ checked' = [i \in StageIds |-> FALSE]
    /\ LET fresh == [i \in StageIds |-> "PENDING"]
       IN \/ /\ plan.defects = {} /\ ~Duplicated /\ plan.stages # <<>>
             /\ stage' = 1 /\ execOutcome' = "FAILED" /\ scPc' = "apply"
             /\ status' = [fresh EXCEPT ![1] = "IN_PROGRESS"]
             /\ todo' = SelectSeq(plan.stages[1].paths, LAMBDA f : f \in Planned)
          \/ /\ plan.defects = {} /\ ~Duplicated /\ plan.stages = <<>> /\ Sortable
             /\ stage' = 0 /\ execOutcome' = "FAILED" /\ scPc' = "apply"
             /\ status' = fresh
             /\ todo' \in TopologicalSorts
          \/ /\ plan.defects # {} \/ Duplicated \/ (plan.stages = <<>> /\ ~Sortable)
             /\ stage' = 0 /\ status' = fresh /\ todo' = <<>> /\ scPc' = "over"
             /\ execOutcome' = IF plan.defects = {} /\ Duplicated THEN "RAISED" ELSE "BLOCKED"
    /\ UNCHANGED <<plan, tree, artifact, done, resume, backups, handlerVars, foreignSteps, faults,
                   kills>>

\* _default_patch_applier: CREATE makes an empty file unless one is there, DELETE
\* unlinks, every other type only looks whether the file exists.
AfterApply(f) ==
    CASE plan.kind[f] = "CREATE" -> IF tree[f] = NoFile THEN 1 ELSE tree[f]
      [] plan.kind[f] = "DELETE" -> NoFile
      [] OTHER -> tree[f]
Refused(f) == plan.kind[f] = "MODIFY" /\ tree[f] = NoFile

ApplyFile ==
    /\ scPc = "apply" /\ todo # <<>>
    /\ ~Refused(Head(todo))
    /\ tree' = [tree EXCEPT ![Head(todo)] = AfterApply(Head(todo))]
    /\ appliedFiles' = Append(appliedFiles, Head(todo))
    /\ todo' = Tail(todo)
    /\ UNCHANGED <<plan, scPc, stage, status, checked, execOutcome, artifact, done, resume, backups,
                   handlerVars, stagedCounters>>

\* A failing file ends its stage; a mandatory stage takes all later ones with it.
FailStage ==
    LET st == [status EXCEPT ![stage] = "FAILED"]
    IN IF plan.stages[stage].mandatory
       THEN /\ status' = [i \in StageIds |-> IF i > stage THEN "SKIPPED" ELSE st[i]]
            /\ execOutcome' = "PARTIAL" /\ scPc' = "over" /\ stage' = 0 /\ todo' = <<>>
       ELSE EnterStage(stage + 1, st)

ApplyFails ==
    /\ scPc = "apply" /\ todo # <<>>
    /\ \/ Refused(Head(todo)) /\ UNCHANGED faults
       \/ faults < MaxFaults /\ faults' = faults + 1
    /\ IF stage = 0
       THEN /\ execOutcome' = "PARTIAL" /\ scPc' = "over" /\ todo' = <<>>
            /\ UNCHANGED <<stage, status>>
       ELSE FailStage
    /\ UNCHANGED <<plan, tree, checked, appliedFiles, artifact, done, resume, backups, handlerVars,
                   executions, foreignSteps, kills>>

\* Faulty variant: the artifact is written before the verification has run.
FilesAppliedSavesEarly ==
    /\ scPc = "apply" /\ todo = <<>>
    /\ IF stage = 0
       THEN execOutcome' = "COMPLETED" /\ scPc' = "final" /\ UNCHANGED artifact
       ELSE /\ scPc' = IF plan.stages[stage].commands THEN "verify" ELSE "persist"
            /\ artifact' = [artifact EXCEPT ![stage] = "COMPLETED"]
            /\ UNCHANGED execOutcome
    /\ UNCHANGED <<plan, tree, stage, todo, status, checked, appliedFiles, done, resume,
                   backups, handlerVars, stagedCounters>>

\* The files of a stage are all applied; without stages the execution is complete.
FilesApplied ==
    /\ scPc = "apply" /\ todo = <<>>
    /\ IF stage = 0
       THEN execOutcome' = "COMPLETED" /\ scPc' = "final"
       ELSE /\ scPc' = IF plan.stages[stage].commands THEN "verify" ELSE "persist"
            /\ UNCHANGED execOutcome
    /\ UNCHANGED <<plan, tree, stage, todo, status, checked, appliedFiles, artifact, done, resume,
                   backups, handlerVars, stagedCounters>>

\* IntermediateVerifier.verify: a failure stops a mandatory stage only.
VerifyStage(passed) ==
    /\ scPc = "verify"
    /\ checked' = [checked EXCEPT ![stage] = passed]
    /\ IF ~passed /\ plan.stages[stage].mandatory
       THEN FailStage
       ELSE scPc' = "persist" /\ UNCHANGED <<stage, todo, status, execOutcome>>
    /\ UNCHANGED <<plan, tree, appliedFiles, artifact, done, resume, backups, handlerVars,
                   stagedCounters>>

\* The stage is COMPLETED and _persist_stage writes its artifact; an OSError is logged
\* and forgotten, the old artifact may be left torn or as it was.
PersistStage ==
    /\ scPc = "persist"
    /\ done' = done \union {stage}
    /\ \/ artifact' = [artifact EXCEPT ![stage] = "COMPLETED"] /\ UNCHANGED faults
       \/ /\ faults < MaxFaults /\ faults' = faults + 1
          /\ \E left \in {"torn", artifact[stage]} :
                artifact' = [artifact EXCEPT ![stage] = left]
    /\ EnterStage(stage + 1, [status EXCEPT ![stage] = "COMPLETED"])
    /\ UNCHANGED <<plan, tree, checked, appliedFiles, resume, backups, handlerVars, executions,
                   foreignSteps, kills>>

\* _run_final_verification: a criterion that is no command passes.
FinalVerification(passed) ==
    /\ scPc = "final"
    /\ plan.criteria \/ passed
    /\ execOutcome' = IF passed THEN "COMPLETED" ELSE "PARTIAL"
    /\ scPc' = "over"
    /\ UNCHANGED <<plan, tree, stage, todo, status, checked, appliedFiles, artifact, done, resume,
                   backups, handlerVars, stagedCounters>>

-----------------------------------------------------------------------------
(* MultiFilePatchManager.apply_patch on every planned file. *)

\* validate_patch: a file whose hash is not the planned one is a conflict; the files
\* are then written in dependency order.
StartPatch ==
    /\ scPc \in {"idle", "over"}
    /\ executions < MaxExecutions
    /\ executions' = executions + 1
    /\ backups' = [f \in Paths |-> NoFile]
    /\ appliedFiles' = <<>>
    /\ status' = [i \in StageIds |-> "PENDING"]
    /\ IF Sortable /\ ~Duplicated /\ \A f \in Planned : tree[f] \in {0, NoFile}
       THEN scPc' = "patch" /\ execOutcome' = "none" /\ todo' \in TopologicalSorts
       ELSE scPc' = "over" /\ execOutcome' = "REJECTED" /\ todo' = <<>>
    /\ UNCHANGED <<plan, tree, stage, checked, artifact, done, resume, handlerVars, foreignSteps,
                   faults, kills>>

PatchFile ==
    /\ scPc = "patch" /\ todo # <<>>
    /\ LET f == Head(todo)
       IN /\ backups' = [backups EXCEPT ![f] = tree[f]]
          /\ tree' = [tree EXCEPT ![f] = IF plan.kind[f] = "DELETE" THEN NoFile ELSE 1]
          /\ appliedFiles' = Append(appliedFiles, f)
    /\ todo' = Tail(todo)
    /\ IF Tail(todo) = <<>>
       THEN execOutcome' = "SUCCESS" /\ scPc' = "over"
       ELSE UNCHANGED <<execOutcome, scPc>>
    /\ UNCHANGED <<plan, stage, status, checked, artifact, done, resume, handlerVars,
                   stagedCounters>>

\* A write fails, possibly after open() truncated the file. _rollback restores what
\* "applied" lists, and the failing file is not in it.
PutBack(writtenFiles, t) ==
    [f \in Paths |-> IF f \in writtenFiles THEN backups[f] ELSE t[f]]

PatchFails ==
    /\ scPc = "patch" /\ todo # <<>>
    /\ faults < MaxFaults /\ faults' = faults + 1
    /\ \E torn \in BOOLEAN :
          tree' = PutBack(ToSet(appliedFiles),
                           [tree EXCEPT ![Head(todo)] = IF torn THEN 2 ELSE @])
    /\ execOutcome' = "ROLLED_BACK" /\ scPc' = "over"
    /\ backups' = [backups EXCEPT ![Head(todo)] = tree[Head(todo)]]
    /\ UNCHANGED <<plan, stage, todo, status, checked, appliedFiles, artifact, done, resume,
                   handlerVars, executions, foreignSteps, kills>>

-----------------------------------------------------------------------------
(* Resume, recovery, and the environment. *)

\* prepare_resume walks the stages in order and stops at the first whose artifact is
\* missing, torn or not COMPLETED.
LastSafe ==
    LET good == {n \in 0..Len(plan.stages) : \A i \in 1..n : artifact[i] = "COMPLETED"}
    IN CHOOSE n \in good : \A m \in good : m <= n

\* Its only look at the repository is whether the files of completed stages exist.
PrepareResume ==
    /\ scPc = "idle"
    /\ resume' = IF \E i \in StageIds : artifact[i] = "COMPLETED"
                        /\ \E f \in ToSet(plan.stages[i].paths) : tree[f] = NoFile
                 THEN [safe |-> FALSE, last |-> 0]
                 ELSE [safe |-> TRUE, last |-> LastSafe]
    /\ UNCHANGED <<plan, tree, execVars, artifact, done, backups, handlerVars, stagedCounters>>

\* handle_stage_failure: the same error in the same stage a second time stops; a file
\* that carries symbols makes the state untrustworthy; a missed caller widens the scope.
HandleStageFailure(i, err, partialSymbols, missed) ==
    /\ scPc = "over" /\ execOutcome = "PARTIAL" /\ status[i] = "FAILED"
    /\ strategies' = strategies \union {<<i, err>>}
    /\ decision' =
          CASE <<i, err>> \in strategies -> "STOP_FAILED"
            [] <<i, err>> \notin strategies /\ partialSymbols -> "ROLLBACK_FULL"
            [] OTHER ->
                 IF missed \/ err = "TYPE"
                 THEN IF expansions >= MaxScopeExpansions THEN "STOP_FAILED" ELSE "EXPAND_SCOPE"
                 ELSE IF err = "IMPORT" THEN "REVISE_DEPENDENCY_ORDER" ELSE "ROLLBACK_STAGE"
    /\ expansions' = IF decision' = "EXPAND_SCOPE" THEN expansions + 1 ELSE expansions
    /\ scPc' = "idle"
    /\ UNCHANGED <<plan, tree, stage, todo, status, checked, execOutcome, appliedFiles, artifact,
                   done, resume, backups, stagedCounters>>

\* handle_consistency_failure: stale imports stop; a missing caller or migration asks for
\* a wider scope; anything else stops as well.
HandleConsistencyFailure ==
    /\ scPc = "over" /\ execOutcome = "BLOCKED" /\ plan.defects # {}
    /\ decision' = IF "STALE_IMPORT" \notin plan.defects
                      /\ plan.defects \intersect {"STALE_CALLER", "NO_MIGRATION"} # {}
                   THEN "EXPAND_SCOPE" ELSE "STOP_BLOCKED"
    /\ scPc' = "idle"
    /\ UNCHANGED <<plan, tree, stage, todo, status, checked, execOutcome, appliedFiles, artifact,
                   done, resume, backups, expansions, strategies, stagedCounters>>

\* Another program creates, deletes or rewrites a file.
Foreign(f, v) ==
    /\ foreignSteps < MaxForeignSteps /\ foreignSteps' = foreignSteps + 1
    /\ v # tree[f]
    /\ tree' = [tree EXCEPT ![f] = v]
    /\ UNCHANGED <<plan, execVars, artifact, done, resume, backups, handlerVars, executions, faults,
                   kills>>

\* A kill: what is in memory is gone; a file or an artifact being written may be torn.
Kill ==
    /\ scPc \notin {"idle"}
    /\ kills < MaxKills /\ kills' = kills + 1
    /\ \/ scPc = "patch" /\ todo # <<>> /\ tree' = [tree EXCEPT ![Head(todo)] = 2]
          /\ UNCHANGED artifact
       \/ scPc = "persist" /\ artifact' = [artifact EXCEPT ![stage] = "torn"] /\ UNCHANGED tree
       \/ UNCHANGED <<tree, artifact>>
    /\ scPc' = "idle" /\ stage' = 0 /\ todo' = <<>> /\ appliedFiles' = <<>>
    /\ status' = [i \in StageIds |-> "PENDING"]
    /\ checked' = [i \in StageIds |-> FALSE]
    /\ execOutcome' = "none"
    /\ backups' = [f \in Paths |-> NoFile]
    /\ expansions' = 0 /\ strategies' = {} /\ decision' = "none"
    /\ UNCHANGED <<plan, done, resume, executions, foreignSteps, faults>>

StagedNext ==
    \/ Execute
    \/ ApplyFile
    \/ ApplyFails
    \/ FilesApplied
    \/ \E passed \in BOOLEAN : VerifyStage(passed)
    \/ PersistStage
    \/ \E passed \in BOOLEAN : FinalVerification(passed)
    \/ StartPatch
    \/ PatchFile
    \/ PatchFails
    \/ PrepareResume
    \/ \E i \in StageIds, err \in ErrorTypes, symbols, missed \in BOOLEAN :
          HandleStageFailure(i, err, symbols, missed)
    \/ HandleConsistencyFailure
    \/ \E f \in Paths, v \in {NoFile, 3} : Foreign(f, v)
    \/ Kill

StagedSpec == StagedInit /\ [][StagedNext]_stagedVars

-----------------------------------------------------------------------------
(* Properties *)

\* A stage that a resume calls safe (with every stage before it) was completed by some
\* execution: its files were applied and, if it is mandatory, its commands passed, however
\* executions failed, were killed or could not write their artifacts in between.
ResumeAfterCompleted == \A i \in 1..resume.last : resume.safe => i \in done

\* An execution never says COMPLETED over a failed stage, nor over a mandatory stage whose commands
\* failed.
CompletedPassed ==
    execOutcome = "COMPLETED" =>
        \A i \in StageIds :
            /\ status[i] = "COMPLETED"
            /\ plan.stages[i].mandatory /\ plan.stages[i].commands => checked[i]

\* Files of a stage behind a failed mandatory one are not touched by it.
StopsAtFailure ==
    \A j, i \in StageIds :
        j < i /\ plan.stages[j].mandatory /\ status[j] = "FAILED" =>
            \A f \in ToSet(plan.stages[i].paths) \intersect ToSet(appliedFiles) :
                \E k \in 1..(i - 1) : f \in ToSet(plan.stages[k].paths)

\* apply_patch that reports a rollback has put back every file that it had written (a foreign
\* write may still hit a file afterwards); the file whose write failed is not among them.
PatchRolledBack ==
    execOutcome = "ROLLED_BACK" /\ foreignSteps = 0 =>
        \A f \in ToSet(appliedFiles) : tree[f] = backups[f]

\* What a staged change reports is so: a resume skips completed stages alone, COMPLETED means that
\* every gate passed, and a rollback has put the written files back.
StagesHonest == ResumeAfterCompleted /\ CompletedPassed /\ PatchRolledBack

\* staged_execution.py:7 "dependency-ordered patch application" and :186 "raises on
\* cycles/conflicts": an execution applies no file before one that it depends on.
DependencyOrder == Respects(appliedFiles)

\* patch.py:12 "Atomic rollback on any failure within a patch application": after a failed
\* application every file is what it was before. (The file whose write failed need not be: see
\* PatchRolledBack.)
RollbackIsAtomic ==
    execOutcome = "ROLLED_BACK" /\ foreignSteps = 0 => \A f \in Planned : tree[f] # 2
=================================================================================
