------------------------------ MODULE VerifiedTurn ------------------------------
(***************************************************************************)
(* One turn through the pipeline (nexus/pipeline.py) on the hosted route   *)
(* and the report that ends it (nexus/run_finalizer.py): execution,        *)
(* verification, repair, independent review, the semantic check and the    *)
(* finalizer, which judges the records that the turn left in the evidence  *)
(* log.  The log and the isolated workspace outlive a turn; edits held for *)
(* approval are decided between turns.                                     *)
(* An evidence record keeps what the judges look at: its kind, what it is  *)
(* about, its status, and the workspace revision at which it was made.  A  *)
(* revision is a number: every applied edit makes a new one.               *)
(***************************************************************************)
EXTENDS Naturals, Sequences

CONSTANTS
    Sources,        \* what edits are about
    Commands,       \* shell commands of the model
    Tasks,          \* subset of {"change", "planned", "operation", "question"}
    Policies,       \* get_mode_policy, for the modes of interest
    MaxSessionTurns,\* bound: turns of the session
    MaxModelSteps,  \* bound: edits, commands and tests of the model in the session
    MaxRepairs      \* bound: repair iterations in the session

VARIABLES
    policy,     \* ModePolicy: [apply, review], and whether the project has a test suite
    stage,      \* where the pipeline is
    task,       \* the task of the current turn
    briefed,    \* the task EngineeringBrain.prepare was last called for, "none"
    trail,      \* EvidenceLog.records()
    start,      \* Agent._turn_evidence_start
    edited,     \* how many edits history holds since _run_history_start
    held,       \* _pending_edits
    toolFailed, \* the last edit of the execution stage failed
    revs,       \* workspace_revision: [now, base of the turn, newest]
    source,     \* the revision in the source repository, and _workspace_applied
    report,     \* the last final report: [status, rev, edited, by]
    turn, modelSteps, repairs,
    suite,      \* bookkeeping: the last run of the whole suite: [rev, ok]
    reviewed,   \* bookkeeping: the revision the reviewer last approved
    vouched     \* bookkeeping: the revisions of turns with edits reported VERIFIED

verifyVars == <<policy, stage, task, briefed, trail, start, edited, held, toolFailed, revs, source,
          report, turn, modelSteps, repairs, suite, reviewed, vouched>>

work == <<trail, revs, edited, held, suite>>
session == <<policy, turn, task, briefed, start>>

Never == [rev |-> 0, ok |-> FALSE]
NoReport == [status |-> "none", rev |-> 0, edited |-> FALSE, by |-> "nobody"]
ASSUME VerifyAssumption == Policies \subseteq [apply : BOOLEAN, review : BOOLEAN, tests : BOOLEAN]

VerifyInit ==
    /\ policy \in Policies
    /\ stage = "idle" /\ task = "question" /\ briefed = "none"
    /\ trail = <<>> /\ start = 0 /\ edited = 0 /\ held = 0 /\ toolFailed = FALSE
    /\ revs = [now |-> 1, base |-> 1, newest |-> 1]
    /\ source = [rev |-> 1, applied |-> FALSE] /\ report = NoReport
    /\ turn = 0 /\ modelSteps = 0 /\ repairs = 0
    /\ suite = Never /\ reviewed = 0 /\ vouched = {}

Entry(kind, about, status, r) == [kind |-> kind, about |-> about, status |-> status, rev |-> r]
Status(ok) == IF ok THEN "verified" ELSE "failed"

-----------------------------------------------------------------------------
(* What the judges read out of the records of a log behind a position. *)

Of(log, from, kind) == {i \in from + 1..Len(log) : log[i].kind = kind}
Verified(log, records) == {i \in records : log[i].status = "verified"}

\* The latest record of each thing that records are about.
Latest(log, records) ==
    {i \in records : \A j \in records : j > i => log[j].about # log[i].about}

\* effective_verification_evidence: a full pass covers the narrow runs at its revision.
CurrentChecks(log, from) ==
    LET latest == Latest(log, Of(log, from, "check"))
        covered(i) == /\ log[i].about = "narrow"
                      /\ \E j \in latest : /\ log[j].about = "suite" /\ log[j].status = "verified"
                                           /\ log[j].rev = log[i].rev
    IN {i \in latest : ~covered(i)}

CurrentMutations(log, from) == Latest(log, Of(log, from, "mutation"))

\* Faulty variant: a passing check counts for every later revision.
BoundToAny(log, records, r) == records

\* Checks count for the revision at which they ran.
BoundTo(log, records, r) == {i \in records : log[i].rev = r}

-----------------------------------------------------------------------------
(* SemanticVerifier.verify, on the records of this turn. *)

SemanticFailures ==
    \/ \E i \in CurrentChecks(trail, start) : trail[i].status = "failed"
    \/ \E i \in start + 1..Len(trail) :
           trail[i].kind \in {"behaviour", "review"} /\ trail[i].status = "failed"

SemanticStatus ==
    LET passed == Verified(trail, CurrentChecks(trail, start))
        stale == \E i \in passed : trail[i].rev # revs.now
        changed == edited > 0 \/ Verified(trail, Of(trail, start, "mutation")) # {}
    IN IF SemanticFailures \/ stale THEN "FAILED"
       ELSE IF \/ briefed # "question" /\ ~changed
               \/ briefed # "question" /\ BoundTo(trail, passed, revs.now) = {}
               \/ policy.review /\ changed /\ Verified(trail, Of(trail, start, "review")) = {}
               \/ task = "planned"
       THEN "PARTIAL" ELSE "VERIFIED"

-----------------------------------------------------------------------------
(* RunFinalizer.finish judges the whole log: the attribute it takes the start of the turn from is *)
(* set on the agent only. *)

FinalStart == 0

PassingChecks == Verified(trail, BoundTo(trail, CurrentChecks(trail, FinalStart), revs.now))
PassingBehaviour == Verified(trail, Of(trail, FinalStart, "behaviour"))
PassedCommand(name) == \E i \in DOMAIN trail : trail[i] = Entry("command", name, "verified", 0)

\* A failure counts unless the same thing succeeded later (a command: at any time).
FailedEvidence ==
    LET behaviour == Of(trail, FinalStart, "behaviour")
        current == BoundTo(trail, CurrentChecks(trail, FinalStart), revs.now)
                   \union CurrentMutations(trail, FinalStart)
                   \union {i \in behaviour : \A j \in behaviour : j <= i}
    IN \/ \E i \in current : trail[i].status = "failed"
       \/ \E i \in DOMAIN trail :
             /\ trail[i].status = "failed"
             /\ \/ trail[i].kind \in {"semantic", "completion", "apply"}
                \/ trail[i].kind = "command" /\ ~PassedCommand(trail[i].about)

ObjectiveMet ==
    CASE task = "question" -> TRUE
      [] task = "operation" -> \/ PassingChecks # {} \/ PassingBehaviour # {}
                               \/ \E name \in Commands : PassedCommand(name)
      [] OTHER -> /\ Verified(trail, CurrentMutations(trail, FinalStart)) # {}
                  /\ PassingChecks # {} \/ PassingBehaviour # {}
                  /\ Verified(trail, Of(trail, FinalStart, "review")) # {}

MutationsFingerprinted ==
    LET mutations == Of(trail, FinalStart, "mutation")
    IN mutations = Verified(trail, mutations) /\ (mutations = {} => task = "question")

SuitePassed == \E i \in PassingChecks : trail[i].about = "suite"

\* The criteria of the task; those a plan adds have no evidence that could satisfy them.
CriteriaMet ==
    /\ ObjectiveMet /\ MutationsFingerprinted
    /\ policy.tests /\ (edited > 0 \/ task \notin {"question", "operation"}) => SuitePassed
    /\ task # "planned"

Progress == Verified(trail, CurrentMutations(trail, FinalStart)) # {} \/ PassingChecks # {}

Judged(toolFailures) ==
    IF held > 0 THEN "AWAITING_APPROVAL"
    ELSE IF FailedEvidence \/ toolFailures THEN IF Progress THEN "PARTIAL" ELSE "FAILED"
    ELSE IF CriteriaMet THEN "VERIFIED"
    ELSE IF Progress THEN "PARTIAL" ELSE "UNVERIFIED"

\* The report, with what follows a VERIFIED one: the completion contract may object, and then the
\* workspace is applied.  complete and applies are what these two answer; a semantic check that
\* was not satisfied lowers the status of the report afterwards.
Finish(override, semantic, toolFailures, complete, applies, by) ==
    LET judged == IF override # "none" THEN override ELSE Judged(toolFailures)
        verified == judged = "VERIFIED"
        apply == verified /\ complete /\ policy.apply /\ ~source.applied
        merge == apply /\ source.rev # revs.now
        extra == IF verified /\ ~complete THEN <<Entry("completion", "contract", "failed", 0)>>
                 ELSE IF merge THEN <<Entry("apply", "workspace", Status(applies), 0)>>
                 ELSE <<>>
        status == IF verified /\ ~complete THEN "PARTIAL"
                  ELSE IF merge /\ ~applies THEN "FAILED"
                  ELSE IF verified /\ semantic = "PARTIAL" THEN "PARTIAL" ELSE judged
        sem == IF semantic = "none" THEN <<>>
               ELSE <<Entry("semantic", "brain",
                             IF semantic = "PARTIAL" THEN "unverified"
                             ELSE Status(semantic = "VERIFIED"), 0)>>
    IN /\ trail' = trail \o sem \o extra
       /\ source' = [rev |-> IF merge /\ applies THEN revs.now ELSE source.rev,
                     applied |-> source.applied \/ (apply /\ (~merge \/ applies))]
       /\ report' = [status |-> status, rev |-> revs.now, edited |-> edited > 0, by |-> by]
       /\ vouched' = vouched \union (IF status = "VERIFIED" /\ edited > 0 THEN {revs.now} ELSE {})

-----------------------------------------------------------------------------
(* Steps. *)

BeginTurn(t) ==
    /\ stage = "idle" /\ turn < MaxSessionTurns
    /\ stage' = "execute" /\ turn' = turn + 1 /\ task' = t
    /\ briefed' = IF t # "question" \/ briefed = "none" THEN t ELSE briefed
    /\ start' = Len(trail) /\ edited' = 0 /\ toolFailed' = FALSE
    /\ revs' = [revs EXCEPT !.base = revs.now] /\ report' = NoReport
    /\ UNCHANGED <<policy, trail, held, source, modelSteps, repairs, suite,
                   reviewed, vouched>>

Working == stage \in {"execute", "resumed"} /\ modelSteps < MaxModelSteps

\* An edit tool writes, or fails; where edits are reviewed, it is only held.
Written == [now |-> revs.newest + 1, base |-> revs.base, newest |-> revs.newest + 1]
Edited(f, ok) ==
    /\ trail' = Append(trail, Entry("mutation", f, Status(ok), 0))
    /\ revs' = IF ok THEN Written ELSE revs
    /\ edited' = IF ok THEN edited + 1 ELSE edited

Edit(f, ok) ==
    /\ Working /\ ~policy.review
    /\ Edited(f, ok)
    /\ toolFailed' = ~ok /\ modelSteps' = modelSteps + 1
    /\ UNCHANGED <<session, stage, held, source, report, repairs, suite, reviewed, vouched>>

HoldEdit ==
    /\ Working /\ held = 0
    /\ held' = held + 1 /\ modelSteps' = modelSteps + 1
    /\ UNCHANGED <<session, stage, trail, edited, toolFailed, revs, source, report, repairs, suite,
                   reviewed, vouched>>

\* A command or a behavioural tool of the model leaves a record.
Observe(kind, about, ok) ==
    /\ Working
    /\ trail' = Append(trail, Entry(kind, about, Status(ok), 0))
    /\ modelSteps' = modelSteps + 1
    /\ UNCHANGED <<session, stage, edited, held, toolFailed, revs, source, report, repairs, suite,
                   reviewed, vouched>>

\* The execution stage fails as a whole: a provider error, a blocked answer, a failed plan step.
ExecutionFails ==
    /\ stage = "execute"
    /\ Finish("FAILED", "none", FALSE, TRUE, TRUE, "pipeline")
    /\ stage' = "idle"
    /\ UNCHANGED <<session, edited, held, toolFailed, revs, modelSteps, repairs, suite, reviewed>>

\* A turn that waits for approval ends here and is reported as such.
ExecutionPauses ==
    /\ stage = "execute" /\ held > 0
    /\ Finish("AWAITING_APPROVAL", "none", FALSE, TRUE, TRUE, "pipeline")
    /\ stage' = "idle"
    /\ UNCHANGED <<session, edited, held, toolFailed, revs, modelSteps, repairs, suite, reviewed>>

ExecutionEnds ==
    /\ stage = "execute" /\ held = 0
    /\ stage' = "verify"
    /\ UNCHANGED <<session, work, toolFailed, source, report, modelSteps, repairs, reviewed,
                   vouched>>

\* The suite of the verifier: a narrow run on the impacted tests first, which alone is recorded
\* when it fails; then the whole gate.
Gate == IF policy.tests THEN "suite" ELSE "static"
SuiteReport(narrow, ok, r) ==
    CASE narrow = "failed" -> <<Entry("check", "narrow", "failed", r)>>
      [] narrow = "passed" -> <<Entry("check", "narrow", "verified", r),
                                Entry("check", Gate, Status(ok), r)>>
      [] OTHER -> <<Entry("check", Gate, Status(ok), r)>>
Ran(narrow, ok, r) == IF policy.tests /\ narrow # "failed" THEN [rev |-> r, ok |-> ok] ELSE suite

AllVerified(log, from) ==
    /\ CurrentMutations(log, from) = Verified(log, CurrentMutations(log, from))
    /\ CurrentChecks(log, from) # {}
    /\ CurrentChecks(log, from) = Verified(log, CurrentChecks(log, from))

\* Where a stage that succeeded or failed leads; a repaired turn is verified once more, and a
\* failing review may call for a repair once.
AfterVerify(ok) ==
    IF ok THEN IF stage = "verify last" THEN "review last" ELSE "review"
    ELSE IF stage = "verify" THEN "repair" ELSE "judge"

\* _stage_verification: it runs the suite only while the turn has no check of the engine.
Verify(narrow, ok) ==
    LET edits == Of(trail, start, "mutation") # {}
        needed == edits /\ Of(trail, start, "check") = {}
    IN /\ stage \in {"verify", "verify again", "verify last"}
       /\ needed \/ (narrow = "none" /\ ok)
       /\ trail' = IF needed THEN trail \o SuiteReport(narrow, ok, revs.now) ELSE trail
       /\ suite' = IF needed THEN Ran(narrow, ok, revs.now) ELSE suite
       /\ stage' = AfterVerify(~edits \/ AllVerified(trail', start))
       /\ UNCHANGED <<session, edited, held, toolFailed, revs, source, report, modelSteps, repairs,
                      reviewed, vouched>>

Repairing == stage \in {"repair", "repair review"}
Resumes == IF stage = "repair" THEN "verify again" ELSE "verify last"

\* An iteration of RepairLoop.run: the model edits, and the suite runs when every edit verified.
RepairEdits(f, ok, narrow, passes) ==
    /\ Repairing /\ repairs < MaxRepairs /\ ~policy.review
    /\ repairs' = repairs + 1
    /\ ok \/ (narrow = "none" /\ passes)
    /\ revs' = IF ok THEN Written ELSE revs
    /\ edited' = IF ok THEN edited + 1 ELSE edited
    /\ trail' = trail \o <<Entry("mutation", f, Status(ok), 0)>>
                     \o IF ok THEN SuiteReport(narrow, passes, revs'.now) ELSE <<>>
    /\ suite' = IF ok THEN Ran(narrow, passes, revs'.now) ELSE suite
    /\ stage' = IF ok /\ passes /\ narrow # "failed" THEN Resumes ELSE stage
    /\ UNCHANGED <<session, held, toolFailed, source, report, modelSteps, reviewed, vouched>>

\* No iteration succeeded: the budget, the recovery controller or the clock ends the loop.
RepairGivesUp ==
    /\ Repairing
    /\ stage' = "judge"
    /\ UNCHANGED <<session, work, toolFailed, source, report, modelSteps, repairs, reviewed,
                   vouched>>

\* _run_independent_review: nothing to do without edits, or after an approval in this turn.
Review(approves) ==
    LET needed == /\ Of(trail, start, "mutation") # {}
                  /\ Verified(trail, Of(trail, start, "review")) = {}
    IN /\ stage \in {"review", "review last"}
       /\ needed \/ approves
       /\ trail' = IF needed THEN Append(trail, Entry("review", "diff", Status(approves), 0))
                      ELSE trail
       /\ reviewed' = IF needed /\ approves THEN revs.now ELSE reviewed
       /\ stage' = IF approves \/ stage = "review last" THEN "judge" ELSE "repair review"
       /\ UNCHANGED <<session, edited, held, toolFailed, revs, source, report, modelSteps, repairs,
                      suite, vouched>>

\* Stages 9 and 10: the semantic check, then the report.
JudgeTurn(complete, applies) ==
    /\ stage = "judge"
    /\ LET semantic == SemanticStatus
       IN Finish(IF semantic = "FAILED" THEN "FAILED" ELSE "none", semantic, toolFailed,
                 complete, applies, "pipeline")
    /\ stage' = "idle"
    /\ UNCHANGED <<session, edited, held, toolFailed, revs, modelSteps, repairs, suite, reviewed>>

\* The user decides on a held edit; the report is made again, by the finalizer alone.
DecideHeld(f, how) ==
    /\ stage = "idle" /\ held > 0
    /\ held' = held - 1
    /\ stage' = "decided"
    /\ IF how = "reject" THEN UNCHANGED <<trail, revs, edited>> ELSE Edited(f, how = "apply")
    /\ UNCHANGED <<session, toolFailed, source, report, modelSteps, repairs, suite, reviewed,
                   vouched>>

RefreshReport(complete, applies) ==
    /\ stage = "decided"
    /\ Finish("none", "none", FALSE, complete, applies, "approval")
    /\ stage' = "resumed"
    /\ UNCHANGED <<session, edited, held, toolFailed, revs, modelSteps, repairs, suite, reviewed>>

\* resume_after_approval: the model goes on, outside the pipeline; nothing is reported afterwards.
ResumedEnds ==
    /\ stage = "resumed"
    /\ stage' = "idle"
    /\ UNCHANGED <<session, work, toolFailed, source, report, modelSteps, repairs, reviewed,
                   vouched>>

\* /rollback: the edits of the turn are undone and the report says so.
RollBack ==
    /\ stage = "idle" /\ edited > 0
    /\ revs' = [revs EXCEPT !.now = revs.base] /\ edited' = 0
    /\ report' = [status |-> "ROLLED_BACK", rev |-> revs.base, edited |-> FALSE, by |-> "user"]
    /\ UNCHANGED <<session, stage, trail, held, toolFailed, source, modelSteps, repairs, suite,
                   reviewed, vouched>>

Narrow == {"none", "passed", "failed"}
VerifyNext ==
    \/ \E t \in Tasks : BeginTurn(t)
    \/ \E f \in Sources, ok \in BOOLEAN : Edit(f, ok)
    \/ HoldEdit
    \/ \E name \in Commands, ok \in BOOLEAN : Observe("command", name, ok)
    \/ \E ok \in BOOLEAN : Observe("behaviour", "probe", ok)
    \/ ExecutionFails \/ ExecutionPauses \/ ExecutionEnds
    \/ \E narrow \in Narrow, ok \in BOOLEAN : Verify(narrow, ok)
    \/ \E f \in Sources, ok, passes \in BOOLEAN, narrow \in Narrow :
           RepairEdits(f, ok, narrow, passes)
    \/ RepairGivesUp
    \/ \E approves \in BOOLEAN : Review(approves)
    \/ \E complete, applies \in BOOLEAN :
           JudgeTurn(complete, applies) \/ RefreshReport(complete, applies)
    \/ \E f \in Sources, how \in {"apply", "fail", "reject"} : DecideHeld(f, how)
    \/ ResumedEnds
    \/ RollBack

VerifySpec == VerifyInit /\ [][VerifyNext]_verifyVars

-----------------------------------------------------------------------------
(* What a report promises. *)

VerifyTypeOK ==
    /\ policy \in Policies
    /\ task \in Tasks \union {"question"} /\ briefed \in Tasks \union {"none"}
    /\ start \in 0..Len(trail) /\ held \in 0..1 /\ edited \in Nat
    /\ revs.base <= revs.newest /\ revs.now <= revs.newest /\ source.rev <= revs.newest
    /\ \A i \in DOMAIN trail : trail[i].status \in {"verified", "failed", "unverified"}
    /\ \A i \in DOMAIN trail : trail[i].rev <= revs.newest
    /\ vouched \subseteq 1..revs.newest

\* A turn that edited a project with a test suite is VERIFIED only if the last run of the whole
\* suite passed, and at the very revision that the report is about: no earlier pass, no narrow
\* pass, no pass before a repair or an approved edit stands in for it.
VerifiedIsCurrent ==
    report.status = "VERIFIED" /\ report.edited /\ policy.tests
        => suite = [rev |-> report.rev, ok |-> TRUE]

\* When the pipeline itself reports a turn with edits VERIFIED, the independent reviewer approved
\* exactly that revision.
VerifiedIsReviewed ==
    report.status = "VERIFIED" /\ report.edited /\ report.by = "pipeline"
        => reviewed = report.rev

\* What a VERIFIED report of a turn with edits stands for: the suite's last run and the review.
VerifiedIsEarned == VerifiedIsCurrent /\ VerifiedIsReviewed

\* What reaches the source repository is a revision that a turn with edits was VERIFIED for.
AppliedIsVerified == source.rev # 1 => source.rev \in vouched
=============================================================================
