------------------------------- MODULE MCTurn -------------------------------
(* One turn of the agent, in one run: the plan that is made for it, the hosted loop and its
   history, the gates before a tool call, the verification that ends a turn, its test evidence, and
   the release that is accepted on such evidence.  They are modelled
   apart, with what each needs of the others as its inputs, so each behaviour follows one of them. *)
EXTENDS HostedTurn, ToolGate, TestEvidence, ReleaseGate, VerifiedTurn

\* The calls a model makes: two edits in scope, one that has to expand it, a command that asks
\* and one that is denied.
CallOf(edit, file, lines, shown, asks) ==
    [edit |-> edit, file |-> file, lines |-> lines, evidence |-> shown, asks |-> asks,
     blocks |-> {}, denied |-> "network" \in asks, extensionAsks |-> "network" \in asks,
     fails |-> FALSE]
Calls == [edit |-> CallOf(TRUE, "in.py", 1, FALSE, {}),
          other |-> CallOf(TRUE, "in.py", 2, FALSE, {"safety"}),
          expand |-> CallOf(TRUE, "near.py", 1, TRUE, {"outside"}),
          push |-> CallOf(FALSE, "-", 0, FALSE, {"policy", "safety"}),
          denied |-> CallOf(FALSE, "-", 0, FALSE, {"network"})]
CallNames == DOMAIN Calls
\* A short refactoring that fails three times, a massive build, a deployment nobody named and a question.
Words(opens, best, words, signals, trouble) ==
    [opens |-> opens, best |-> best, chatty |-> FALSE, words |-> words, signals |-> signals,
     product |-> FALSE, file |-> FALSE, risky |-> TRUE, hints |-> {}, symbols |-> 60,
     sensitive |-> 0, domain |-> "other", strict |-> FALSE, trouble |-> trouble]
SomeAsked ==
    {Words("refactor", {}, 10, 0, 3), [Words("build", {}, 6, 0, 0) EXCEPT !.product = TRUE],
     [Words("none", {"deploy", "build"}, 10, 3, 1) EXCEPT !.strict = TRUE],
     Words("explain", {"explain"}, 10, 0, 0)}
SomeFailed == {[reason |-> "r1", tests |-> TRUE, paths |-> FALSE],
               [reason |-> "r2", tests |-> FALSE, paths |-> TRUE]}
\* A healthy tree, a later version with a failing shard, and a tree with an embedded secret.
Tree(version, defects, failing) ==
    [hash |-> <<version, defects, failing>>, version |-> version, defects |-> defects, failing |-> failing]
HealthyTree == Tree("1", {}, {})
SomeTrees == {HealthyTree, Tree("2", {}, {1}), Tree("1", {"secret"}, {})}
\* A host that contains commands, one with a sandbox in which none starts, one that lets them read
\* outside, and one without a sandbox.
Host(native, runs, kills, reads, writes, network) ==
    [native |-> native, runs |-> runs, kills |-> kills, keepsReads |-> reads, keepsWrites |-> writes,
     deniesNetwork |-> network, provider |-> TRUE]
SomeHosts == {Host(TRUE, TRUE, TRUE, TRUE, TRUE, TRUE), Host(TRUE, FALSE, FALSE, FALSE, FALSE, FALSE),
              Host(TRUE, TRUE, TRUE, FALSE, TRUE, TRUE), Host(FALSE, TRUE, TRUE, FALSE, FALSE, FALSE)}
Policy(apply, review, tests) == [apply |-> apply, review |-> review, tests |-> tests]
SomePolicies == {Policy(TRUE, FALSE, TRUE), Policy(FALSE, TRUE, FALSE)}

VARIABLES
    which,     \* the part that runs in this behaviour
    \* Planning
    plannedStage, request, steps, progress, failed, canon, plannedEvidence, signatures, saved,
    plannedRequests, failures, resumes

Planned == INSTANCE Planning WITH Requests <- SomeAsked, Failures <- SomeFailed,
    MaxRevisions <- 2, RetryLimit <- 1, MaxRequests <- 2, MaxResumes <- 1,
    stage <- plannedStage, evidence <- plannedEvidence, requests <- plannedRequests

ASSUME PlannedAssumption == Planned!ConstantsOK

plannedVars == <<plannedStage, request, steps, progress, failed, canon, plannedEvidence,
    signatures, saved, plannedRequests, failures, resumes>>

-----------------------------------------------------------------------------
\* One part runs, and the others stay as they were at first.
SumInit ==
    /\ which \in {"hosted", "gate", "evidence", "release", "verified", "planned"}
    /\ which # "gate" => mode = "plan"
    /\ which # "verified" => policy = [apply |-> FALSE, review |-> TRUE, tests |-> FALSE]
    /\ which # "evidence" => content = [f \in {0, 1, 2} |-> 1]
    /\ Init
    /\ GateInit
    /\ EvidenceInit
    /\ ReleaseInit
    /\ VerifyInit
    /\ Planned!Init

HostedOnly == which = "hosted" /\ UNCHANGED <<which, gateVars, evidenceVars, releaseVars,
        verifyVars, plannedVars>>
GateOnly == which = "gate" /\ UNCHANGED <<which, vars, evidenceVars, releaseVars, verifyVars,
        plannedVars>>
EvidenceOnly == which = "evidence" /\ UNCHANGED <<which, vars, gateVars, releaseVars,
        verifyVars, plannedVars>>
ReleaseOnly == which = "release" /\ UNCHANGED <<which, vars, gateVars, evidenceVars,
        verifyVars, plannedVars>>
VerifiedOnly == which = "verified" /\ UNCHANGED <<which, vars, gateVars, evidenceVars,
        releaseVars, plannedVars>>
PlannedOnly == which = "planned" /\ UNCHANGED <<which, vars, gateVars, evidenceVars,
        releaseVars, verifyVars>>

HostedStep == HostedOnly /\ Next
GateStep == GateOnly /\ GateNext
EvidenceStep == EvidenceOnly /\ EvidenceNext
ReleaseStep == ReleaseOnly /\ ReleaseNext
VerifiedStep == VerifiedOnly /\ VerifyNext
PlannedStep == PlannedOnly /\ Planned!Next

SumNext == HostedStep \/ GateStep \/ EvidenceStep \/ ReleaseStep \/ VerifiedStep \/ PlannedStep
sumVars == <<which, vars, gateVars, evidenceVars, releaseVars, verifyVars, plannedVars>>

SumSafety == SumInit /\ [][SumNext]_sumVars

-----------------------------------------------------------------------------
\* The type invariants of the six parts.
SumTypeOK ==
    CASE which = "hosted" -> TypeOK
      [] which = "gate" -> GateTypeOK
      [] which = "planned" -> Planned!TypeOK
      [] which = "verified" -> VerifyTypeOK
      [] which = "evidence" -> EvidenceTypeOK
      [] which = "release" -> ReleaseTypeOK

\* Planning: steps start after what their contract puts first, a plan that changes something runs
\* something afterwards, and revisions stay sound, bounded and never repeat their evidence.
PlansSound == which = "planned" => Planned!PlansSound

\* VerifiedTurn alone, for what the code does not keep: only verified edits reach the source.
VerifiedAlone == SumInit /\ which = "verified" /\ [][VerifiedStep]_sumVars
=============================================================================
