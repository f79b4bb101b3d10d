------------------------------- MODULE Planning -------------------------------
(* How a request becomes a plan, and what later failures do to the plan (planner.py, planning/ and
   ExecutionPipeline._stage_planning). A plan has two faces: the list of steps that is executed,
   and the canonical engineering plan, which is criticised once and revised after failures. *)
EXTENDS Integers, Sequences, FiniteSets, SequencesExt

CONSTANTS
    Requests,       \* what the user may ask, as the patterns of the planner see it; and, as a
                    \* bound, how often the steps of its plan fail (trouble)
    Failures,       \* how a step may fail: [reason, tests, paths]
    MaxRevisions,   \* PlanReplanner.max_revisions (8 in the product)
    RetryLimit,     \* PlanStep.retry_limit
    MaxRequests,    \* bound: requests of one session
    MaxResumes      \* bound: runs that are resumed

Openings == {"fix", "refactor", "migrate", "secure", "test", "build", "optimize", "configure",
             "document", "explain", "investigate", "none"}

\* IntentType, in the order that breaks ties between patterns.
Priority == <<"fix", "security", "migrate", "refactor", "optimize", "deploy", "test", "build",
              "configure", "docs", "review", "explain", "search">>
Intents == ToSet(Priority) \cup {"chat", "unknown"}
Domains == {"commerce", "erp", "saas", "other"}

ConstantsOK ==
    /\ \A r \in Requests :
           /\ r.opens \in Openings /\ r.best \subseteq ToSet(Priority) /\ r.chatty \in BOOLEAN
           /\ r.words \in Nat /\ r.signals \in Nat /\ r.product \in BOOLEAN
           /\ r.file \in BOOLEAN /\ r.risky \in BOOLEAN /\ r.domain \in Domains
           /\ r.hints \subseteq {"bug", "refactor", "migrate", "security", "upgrade", "test"}
           /\ r.symbols \in Nat /\ r.sensitive \in Nat /\ r.trouble \in Nat
           /\ r.strict \in BOOLEAN
    /\ \A f \in Failures : f.tests \in BOOLEAN /\ f.paths \in BOOLEAN
    /\ MaxRevisions \in Nat \ {0} /\ RetryLimit \in Nat
    /\ MaxRequests \in Nat /\ MaxResumes \in Nat

VARIABLES
    stage,      \* "idle", "running", "blocked", "direct", "degraded", "stopped", "killed"
    request,    \* the request of the plan, NoRequest before the first
    steps,      \* PlanningEngine.current_plan.steps: what each is about and needs
    progress,   \* status and attempts of each step
    failed,     \* the failures each step has shown in this run of the plan
    canon,      \* the canonical plan: [version, steps, reasons, decision], NoCanon
    evidence,   \* PlanReplanner.evidence_history
    signatures, \* PlanReplanner.signature_history
    saved,      \* the progress in the run ledger
    requests, failures, resumes

vars == <<stage, request, steps, progress, failed, canon, evidence, signatures, saved, requests,
          failures, resumes>>
plans == <<request, steps, canon>>
replanner == <<evidence, signatures>>
bounds == <<requests, failures, resumes>>

NoRequest == [opens |-> "none"]
NoCanon == [version |-> 0, steps |-> <<>>, reasons |-> <<>>, decision |-> "none"]

-----------------------------------------------------------------------------
\* What the request is.
FirstOf(found) == Priority[CHOOSE i \in DOMAIN Priority :
                       Priority[i] \in found /\ \A j \in 1..i - 1 : Priority[j] \notin found]

\* classify_intent: the leading verb decides, then the pattern with most matches.
ClassifyIntent(r) ==
    CASE r.opens = "secure" -> "security"
      [] r.opens \in {"fix", "refactor", "migrate", "test", "build"} -> r.opens
      [] r.best # {} -> FirstOf(r.best)
      [] r.chatty -> "chat"
      [] OTHER -> "unknown"

EstimateDifficulty(r, intent) ==
    CASE intent = "build" /\ r.product -> "massive"
      [] intent \in {"chat", "explain", "search"} -> IF r.words < 15 THEN "trivial" ELSE "simple"
      [] r.signals >= 5 \/ r.words > 100 -> "massive"
      [] r.signals >= 3 -> "complex"
      [] r.signals >= 1 \/ r.words > 20 -> "moderate"
      [] r.words > 8 -> "simple"
      [] OTHER -> "trivial"

\* should_plan. A file named in a short request comes before the risk.
ShouldPlan(r, difficulty, intent) ==
    CASE intent \in {"chat", "explain", "search"} -> "direct"
      [] difficulty \in {"trivial", "simple"} /\ r.file -> "direct"
      [] r.risky /\ intent \notin {"docs", "review"} -> "planned"
      [] difficulty \in {"complex", "massive"} -> "planned"
      [] /\ difficulty = "moderate"
         /\ intent \in {"fix", "security", "migrate", "refactor", "optimize", "deploy"} -> "planned"
      [] intent = "unknown" /\ difficulty = "moderate" -> "research"
      [] OTHER -> "direct"

ReadOnly(intent) == intent \in {"explain", "review", "search", "chat"}

\* interpret_task: the type of the canonical contract, by the leading verb and then by words.
InterpretTask(r) ==
    CASE r.opens = "fix" -> "bug_repair"
      [] r.opens = "build" -> "feature_implementation"
      [] r.opens = "refactor" -> "refactor"
      [] r.opens = "migrate" -> "migration"
      [] r.opens = "test" -> "test_creation"
      [] r.opens = "secure" -> "security_remediation"
      [] r.opens = "optimize" -> "performance_optimization"
      [] r.opens = "configure" -> "configuration_change"
      [] r.opens = "document" -> "documentation"
      [] r.opens = "explain" -> "code_explanation"
      [] r.opens = "investigate" -> "investigation"
      [] "bug" \in r.hints -> "bug_repair"
      [] "refactor" \in r.hints -> "refactor"
      [] "migrate" \in r.hints -> "migration"
      [] "security" \in r.hints -> "security_remediation"
      [] "upgrade" \in r.hints -> "dependency_upgrade"
      [] "test" \in r.hints -> "test_creation"
      [] OTHER -> "feature_implementation"

CanonicalIntent ==
    [bug_repair |-> "fix", security_remediation |-> "security", refactor |-> "refactor",
     migration |-> "migrate", dependency_upgrade |-> "migrate", test_creation |-> "test",
     performance_optimization |-> "optimize", configuration_change |-> "configure",
     documentation |-> "docs", code_explanation |-> "explain", investigation |-> "review",
     feature_implementation |-> "build"]

\* RiskAssessor.assess_task_risk; the products of the planner name no target files.
RiskOf(r) ==
    LET task == InterpretTask(r)
        score == 3 * r.sensitive
                 + (IF task \in {"security_remediation", "migration"} THEN 4
                    ELSE IF task \in {"bug_repair", "feature_implementation"} THEN 1 ELSE 0)
    IN  CASE score >= 6 -> "critical" [] score >= 4 -> "high" [] score >= 2 -> "medium"
          [] OTHER -> "low"

-----------------------------------------------------------------------------
\* The steps that will be executed: [name, does, needs], where needs are positions.
Think == {}  Look == {"look"}  Write == {"write"}  Run == {"run"}  Fix == {"write", "run"}
Commit == {"commit"}

Templates ==
    [build |-> <<Look, Look, Think, Write, Write, Write, Fix, Write, Commit>>,
     fix |-> <<Run, Look, Write, Run, Write, Commit>>,
     refactor |-> <<Look, Think, Write, Run, Commit>>,
     review |-> <<Look, Look, Think, Look, Think>>,
     test |-> <<Look, Think, Write, Run, Fix, Commit>>,
     deploy |-> <<Run, Write, Write, Run, Run>>,
     docs |-> <<Look, Write, Write, Commit>>,
     migrate |-> <<Look, Think, Write, Fix, Run, Run, Commit>>,
     optimize |-> <<Run, Look, Write, Run, Commit>>,
     security |-> <<Run, Look, Run, Write, Run, Commit>>]

\* simple_indices: the steps a short plan keeps.
Kept ==
    [build |-> <<1, 4, 7>>, fix |-> <<1, 3, 4, 5>>, refactor |-> <<1, 3, 4>>,
     review |-> <<1, 2, 5>>, test |-> <<1, 2, 3, 4>>, deploy |-> <<1, 2, 4, 5>>,
     docs |-> <<1, 2, 3>>, migrate |-> <<1, 3, 4, 5, 6>>, optimize |-> <<1, 2, 3, 4>>,
     security |-> <<1, 2, 3, 4, 5>>]

Template(intent) == IF intent \in DOMAIN Templates THEN intent ELSE "build"

\* Faulty variant: a short plan is a prefix of the long one.
ShortenedToPrefix(uncommitted, intent) == SubSeq(uncommitted, 1, Len(Kept[intent]))

Shortened(uncommitted, intent) ==
    LET inside == SelectSeq(Kept[intent], LAMBDA i : i <= Len(uncommitted))
    IN  [k \in DOMAIN inside |-> uncommitted[inside[k]]]

\* _generate_steps: no step commits, and each step needs the one before it.
GenerateSteps(intent, difficulty) ==
    LET kind == Template(intent)
        uncommitted == SelectSeq(Templates[kind], LAMBDA does : does # Commit)
        does == IF difficulty = "simple" THEN Shortened(uncommitted, kind) ELSE uncommitted
    IN  [i \in DOMAIN does |->
            [name |-> kind, does |-> does[i], needs |-> IF i > 1 THEN {i - 1} ELSE {}]]

DomainContracts ==
    [commerce |->
        <<<<"catalog", {"core", "data"}>>, <<"inventory", {"core", "data"}>>,
          <<"checkout", {"identity", "catalog", "inventory", "data"}>>,
          <<"merchants", {"identity", "catalog", "inventory", "checkout"}>>>>,
     erp |->
        <<<<"master data", {"identity", "data"}>>, <<"warehouses", {"master data"}>>,
          <<"sales", {"master data", "warehouses"}>>, <<"finance", {"sales", "data"}>>>>,
     saas |->
        <<<<"billing", {"identity", "data"}>>, <<"administration", {"billing"}>>>>,
     other |-> <<>>]

\* _build_system_blueprint: the subsystems of a massive build with what each depends on.
Blueprint(domain) ==
    LET own == DomainContracts[domain]
        names == {own[i][1] : i \in DOMAIN own}
    IN  <<<<"identity", {}>>, <<"core", {"identity"}>>, <<"data", {"core"}>>>> \o own \o
        <<<<"api", {"identity", "core", "data"} \cup names>>,
          <<"experience", {"identity", "api"}>>,
          <<"async", {"core", "data"} \cup names>>,
          <<"platform", {"identity", "api", "experience", "async"}>>>>

\* _generate_massive_build_steps: only subsystems that have a step already can be waited for.
MassiveSteps(contracts) ==
    LET at(i) == i + 2
        before(i) == {j \in 1..i - 1 : contracts[j][1] \in contracts[i][2]}
        one(i) == [name |-> contracts[i][1], does |-> Fix,
                   needs |-> IF before(i) = {} THEN {2} ELSE {at(j) : j \in before(i)}]
        last == Len(contracts) + 3
    IN  <<[name |-> "specification", does |-> Look, needs |-> {}],
          [name |-> "architecture", does |-> Write, needs |-> {1}]>>
        \o [i \in DOMAIN contracts |-> one(i)]
        \o <<[name |-> "integration", does |-> Fix, needs |-> {at(i) : i \in DOMAIN contracts}],
             [name |-> "release", does |-> Run, needs |-> {last}]>>

\* What RepositoryIntelligence.summary() tells the planner, and a key of it, 0 when it is missing.
Summary(r) == [symbols_count |-> r.symbols]
KeyOf(summary, key) == IF key \in DOMAIN summary THEN summary[key] ELSE 0

\* The step that has to come first in a large repository, and the positions after it.
Understood(planned) ==
    <<[name |-> "understand", does |-> Look, needs |-> {}]>> \o
    [i \in DOMAIN planned |->
        [planned[i] EXCEPT !.needs = IF @ = {} THEN {i} ELSE {n + 1 : n \in @}]]

\* create_plan: the canonical contract, when there is one, overrides the intent.
PlannedSteps(r, canonical) ==
    LET guess == ClassifyIntent(r)
        intent == IF canonical THEN CanonicalIntent[InterpretTask(r)] ELSE guess
        difficulty == EstimateDifficulty(r, guess)
        planned == IF intent = "build" /\ difficulty = "massive"
                   THEN MassiveSteps(Blueprint(r.domain)) ELSE GenerateSteps(intent, difficulty)
    IN  IF KeyOf(Summary(r), "total_files") > 10 \/ KeyOf(Summary(r), "total_symbols") > 50
        THEN Understood(planned) ELSE planned

-----------------------------------------------------------------------------
\* The canonical plan: [id, action, needs, tools] in order; ids are pairs of version and title.
PlanTools == {"read", "search_code", "edit", "run_process"}

CanonicalSteps ==
    <<[id |-> <<1, "inspect">>, action |-> "inspect", needs |-> {}, tools |-> {"read", "search_code"},
       risk |-> "low", rollback |-> FALSE, why |-> {}],
      [id |-> <<1, "mutate">>, action |-> "mutate", needs |-> {<<1, "inspect">>}, tools |-> {"edit"},
       risk |-> "task", rollback |-> TRUE, why |-> {}],
      [id |-> <<1, "verify">>, action |-> "verify", needs |-> {<<1, "mutate">>},
       tools |-> {"run_process"}, risk |-> "low", rollback |-> FALSE, why |-> {}]>>

\* DeterministicValidator.validate: what is wrong with the steps. The planner gives every step a
\* condition and a check, and every plan its criteria and the snapshot of its contract.
Issues(planned, risk) ==
    LET known == {planned[i].id : i \in DOMAIN planned}
        seen(i) == {planned[j].id : j \in 1..i - 1}
        step(i) == planned[i]
    IN  (IF planned = <<>> THEN {"EMPTY_PLAN"} ELSE {})
        \cup {issue \in {"UNKNOWN_DEPENDENCY", "FORWARD_DEPENDENCY", "MISSING_ROLLBACK",
                         "UNSUPPORTED_TOOL"} :
              \E i \in DOMAIN planned :
                CASE issue = "UNKNOWN_DEPENDENCY" -> ~(step(i).needs \subseteq known)
                  [] issue = "FORWARD_DEPENDENCY" -> ~(step(i).needs \cap known \subseteq seen(i))
                  [] issue = "MISSING_ROLLBACK" ->
                        /\ (IF step(i).risk = "task" THEN risk ELSE step(i).risk)
                              \in {"high", "critical"}
                        /\ ~step(i).rollback
                  [] OTHER -> ~(step(i).tools \subseteq PlanTools)}

\* PlanCritic.critique: errors ask for a revision, and a plan that tests nothing is a warning.
Critique(planned, risk) ==
    LET issues == Issues(planned, risk)
        tests == \E i \in DOMAIN planned : planned[i].action = "verify"
    IN  CASE issues \ {"FORWARD_DEPENDENCY"} # {} -> "REVISE"
          [] issues # {} \/ ~tests -> "APPROVE_WITH_WARNINGS"
          [] OTHER -> "APPROVE"

\* create_canonical_bundle.
CanonicalOf(r) ==
    [version |-> 1, steps |-> CanonicalSteps, reasons |-> <<>>,
     decision |-> Critique(CanonicalSteps, RiskOf(r))]

\* compute_plan_signature.
Signature(plan) == <<request, plan.steps>>

\* revise_plan: look at the evidence before the step that failed, and test what failed after it.
Revised(plan, at, why) ==
    LET version == plan.version + 1
        look == [id |-> <<version, "evidence-inspection">>, action |-> "analyze",
                 needs |-> plan.steps[at].needs,
                 tools |-> {"read", "search_files", "run_process"}, risk |-> "medium",
                 rollback |-> FALSE, why |-> {why}]
        again == [plan.steps[at] EXCEPT !.needs = {look.id}, !.why = @ \cup {why}]
        check == [id |-> <<version, "targeted-verification">>, action |-> "verify",
                  needs |-> {again.id}, tools |-> {"run_process"}, risk |-> "low",
                  rollback |-> FALSE, why |-> {why}]
    IN  [plan EXCEPT !.version = version,
            !.steps = SubSeq(@, 1, at - 1) \o <<look, again>> \o SubSeq(@, at + 1, Len(@))
                      \o (IF why.failure.tests THEN <<check>> ELSE <<>>),
            !.reasons = Append(@, why), !.decision = "REVISED_AFTER_RUNTIME_FAILURE"]

\* revise_canonical_plan, for the step of the canonical plan whose words are most like those of
\* the failed step (any step may be).
Revise(why) ==
    \/ /\ canon = NoCanon \/ canon.version >= MaxRevisions \/ why \in evidence
       /\ UNCHANGED <<canon, replanner>>
    \/ /\ canon # NoCanon /\ canon.version < MaxRevisions /\ why \notin evidence
       /\ \E at \in DOMAIN canon.steps : \E new \in {Revised(canon, at, why)} :
              IF Signature(new) \in signatures
              THEN /\ signatures' = signatures \cup {Signature(canon)}
                   /\ UNCHANGED <<canon, evidence>>
              ELSE /\ canon' = new /\ evidence' = evidence \cup {why}
                   /\ signatures' = signatures \cup {Signature(canon), Signature(new)}

-----------------------------------------------------------------------------
\* _stage_planning and the loop of _run_planned_hosted_turns.
Fresh(planned) == [i \in DOMAIN planned |-> [status |-> "pending", attempts |-> 0]]

Init ==
    /\ stage = "idle" /\ request = NoRequest /\ steps = <<>> /\ progress = <<>>
    /\ failed = <<>> /\ canon = NoCanon /\ evidence = {} /\ signatures = {} /\ saved = <<>>
    /\ requests = 0 /\ failures = 0 /\ resumes = 0

Between == stage \notin {"running", "killed"} /\ requests < MaxRequests

Ask(r) ==
    /\ Between
    /\ requests' = requests + 1 /\ UNCHANGED <<failures, resumes>>

\* The control plane fails: a strict turn is blocked, another goes on without a plan.
PlanFails(r) ==
    /\ Ask(r)
    /\ \/ ~ReadOnly(ClassifyIntent(r))
       \/ ShouldPlan(r, EstimateDifficulty(r, ClassifyIntent(r)), ClassifyIntent(r)) = "planned"
    /\ stage' = IF r.strict THEN "blocked" ELSE "degraded"
    /\ UNCHANGED <<plans, progress, failed, replanner, saved>>

\* The critic of the engineering contract objects to a strict turn, except when nobody knows what
\* the request is.
CriticBlocks(r) ==
    /\ Ask(r)
    /\ r.strict /\ ~ReadOnly(ClassifyIntent(r)) /\ ClassifyIntent(r) # "unknown"
    /\ stage' = "blocked"
    /\ UNCHANGED <<plans, progress, failed, replanner, saved>>

\* The planner's current plan stays when a request needs none.
Direct(r) ==
    LET intent == ClassifyIntent(r)
    IN  /\ Ask(r)
        /\ ShouldPlan(r, EstimateDifficulty(r, intent), intent) # "planned"
        /\ stage' = "direct"
        /\ UNCHANGED <<plans, progress, failed, replanner, saved>>

\* The canonical bundle may fail; the plan is made without it.
CreatePlan(r) ==
    LET intent == ClassifyIntent(r)
    IN  /\ Ask(r)
        /\ ShouldPlan(r, EstimateDifficulty(r, intent), intent) = "planned"
        /\ \E canonical \in BOOLEAN : \E planned \in {PlannedSteps(r, canonical)} :
              /\ request' = r /\ steps' = planned /\ progress' = Fresh(planned)
              /\ failed' = [i \in DOMAIN planned |-> {}]
              /\ canon' = IF canonical THEN CanonicalOf(r) ELSE NoCanon
              /\ saved' = Fresh(planned)
        /\ stage' = "running"
        /\ UNCHANGED replanner

Status(i) == progress[i].status
NeedsMet(i) == \A n \in steps[i].needs : Status(n) = "completed"
IsComplete == \A i \in DOMAIN steps : Status(i) = "completed"
Current == {i \in DOMAIN steps : Status(i) = "in_progress"}

\* ExecutionPlan.next_step.
NextStep == {i \in DOMAIN steps : /\ Status(i) = "pending" /\ NeedsMet(i)
                                  /\ \A j \in 1..i - 1 : ~(Status(j) = "pending" /\ NeedsMet(j))}

Begin ==
    /\ stage = "running" /\ Current = {}
    /\ \E i \in NextStep :
          progress' = [progress EXCEPT ![i] =
                          [status |-> "in_progress", attempts |-> @.attempts + 1]]
    /\ UNCHANGED <<stage, plans, failed, replanner, saved, bounds>>

\* advance_step refuses to complete a step whose dependencies are not complete.
Complete ==
    /\ stage = "running"
    /\ \E i \in Current :
          /\ NeedsMet(i)
          /\ progress' = [progress EXCEPT ![i].status = "completed"]
    /\ saved' = progress'
    /\ UNCHANGED <<stage, plans, failed, replanner, bounds>>

\* A step fails: while attempts and turns are left, the canonical plan is revised with the
\* failure and the step is pending again; otherwise the loop ends.
Fail ==
    /\ stage = "running" /\ failures < request.trouble
    /\ failures' = failures + 1
    /\ \E i \in Current, f \in Failures, turnsLeft \in BOOLEAN :
          LET retried == progress[i].attempts <= RetryLimit /\ turnsLeft
          IN  /\ failed' = [failed EXCEPT ![i] = @ \cup {f.reason}]
              /\ progress' = [progress EXCEPT ![i].status =
                                 IF retried THEN "pending" ELSE "failed"]
              /\ IF retried
                 THEN Revise([failure |-> f, repeated |-> f.reason \in failed[i]])
                 ELSE UNCHANGED <<canon, replanner>>
              /\ stage' = IF retried THEN "running" ELSE "stopped"
    /\ saved' = progress'
    /\ UNCHANGED <<request, steps, requests, resumes>>

\* The turn waits for the user's approval.
Pause ==
    /\ stage = "running" /\ Current # {}
    /\ stage' = "stopped" /\ saved' = progress
    /\ UNCHANGED <<plans, progress, failed, replanner, bounds>>

Finish ==
    /\ stage = "running" /\ Current = {} /\ NextStep = {}
    /\ stage' = IF IsComplete THEN "done" ELSE "stopped"
    /\ UNCHANGED <<plans, progress, failed, replanner, saved, bounds>>

Kill ==
    /\ stage = "running"
    /\ stage' = "killed" /\ canon' = NoCanon /\ evidence' = {} /\ signatures' = {}
    /\ UNCHANGED <<request, steps, progress, failed, saved, bounds>>

\* resume_interrupted: the plan comes from the run ledger, which has no canonical plan.
Resume ==
    /\ stage \in {"killed", "stopped"} /\ resumes < MaxResumes
    /\ resumes' = resumes + 1 /\ stage' = "running"
    /\ progress' = [i \in DOMAIN saved |->
           [saved[i] EXCEPT !.status = IF @ = "completed" THEN @ ELSE "pending"]]
    /\ failed' = [i \in DOMAIN steps |-> {}]
    /\ canon' = NoCanon
    /\ UNCHANGED <<request, steps, replanner, saved, requests, failures>>

Next ==
    \/ \E r \in Requests : PlanFails(r) \/ CriticBlocks(r) \/ Direct(r) \/ CreatePlan(r)
    \/ Begin \/ Complete \/ Fail \/ Pause \/ Finish \/ Kill \/ Resume

Spec == Init /\ [][Next]_vars

-----------------------------------------------------------------------------
\* The steps have as many states as the plan has steps.
TypeOK ==
    /\ stage \in {"idle", "running", "blocked", "direct", "degraded", "stopped", "killed", "done"}
    /\ request \in Requests \cup {NoRequest}
    /\ DOMAIN progress = DOMAIN steps /\ DOMAIN failed = DOMAIN steps
    /\ DOMAIN saved = DOMAIN steps
    /\ \A i \in DOMAIN progress :
           /\ progress[i].status \in {"pending", "in_progress", "completed", "failed"}
           /\ progress[i].attempts \in 0..RetryLimit + 1 + MaxResumes
    /\ canon.version \in 0..MaxRevisions /\ Cardinality(Current) <= 1
    /\ \A e \in evidence : e.failure \in Failures
    /\ requests \in 0..MaxRequests /\ failures \in Nat /\ resumes \in 0..MaxResumes

Massive == \E i \in DOMAIN steps : steps[i].name = "integration"
Started(i) == Status(i) \in {"in_progress", "completed"}

\* What the blueprint, or the order of the template, says has to come before a step.
ComesFirst(i) ==
    LET contracts == Blueprint(request.domain)
        nameOf(j) == steps[j].name
        subsystem(j) == \E k \in DOMAIN contracts : contracts[k][1] = nameOf(j)
    IN  IF Massive
        THEN {j \in DOMAIN steps :
                 \/ \E k \in DOMAIN contracts :
                        contracts[k][1] = nameOf(i) /\ nameOf(j) \in contracts[k][2]
                 \/ subsystem(i) /\ nameOf(j) \in {"specification", "architecture"}
                 \/ nameOf(i) = "integration" /\ subsystem(j)
                 \/ nameOf(i) = "release" /\ (subsystem(j) \/ nameOf(j) = "integration")}
        ELSE 1..i - 1

\* No step of a plan is begun, or counts as done, before everything that its contract or the
\* template puts before it: through failures, retries, pauses, kills and resumes
\* (_generate_massive_build_steps drops a dependency that has no step yet).
ContractsInOrder ==
    \A i \in DOMAIN steps : Started(i) => \A j \in ComesFirst(i) : Status(j) = "completed"

\* "A short plan still needs an implementation and a verification phase" (planner.py:1397): every
\* plan that is to change something runs something after a change, whatever the template lost.
ChangesAreRun ==
    steps # <<>> /\ ~(\E i \in DOMAIN steps : steps[i].name \in {"review", "docs"}) =>
        \E i, j \in DOMAIN steps : i < j /\ "write" \in steps[i].does /\ "run" \in steps[j].does

\* The positions a step of the canonical plan waits for, directly or not.
WaitsFor(planned) ==
    LET direct(i) == {j \in 1..i - 1 : planned[j].id \in planned[i].needs}
        all[i \in DOMAIN planned] == direct(i) \cup UNION {all[j] : j \in direct(i)}
    IN  all

\* Whatever fails and however often, the canonical plan stays one that the validator accepts the
\* structure of; it changes after it looked and verifies after it changed; what a failure taught
\* is looked at before the step that failed is tried again.
RevisionsSound ==
    LET planned == canon.steps
        waits == WaitsFor(planned)
        at(id) == CHOOSE i \in DOMAIN planned : planned[i].id = id
    IN  canon # NoCanon =>
          /\ Issues(planned, RiskOf(request)) \subseteq {"UNSUPPORTED_TOOL"}
          /\ at(<<1, "inspect">>) \in waits[at(<<1, "mutate">>)]
          /\ at(<<1, "mutate">>) \in waits[at(<<1, "verify">>)]
          /\ \A i \in DOMAIN planned : \A why \in planned[i].why :
                planned[i].action \in {"inspect", "mutate"} =>
                    \E j \in waits[i] : planned[j].action = "analyze" /\ why \in planned[j].why

\* A canonical plan is revised at most MaxRevisions - 1 times, each time with evidence that no
\* plan of the session was revised with before.
EvidenceOnce ==
    /\ canon # NoCanon => canon.version = Len(canon.reasons) + 1
    /\ canon.version <= MaxRevisions
    /\ \A i, j \in DOMAIN canon.reasons : canon.reasons[i] = canon.reasons[j] => i = j
    /\ ToSet(canon.reasons) \subseteq evidence

PlansSound == ContractsInOrder /\ ChangesAreRun /\ RevisionsSound /\ EvidenceOnce
=============================================================================
