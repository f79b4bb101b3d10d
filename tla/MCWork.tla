------------------------------- MODULE MCWork -------------------------------
(* How work is carried out, in one run: the task-DAG kernel, the plan loop of the pipeline, the
   recovery controller, the local model with its ceiling, a team of agents, the integration of its
   results, the contract of a task and the campaign that compares agents are alternatives or layers
   that share no variable, so each behaviour follows one of them. *)
EXTENDS TaskDag, PlanExecution, RecoveryLoop, Collaboration, LeadIntegration, CompletionContract, Campaign

TwoSteps == 1..2
ThreeSteps == 1..3
OneRetry == [s \in Steps |-> 1]
TwoRetries == [s \in Steps |-> IF s = 1 THEN 2 ELSE 1]

\* Two steps wait for the first.
Fork == [s \in 1..3 |-> IF s = 1 THEN {} ELSE {1}]

\* An implementer and its reviewer, as noryx collaborate builds them, with a
\* scope or without; two implementers one after the other, or side by side
\* with scopes that are apart, overlap or are not given.
TeamOf(waits, mutates, first, second) ==
    [deps |-> waits, mutates |-> mutates, scope |-> <<first, second>>]
After == <<{}, {1}>>
Beside == <<{}, {}>>
PairsAndSides ==
    {TeamOf(After, {1}, {"a"}, {}), TeamOf(After, {1}, {}, {}),
     TeamOf(After, {1, 2}, {"a"}, {"b"}),
     TeamOf(Beside, {1, 2}, {"a"}, {"b"}), TeamOf(Beside, {1, 2}, {"a", "b"}, {"b"}),
     TeamOf(Beside, {1, 2}, {"a"}, {})}

\* A new visible file, one that exists, and files the walks leave out.
PathKinds == <<"plain", "plain", "ignored", "top_dot">>
FourFiles == 1..4
AlreadyThere == {2, 3, 4}
FirstTwo == [w \in 1..3 |-> {1, 2}]
TwoWorkers == 1..2

\* What the local model or its ceiling may write: edits and whole files that pass, fail by count,
\* name, test or syntax, are dressed with markers, or are a text; and two ways to split a request.
Whole(path, kind, text) == [path |-> path, kind |-> kind, shape |-> "whole", text |-> text, edits |-> <<>>]
Patch(path, old, new) == [path |-> path, kind |-> "MODIFY", shape |-> "patches", text |-> <<>>, edits |-> <<<<old, new>>>>]
Says(doing) == [wrapped |-> TRUE, thinking |-> TRUE, promises |-> doing # <<>>, json |-> TRUE, text |-> "none",
   ends |-> TRUE, keeps |-> TRUE, compiles |-> TRUE, test |-> "none", actions |-> doing]
SomeReplies == {Says(<<Patch("a", "x", "y")>>), [Says(<<Patch("a", "y", "z")>>) EXCEPT !.test = "fails"],
   [Says(<<Patch("a", "x", "y"), Whole("b", "CREATE", <<"v">>)>>) EXCEPT !.json = FALSE, !.test = "passes"],
   [Says(<<Whole("b", "CREATE", <<"v">>)>>) EXCEPT !.wrapped = FALSE],
   Says(<<Whole("b", "MODIFY", <<"w">>)>>),
   [Says(<<Whole("b", "CREATE", <<"w">>)>>) EXCEPT !.json = FALSE, !.promises = FALSE],
   Says(<<[Whole("b", "MODIFY", <<"w">>) EXCEPT !.shape = "dressed"]>>),
   Says(<<[Whole("b", "CREATE", <<>>) EXCEPT !.shape = "dressed"]>>),
   Says(<<Whole("a", "DELETE", <<>>)>>),
   [Says(<<Patch("a", "x", "z")>>) EXCEPT !.compiles = FALSE, !.promises = FALSE],
   [Says(<<>>) EXCEPT !.text = "answer"]}
T(needs, names, expects, extent) == [needs |-> needs, names |-> names, expects |-> expects, scope |-> extent, risky |-> FALSE, long |-> FALSE]
SomeLists == {<<T({}, {"a"}, 1, "atomic"), T({1}, {"b"}, 1, "untagged")>>,
              <<T({2}, {"a"}, 1, "atomic"), T({}, {"b"}, 2, "multi_file")>>,
              <<T({}, {"b"}, 1, "atomic"), T({1}, {"a"}, 1, "untagged"), T({}, {"a"}, 1, "atomic")>>}
SomeDisk == [a |-> <<"x">>, b |-> <<>>]
\* A repair, a refactoring over callers, an open task, one that protects a caller, a migration, and
\* one with contended files.
Task(e, d, c, r, p, reach, cont, kind, wide, risky) ==
    [explicit |-> e, decisive |-> d, callers |-> c, related |-> r, protected |-> p, reach |-> reach,
     contended |-> cont, kind |-> kind, wide |-> wide, risky |-> risky, mutating |-> TRUE]
Repair == Task({"a"}, {"a"}, {}, {"t"}, {}, {}, {}, "bug_repair", FALSE, FALSE)
SomeTasks ==
    {Repair,
     Task({"a"}, {"a", "b"}, {"b"}, {"t", "u"}, {}, {"a", "b", "t"}, {}, "refactor", FALSE, FALSE),
     Task({"a"}, {}, {"b"}, {}, {}, {"a", "b", "t"}, {}, "other", TRUE, FALSE),
     Task({"a"}, {"a", "b"}, {"b"}, {"t"}, {"b"}, {}, {}, "bug_repair", FALSE, TRUE),
     Task({}, {"a"}, {}, {"t"}, {}, {"a", "c"}, {}, "migration", FALSE, TRUE),
     Task({"a"}, {"a"}, {}, {}, {}, {}, {"a"}, "other", FALSE, FALSE)}
FirstParts == [f \in {"a", "b", "c", "t", "u"} |->
             CASE f \in {"a", "b"} -> "src" [] f = "c" -> "cfg" [] OTHER -> "tests"]
\* A campaign of two tasks, one of more trials with an agent missing, and one with a long task.
Camp(tasks, trials, agents, long) ==
    [agents |-> agents, tasks |-> tasks, trials |-> trials, flags |-> TRUE, long |-> long]
SomeAgents == {"nexus", "direct_baseline", "claude_code"}
SealedCampaign == Camp(<<"t1", "t2">>, 1, SomeAgents, {})
SomeCampaigns ==
    {SealedCampaign, Camp(<<"t1">>, 2, SomeAgents \ {"direct_baseline"}, {}),
     Camp(<<"t1", "t2">>, 1, SomeAgents, {"t2"})}
Category == [t \in {"t1", "t2"} |-> "hidden_bug"]
FirstContent == [t \in {"t1", "t2"} |-> IF t = "t1" THEN "a" ELSE "b"]

VARIABLES
    which,     \* the part that runs in this behaviour
    \* NovaTurn
    node, phase, tasks, novaStatus, kept, novaWork, tree, round, disk, novaTodo, refused,
    review, test, novaAsked, says, messages

Nova == INSTANCE NovaTurn WITH Paths <- {"a", "b"}, OnDisk <- SomeDisk, Named <- {"a", "b"},
    Replies <- SomeReplies, Lists <- SomeLists, Nodes <- {"nova", "two_node"},
    status <- novaStatus, work <- novaWork, todo <- novaTodo, asked <- novaAsked

ASSUME NovaAssumption == Nova!ConstantsOK

novaVars == <<node, phase, tasks, novaStatus, kept, novaWork, tree, round, disk, novaTodo,
    refused, review, test, novaAsked, says, messages>>

-----------------------------------------------------------------------------
\* One part runs, and the others stay as they were at first.
SumInit ==
    /\ which \in {"dag", "plan", "recovery", "team", "commit", "contract", "duel", "nova"}
    /\ which # "team" => team = CHOOSE t \in PairsAndSides : TRUE
    /\ which # "commit" => accepted = {} /\ edits = [w \in 1..3 |-> [f \in 1..4 |-> 0]]
    /\ which # "dag" => deps = [s \in Steps |-> {}]
    /\ which # "plan" => novaFallback = FALSE
    /\ which # "nova" => node = "nova"
    /\ which # "contract" => task = Repair
    /\ Init
    /\ PlanInit
    /\ RecoveryInit
    /\ TeamInit
    /\ LeadInit
    /\ ContractInit
    /\ CampaignInit
    /\ Nova!Init

DagOnly == which = "dag" /\ UNCHANGED <<which, planVars, recoveryVars, teamVars, leadVars,
        contractVars, campaignVars, novaVars>>
PlanOnly == which = "plan" /\ UNCHANGED <<which, vars, recoveryVars, teamVars, leadVars,
        contractVars, campaignVars, novaVars>>
RecoveryOnly == which = "recovery" /\ UNCHANGED <<which, vars, planVars, teamVars, leadVars,
        contractVars, campaignVars, novaVars>>
TeamOnly == which = "team" /\ UNCHANGED <<which, vars, planVars, recoveryVars, leadVars,
        contractVars, campaignVars, novaVars>>
CommitOnly == which = "commit" /\ UNCHANGED <<which, vars, planVars, recoveryVars, teamVars,
        contractVars, campaignVars, novaVars>>
ContractOnly == which = "contract" /\ UNCHANGED <<which, vars, planVars, recoveryVars,
        teamVars, leadVars, campaignVars, novaVars>>
DuelOnly == which = "duel" /\ UNCHANGED <<which, vars, planVars, recoveryVars, teamVars,
        leadVars, contractVars, novaVars>>
NovaOnly == which = "nova" /\ UNCHANGED <<which, vars, planVars, recoveryVars, teamVars,
        leadVars, contractVars, campaignVars>>

DagStep == DagOnly /\ Next
PlanStep == PlanOnly /\ PlanNext
RecoveryStep == RecoveryOnly /\ RecoveryNext
TeamStep == TeamOnly /\ TeamNext
CommitStep == CommitOnly /\ LeadNext
ContractStep == ContractOnly /\ ContractNext
DuelStep == DuelOnly /\ CampaignNext
NovaStep == NovaOnly /\ Nova!Next

SumNext == DagStep \/ PlanStep \/ RecoveryStep \/ TeamStep \/ CommitStep \/ ContractStep \/ DuelStep \/ NovaStep
sumVars == <<which, vars, planVars, recoveryVars, teamVars, leadVars, contractVars,
             campaignVars, novaVars>>

SumSafety == SumInit /\ [][SumNext]_sumVars

-----------------------------------------------------------------------------
\* The type invariants of the eight parts.
SumTypeOK ==
    CASE which = "dag" -> TypeOK
      [] which = "plan" -> PlanTypeOK
      [] which = "recovery" -> RecoveryTypeOK
      [] which = "nova" -> Nova!TypeOK
      [] which = "team" -> TeamTypeOK
      [] which = "commit" -> LeadTypeOK
      [] which = "contract" -> ContractTypeOK
      [] which = "duel" -> CampaignTypeOK

\* NovaTurn: what is applied repeats what was tested, nothing that was rejected with reasons is
\* applied, and the models are asked a bounded number of times.
CandidatesSound == which = "nova" => Nova!CandidatesSound

\* TaskDag and PlanExecution alone, for what the code does not keep: a step that completed has its
\* patch applied, and a cancelled plan starts no further turn.
DagAlone == SumInit /\ which = "dag" /\ [][DagStep]_sumVars
PlanAlone == SumInit /\ which = "plan" /\ [][PlanStep]_sumVars
=============================================================================
