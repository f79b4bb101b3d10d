------------------------------- MODULE Campaign -------------------------------
(***************************************************************************)
(* The comparison campaign behind a superiority claim: the preflight and   *)
(* the duel of competitive_benchmark.py, the evaluator's signature of      *)
(* competitive_attestation.py, the gate of competitive_qualification.py    *)
(* and their commands under `noryx benchmark`.  Task repositories, oracles *)
(* and the manifest are files that may change while a duel runs, a report  *)
(* is a file that is written by a duel, signed by reading and writing it   *)
(* again, and possibly altered once it has left the evaluator.             *)
(* A hash is the hashed value; rates are compared in percent; what a run   *)
(* costs, in money and in time, is 1 or 2.                                 *)
(***************************************************************************)
EXTENDS Naturals, Sequences, SequencesExt, FiniteSets

CONSTANTS
    Manifests,       \* the manifests that may be on disk
    Trusted,         \* the one the trust policy names
    CategoryOf,      \* the category of each task
    SourceContents,  \* contents a task's repository may have
    Original,        \* what each repository holds at first
    Outcomes,        \* the endings of an agent's run that occur
    MinTasks, MinRepositories, MinTrials, MinPerCategory,    \* SuperiorityThresholds
    MaxDuels,        \* bound: duels begun
    MaxHandEdits     \* bound: files changed by hand

Agents == {"nexus", "direct_baseline", "claude_code"}
TaskIds == DOMAIN CategoryOf
Categories == {CategoryOf[t] : t \in TaskIds}

\* How a run ends: its checks pass, fail, fail although it claimed success, fail for a file out of
\* scope; they pass after a time-out, without the evaluator's metrics, at a higher price, with more
\* help than allowed; the host has no sandbox, the agent is not installed, or it is a dry run.
Endings == {"solved", "missed", "claimed", "strayed", "late", "untold", "costly", "helped", "bare",
            "absent", "planned"}

ASSUME CampaignAssumption ==
    /\ {MinTasks, MinRepositories, MinTrials, MinPerCategory, MaxDuels, MaxHandEdits} \subseteq Nat
    /\ Outcomes \subseteq Endings \ {"planned"} /\ Trusted \in Manifests
    /\ Original \in [TaskIds -> SourceContents]
    /\ \A m \in Manifests :
           /\ m \in [agents : SUBSET Agents, tasks : Seq(TaskIds), trials : Nat \ {0},
                     flags : BOOLEAN, long : SUBSET TaskIds]
           /\ Cardinality(m.agents) >= 2 /\ m.tasks # <<>> /\ IsInjective(m.tasks)

VARIABLES
    manifest,     \* the manifest on disk
    repo,         \* the content of each task's repository
    oracle,       \* the oracles on disk: "sealed" or "changed"
    foreseen,     \* what the last preflight that was ready has seen: <<>> or <<[manifest, repo]>>
    duel,         \* the duel under way: <<>> or <<record>>
    file,         \* the report on disk: <<>> or <<record>>
    desk,         \* what the signing command has read: <<>> or <<[report, evaluator]>>
    claim,        \* the report the gate has last qualified: <<>> or <<report>>
    begun, handEdits,
    published     \* bookkeeping: the evidence of the duels that have ended

campaignVars == <<manifest, repo, oracle, foreseen, duel, file, desk, claim, begun, handEdits,
                  published>>

CampaignInit ==
    /\ manifest = Trusted /\ repo = Original /\ oracle = "sealed"
    /\ foreseen = <<>> /\ duel = <<>> /\ file = <<>> /\ desk = <<>> /\ claim = <<>>
    /\ begun = 0 /\ handEdits = 0 /\ published = {}

-----------------------------------------------------------------------------
(* What a record of a run says. *)

Verified(r) == r.ending \in {"solved", "late", "untold", "costly", "helped"}
Claimed(r) == r.ending \in {"solved", "untold", "costly", "helped", "claimed", "strayed"}
Completed(r) == r.ending \notin {"late", "bare", "absent", "planned"}
Isolated(r) == r.ending \notin {"bare", "absent", "planned"}
Told(r) == r.ending \notin {"untold", "absent", "planned"}
FalseSuccess(r) == Claimed(r) /\ ~Verified(r)
Cost(r) == IF r.ending \in {"costly", "missed", "late"} THEN 2 ELSE 1

Of(rows, a) == {r \in rows : r.agent = a}
Number(rows, P(_)) == Cardinality({r \in rows : P(r)})
Percent(rows, P(_)) == IF rows = {} THEN 0 ELSE (100 * Number(rows, P)) \div Cardinality(rows)

\* Twice the median of the costs.
Median(rows) ==
    LET dear == Number(rows, LAMBDA r : Cost(r) = 2)
        cheap == Cardinality(rows) - dear
    IN  IF dear > cheap THEN 4 ELSE IF dear = cheap THEN 3 ELSE 2

-----------------------------------------------------------------------------
(* Preflight. *)

EnoughPerCategory(tasks) ==
    \A c \in Categories : Cardinality({t \in tasks : CategoryOf[t] = c}) >= MinPerCategory

\* superiority_preflight: agents, flags, trials, tasks, categories and the repositories without
\* their oracles; a task's own time limit is not among what it compares with the budget.
ReadyFor(m, sources) ==
    /\ m.agents = Agents /\ m.flags /\ m.trials >= MinTrials
    /\ Len(m.tasks) >= MinTasks /\ EnoughPerCategory(ToSet(m.tasks))
    /\ Cardinality({sources[t] : t \in ToSet(m.tasks)}) >= MinRepositories

Preflight ==
    /\ foreseen' = IF ReadyFor(manifest, repo)
                    THEN <<[manifest |-> manifest, repo |-> repo]>> ELSE <<>>
    /\ UNCHANGED <<manifest, repo, oracle, duel, file, desk, claim, begun, handEdits, published>>

-----------------------------------------------------------------------------
(* The duel. *)

\* CompetitiveDuelRunner.run: the manifest is read once.
BeginDuel(dry) ==
    /\ duel = <<>> /\ begun < MaxDuels
    /\ begun' = begun + 1
    /\ duel' = <<[manifest |-> manifest, dry |-> dry, trial |-> 1, at |-> 1,
                  left |-> manifest.agents, rows |-> {}]>>
    /\ UNCHANGED <<manifest, repo, oracle, foreseen, file, desk, claim, handEdits, published>>

\* _run_one, for the agents of a task in random order: the repository is copied as it is now, the
\* candidate runs in the sandbox, then the oracle is installed and the checks run.
RunOne(a, ending) ==
    /\ duel # <<>> /\ a \in duel[1].left
    /\ LET d == duel[1]
           row == [task |-> d.manifest.tasks[d.at], trial |-> d.trial, agent |-> a,
                   ending |-> ending, repo |-> repo[d.manifest.tasks[d.at]]]
       IN  /\ (ending = "planned") = d.dry
           /\ duel' = <<[d EXCEPT !.left = @ \ {a}, !.rows = @ \union {row}]>>
    /\ UNCHANGED <<manifest, repo, oracle, foreseen, file, desk, claim, begun, handEdits,
                   published>>

\* The next task, or the first one of the next trial.
NextGroup ==
    /\ duel # <<>> /\ duel[1].left = {}
    /\ LET d == duel[1]
           over == d.at = Len(d.manifest.tasks)
       IN  /\ ~over \/ d.trial < d.manifest.trials
           /\ duel' = <<[d EXCEPT !.at = IF over THEN 1 ELSE @ + 1,
                                  !.trial = IF over THEN @ + 1 ELSE @,
                                  !.left = d.manifest.agents]>>
    /\ UNCHANGED <<manifest, repo, oracle, foreseen, file, desk, claim, begun, handEdits,
                   published>>

\* The report: the flags are the manifest's, the oracles are hashed now, and no signature is carried
\* over.  It replaces what the file held.
FinishDuel ==
    /\ duel # <<>> /\ duel[1].left = {}
    /\ duel[1].at = Len(duel[1].manifest.tasks) /\ duel[1].trial = duel[1].manifest.trials
    /\ LET d == duel[1]
           report == [manifest |-> d.manifest, flags |-> d.manifest.flags, oracle |-> oracle,
                      dry |-> d.dry, rows |-> d.rows, evaluator |-> "lab", signature |-> <<>>]
       IN  /\ file' = <<report>>
           /\ published' = published \union {report}
    /\ duel' = <<>>
    /\ UNCHANGED <<manifest, repo, oracle, foreseen, desk, claim, begun, handEdits>>

-----------------------------------------------------------------------------
(* The signature. *)

\* attestation_payload: what an evaluator signs; the dry-run flag and the flags are not part of it.
Payload(report) ==
    [manifest |-> report.manifest, oracle |-> report.oracle, evaluator |-> report.evaluator,
     rows |-> report.rows]

\* attach_evaluator_signature
Signed(report, e) ==
    LET named == [report EXCEPT !.evaluator = e]
    IN  [named EXCEPT !.signature = <<[by |-> e, payload |-> Payload(named)]>>]

\* sign_report_file reads the report ...  The lab signs what its own duel has left.
ReadToSign(e) ==
    /\ desk = <<>> /\ file # <<>> /\ (e = "lab" => file[1].signature = <<>>)
    /\ desk' = <<[report |-> file[1], evaluator |-> e]>>
    /\ UNCHANGED <<manifest, repo, oracle, foreseen, duel, file, claim, begun, handEdits,
                   published>>

\* ... and writes it, over whatever is there by now.
WriteSigned ==
    /\ desk # <<>>
    /\ file' = <<Signed(desk[1].report, desk[1].evaluator)>>
    /\ desk' = <<>>
    /\ UNCHANGED <<manifest, repo, oracle, foreseen, duel, claim, begun, handEdits, published>>

\* verify_evaluator_signature: only the lab's key is in the trust policy.
SignatureHolds(report) ==
    /\ report.evaluator = "lab" /\ report.signature # <<>>
    /\ report.signature[1] = [by |-> "lab", payload |-> Payload(report)]

-----------------------------------------------------------------------------
(* The gate. *)

\* _require_sealed_campaign
SealHolds(report) ==
    /\ report.flags /\ report.manifest = Trusted /\ report.oracle = "sealed"
    /\ SignatureHolds(report)

TasksOf(report) == {r.task : r \in report.rows}
TrialsOf(report, t) == {r.trial : r \in {s \in report.rows : s.task = t}}

\* The groups of a report: every agent in each, within the budget of the seal, isolated and measured
\* by the evaluator.
GroupsHold(report) ==
    /\ \A t \in TasksOf(report) : \A n \in TrialsOf(report, t) :
           {r.agent : r \in {s \in report.rows : s.task = t /\ s.trial = n}} = Agents
    /\ \A r \in report.rows :
           r.ending # "helped" /\ r.task \notin report.manifest.long

RunsIsolated(report) == \A r \in report.rows : Isolated(r) /\ Told(r)

\* Enough tasks, trials and categories.
CoverageHolds(report) ==
    /\ Cardinality(TasksOf(report)) >= MinTasks
    /\ EnoughPerCategory(TasksOf(report))
    /\ \A t \in TasksOf(report) : Cardinality(TrialsOf(report, t)) >= MinTrials

\* Faulty variant: the repositories are counted and not compared.
SourcesCounted(report) == Cardinality({r.repo : r \in report.rows}) >= MinRepositories

\* All runs of a task had one repository, and there are enough of them.
SourcesHold(report) ==
    /\ \A t \in TasksOf(report) :
           Cardinality({r.repo : r \in {s \in report.rows : s.task = t}}) = 1
    /\ Cardinality({r.repo : r \in report.rows}) >= MinRepositories

RunsComplete(report) ==
    \A a \in Agents : Of(report.rows, a) # {} /\ \A r \in Of(report.rows, a) : Completed(r)

\* Trials that one of the two has solved and the other has not.
Wins(report, a, b) ==
    {r \in Of(report.rows, a) :
        Verified(r) /\ \E s \in Of(report.rows, b) :
            s.task = r.task /\ s.trial = r.trial /\ ~Verified(s)}

\* The thresholds over all runs.
ThresholdsHold(report) ==
    LET nexus == Of(report.rows, "nexus")
        base == Of(report.rows, "direct_baseline")
        claude == Of(report.rows, "claude_code")
    IN  /\ Percent(nexus, Verified) >= 75
        /\ Percent(nexus, Verified) >= Percent(claude, Verified) + 5
        /\ 100 * Percent(nexus, Verified) >= 125 * Percent(base, Verified)
        /\ Cardinality(Wins(report, "nexus", "claude_code"))
               >= Cardinality(Wins(report, "claude_code", "nexus")) + 1
        /\ Percent(nexus, FalseSuccess) <= 1
        /\ Percent(nexus, FalseSuccess) <= Percent(claude, FalseSuccess)
        /\ \A r \in nexus : r.ending # "strayed"
        /\ 10 * Median(nexus) <= 7 * Median(claude)

\* The thresholds of each category.
CategoriesHold(report) ==
    \A c \in Categories :
        LET here == {r \in report.rows : CategoryOf[r.task] = c}
            nexus == Of(here, "nexus")
            claude == Of(here, "claude_code")
        IN  /\ Percent(nexus, Verified) >= 60
            /\ Percent(nexus, Verified) >= Percent(claude, Verified) + 2
            /\ Percent(nexus, FalseSuccess) <= Percent(claude, FalseSuccess)

\* evaluate_superiority_report
Qualified(report) ==
    /\ ~report.dry /\ SealHolds(report)
    /\ GroupsHold(report) /\ RunsIsolated(report) /\ CoverageHolds(report) /\ SourcesHold(report)
    /\ RunsComplete(report) /\ ThresholdsHold(report) /\ CategoriesHold(report)

\* noryx benchmark superiority-gate, and the competitive part of noryx deploy check.
Gate ==
    /\ file # <<>>
    /\ claim' = IF Qualified(file[1]) THEN file ELSE <<>>
    /\ UNCHANGED <<manifest, repo, oracle, foreseen, duel, file, desk, begun, handEdits, published>>

-----------------------------------------------------------------------------
(* What people change meanwhile. *)

EditRepository(t, c) ==
    /\ handEdits < MaxHandEdits /\ c # repo[t]
    /\ repo' = [repo EXCEPT ![t] = c] /\ handEdits' = handEdits + 1
    /\ UNCHANGED <<manifest, oracle, foreseen, duel, file, desk, claim, begun, published>>

EditOracle ==
    /\ handEdits < MaxHandEdits /\ handEdits' = handEdits + 1
    /\ oracle' = "changed"
    /\ UNCHANGED <<manifest, repo, foreseen, duel, file, desk, claim, begun, published>>

EditManifest(m) ==
    /\ handEdits < MaxHandEdits /\ m # manifest
    /\ manifest' = m /\ handEdits' = handEdits + 1
    /\ UNCHANGED <<repo, oracle, foreseen, duel, file, desk, claim, begun, published>>

\* A report that has been signed and handed on: one result, a task's results, or the dry-run flag.
Altered(report) ==
    {[report EXCEPT !.rows = (@ \ {r}) \union {[r EXCEPT !.ending = e]}] :
        r \in report.rows, e \in {"solved", "missed"}}
    \union {[report EXCEPT !.rows = {r \in @ : r.task # t}] : t \in TaskIds}
    \union {[report EXCEPT !.dry = ~@]}

AlterReport ==
    /\ handEdits < MaxHandEdits /\ file # <<>> /\ file[1].signature # <<>>
    /\ \E r \in Altered(file[1]) : file' = <<r>>
    /\ handEdits' = handEdits + 1
    /\ UNCHANGED <<manifest, repo, oracle, foreseen, duel, desk, claim, begun, published>>

CampaignNext ==
    \/ Preflight \/ NextGroup \/ FinishDuel \/ WriteSigned \/ Gate \/ EditOracle \/ AlterReport
    \/ \E dry \in BOOLEAN : BeginDuel(dry)
    \/ \E a \in Agents, e \in Outcomes \union {"planned"} : RunOne(a, e)
    \/ \E e \in {"lab", "other"} : ReadToSign(e)
    \/ \E t \in TaskIds, c \in SourceContents : EditRepository(t, c)
    \/ \E m \in Manifests : EditManifest(m)

CampaignSpec == CampaignInit /\ [][CampaignNext]_campaignVars

-----------------------------------------------------------------------------
\* The shape of the state.
CampaignTypeOK ==
    /\ manifest \in Manifests /\ repo \in [TaskIds -> SourceContents]
    /\ oracle \in {"sealed", "changed"}
    /\ begun \in 0..MaxDuels /\ handEdits \in 0..MaxHandEdits
    /\ \A s \in {foreseen, duel, file, desk, claim} : Len(s) <= 1
    /\ \A r \in published \union ToSet(file) :
           r.manifest \in Manifests /\ \A x \in r.rows : x.ending \in Endings /\ x.agent \in Agents

Substance(report) == [manifest |-> report.manifest, oracle |-> report.oracle, rows |-> report.rows]

\* A claim that the gate lets through rests on a duel that has been carried out in earnest, on the
\* sealed manifest, with every trial of every task by every agent, all agents of a task on the same
\* sources, and nexus really ahead - whatever was edited, signed again or altered meanwhile
\* (competitive_qualification.py:1-7, CHANGELOG.md:151).
ClaimEarned ==
    claim # <<>> =>
        \E w \in published :
            /\ Substance(w) = Substance(claim[1]) /\ ~w.dry /\ w.manifest = Trusted
            /\ \A t \in ToSet(Trusted.tasks), n \in 1..Trusted.trials, a \in Agents :
                   \E r \in w.rows : r.task = t /\ r.trial = n /\ r.agent = a /\ Completed(r)
            /\ \A r, s \in w.rows : r.task = s.task => r.repo = s.repo
            /\ Number(Of(w.rows, "nexus"), Verified) > Number(Of(w.rows, "claude_code"), Verified)

\* A campaign that the preflight called ready is not refused for its shape after the runs are paid
\* for, when nothing was edited since, no task sets a time limit of its own and the runs went well
\* (competitive_benchmark.py:230).
ReadyIsEvaluable ==
    (file # <<>> /\ foreseen # <<>>) =>
        LET report == file[1] IN
        (/\ \E w \in published : Substance(w) = Substance(report)
         /\ report.manifest = foreseen[1].manifest /\ report.manifest.long = {}
         /\ \A r \in report.rows : r.repo = foreseen[1].repo[r.task] /\ r.ending # "helped")
        => GroupsHold(report) /\ CoverageHolds(report) /\ SourcesHold(report)

\* What a campaign promises: its claims are earned, and one that was ready can be judged.
CampaignSound == ClaimEarned /\ ReadyIsEvaluable
=============================================================================
