------------------------------ MODULE ReleaseGate ------------------------------
(***************************************************************************)
(* The release pipeline: the resumable test matrix of                      *)
(* scripts/run_qualification_matrix.py and scripts/qualify_release.py, the *)
(* commands that leave reports (benchmark, offline reliability, deploy     *)
(* check, SBOM), the behavioural qualification of the host's sandbox, and  *)
(* `noryx release qualify`, which accepts a release on the evidence of     *)
(* files that were written before, perhaps from another source tree.       *)
(*                                                                         *)
(* A report is known by its stamp (two runs of a command never write the   *)
(* same bytes: each writes its time) and by what it says.  The evidence    *)
(* file that names the reports and their hashes is put together outside    *)
(* the program and is external here.                                       *)
(*                                                                         *)
(* Nothing orders the commands, and each writes a file of its own: their   *)
(* first runs are taken in the order of the script, and every further run, *)
(* edit of the tree or loss of a test process counts against MaxRedo.      *)
(***************************************************************************)
EXTENDS Naturals, FiniteSets

CONSTANTS
    Trees,           \* source trees: [hash, version, defects, failing]
    FirstTree,       \* the tree at the beginning
    Shards,          \* the shards of the test matrix
    Hosts,           \* machines: [native, runs, kills, keepsReads, keepsWrites, deniesNetwork, provider]
    MaxRedo          \* bound: edits of the tree, lost processes and repeated commands

Checks == {"imports", "required", "facades", "critical", "layout", "complexity", "entrypoint"}

ASSUME ReleaseAssumption ==
    /\ FirstTree \in Trees /\ MaxRedo \in Nat /\ IsFiniteSet(Shards) /\ Shards # {}
    /\ \A t \in Trees : t.defects \subseteq Checks \cup {"secret"} /\ t.failing \subseteq Shards
    \* the version is written in the tree, so equal hashes carry equal versions
    /\ \A t, u \in Trees : t.hash = u.hash => t = u
    /\ \A h \in Hosts : DOMAIN h = {"native", "runs", "kills", "keepsReads", "keepsWrites", "deniesNetwork", "provider"}

DeployModes == {"review", "quality", "autonomous", "ci", "local-only"}
Channels == {"private-alpha", "controlled-beta", "release-candidate"}
Bound == {"controlled-beta", "release-candidate"}
Reports == {"junit", "benchmark", "offline_reliability", "deploy_check", "sbom"}

VARIABLES
    tree,        \* the source tree
    shards,      \* junit-shard-*.xml: "none", "passed" or "failed"
    ended,         \* history: how the last process of each shard ended: "not", "passed", "failed", "lost"
    matrix,      \* history: how the shards had ended when junit.xml was written
    dist,        \* the distribution in dist/: [stamp, of], of the tree it was built from
    stamp,       \* the stamp of each report, 0 when it does not exist
    says,        \* what the reports say
    collected,    \* the evidence file
    redone       \* edits, losses and repetitions so far

releaseVars == <<tree, shards, ended, matrix, dist, stamp, says, collected, redone>>

NoDeploy == [supervised |-> FALSE, autonomous |-> FALSE, sandbox |-> FALSE, superior |-> FALSE, contained |-> FALSE]

ReleaseInit ==
    /\ tree = FirstTree
    /\ shards = [s \in Shards |-> "none"] /\ ended = [s \in Shards |-> "not"] /\ matrix = ended
    /\ dist = [stamp |-> 0, of |-> FirstTree]
    /\ stamp = [r \in Reports |-> 0]
    /\ says = [failed |-> 0, benchmark |-> "none", offline |-> FALSE, version |-> "none", deploy |-> NoDeploy]
    /\ collected = [made |-> FALSE, version |-> "none", hash |-> "none", failed |-> 0, wheel |-> 0,
                   reports |-> stamp, results |-> "none"]
    /\ redone = 0

(* A first run is free once the commands before it have run; every other *)
(* step counts.                                                          *)
Counted == redone < MaxRedo /\ redone' = redone + 1
FreeIf(first) == IF first THEN UNCHANGED redone ELSE Counted
Made(r) == stamp[r] # 0
Stamped(r) == stamp' = [stamp EXCEPT ![r] = redone + 1]

-----------------------------------------------------------------------------
(* The source tree, and what is computed from it on the spot. *)

EditTree ==
    /\ Counted
    /\ \E t \in Trees \ {tree} : tree' = t
    /\ UNCHANGED <<shards, ended, matrix, dist, stamp, says, collected>>

\* source_tree_sha256: everything but generated files.
source_tree_sha256(t) == t.hash

\* run_architecture_health is the conjunction of its seven checks.
check(t, c) == c \notin t.defects
run_architecture_health(t) == \A c \in Checks : check(t, c)
scan_source_secrets(t) == "secret" \notin t.defects

-----------------------------------------------------------------------------
(* The test matrix. *)

Outcome(s) == IF s \in tree.failing THEN "failed" ELSE "passed"

Prepare ==
    /\ Counted
    /\ shards' = [s \in Shards |-> "none"] /\ ended' = [s \in Shards |-> "not"]
    /\ stamp' = [stamp EXCEPT !["junit"] = 0]
    /\ UNCHANGED <<tree, matrix, dist, says, collected>>

\* The shard's report is deleted before its process starts, so that a process
\* that exceeds its time leaves none.
Unlinked(s) == "none"

RunShard(s) ==
    /\ \E o \in {Outcome(s), "lost"} :
        /\ FreeIf(ended[s] \in {"not", "lost"} /\ o # "lost")
        /\ ended' = [ended EXCEPT ![s] = o]
        /\ shards' = [shards EXCEPT ![s] = IF o = "lost" THEN Unlinked(s) ELSE o]
    /\ UNCHANGED <<tree, matrix, dist, stamp, says, collected>>

FailedIn(f) == Cardinality({s \in Shards : f[s] = "failed"})

\* The summed report is written before failures are reported by the exit code.
Aggregate ==
    /\ \A s \in Shards : shards[s] # "none"
    /\ FreeIf(~Made("junit"))
    /\ says' = [says EXCEPT !.failed = FailedIn(shards)]
    /\ Stamped("junit") /\ matrix' = ended
    /\ UNCHANGED <<tree, shards, ended, dist, collected>>

\* qualify_release.py runs all shards by itself and raises on the first that
\* fails, before the sum is written: an earlier junit.xml then stays.
run_isolated_tests ==
    /\ Counted
    /\ LET all == [s \in Shards |-> Outcome(s)] IN
        /\ shards' = all /\ ended' = all
        /\ IF FailedIn(all) = 0
             THEN says' = [says EXCEPT !.failed = 0] /\ Stamped("junit") /\ matrix' = all
             ELSE UNCHANGED <<says, stamp, matrix>>
    /\ UNCHANGED <<tree, dist, collected>>

-----------------------------------------------------------------------------
(* Distributions and reports. *)

\* The script builds into an emptied dist/ and then looks for a wheel by a name
\* the project no longer has: it stops here, with the files built.
build_distributions ==
    /\ Made("junit")
    /\ FreeIf(dist.stamp = 0)
    /\ dist' = [stamp |-> redone + 1, of |-> tree]
    /\ UNCHANGED <<tree, shards, ended, matrix, stamp, says, collected>>

\* A dry run marks each task VALID or BLOCKED, a run executes them; only VALID
\* tasks are counted as valid, so an executed benchmark has none.
BenchmarkSays == {"valid", "blocked", "executed"}
benchmark_failed(b) == b = "blocked"
manifest_valid_tasks(b) == IF b = "valid" THEN 1 ELSE 0

Benchmark ==
    /\ dist.stamp # 0
    /\ FreeIf(~Made("benchmark"))
    /\ \E b \in BenchmarkSays : says' = [says EXCEPT !.benchmark = b]
    /\ Stamped("benchmark")
    /\ UNCHANGED <<tree, shards, ended, matrix, dist, collected>>

\* run_offline_reliability_benchmark: five scenarios, one of them a repair; TRUE
\* when none of them fails.
OfflineReliability ==
    /\ Made("benchmark")
    /\ FreeIf(~Made("offline_reliability"))
    /\ \E ok \in BOOLEAN : says' = [says EXCEPT !.offline = ok]
    /\ Stamped("offline_reliability")
    /\ UNCHANGED <<tree, shards, ended, matrix, dist, collected>>

\* build_spdx_sbom names the version of the code that runs.
Sbom ==
    /\ Made("deploy_check")
    /\ FreeIf(~Made("sbom"))
    /\ says' = [says EXCEPT !.version = tree.version]
    /\ Stamped("sbom")
    /\ UNCHANGED <<tree, shards, ended, matrix, dist, collected>>

-----------------------------------------------------------------------------
(* The host. *)

\* What the probes see.  On a machine that cannot start commands the probes that
\* expect a denial see one.
workspace_write_allowed(h) == h.runs
timeout_terminates_process_group(h) == h.runs /\ h.kills
outside_read_denied(h) == h.runs => h.keepsReads
outside_write_denied(h) == h.runs => h.keepsWrites
network_denied(h) == h.native /\ (h.runs => h.deniesNetwork)

\* NativeSandboxQualifier.qualify: autonomous_ready.
qualify(h) ==
    /\ h.native
    /\ timeout_terminates_process_group(h)
    /\ outside_read_denied(h) /\ outside_write_denied(h)
    /\ network_denied(h)
    /\ workspace_write_allowed(h)

\* History: what the claim is about.
Contained(h) == h.native /\ h.runs /\ h.kills /\ h.keepsReads /\ h.keepsWrites /\ h.deniesNetwork

\* Every mode of the check is one that requires native isolation.
doctor_report(h, workspaceOk) == workspaceOk /\ h.native /\ h.provider

\* The report that `noryx deploy check` writes.  The workspace, the probe of the
\* signed state and the offline suite come out either way; superiority is the
\* verdict on a competitive report, if one is given (module Campaign).
deploy_check(h, mode, deep, workspaceOk, offlineOk, superior) ==
    LET ready == run_architecture_health(tree) /\ doctor_report(h, workspaceOk) /\ (deep => offlineOk)
        sandbox == mode = "autonomous" /\ qualify(h)
    IN [supervised |-> ready /\ deep /\ mode \in DeployModes \ {"local-only"},
        autonomous |-> ready /\ deep /\ mode = "autonomous" /\ sandbox /\ superior,
        sandbox |-> sandbox, superior |-> superior, contained |-> Contained(h)]

DeployReports ==
    {deploy_check(h, mode, deep, workspaceOk, offlineOk, superior) :
        h \in Hosts, mode \in DeployModes, deep, workspaceOk, offlineOk, superior \in BOOLEAN}

DeployCheck ==
    /\ Made("offline_reliability")
    /\ FreeIf(~Made("deploy_check"))
    /\ \E found \in DeployReports : says' = [says EXCEPT !.deploy = found]
    /\ Stamped("deploy_check")
    /\ UNCHANGED <<tree, shards, ended, matrix, dist, collected>>

-----------------------------------------------------------------------------
(* Qualification: a question to the files that changes none of them. *)

\* External: someone writes the evidence of what lies there, with a summary of the
\* tests and named results of his own.
Collect ==
    /\ Made("sbom")
    /\ FreeIf(~collected.made)
    /\ \E failed \in {0, says.failed}, results \in {"failed", "suite", "suite and live"} :
        collected' = [made |-> TRUE, version |-> tree.version, hash |-> source_tree_sha256(tree),
                     failed |-> failed, wheel |-> dist.stamp, reports |-> stamp,
                     results |-> results]
    /\ UNCHANGED <<tree, shards, ended, matrix, dist, stamp, says>>

\* _validate_bound_evidence up to the artifacts: the evidence is of this version,
\* of this tree and of the artifacts that are given, and its counts have no failure.
BindingHolds(version, wheelGiven) ==
    /\ collected.made
    /\ collected.version = version
    /\ collected.hash = source_tree_sha256(tree)
    /\ collected.failed = 0
    /\ wheelGiven => collected.wheel = dist.stamp

ReportThere(r) == Made(r) /\ stamp[r] = collected.reports[r]

\* Faulty variant: a report counts when it exists, whatever its hash.
ReportsUnhashed(version) ==
    /\ \A r \in Reports : Made(r)
    /\ says.failed = collected.failed
    /\ ~benchmark_failed(says.benchmark) /\ manifest_valid_tasks(says.benchmark) >= 1
    /\ says.offline /\ says.version = version
    /\ says.deploy.supervised /\ (says.deploy.autonomous => says.deploy.sandbox /\ says.deploy.superior)

\* The rest of _validate_bound_evidence: every required report is the one whose hash
\* was taken, and says what it has to say.
ReportsHold(version) ==
    /\ \A r \in Reports : ReportThere(r)
    /\ says.failed = collected.failed
    /\ ~benchmark_failed(says.benchmark) /\ manifest_valid_tasks(says.benchmark) >= 1
    /\ says.offline
    /\ says.version = version
    /\ says.deploy.supervised
    /\ says.deploy.autonomous => says.deploy.sandbox /\ says.deploy.superior

NamesHold(channel) ==
    CASE channel = "private-alpha" -> TRUE
      [] channel = "controlled-beta" -> collected.results \in {"suite", "suite and live"}
      [] channel = "release-candidate" -> collected.results = "suite and live"

\* ReleaseQualification.evaluate, with the results of `noryx release qualify`: the
\* rollback plan comes from the evidence or from the command line.
evaluate(channel, version, wheelGiven, downgradeTested) ==
    /\ run_architecture_health(tree) /\ scan_source_secrets(tree)
    /\ downgradeTested
    /\ collected.results # "failed"
    /\ NamesHold(channel)
    /\ channel \in Bound => wheelGiven /\ BindingHolds(version, wheelGiven) /\ ReportsHold(version)

\* The releases that `noryx release qualify` accepts as things stand; a wheel that
\* does not exist cannot be given.
Accepted ==
    {c \in Channels : \E v \in {t.version : t \in Trees}, wheelGiven, downgradeTested \in BOOLEAN :
        (wheelGiven => dist.stamp # 0) /\ evaluate(c, v, wheelGiven, downgradeTested)}

-----------------------------------------------------------------------------
ReleaseNext ==
    \/ EditTree \/ Prepare \/ Aggregate \/ run_isolated_tests
    \/ \E s \in Shards : RunShard(s)
    \/ build_distributions \/ Benchmark \/ OfflineReliability \/ DeployCheck \/ Sbom
    \/ Collect

ReleaseSpec == ReleaseInit /\ [][ReleaseNext]_releaseVars

-----------------------------------------------------------------------------
(* Properties. *)

ReleaseTypeOK ==
    /\ tree \in Trees /\ dist \in [stamp : 0..(MaxRedo + 1), of : Trees]
    /\ shards \in [Shards -> {"none", "passed", "failed"}]
    /\ ended \in [Shards -> {"not", "passed", "failed", "lost"}]
    /\ matrix \in [Shards -> {"not", "passed", "failed", "lost"}]
    /\ stamp \in [Reports -> 0..(MaxRedo + 1)]
    /\ says.failed \in 0..Cardinality(Shards) /\ says.benchmark \in BenchmarkSays \cup {"none"}
    /\ collected.reports \in [Reports -> 0..(MaxRedo + 1)]
    /\ redone \in 0..MaxRedo

(* junit.xml is the sum of the latest process of every shard: a process that was   *)
(* killed or ran out of time leaves the matrix incomplete, however often shards    *)
(* are run again (run_shard, aggregate).                                           *)
MatrixComplete ==
    Made("junit") =>
        /\ \A s \in Shards : matrix[s] \in {"passed", "failed"}
        /\ says.failed = FailedIn(matrix)

(* A channel that asks for bound evidence accepts no stale evidence: what it        *)
(* accepts was collected from the tree that is there, with the reports and the      *)
(* wheel that are there, by a matrix without failures, and the SBOM and the tree    *)
(* carry one version; every channel looks at the tree as it is (evaluate).          *)
AcceptedIsBound ==
    LET accepted == Accepted IN
        /\ accepted # {} => tree.defects = {}
        /\ accepted \cap Bound # {} =>
            /\ collected.reports = stamp /\ collected.wheel = dist.stamp
            /\ \A s \in Shards : matrix[s] = "passed"
            /\ says.version = tree.version

(* No report claims autonomous readiness of a host whose commands are not contained, *)
(* and no accepted release carries such a claim (qualify, _handle_deploy_check).      *)
ClaimsContained ==
    /\ \A h \in Hosts : qualify(h) => Contained(h)
    /\ says.deploy.autonomous => says.deploy.contained /\ says.deploy.superior /\ says.deploy.supervised

ReleaseSound == MatrixComplete /\ AcceptedIsBound /\ ClaimsContained

=============================================================================
