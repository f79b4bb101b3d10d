------------------------- MODULE CompletionContract -------------------------
(***************************************************************************)
(* When a turn may count as complete: the contract that is derived from    *)
(* the request and the repository (multifile/orchestrator.py), the ledger  *)
(* of its obligations (multifile/ledger.py), the credit that reading,      *)
(* changing and testing files earns (intelligence/engineering/brain.py,    *)
(* tool_executor.py), and the judgement of a finish that would otherwise   *)
(* be VERIFIED (run_finalizer.py).                                         *)
(***************************************************************************)
EXTENDS Naturals, FiniteSets, Sequences, SequencesExt, FiniteSetsExt, TestCommands

CONSTANTS
    RepositoryFiles, \* the files of the repository
    Tests,           \* those that are tests
    Surface,         \* those that configure or migrate
    RootOf,          \* the first part of the path of each
    MaxRoots,        \* how many roots a contract may list, 8 in the code
    Tasks,           \* the requests, as the index of the repository sees them
    MaxMoves         \* bound: changes, undos and runs of tests

Kinds == {"bug_repair", "refactor", "migration", "security_remediation", "other"}
\* The files a request names, those the context ranks decisive, their callers and tests, those it
\* forbids to touch; what the impact closure and the analysis of shared state find.
FileSets == SUBSET RepositoryFiles
RequestedTask ==
    [explicit : FileSets, decisive : FileSets, callers : FileSets, related : SUBSET Tests,
     protected : FileSets, reach : FileSets, contended : FileSets, kind : Kinds, wide : BOOLEAN,
     risky : BOOLEAN, mutating : BOOLEAN]
ASSUME ContractAssumption ==
    /\ IsFiniteSet(RepositoryFiles) /\ Tests \cup Surface \subseteq RepositoryFiles
    /\ DOMAIN RootOf = RepositoryFiles /\ {MaxRoots, MaxMoves} \subseteq Nat
    /\ Tasks \subseteq RequestedTask

-----------------------------------------------------------------------------
(* MultiFileOrchestrator.derive.                                           *)

\* The callers must change with what they call.
Coordinated(task) == task.wide \/ task.kind \in {"migration", "refactor"}

Hard(task) ==
    \/ task.risky
    \/ task.kind \in {"migration", "security_remediation"}
    \/ Cardinality(task.explicit) >= 2
    \/ task.kind \in {"bug_repair", "refactor"} /\ Cardinality(task.callers) >= 2

Migrated(task) == IF task.mutating /\ task.kind = "migration" THEN Surface ELSE {}

RequiredChanges(task) ==
    IF ~task.mutating THEN {}
    ELSE ((task.explicit \ Tests)
              \union (IF Coordinated(task) THEN task.callers ELSE {}) \union Migrated(task))
         \ task.protected

MinimumChanged(task) ==
    IF Coordinated(task) /\ task.callers # {}
    THEN LET planned == {Cardinality(RequiredChanges(task)), Cardinality(task.callers) + 1}
         IN IF Min(planned) < 2 THEN 2 ELSE Min(planned)
    ELSE IF task.mutating THEN 1 ELSE 0

\* _minimal_roots
Roots(task) ==
    LET roots == {RootOf[f] : f \in task.explicit \union task.decisive \union task.callers
                                        \union task.related}
    IN IF roots = {} \/ Cardinality(roots) > MaxRoots THEN {"."} ELSE roots

Allowed(task, f) == f \in RequiredChanges(task) \/ RootOf[f] \in Roots(task)

\* The blocking obligations of the contract, as <<path, action>>.
Asks(paths, action) == paths \X {action}
Inspections(task) ==
    task.explicit \union task.decisive
        \union (IF ~Coordinated(task) /\ task.risky THEN task.callers ELSE {})
Contract(task) ==
    Asks(Inspections(task), "inspect")
        \union (IF Coordinated(task) THEN Asks(task.callers, "change") ELSE {})
        \union Asks(task.related, "verify") \union Asks(task.protected, "preserve")
        \union Asks(Migrated(task), "change")

\* The repository-wide impact of a change that is not local.
Closure(task) ==
    LET action(f) == CASE f \in Tests -> "verify"
                       [] f \in Surface -> "inspect"
                       [] OTHER -> IF task.kind = "refactor" THEN "inspect" ELSE "change"
    IN {<<f, action(f)>> : f \in task.reach}

\* CompletionLedger.from_contract, without the obligations that do not block.
Ledger(task) ==
    {o \in Contract(task) : Hard(task) \/ o[2] # "inspect"}
        \union Asks(RequiredChanges(task), "change") \union Closure(task)
        \union Asks(task.contended, "verify")

-----------------------------------------------------------------------------
VARIABLES
    task,            \* the request, from which the contract and the ledger are derived
    related,         \* EngineeringContract.related_tests, which a failure may extend
    inspected,       \* EngineeringBrain._inspected_files
    verified,        \* EngineeringBrain._verified_files
    satisfied,       \* the obligations of the ledger that are satisfied
    contractChanges, \* the changes of the run, as history keeps them
    contractStatus,  \* what the last finish said, "none" once something happened after it
    moves,
    passed,     \* bookkeeping: the tests that ran in a run that passed
    touched,    \* bookkeeping: the files that were changed
    mislabelled \* bookkeeping: a run of a part passed as a run of the whole suite

contractVars == <<task, related, inspected, verified, satisfied, contractChanges, contractStatus,
                  moves, passed, touched, mislabelled>>

\* EngineeringBrain.prepare
ContractInit ==
    /\ task \in Tasks /\ related = task.related
    /\ inspected = {} /\ verified = {} /\ satisfied = {} /\ contractChanges = <<>>
    /\ contractStatus = "none" /\ moves = 0 /\ passed = {} /\ touched = {} /\ mislabelled = FALSE

\* CompletionLedger.record
Record(action, paths) == satisfied \union (Asks(paths, action) \intersect Ledger(task))

Moving == moves < MaxMoves /\ moves' = moves + 1

\* A file is read with a tool.
Inspect(f) ==
    /\ f \notin inspected
    /\ inspected' = inspected \union {f} /\ satisfied' = Record("inspect", {f})
    /\ contractStatus' = "none"
    /\ UNCHANGED <<task, related, verified, contractChanges, moves, passed, touched, mislabelled>>

\* record_changes: an edit, after it was recorded in memory.
Edit(f) ==
    /\ Moving
    /\ contractChanges' = Append(contractChanges, f) /\ satisfied' = Record("change", {f})
    /\ touched' = touched \union {f} /\ contractStatus' = "none"
    /\ UNCHANGED <<task, related, inspected, verified, passed, mislabelled>>

\* A command changes a file: its transaction is in the history, and no obligation is met.
ChangeByCommand(f) ==
    /\ Moving
    /\ contractChanges' = Append(contractChanges, f) /\ touched' = touched \union {f}
    /\ contractStatus' = "none"
    /\ UNCHANGED <<task, related, inspected, verified, satisfied, passed, mislabelled>>

\* The last change is undone.
UndoChange ==
    /\ Moving /\ contractChanges # <<>>
    /\ contractChanges' = Front(contractChanges) /\ contractStatus' = "none"
    /\ UNCHANGED <<task, related, inspected, verified, satisfied, passed, touched, mislabelled>>

\* Faulty variant: any valid run is credited to every related test.
CreditedAll(profile) == related

\* _track_engineering_context: the related tests that a valid run vouches for.
Credited(profile) ==
    IF profile.scope = "full_suite" THEN related ELSE related \intersect profile.targets

\* The model runs a command, which may be one that runs tests.
RunTests(command, ran, ok, shown) ==
    LET profile == Analyse(command, Tests)
        valid == ValidExecution(profile, ran, ok, shown)
        credit == IF valid THEN Credited(profile) ELSE {}
    IN /\ Moving
       /\ verified' = verified \union credit /\ satisfied' = Record("verify", credit)
       /\ passed' = IF ok THEN passed \union ran ELSE passed
       /\ mislabelled' = (mislabelled \/ (valid /\ command.form = "joined" /\ ran # Tests))
       /\ contractStatus' = "none"
       /\ UNCHANGED <<task, related, inspected, contractChanges, touched>>

\* expand_context_from_failure: more tests are related, and nothing more is asked.
ExpandContext(tests) ==
    /\ ~ tests \subseteq related
    /\ related' = related \union tests
    /\ UNCHANGED <<task, inspected, verified, satisfied, contractChanges, contractStatus, moves,
                   passed, touched, mislabelled>>

-----------------------------------------------------------------------------
(* The judgement.                                                          *)

ChangedFiles == Range(contractChanges)

\* MultiFileCompletionContract.assess
Assessed ==
    /\ RequiredChanges(task) \subseteq ChangedFiles
    /\ task.related \subseteq verified
    /\ \A f \in ChangedFiles : Allowed(task, f)
    /\ ChangedFiles \intersect task.protected = {}
    /\ Cardinality(ChangedFiles) >= MinimumChanged(task)
    /\ Hard(task) => Inspections(task) \subseteq inspected

\* completion_assessment, which records the changes of the run before it asks the ledger.
ContractMet == Assessed /\ Ledger(task) \subseteq Record("change", ChangedFiles)

\* A finish of a turn that is VERIFIED but for the contract.
JudgeFinish ==
    /\ contractStatus = "none"
    /\ satisfied' = Record("change", ChangedFiles)
    /\ contractStatus' = IF ContractMet THEN "VERIFIED" ELSE "PARTIALLY_VERIFIED"
    /\ UNCHANGED <<task, related, inspected, verified, contractChanges, moves, passed, touched,
                   mislabelled>>

\* The commands that are not chained or interpolated, and no script.
Runnable ==
    {Command("suite", {}), Command("selector", {}), Command("joined", {})}
        \union {Command("paths", {t}) : t \in Tests}

ContractNext ==
    \/ \E f \in Inspections(task) \union task.reach : Inspect(f)
    \/ \E f \in RepositoryFiles : Edit(f) \/ ChangeByCommand(f)
    \/ UndoChange
    \/ \E command \in Runnable, ok \in BOOLEAN, shown \in {"count", "silent"} :
          \E ran \in MayRun(command, Tests) : RunTests(command, ran, ok, shown)
    \/ \E tests \in SUBSET Tests : ExpandContext(tests)
    \/ JudgeFinish

ContractSpec == ContractInit /\ [][ContractNext]_contractVars

-----------------------------------------------------------------------------
ContractTypeOK ==
    /\ task \in Tasks /\ related \subseteq Tests /\ task.related \subseteq related
    /\ inspected \subseteq RepositoryFiles /\ verified \subseteq related
    /\ satisfied \subseteq Ledger(task)
    /\ contractChanges \in Seq(RepositoryFiles) /\ Len(contractChanges) <= moves
    /\ moves \in 0..MaxMoves
    /\ contractStatus \in {"none", "VERIFIED", "PARTIALLY_VERIFIED"}
    /\ passed \subseteq Tests /\ ChangedFiles \subseteq touched /\ touched \subseteq RepositoryFiles
    /\ mislabelled \in BOOLEAN

\* What counts as complete was done (orchestrator.py, the invariants of every contract): the files
\* that had to change differ now, what the impact closure found was changed at some time, no file that
\* the request protects differs, and every related test was in a run that passed, unless a run of a
\* part was taken for the whole.
CompletionEarned ==
    contractStatus = "VERIFIED" =>
        /\ RequiredChanges(task) \subseteq ChangedFiles
        /\ {f \in task.reach : <<f, "change">> \in Closure(task)} \subseteq touched
        /\ ChangedFiles \intersect task.protected = {}
        /\ mislabelled \/ task.related \subseteq passed

\* CAPABILITIES.md:7: "missing inspection, required coordinated edits, targeted verification,
\* unexpected paths, or preserved-file violations block completion", and so nothing else does.  Does
\* not hold: the ledger keeps an obligation to preserve a file, or to verify a source, that nothing
\* ever satisfies.
DoneIsComplete ==
    Assessed /\ Inspections(task) \subseteq inspected
        /\ (\A o \in Ledger(task) : o[2] \in {"inspect", "change"} => o \in satisfied)
        /\ contractStatus # "none"
    => contractStatus = "VERIFIED"
=============================================================================
