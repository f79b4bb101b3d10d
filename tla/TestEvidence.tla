---------------------------- MODULE TestEvidence ----------------------------
(***************************************************************************)
(* The tests of one turn and what they vouch for: the contents known when  *)
(* the turn was planned (intelligence/engineering/brain.py), the edits and *)
(* other changes that follow, the declared test and the suite of the       *)
(* verifier (verification.py, agent/core.py), the provenance and identity  *)
(* of each record (verification_evidence.py), and the verdict on them      *)
(* (intelligence/engineering/semantic.py).                                 *)
(* Every change makes a new revision; a content is the number of the       *)
(* revision that made it, 1 what was there at first and 0 no file.  Which  *)
(* tests fail is chosen anew at every revision.                            *)
(***************************************************************************)
EXTENDS Naturals, FiniteSets, Sequences, SequencesExt, TestCommands

CONSTANTS
    Tests,          \* the test files, as numbers: the order in which a runner takes them
    MaxMoves,       \* bound: edits and other changes
    MaxDeclared,    \* bound: runs of a declared test command
    Outputs         \* what outputs show, a subset of Shown

Source == 0         \* the program under test, as one file
Files == Tests \union {Source}
ASSUME EvidenceAssumption ==
    Tests \subseteq Nat \ {0} /\ IsFiniteSet(Tests) /\ Outputs \subseteq Shown

VARIABLES
    content,    \* the content of each file
    expected,   \* EngineeringBrain._expected_file_hashes
    broken,     \* the tests that fail at this revision
    rev,        \* workspace_revision
    changed,    \* the turn has a verified mutation
    due,        \* an edit has not met the suite yet
    phase,      \* "execute", "checked" once the suite ran, "judged"
    evidence,   \* the records of the turn that judges read
    verdict,    \* SemanticVerifier.verify
    moves, declared,
    recorded,   \* bookkeeping: the contents written by recorded edits
    planned,    \* bookkeeping: the files known when the turn was planned
    mislabelled \* bookkeeping: a run of a part passed as a run of the whole suite

files == <<content, expected, broken, rev, recorded>>
evidenceVars == <<files, changed, due, phase, evidence, verdict, moves, declared, planned, mislabelled>>

PresentIn(c) == {t \in Tests : c[t] # 0}
Present == PresentIn(content)

\* EngineeringBrain.prepare: every indexed test and every file of the scope is known, those that do
\* not exist as absent.
EvidenceInit ==
    /\ content \in {c \in [Files -> {0, 1}] : c[Source] = 1}
    /\ \E scope \in SUBSET (Tests \ Present) :
          expected = [f \in {Source} \union Present \union scope |-> content[f]]
    /\ broken = {}     \* nothing runs before the first edit
    /\ rev = 1
    /\ changed = FALSE /\ due = FALSE /\ phase = "execute" /\ evidence = <<>>
    /\ verdict = "none"
    /\ moves = 0 /\ declared = 0 /\ recorded = {} /\ planned = DOMAIN expected
    /\ mislabelled = FALSE

-----------------------------------------------------------------------------
(* Changes. *)

Moving == phase # "judged" /\ moves < MaxMoves
NewContent == rev + 1

\* A new content of a file, at a new revision, at which any tests may fail.
Becomes(f, c) ==
    /\ content' = [content EXCEPT ![f] = c]
    /\ rev' = rev + 1
    /\ broken' \in SUBSET PresentIn(content')

Expecting(f, c) == [g \in DOMAIN expected \union {f} |-> IF g = f THEN c ELSE expected[g]]

\* _write_precondition_failure: a file that is known must be as expected; one that is not becomes
\* known as it is.
AsExpected(f) == f \in DOMAIN expected => expected[f] = content[f]
Captured(f) == IF f \in DOMAIN expected THEN expected ELSE Expecting(f, content[f])

\* An edit of the model: authorised, written, and recorded by record_changes.
EditFile(f) ==
    /\ Moving /\ AsExpected(f)
    /\ Becomes(f, NewContent)
    /\ expected' = Expecting(f, NewContent) /\ recorded' = recorded \union {NewContent}
    /\ changed' = TRUE /\ due' = TRUE /\ moves' = moves + 1
    /\ UNCHANGED <<phase, evidence, verdict, declared, planned, mislabelled>>

\* A later gate, or the user, stops an edit of a file that was not known.
StopEdit(f) ==
    /\ Moving /\ f \notin DOMAIN expected
    /\ expected' = Captured(f) /\ moves' = moves + 1
    /\ UNCHANGED <<content, broken, rev, recorded, changed, due, phase, evidence, verdict, declared,
                   planned, mislabelled>>

\* An edit that cannot be recorded is undone and leaves a failed record.
LoseEdit(f) ==
    /\ Moving /\ AsExpected(f)
    /\ expected' = Captured(f) /\ moves' = moves + 1
    /\ evidence' = Append(evidence, [about |-> "integrity", scope |-> "none", targets |-> {},
                                     verified |-> FALSE, rev |-> rev, origin |-> "none"])
    /\ UNCHANGED <<content, broken, rev, recorded, changed, due, phase, verdict, declared, planned,
                   mislabelled>>

\* A command of the model, or the user, changes or removes a file.
ChangeBehind(f, removed) ==
    /\ Moving
    /\ removed => f # Source /\ content[f] # 0
    /\ Becomes(f, IF removed THEN 0 ELSE NewContent)
    /\ moves' = moves + 1
    /\ UNCHANGED <<expected, recorded, changed, due, phase, evidence, verdict, declared, planned,
                   mislabelled>>

-----------------------------------------------------------------------------
(* Provenance. *)

\* _path_provenance
ProvenanceOf(f) ==
    CASE f \notin DOMAIN expected -> IF content[f] # 0 THEN "model_generated" ELSE "unknown"
      [] f \in DOMAIN expected /\ expected[f] = 0 -> "model_generated"
      [] OTHER -> IF content[f] = 0 THEN "unknown"
                  ELSE IF content[f] = expected[f] THEN "pre_existing"
                  ELSE "modified_pre_existing"

\* test_origin_for_profile
Origin(profile) ==
    LET paths == IF profile.scope = "full_suite" THEN Present ELSE profile.targets
        states == {ProvenanceOf(f) : f \in paths}
    IN IF ~profile.valid \/ paths = {} THEN "unknown"
       ELSE IF Cardinality(states) = 1 THEN CHOOSE s \in states : TRUE ELSE "mixed"

-----------------------------------------------------------------------------
(* Runs. *)

\* Runners return zero when no test they ran failed and every file they were given exists.
ExitsZero(command, ran) == ran \intersect broken = {} /\ command.targets \subseteq Present

TestRecord(profile, verified) ==
    [about |-> "test", scope |-> profile.scope, targets |-> profile.targets,
     verified |-> verified, rev |-> rev, origin |-> Origin(profile)]
StaticRecord(verified) ==
    [about |-> "static", scope |-> "none", targets |-> {}, verified |-> verified, rev |-> rev,
     origin |-> "none"]

\* _run_declared_test_command: the test that the local model declared, after its edits.
RunDeclared(command, ran, shown) ==
    LET profile == Analyse(command, Present)
        verified == ValidExecution(profile, ran, ExitsZero(command, ran), shown)
    IN /\ phase = "execute" /\ changed /\ declared < MaxDeclared
       /\ declared' = declared + 1
       /\ evidence' = Append(evidence, TestRecord(profile, verified))
       /\ mislabelled' = (mislabelled \/ (verified /\ command.form = "joined" /\ ran # Present))
       /\ UNCHANGED <<files, changed, due, phase, verdict, moves, planned>>

\* _execute_check of the tests: with what the output shows of the failures, since the default
\* command stops at the first.
First(failing) == {t \in failing : \A u \in failing : t <= u}
CheckTests(command, ran, shown) ==
    [profile |-> Analyse(command, Present),
     passed |-> ValidExecution(Analyse(command, Present), ran, ExitsZero(command, ran), shown),
     output |-> First(ran \intersect broken)]

\* Faulty variant: an inherited failure is recorded as a pass.
RecordedInherited(check, inherited) == TestRecord(check.profile, check.passed \/ inherited)

\* _record_verification_report: only a check that passed is verified.
Recorded(check, inherited) == TestRecord(check.profile, check.passed)

\* reconcile_with_baseline: the same command fails in the source repository, where the tests of
\* debt fail now, and shows the same.
Inherits(check, debt) ==
    ~check.passed /\ check.output # {} /\ check.output = First(debt)

\* run_change_aware: the tests that the changes may touch first, and only if they pass the static
\* checks and the whole suite.
ChangeAware(impacted, static, shown, debt) ==
    LET focused == CheckTests(Command("paths", impacted), impacted, shown)
        gate == CheckTests(Command("suite", {}), Present, shown)
        narrow == IF impacted = {} THEN <<>> ELSE <<Recorded(focused, FALSE)>>
    IN IF impacted # {} /\ ~focused.passed THEN narrow
       ELSE narrow \o <<StaticRecord(static), Recorded(gate, Inherits(gate, debt))>>

\* _run_verification_suite, of a turn that changed something.
RunSuite(impacted, static, shown, debt) ==
    /\ phase # "judged" /\ due
    /\ phase' = "checked" /\ due' = FALSE
    /\ evidence' = evidence \o ChangeAware(impacted, static, shown, debt)
    /\ UNCHANGED <<files, changed, verdict, moves, declared, planned, mislabelled>>

-----------------------------------------------------------------------------
(* The verdict. *)

\* verification_identity
SameObligation(a, b) == a.about = b.about /\ a.scope = b.scope /\ a.targets = b.targets

Superseded(i) == \E j \in DOMAIN evidence : j > i /\ SameObligation(evidence[i], evidence[j])

\* effective_verification_evidence: the latest of each obligation, without the narrow ones that a
\* full pass covers at its revision.
Effective ==
    LET latest == {i \in DOMAIN evidence : evidence[i].about = "integrity" \/ ~Superseded(i)}
        covered(i) == /\ evidence[i].about = "test" /\ evidence[i].scope = "targeted"
                      /\ \E j \in latest : /\ evidence[j].verified
                                           /\ evidence[j].scope = "full_suite"
                                           /\ evidence[j].rev = evidence[i].rev
    IN {evidence[i] : i \in {n \in latest : ~covered(n)}}

\* _record_is_independent_proof
Proofs == {e \in Effective : e.verified}

Stale(proofs) == {e \in proofs : e.rev # rev}

\* The constraints: preserved behaviour wants a test that was there before.
ConstraintsProven(asked, proofs) ==
    asked = "preserved behaviour" => \E e \in proofs : e.about = "test" /\ e.origin = "pre_existing"

\* The criteria, matched by the type of the check; none here proves compatibility.
CriterionSupported(asked, proofs) ==
    /\ asked = "tests" => \E e \in proofs : e.about = "test"
    /\ asked # "compatibility"

\* SemanticVerifier.verify, where the review approves and the scope is kept.
Verdict(asked) ==
    LET current == Proofs \ Stale(Proofs)
    IN IF Stale(Proofs) # {} \/ \E e \in Effective : ~e.verified THEN "FAILED"
       ELSE IF /\ changed /\ current # {}
               /\ ConstraintsProven(asked, current) /\ CriterionSupported(asked, current)
       THEN "VERIFIED" ELSE "PARTIALLY_VERIFIED"

\* What the task asks for beyond the change.
Asked == {"nothing", "preserved behaviour", "tests", "compatibility"}

Judge(asked) ==
    /\ phase = "checked"
    /\ verdict' = Verdict(asked) /\ phase' = "judged"
    /\ UNCHANGED <<files, changed, due, evidence, moves, declared, planned, mislabelled>>

-----------------------------------------------------------------------------

\* The commands the local model declares.
Declarable ==
    {Command("suite", {}), Command("selector", {}), Command("joined", {}), Command("other", {})}
        \union {Command(form, {t}) : form \in {"paths", "script"}, t \in Tests}

EvidenceNext ==
    \/ \E f \in Files : EditFile(f) \/ StopEdit(f) \/ LoseEdit(f)
    \/ \E f \in Files, removed \in BOOLEAN : ChangeBehind(f, removed)
    \/ \E command \in Declarable, shown \in Outputs :
          \E ran \in MayRun(command, Present) : RunDeclared(command, ran, shown)
    \/ \E impacted \in SUBSET Present, debt \in SUBSET Tests, static \in BOOLEAN, shown \in Outputs :
          RunSuite(impacted, static, shown, debt)
    \/ \E asked \in Asked : Judge(asked)

EvidenceSpec == EvidenceInit /\ [][EvidenceNext]_evidenceVars

-----------------------------------------------------------------------------
Origins == {"none", "unknown", "pre_existing", "modified_pre_existing", "model_generated", "mixed"}
Record == [about : {"test", "static", "integrity"},
           scope : {"none", "full_suite", "targeted", "script", "unknown"},
           targets : SUBSET Tests, verified : BOOLEAN, rev : Nat, origin : Origins]

EvidenceTypeOK ==
    /\ content \in [Files -> 0..rev]
    /\ planned \subseteq DOMAIN expected /\ DOMAIN expected \subseteq Files
    /\ \A f \in DOMAIN expected : expected[f] \in 0..rev
    /\ broken \subseteq Present /\ rev \in 1..(MaxMoves + 1)
    /\ changed \in BOOLEAN /\ due \in BOOLEAN /\ phase \in {"execute", "checked", "judged"}
    /\ \A i \in DOMAIN evidence : evidence[i] \in Record
    /\ verdict \in {"none", "VERIFIED", "PARTIALLY_VERIFIED", "FAILED"}
    /\ moves \in 0..MaxMoves /\ declared \in 0..MaxDeclared /\ recorded \subseteq 2..rev
    /\ mislabelled \in BOOLEAN

\* What was verified holds: no test of the workspace that was judged fails, whatever ran before and
\* in whatever order (semantic.py, "Fail closed"), unless a run of a part was taken for the whole.
VerifiedSuiteHolds == verdict = "VERIFIED" /\ ~mislabelled => broken = {}

\* CHANGELOG.md:118: "Prevented a narrow passing test from superseding a broader failing suite; a
\* validated full-suite pass may cover narrower obligations only for the same runner and workspace
\* revision".  Does not hold: an option that the parser does not know may narrow a run, which is
\* labelled a full suite and covers the check of the verifier that failed.
NarrowCoversNothing == verdict = "VERIFIED" => broken = {}

\* A test that was known when the turn was planned and that something else than a recorded edit
\* changed does not pass for one that was there before (verification_evidence.py).
OutsideChangesShow ==
    \A i \in DOMAIN evidence :
        LET e == evidence[i] IN
        e.rev = rev /\ e.origin = "pre_existing" =>
            \A t \in planned \intersect (IF e.scope = "full_suite" THEN Present ELSE e.targets) :
                content[t] \in {1} \union recorded

EvidenceHonest == VerifiedSuiteHolds /\ OutsideChangesShow
=============================================================================
