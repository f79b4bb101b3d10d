-------------------------- MODULE LeadIntegration --------------------------
(***************************************************************************)
(* How approved worker results reach the lead workspace: the class         *)
(* IntegrationCoordinator of nexus/collaboration/integration.py.  The lead *)
(* workspace is copied, the changes are applied to the copy, the copy is   *)
(* verified and then written back file by file; a failure is rolled back.  *)
(* Other programs write lead files meanwhile, and the process may be       *)
(* killed.                                                                 *)
(*                                                                         *)
(* A file is known by its kind of path, because the four walks of the code *)
(* (copy, hash, snapshot, write-back) leave out different paths.  A        *)
(* content is a version number, so that hashes and bytes compare alike.    *)
(* Evidence, wording and empty directories are left out.                   *)
(***************************************************************************)
EXTENDS Naturals, Sequences, SequencesExt

CONSTANTS
    LeadFiles,   \* paths, numbered in the order of the write-back
    KindOf,      \* kind of each path
    Present,     \* the files that exist at the start
    Results,     \* how many assignments have a result, numbered in their order
    MayChange,   \* the files each worker may have changed
    Undiffed,    \* workers whose tool results carry no diff
    MaxEdits,    \* bound: changes of one path by one worker
    MaxForeign,  \* bound: writes by other programs
    MaxFailures, \* bound: writes into the lead workspace that fail
    MaxLeadKills \* bound: kills

Assignments == 1..Results

ASSUME LeadAssumption ==
    /\ LeadFiles \subseteq Nat /\ Results \in Nat /\ Present \subseteq LeadFiles
    /\ KindOf \in [LeadFiles -> {"plain", "hidden_dir", "nested_dot", "top_dot", "ignored"}]
    /\ MayChange \in [Assignments -> SUBSET LeadFiles] /\ Undiffed \subseteq Assignments
    /\ {MaxEdits, MaxForeign, MaxFailures, MaxLeadKills} \subseteq Nat

\* src/a.py ... .github/ci.yml ... src/.flake8 ... .env ... .git/index
OfKind(kinds) == {f \in LeadFiles : KindOf[f] \in kinds}
Copied == OfKind({"plain", "nested_dot"})
Hashed == OfKind({"plain", "hidden_dir", "ignored"})
Snapshotted == OfKind({"plain", "hidden_dir"})

Missing == 0
AsFound == 1
ChangeOf(w) == 2 * w                                  \* what worker w wrote
NoteOf(w) == 2 * w + 1                                \* a comment that names w's change
Foreign == 2 * Results + 2                            \* first foreign version
Contents == 0..(Foreign + MaxForeign)

VARIABLES
    leadPc,      \* where integrate() is
    edits,       \* edits[w][f]: changes of f in the result of w
    accepted,    \* assignments the review approved
    lead,        \* content of each lead file
    baseline,    \* what the baseline hash saw of the hashed files
    copy,        \* the integration workspace
    todo,        \* files left to copy, write back or delete
    snapshot,    \* bytes kept for the rollback
    actions,     \* executed_actions: <<[kind, file, bytes], ...>>
    conflicted,  \* rollback_conflicted
    leadApplied, \* integrated assignments of the result
    leadStatus,  \* status of the result
    before,      \* history: the lead workspace when integrate() began
    early,       \* history: foreign versions written up to the drift check
    theirs,      \* history: files that another program wrote last, since then
    lost,        \* history: foreign versions overwritten or deleted
    foreign, failures, leadKills

leadVars == <<leadPc, edits, accepted, lead, baseline, copy, todo, snapshot, actions, conflicted,
              leadApplied, leadStatus, before, early, theirs, lost, foreign, failures,
              leadKills>>
answer == <<leadApplied, leadStatus>>
inputs == <<edits, accepted, before>>
bounds == <<failures, leadKills>>
seen == <<foreign, early>>
losses == <<theirs, lost>>

LeadInit ==
    /\ leadPc = "idle"
    /\ edits \in [Assignments -> [LeadFiles -> 0..MaxEdits]]
    /\ \A w \in Assignments, f \in LeadFiles : edits[w][f] > 0 => f \in MayChange[w]
    /\ accepted \in SUBSET Assignments
    /\ lead = [f \in LeadFiles |-> IF f \in Present THEN AsFound ELSE Missing]
    /\ baseline = [f \in Hashed |-> lead[f]]
    /\ copy = [f \in LeadFiles |-> Missing]
    /\ todo = {} /\ snapshot = [f \in Snapshotted |-> Missing] /\ actions = <<>>
    /\ conflicted = FALSE /\ leadApplied = {} /\ leadStatus = "none"
    /\ before = lead /\ early = {} /\ theirs = {} /\ lost = {}
    /\ foreign = 0 /\ failures = 0 /\ leadKills = 0

-----------------------------------------------------------------------------
(* Which results are integrated.                                           *)

\* path_to_assignments lists the assignments changing a path, once per change, in the order of
\* the results; everyone but the first of a path is in conflict.
Conflicting ==
    {w \in accepted : \E f \in LeadFiles :
        \/ edits[w][f] > 1
        \/ edits[w][f] > 0 /\ \E v \in accepted : v < w /\ edits[v][f] > 0}

Eligible == accepted \ Conflicting

\* The diff of a change is applied; without one, a comment is appended.
AppliedOf(w) == IF w \in Undiffed THEN NoteOf(w) ELSE ChangeOf(w)

\* The changed file in the integration workspace.
Merged(f, old) ==
    LET who == {w \in Eligible : edits[w][f] > 0}
    IN IF who = {} THEN old ELSE AppliedOf(CHOOSE w \in who : \A v \in who : v <= w)

HashOf(files) == [f \in Hashed |-> files[f]]

Return(outcome, who) == leadPc' = "done" /\ leadStatus' = outcome /\ leadApplied' = who

\* integrate: the lock is taken, the baseline hashed, the results selected.
Begin ==
    /\ leadPc = "idle"
    /\ before' = lead /\ theirs' = {}
    /\ baseline' = HashOf(lead)
    /\ IF Eligible = {}
         THEN /\ Return(CASE accepted # {} -> "CONFLICTED"
                          [] Assignments # {} -> "FAILED"
                          [] OTHER -> "INTEGRATED", {})
              /\ UNCHANGED todo
         ELSE leadPc' = "copying" /\ todo' = Copied /\ UNCHANGED answer
    /\ UNCHANGED <<edits, accepted, lead, copy, snapshot, actions, conflicted, lost, seen,
                   bounds>>

LeastFile(S) == CHOOSE f \in S : \A g \in S : f <= g

\* Files are copied one after the other; foreign writes come in between.
CopyFile ==
    /\ leadPc = "copying" /\ todo # {}
    /\ LET f == LeastFile(todo)
       IN copy' = [copy EXCEPT ![f] = lead[f]] /\ todo' = todo \ {f}
    /\ UNCHANGED <<leadPc, inputs, lead, baseline, snapshot, actions, conflicted, answer, losses,
                   seen, bounds>>

\* The patches are applied; one that does not apply raises out of integrate.
Apply ==
    /\ leadPc = "copying" /\ todo = {}
    /\ \/ /\ copy' = [f \in LeadFiles |-> Merged(f, copy[f])]
          /\ leadPc' = "verifying"
          /\ UNCHANGED answer
       \/ Return("raised", {}) /\ UNCHANGED copy
    /\ UNCHANGED <<inputs, lead, baseline, todo, snapshot, actions, conflicted, losses, seen,
                   bounds>>

\* The central verification of the copy passes, fails or is unavailable.
Verify ==
    /\ leadPc = "verifying"
    /\ \/ leadPc' = "checking" /\ UNCHANGED answer
       \/ Return("FAILED", {})
    /\ UNCHANGED <<inputs, lead, baseline, copy, todo, snapshot, actions, conflicted, losses,
                   seen, bounds>>

-----------------------------------------------------------------------------
(* _commit_to_lead                                                         *)

\* Faulty variant: no drift check.
DriftCheckNot ==
    /\ leadPc = "checking"
    /\ leadPc' = "snapshotting"
    /\ UNCHANGED <<inputs, lead, baseline, copy, todo, snapshot, actions, conflicted, answer,
                   losses, seen, bounds>>

\* The lead workspace must hash as it did.
DriftCheck ==
    /\ leadPc = "checking"
    /\ IF HashOf(lead) = baseline THEN leadPc' = "snapshotting" /\ UNCHANGED answer
                                  ELSE Return("FAILED", {})
    /\ UNCHANGED <<inputs, lead, baseline, copy, todo, snapshot, actions, conflicted, losses,
                   seen, bounds>>

Snapshot ==
    /\ leadPc = "snapshotting"
    /\ snapshot' = [f \in Snapshotted |-> lead[f]]
    /\ todo' = {f \in LeadFiles : copy[f] # Missing /\ KindOf[f] # "ignored"}
    /\ leadPc' = "writing"
    /\ UNCHANGED <<inputs, lead, baseline, copy, actions, conflicted, answer, losses, seen,
                   bounds>>

PreExisting(f) == f \in Snapshotted /\ snapshot[f] # Missing
Act(kind, f, bytes) == actions' = Append(actions, [kind |-> kind, file |-> f, bytes |-> bytes])
\* The coordinator puts a content into a lead file; what another program put there is lost.
Overwrites(f, bytes) ==
    /\ lead' = [lead EXCEPT ![f] = bytes]
    /\ lost' = IF f \in theirs /\ lead[f] # bytes THEN lost \cup {lead[f]} ELSE lost
    /\ theirs' = theirs \ {f}

\* os.replace of one file of the copy.
WriteBack ==
    /\ leadPc = "writing" /\ todo # {}
    /\ LET f == LeastFile(todo)
       IN /\ Overwrites(f, copy[f])
          /\ Act(IF PreExisting(f) THEN "MODIFY" ELSE "CREATE", f, copy[f])
          /\ todo' = todo \ {f}
    /\ UNCHANGED <<leadPc, inputs, baseline, copy, snapshot, conflicted, answer, seen, bounds>>

\* Every file was written; what the copy does not hold is deleted.
Written ==
    /\ leadPc = "writing" /\ todo = {}
    /\ todo' = {f \in LeadFiles : PreExisting(f) /\ copy[f] = Missing}
    /\ leadPc' = "deleting"
    /\ UNCHANGED <<inputs, lead, baseline, copy, snapshot, actions, conflicted, answer, losses,
                   seen, bounds>>

Delete ==
    /\ leadPc = "deleting" /\ todo # {}
    /\ LET f == LeastFile(todo)
       IN /\ todo' = todo \ {f}
          /\ IF lead[f] = Missing
               THEN UNCHANGED <<lead, actions, losses>>
               ELSE /\ Overwrites(f, Missing)
                    /\ Act("DELETE", f, Missing)
    /\ UNCHANGED <<leadPc, inputs, baseline, copy, snapshot, conflicted, answer, seen, bounds>>

Commit ==
    /\ leadPc = "deleting" /\ todo = {}
    /\ Return("INTEGRATED", Eligible)
    /\ UNCHANGED <<inputs, lead, baseline, copy, todo, snapshot, actions, conflicted, losses,
                   seen, bounds>>

\* A replace or an unlink fails: the executed actions are undone.
CommitFails ==
    /\ leadPc \in {"writing", "deleting"} /\ todo # {}
    /\ failures < MaxFailures
    /\ failures' = failures + 1
    /\ leadPc' = "rolling_back" /\ todo' = {}
    /\ UNCHANGED <<inputs, lead, baseline, copy, snapshot, actions, conflicted, answer, losses,
                   seen, leadKills>>

\* What undoing an action restores: the file as the commit left it goes back
\* to its snapshot, or away when it was created; a file changed since stays.
Untouched(a) == lead[a.file] = a.bytes

Restored(a) == IF a.kind = "CREATE" THEN Missing ELSE snapshot[a.file]

\* Undone in reverse order.  The comparison and the write are one step here.
UndoAction ==
    /\ leadPc = "rolling_back" /\ actions # <<>>
    /\ LET a == actions[Len(actions)]
       IN IF Untouched(a)
            THEN Overwrites(a.file, Restored(a)) /\ UNCHANGED conflicted
            ELSE /\ conflicted' = (conflicted \/ a.kind # "CREATE" \/ lead[a.file] # Missing)
                 /\ UNCHANGED <<lead, losses>>
    /\ actions' = Front(actions)
    /\ UNCHANGED <<leadPc, inputs, baseline, copy, todo, snapshot, answer, seen, bounds>>

\* ROLLBACK_CONFLICT, a hash mismatch, or "successfully rolled back".
RolledBack ==
    /\ leadPc = "rolling_back" /\ actions = <<>>
    /\ Return(IF conflicted THEN "ROLLBACK_CONFLICT"
              ELSE IF HashOf(lead) # baseline THEN "MISMATCH" ELSE "ROLLED_BACK", {})
    /\ UNCHANGED <<inputs, lead, baseline, copy, todo, snapshot, actions, conflicted, losses,
                   seen, bounds>>

-----------------------------------------------------------------------------
\* Another program writes or deletes a lead file.
ForeignWrite ==
    /\ leadPc # "done" /\ foreign < MaxForeign
    /\ foreign' = foreign + 1
    /\ \E f \in LeadFiles, gone \in BOOLEAN :
          /\ gone => lead[f] # Missing
          /\ lead' = [lead EXCEPT ![f] = IF gone THEN Missing ELSE Foreign + foreign]
          /\ theirs' = IF gone THEN theirs \ {f} ELSE theirs \cup {f}
          /\ early' = IF leadPc \in {"copying", "verifying", "checking"} /\ ~gone /\ f \in Hashed
                      THEN early \cup {Foreign + foreign} ELSE early
    /\ UNCHANGED <<leadPc, inputs, baseline, copy, todo, snapshot, actions, conflicted, answer,
                   lost, bounds>>

\* The process is killed; nothing on disk says that a commit was under way.
LeadKilled ==
    /\ leadPc \notin {"idle", "done"} /\ leadKills < MaxLeadKills
    /\ leadKills' = leadKills + 1
    /\ Return("killed", {})
    /\ UNCHANGED <<inputs, lead, baseline, copy, todo, snapshot, actions, conflicted, losses,
                   seen, failures>>

LeadWork ==
    \/ Begin \/ CopyFile \/ Apply \/ Verify \/ DriftCheck \/ Snapshot
    \/ WriteBack \/ Written \/ Delete \/ Commit \/ CommitFails \/ UndoAction \/ RolledBack

LeadNext == LeadWork \/ ForeignWrite \/ LeadKilled

LeadSpec == LeadInit /\ [][LeadNext]_leadVars

-----------------------------------------------------------------------------
\* Type invariant of the coordinator and of the workspaces.
LeadTypeOK ==
    /\ lead \in [LeadFiles -> Contents] /\ copy \in [LeadFiles -> Contents]
    /\ baseline \in [Hashed -> Contents] /\ snapshot \in [Snapshotted -> Contents]
    /\ todo \subseteq LeadFiles /\ leadApplied \subseteq Assignments
    /\ \A i \in DOMAIN actions : actions[i].file \in LeadFiles /\ actions[i].bytes \in Contents
    /\ conflicted \in BOOLEAN
    /\ leadStatus \in {"none", "raised", "INTEGRATED", "FAILED", "CONFLICTED", "killed",
                   "ROLLBACK_CONFLICT", "MISMATCH", "ROLLED_BACK"}

Returned == leadPc = "done"

\* Without foreign writes: after INTEGRATED the lead workspace holds exactly
\* the changes of the reported assignments, and otherwise it is as before.
\* Left out are files of hidden directories, which a commit deletes, and,
\* after a rollback, dot files, of which there is no snapshot.
ExactlyTheApplied ==
    Returned /\ foreign = 0 /\ leadKills = 0 =>
        \A f \in OfKind({"plain", "ignored"}
                         \cup (IF leadStatus = "INTEGRATED" THEN {"nested_dot", "top_dot"} ELSE {})) :
            LET who == {w \in leadApplied : edits[w][f] > 0}
            IN IF who = {} \/ KindOf[f] = "ignored" THEN lead[f] = before[f]
               ELSE \E w \in who : lead[f] = AppliedOf(w) /\ who = {w}

\* A foreign version is lost only if it was written after the drift check
\* and before the commit reached its file: what another program writes while
\* the copy is made and verified stops the commit, and the rollback leaves
\* every file alone that was changed since.
ForeignKept ==
    [][\A v \in lost' \ lost : v \notin early /\ leadPc # "rolling_back"]_leadVars

\* A rollback reported as clean has restored the lead workspace as the
\* baseline saw it, and nothing but foreign writes keeps one from being clean.
CleanRollback ==
    Returned /\ leadStatus \in {"ROLLED_BACK", "MISMATCH", "ROLLBACK_CONFLICT"} =>
        /\ foreign = 0 => leadStatus = "ROLLED_BACK"
        /\ leadStatus = "ROLLED_BACK" => HashOf(lead) = HashOf(before)

\* What this module promises, as one property.
IntegrationExact == [](CleanRollback /\ ExactlyTheApplied) /\ ForeignKept

\* integration.py:401: "If commit fails and rollback completes cleanly,
\* lead_workspace_after == lead_workspace_before". (A dot file inside a visible directory is in no
\* snapshot, so that the rollback deletes it; an instance without one keeps the promise.)
RollbackRestoresAll ==
    Returned /\ leadStatus = "ROLLED_BACK" /\ foreign = 0 => lead = before
=============================================================================
