------------------------------ MODULE UndoHistory ------------------------------
(***************************************************************************)
(* What can be undone. The file tools copy a file into the session         *)
(* directory before they change it and record the change afterwards        *)
(* (history.py); multi_edit does so for a set of files; a command runs     *)
(* between two content-addressed captures of the workspace                 *)
(* (workspace_journal.py) and is taken back when it fails; the executor    *)
(* undoes a change that does not compile or whose evidence cannot be kept, *)
(* and the user undoes any number of changes.                              *)
(* A file is the version it holds, Missing if it does not exist. "was" and *)
(* "became" of a record and "spoiled" are bookkeeping of the model.        *)
(***************************************************************************)
EXTENDS Integers, Sequences, FiniteSets, SequencesExt

CONSTANTS
    Files,          \* the files that tools change
    BaseName,       \* the last component of the path of each file
    Existing,       \* the files there are at first
    MaxVersions,    \* bound: writes of any kind
    MaxUndo,        \* bound: the number given to /undo
    MaxEdits,       \* bound: edits in one multi_edit
    MaxMishaps      \* bound: failing file operations, kills and writes of other programs

Missing == 0
First == 1                      \* the version of the files there are at first
NoSnapshot == <<0, "none">>

ASSUME HistoryAssumption ==
    /\ IsFiniteSet(Files) /\ Existing \subseteq Files
    /\ {MaxVersions, MaxUndo, MaxEdits, MaxMishaps} \subseteq Nat

VARIABLES
    fs,         \* the workspace
    snaps,      \* the session directory: snapshot name -> version
    changes,    \* FileHistory.changes
    saved,      \* changes.json
    call,       \* the tool call under way, or NoCall
    undoLeft,   \* what undo_changes has still to undo
    spoiled,    \* files of which a change could not be kept track of
    written, mishaps

counters == <<written, mishaps>>
historyVars == <<fs, snaps, changes, saved, call, undoLeft, spoiled, counters>>

NoCall == [pc |-> "idle", files |-> <<>>, k |-> 0, before |-> <<>>, taken |-> <<>>,
           edits |-> 0, since |-> 0]

HistoryInit ==
    /\ fs = [f \in Files |-> IF f \in Existing THEN First ELSE Missing]
    /\ snaps = <<>> /\ changes = <<>> /\ saved = <<>>
    /\ call = NoCall /\ undoLeft = 0 /\ spoiled = {}
    /\ written = 0 /\ mishaps = 0

Idle == call = NoCall /\ undoLeft = 0
NewVersion == First + written + 1
Mishap == mishaps < MaxMishaps /\ mishaps' = mishaps + 1
Fine == UNCHANGED mishaps
At(pc) == call.pc = pc /\ undoLeft = 0
Current == call.files[call.k]
NextFile(next) == call' = IF call.k < Len(call.files) THEN [call EXCEPT !.k = call.k + 1]
                                                      ELSE [call EXCEPT !.pc = next, !.k = 1]

\* The path of a snapshot: the number of changes and the last name of the file.
SnapshotName(f) == <<Len(changes) + 1, BaseName[f]>>

\* snapshot_before_write of these files in turn, over whatever a path held; a failing copy
\* gives None, as a missing file does. Files of one call that have the same last name have one
\* snapshot, the last one's: of them, too, no track is kept.
Snapshot(files, edits, failing) ==
    LET copied == {f \in ToSet(files) : fs[f] # Missing /\ f \notin failing}
        names == {SnapshotName(f) : f \in copied}
        with(n) == {i \in DOMAIN files : files[i] \in copied /\ SnapshotName(files[i]) = n}
        last(n) == files[CHOOSE i \in with(n) : \A j \in with(n) : j <= i]
    IN /\ snaps' = [n \in DOMAIN snaps \union names |-> IF n \in names THEN fs[last(n)] ELSE snaps[n]]
       /\ call' = [pc |-> "write", files |-> files, k |-> 1, before |-> fs, edits |-> edits,
                   taken |-> [f \in ToSet(files) |-> IF f \in copied THEN SnapshotName(f)
                                                     ELSE NoSnapshot],
                   since |-> Len(changes)]
       /\ spoiled' = spoiled \union failing
                       \union {f \in copied : \E g \in copied \ {f} : BaseName[g] = BaseName[f]}

\* tool_write_file, tool_edit_file and tool_patch_file before they write.
BeginEdit(f) ==
    /\ Idle /\ written < MaxVersions
    /\ \/ Snapshot(<<f>>, 1, {}) /\ Fine
       \/ fs[f] # Missing /\ Snapshot(<<f>>, 1, {f}) /\ Mishap
    /\ UNCHANGED <<fs, changes, saved, undoLeft, written>>

\* tool_multi_edit: the new bodies are made in memory, then all files are snapshot.
BeginMultiEdit(files, edits) ==
    /\ Idle /\ written + Len(files) <= MaxVersions
    /\ \A f \in ToSet(files) : fs[f] # Missing
    /\ Len(files) <= edits
    /\ Snapshot(files, edits, {}) /\ Fine
    /\ UNCHANGED <<fs, changes, saved, undoLeft, written>>

\* os.replace of the next file, if it still is what it was (write_file does not look).
Write ==
    /\ At("write") /\ written < MaxVersions
    /\ fs[Current] = call.before[Current] \/ Len(call.files) = 1
    /\ fs' = [fs EXCEPT ![Current] = NewVersion]
    /\ written' = written + 1
    /\ NextFile("record")
    /\ UNCHANGED <<snaps, changes, saved, undoLeft, spoiled, mishaps>>

\* The files this call has replaced and nobody has changed since.
Replaced == {f \in {call.files[i] : i \in 1..(call.k - 1)} \ spoiled : fs[f] # call.before[f]}

\* A replacement fails, or the next file is not what it was: what was replaced is put back.
\* What another program wrote since stays.
WriteFails ==
    /\ At("write")
    /\ \/ fs[Current] # call.before[Current] /\ Fine
       \/ Mishap
    /\ fs' = [f \in Files |-> IF f \in Replaced THEN call.before[f] ELSE fs[f]]
    /\ call' = NoCall
    /\ UNCHANGED <<snaps, changes, saved, undoLeft, spoiled, written>>

ChangeEntry(f) == [file |-> f, snap |-> call.taken[f], isNew |-> call.taken[f] = NoSnapshot,
             was |-> call.before[f], became |-> fs[f], command |-> FALSE]

\* changes.json is replaced, then memory follows.
Commit(records) == changes' = records /\ saved' = records

\* record_change for each file, each saved on its own. An error leaves the rest unrecorded;
\* for a single edit the call answers with an error although the file has changed.
Record ==
    /\ At("record")
    /\ \/ /\ Commit(Append(changes, ChangeEntry(Current)))
          /\ NextFile("check") /\ Fine /\ UNCHANGED spoiled
       \/ /\ Mishap
          /\ spoiled' = spoiled \union {call.files[i] : i \in call.k..Len(call.files)}
          /\ call' = NoCall
          /\ UNCHANGED <<changes, saved>>
    /\ UNCHANGED <<fs, snaps, undoLeft, written>>

\* Code that does not compile: as many records are undone as the call has edits.
UndoCount == call.edits

\* What the executor undoes after the mutation: nothing; what does not compile; or, when
\* the evidence cannot be kept, every record since the call began.
Check(count) ==
    /\ At("check")
    /\ count \in {0, UndoCount, Len(changes) - call.since}
    /\ undoLeft' = IF count < Len(changes) THEN count ELSE Len(changes)
    /\ call' = IF count = 0 THEN NoCall ELSE [call EXCEPT !.pc = "undo"]
    /\ UNCHANGED <<fs, snaps, changes, saved, spoiled, counters>>

-----------------------------------------------------------------------------
(* Undo. *)

Newest == changes[Len(changes)]

\* What undo_last_change puts in place of the file; a record of a command names the
\* content-addressed preimage, which is what it was taken from.
Preimage(r) == IF r.isNew THEN Missing ELSE IF r.command THEN r.was ELSE snaps[r.snap]

\* /undo n, /rewind n and rollback.
Undo(n) ==
    /\ Idle /\ changes # <<>>
    /\ undoLeft' = IF n < Len(changes) THEN n ELSE Len(changes)
    /\ UNCHANGED <<fs, snaps, changes, saved, call, spoiled, counters>>

\* Faulty variant: changes.json is left to the next record.
ForgetInMemory == changes' = Front(changes) /\ UNCHANGED saved

\* changes.pop(), then _save_changes.
ForgetRecord == changes' = Front(changes) /\ saved' = changes'

\* undo_last_change: the restore fails and the record stays, the file is restored and the
\* record dropped, or it is dropped in memory only, because changes.json cannot be saved;
\* that exception ends undo_changes.
UndoOne ==
    /\ undoLeft > 0
    /\ \/ /\ fs' = [fs EXCEPT ![Newest.file] = Preimage(Newest)]
          /\ ForgetRecord
          /\ undoLeft' = undoLeft - 1 /\ Fine /\ UNCHANGED spoiled
       \/ /\ Mishap /\ UNCHANGED <<fs, changes, saved, spoiled>>
          /\ undoLeft' = undoLeft - 1
       \/ /\ Mishap
          /\ fs' = [fs EXCEPT ![Newest.file] = Preimage(Newest)]
          /\ changes' = Front(changes) /\ UNCHANGED saved
          /\ spoiled' = spoiled \union {Newest.file}
          /\ undoLeft' = 0
    /\ call' = IF undoLeft' = 0 THEN NoCall ELSE call
    /\ UNCHANGED <<snaps, written>>

-----------------------------------------------------------------------------
(* A command between two captures of the workspace. *)

\* _begin_command_transaction: without a complete capture the command is not run.
BeginCommand ==
    /\ Idle /\ written < MaxVersions
    /\ call' = [pc |-> "command", files |-> <<>>, k |-> 0, before |-> fs, taken |-> <<>>,
                edits |-> 0, since |-> Len(changes)]
    /\ UNCHANGED <<fs, snaps, changes, saved, undoLeft, spoiled, counters>>

\* The command writes one file and removes another, or does either, and succeeds or not.
RunCommand(touched, removed, succeeds) ==
    /\ At("command") /\ written + Cardinality(touched) <= MaxVersions
    /\ fs' = [f \in Files |-> IF f \in touched THEN NewVersion
                              ELSE IF f \in removed THEN Missing ELSE fs[f]]
    /\ written' = written + Cardinality(touched)
    /\ call' = [call EXCEPT !.pc = "reconcile", !.edits = IF succeeds THEN 1 ELSE 0]
    /\ UNCHANGED <<snaps, changes, saved, undoLeft, spoiled, mishaps>>

\* diff of the two captures: also what other programs changed in the meantime.
Mutated == SetToSeq({f \in Files : fs[f] # call.before[f]})
CommandEntry(f) == [file |-> f, snap |-> NoSnapshot, isNew |-> call.before[f] = Missing,
                    was |-> call.before[f], became |-> fs[f], command |-> TRUE]

\* record_changes_batch commits the command's changes in one write. A command that failed,
\* or whose changes cannot be recorded, is taken back.
Reconcile ==
    /\ At("reconcile")
    /\ \/ /\ Commit(changes \o [i \in DOMAIN Mutated |-> CommandEntry(Mutated[i])])
          /\ call' = IF call.edits = 1 \/ Mutated = <<>> THEN NoCall
                                                         ELSE [call EXCEPT !.pc = "restore"]
          /\ Fine
       \/ Mishap /\ call' = [call EXCEPT !.pc = "restore"] /\ UNCHANGED <<changes, saved>>
    /\ UNCHANGED <<fs, snaps, undoLeft, spoiled, written>>

\* discard_transaction: the records with the command's transaction are dropped.
DiscardRecords == Commit(SubSeq(changes, 1, call.since))

\* restore rewrites every file and verifies the result, then the command's records are
\* dropped; a failing restore leaves any part of it done and the records where they are.
Restore ==
    /\ At("restore")
    /\ \/ fs' = call.before /\ DiscardRecords /\ Fine /\ UNCHANGED spoiled
       \/ /\ Mishap
          /\ \E part \in SUBSET ToSet(Mutated) :
                fs' = [f \in Files |-> IF f \in part THEN call.before[f] ELSE fs[f]]
          /\ spoiled' = spoiled \union ToSet(Mutated)
          /\ UNCHANGED <<changes, saved>>
    /\ call' = NoCall
    /\ UNCHANGED <<snaps, undoLeft, written>>

-----------------------------------------------------------------------------
\* Another program writes a file. What happens while a command runs is taken for its work.
Intrude(f) ==
    /\ Mishap /\ written < MaxVersions
    /\ fs' = [fs EXCEPT ![f] = NewVersion]
    /\ written' = written + 1
    /\ spoiled' = IF call.pc \in {"command", "reconcile"} THEN spoiled ELSE spoiled \union {f}
    /\ UNCHANGED <<snaps, changes, saved, call, undoLeft>>

\* The process is killed; the next session loads changes.json.
KillSession ==
    /\ Mishap
    /\ spoiled' = spoiled \union
         (IF call.pc \in {"idle", "undo", "check"} THEN {} ELSE {f \in Files : fs[f] # call.before[f]})
    /\ changes' = saved
    /\ call' = NoCall /\ undoLeft' = 0
    /\ UNCHANGED <<fs, snaps, saved, written>>

HistoryNext ==
    \/ \E f \in Files : BeginEdit(f) \/ Intrude(f)
    \/ \E fg \in SUBSET Files, n \in 1..MaxEdits :
          fg # {} /\ BeginMultiEdit(SetToSeq(fg), n)
    \/ Write \/ WriteFails \/ Record
    \/ \E n \in 0..(MaxEdits + MaxVersions) : Check(n)
    \/ \E n \in 1..MaxUndo : Undo(n)
    \/ UndoOne
    \/ BeginCommand \/ Reconcile \/ Restore
    \/ \E touched, removed \in SUBSET Files, succeeds \in BOOLEAN :
          /\ Cardinality(touched) <= 1 /\ Cardinality(removed) <= 1
          /\ RunCommand(touched, removed, succeeds)
    \/ KillSession

HistorySpec == HistoryInit /\ [][HistoryNext]_historyVars

-----------------------------------------------------------------------------
FileVersions == 0..(MaxVersions + 1)
SnapNames == {NoSnapshot} \union ((1..(2 * MaxVersions + 1)) \X {BaseName[f] : f \in Files})
Records == [file : Files, snap : SnapNames, isNew : BOOLEAN, was : FileVersions, became : FileVersions,
            command : BOOLEAN]

\* Type invariant of the workspace, the history and the call.
HistoryTypeOK ==
    /\ fs \in [Files -> FileVersions]
    /\ DOMAIN snaps \subseteq SnapNames \ {NoSnapshot}
    /\ changes \in Seq(Records) /\ saved \in Seq(Records)
    /\ call.pc \in {"idle", "write", "record", "check", "undo", "command", "reconcile", "restore"}
    /\ call.since \in Nat /\ undoLeft \in 0..Len(changes)
    /\ spoiled \subseteq Files
    /\ written \in 0..MaxVersions

\* The history explains the workspace: between calls, the records of a file that nothing
\* has spoiled lead from what it was at first to what it is now, in memory and in
\* changes.json alike, and each has the preimage that undoing it needs. So /undo takes back
\* exactly what the agent did, whatever was done, undone, rolled back or lost in a kill.
RecordsOf(records, f) == {i \in DOMAIN records : records[i].file = f}
Leads(records, f, version) ==
    LET own == RecordsOf(records, f)
        first == IF f \in Existing THEN First ELSE Missing
    IN /\ own = {} => version = first
       /\ \A i \in own :
              /\ (\A j \in own : i <= j) => records[i].was = first
              /\ (\A j \in own : j <= i) => records[i].became = version
              /\ \A j \in own : i < j /\ ~(\E k \in own : i < k /\ k < j)
                                   => records[i].became = records[j].was
Explains(records, f) ==
    /\ Leads(records, f, fs[f])
    /\ \A i \in RecordsOf(records, f) : Preimage(records[i]) = records[i].was
HistoryExplains ==
    call.pc \in {"idle", "undo"} =>
        \A f \in Files \ spoiled : Explains(changes, f) /\ Explains(saved, f)

\* tool_executor.py:1196: "Restore every file changed by the current tool call before
\* failing." The executor takes back what the call did and nothing that came before it.
\* (Several edits of one file by one call are one record; one record per edit is taken back.)
OnlyOwnChangesUndone ==
    call.pc = "undo" => Len(changes) - undoLeft >= call.since

=================================================================================
