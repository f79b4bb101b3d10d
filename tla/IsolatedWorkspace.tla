-------------------------- MODULE IsolatedWorkspace --------------------------
(***************************************************************************)
(* The isolated workspace of a session (nexus/workspace.py): a worktree of *)
(* a clean repository, a worktree with a snapshot of a dirty one, or a     *)
(* copy of a directory without Git; its way back to the source, taken by   *)
(* the run finalizer for each VERIFIED turn and by "workspace apply"; and  *)
(* what the agent keeps of it when it closes.  The user goes on working in *)
(* the source all the time.                                                *)
(* A content is <<who, n>>, the n-th text of the user or the agent.  Git   *)
(* is external: a merge takes each file from the side that changed it and  *)
(* fails when both did, or when a file it would change is not committed;   *)
(* "git apply" changes all files of a patch or none.                       *)
(***************************************************************************)
EXTENDS Integers, FiniteSets

CONSTANTS
    Sources,        \* the files of the source directory
    Backends,       \* the kinds of source that are tried
    MaxTurns,       \* bound: turns of the session
    MaxUserEdits,   \* bound: texts that the user writes
    MaxWsFaults     \* bound: failing copies and kills

ASSUME WorkspaceAssumption ==
    /\ Backends \subseteq {"clean", "dirty", "copy"}
    /\ {MaxTurns, MaxUserEdits, MaxWsFaults} \subseteq Nat

VARIABLES
    backend,
    source,         \* the user's directory
    head,           \* what HEAD holds of it
    workspace,      \* the isolated files
    origin,         \* base or snapshot commit of the branch, or the baseline copy
    stateHash,      \* source_state_hash, the source when it was taken
    backup,         \* the copy of the source made by the first apply, or NoBackup
    wsPhase,
    applied,        \* Agent._workspace_applied
    outcome,        \* what the last turn was reported as
    recovery,       \* files in a recovery patch
    turns, userTexts, wsFaults,
    atApply,        \* bookkeeping: the source when the last apply began
    touched         \* bookkeeping: files the user wrote since then

wsCounters == <<turns, userTexts, wsFaults>>
wsVars == <<backend, source, head, workspace, origin, stateHash, backup, wsPhase, applied,
          outcome, recovery, wsCounters, atApply, touched>>

NoBackup == [f \in {} |-> f]
Original == <<"user", 0>>
\* git diff HEAD: which files differ from HEAD, and how.
Uncommitted == {f \in Sources : source[f] # head[f]}
SourceState == {<<f, head[f], source[f]>> : f \in Uncommitted}
Changed(a, b) == {f \in Sources : a[f] # b[f]}

WsInit ==
    /\ backend \in Backends
    /\ source = [f \in Sources |-> Original]
    /\ head = [f \in Sources |-> IF backend = "dirty" THEN <<"user", -1>> ELSE Original]
    /\ workspace = source /\ origin = source /\ backup = NoBackup
    /\ stateHash = SourceState
    /\ wsPhase = "none" /\ applied = FALSE /\ outcome = "none" /\ recovery = {}
    /\ turns = 0 /\ userTexts = 0 /\ wsFaults = 0
    /\ atApply = source /\ touched = {}

WsFault == wsFaults < MaxWsFaults /\ wsFaults' = wsFaults + 1
Go(from, to) == wsPhase = from /\ wsPhase' = to

-----------------------------------------------------------------------------
(* create *)

\* The status and the hash of a dirty source come first; the copy of a directory without Git
\* comes before its baseline.
HashSource ==
    /\ Go("none", "creating")
    /\ stateHash' = SourceState
    /\ IF backend = "copy" THEN workspace' = source ELSE UNCHANGED workspace
    /\ UNCHANGED <<backend, source, head, origin, backup, applied, outcome, recovery,
                   wsCounters, atApply, touched>>

\* git worktree add of HEAD, and the snapshot commit of what was not committed in it; or the
\* baseline copy.
Materialize ==
    /\ Go("creating", "ready")
    /\ origin' = IF backend = "clean" THEN head ELSE source
    /\ workspace' = IF backend = "copy" THEN workspace ELSE origin'
    /\ UNCHANGED <<backend, source, head, stateHash, backup, applied, outcome, recovery,
                   wsCounters, atApply, touched>>

\* A failing snapshot removes the worktree and its branch again.
CreateFails ==
    /\ wsPhase = "creating" /\ WsFault
    /\ wsPhase' = "closed"
    /\ UNCHANGED <<backend, source, head, workspace, origin, stateHash, backup, applied,
                   outcome, recovery, turns, userTexts, atApply, touched>>

-----------------------------------------------------------------------------
(* A turn and its way back. *)

AgentText == <<"agent", turns + 1>>

\* The agent changes some files; the finalizer decides.
Turn(changed, verified) ==
    /\ wsPhase = "ready" /\ turns < MaxTurns
    /\ turns' = turns + 1
    /\ workspace' = [f \in Sources |-> IF f \in changed THEN AgentText ELSE workspace[f]]
    /\ wsPhase' = IF verified THEN "verified" ELSE "ready"
    /\ outcome' = IF verified THEN "pending" ELSE "unverified"
    /\ UNCHANGED <<backend, source, head, origin, stateHash, backup, applied, recovery,
                   userTexts, wsFaults, atApply, touched>>

\* diff(): against the snapshot for a worktree, against the source for a copy.
Pending == IF backend = "copy" THEN Changed(workspace, source) ELSE Changed(workspace, origin)

Begun == atApply' = source /\ touched' = {}

\* _apply_verified_workspace: a workspace that was applied once, or has no diff, is not
\* applied, and the turn is VERIFIED.
Skip ==
    /\ Go("verified", "ready")
    /\ applied \/ Pending = {}
    /\ applied' = TRUE
    /\ outcome' = "VERIFIED"
    /\ UNCHANGED <<backend, source, head, workspace, origin, stateHash, backup, recovery,
                   wsCounters, atApply, touched>>

\* The checks of apply: a source that is not as it was is left alone.
Unchanged == CASE backend = "clean" -> Uncommitted = {}
               [] backend = "dirty" -> stateHash = SourceState
               [] backend = "copy" -> Changed(source, origin) = {}

Apply ==
    /\ \/ wsPhase = "verified" /\ ~applied /\ Pending # {}
       \/ wsPhase = "cli"
    /\ Unchanged
    /\ wsPhase' = IF backend = "copy" THEN "backup" ELSE "merge"
    /\ Begun
    /\ UNCHANGED <<backend, source, head, workspace, origin, stateHash, backup, applied,
                   outcome, recovery, wsCounters>>

\* An apply by the finalizer ends the turn, one from the command line does not.
Ended(result) ==
    /\ wsPhase' = IF outcome = "pending" THEN "ready" ELSE "cli"
    /\ outcome' = IF outcome = "pending" THEN result ELSE outcome
    /\ applied' = (applied \/ (outcome = "pending" /\ result = "VERIFIED"))

Refuse ==
    /\ \/ wsPhase = "verified" /\ ~applied /\ Pending # {}
       \/ wsPhase = "cli"
    /\ ~Unchanged
    /\ Ended("FAILED") /\ Begun
    /\ UNCHANGED <<backend, source, head, workspace, origin, stateHash, backup, recovery,
                   wsCounters>>

Delta == Changed(workspace, origin)

\* git merge, and git apply of the delta: what makes them go through.
Fits == IF backend = "clean"
        THEN Delta \cap (Changed(head, origin) \union Uncommitted) = {}
        ELSE \A f \in Delta : source[f] = origin[f]

\* The worktree is committed; its branch is merged into a clean source, its delta is written
\* to a recovery patch and applied to a dirty one. On a conflict the merge is aborted.
Merge ==
    /\ wsPhase = "merge"
    /\ recovery' = IF backend = "dirty" THEN recovery \union {workspace[f] : f \in Delta}
                                        ELSE recovery
    /\ IF Fits
       THEN /\ source' = [f \in Sources |-> IF f \in Delta THEN workspace[f] ELSE source[f]]
            /\ IF backend = "clean"
               THEN /\ origin' = workspace
                    /\ head' = [f \in Sources |-> IF f \in Delta THEN workspace[f] ELSE head[f]]
               ELSE UNCHANGED <<head, origin>>
            /\ Ended("VERIFIED")
       ELSE Ended("FAILED") /\ UNCHANGED <<source, origin, head>>
    /\ UNCHANGED <<backend, workspace, stateHash, backup, wsCounters, atApply, touched>>

\* The first apply copies the source; a later one keeps that copy.
Backup ==
    /\ wsPhase = "backup"
    /\ \/ /\ backup' = IF backup = NoBackup THEN source ELSE backup
          /\ wsPhase' = "sync" /\ UNCHANGED <<applied, outcome, wsFaults>>
       \/ /\ WsFault /\ backup = NoBackup
          /\ Ended("FAILED") /\ UNCHANGED backup
    /\ UNCHANGED <<backend, source, head, workspace, origin, stateHash, recovery, turns,
                   userTexts, atApply, touched>>

\* _sync copies one file after the other, in place.
Sync ==
    /\ wsPhase = "sync"
    /\ \/ /\ Changed(source, workspace) # {}
          /\ \E f \in Changed(source, workspace) : source' = [source EXCEPT ![f] = workspace[f]]
          /\ UNCHANGED <<wsPhase, applied, outcome>>
       \/ /\ Changed(source, workspace) = {}
          /\ Ended("VERIFIED") /\ UNCHANGED source
    /\ UNCHANGED <<backend, head, workspace, origin, stateHash, backup, recovery, wsCounters,
                   atApply, touched>>

\* Faulty variant: what was copied stays.
RestoredNothing == source

\* The sync back from the backup.
Restored == backup

\* A copy fails: the backup is synchronised back, unless that fails as well.
SyncFails ==
    /\ wsPhase = "sync" /\ wsFaults < MaxWsFaults
    /\ \/ source' = Restored /\ Ended("FAILED") /\ wsFaults' = wsFaults + 1
       \/ /\ wsFaults + 2 <= MaxWsFaults /\ wsFaults' = wsFaults + 2
          /\ UNCHANGED source /\ Ended("ROLLBACK_FAILED")
    /\ UNCHANGED <<backend, head, workspace, origin, stateHash, backup, recovery, turns,
                   userTexts, atApply, touched>>

-----------------------------------------------------------------------------
(* The end of the session, and the command line. *)

\* Faulty variant: the workspace is discarded without a patch.
KeptNothing == {}

\* Agent.close: what is not applied goes to a recovery patch.
Kept == IF applied THEN {} ELSE {workspace[f] : f \in Pending}

Close ==
    /\ wsPhase = "ready" /\ wsPhase' = "closed"
    /\ recovery' = recovery \union Kept
    /\ UNCHANGED <<backend, source, head, workspace, origin, stateHash, backup, applied,
                   outcome, wsCounters, atApply, touched>>

\* The process is killed; worktree, information and backup stay, and the user can apply or
\* discard them from the command line.
KillAgent ==
    /\ wsPhase \notin {"none", "creating", "closed", "cli", "dead"} /\ WsFault
    /\ wsPhase' = "dead"
    /\ UNCHANGED <<backend, source, head, workspace, origin, stateHash, backup, applied,
                   outcome, recovery, turns, userTexts, atApply, touched>>

ResolveWorktree ==
    /\ Go("dead", "cli")
    /\ outcome' = "none"
    /\ UNCHANGED <<backend, source, head, workspace, origin, stateHash, backup, applied,
                   recovery, wsCounters, atApply, touched>>

Discard ==
    /\ Go("cli", "closed")
    /\ UNCHANGED <<backend, source, head, workspace, origin, stateHash, backup, applied,
                   outcome, recovery, wsCounters, atApply, touched>>

\* The user writes a file of the source, or commits everything.
UserEdits(f) ==
    /\ userTexts < MaxUserEdits
    /\ userTexts' = userTexts + 1
    /\ source' = [source EXCEPT ![f] = <<"user", userTexts + 1>>]
    /\ touched' = touched \union {f}
    /\ UNCHANGED <<backend, head, workspace, origin, stateHash, backup, wsPhase, applied, outcome,
                   recovery, turns, wsFaults, atApply>>

UserCommits ==
    /\ backend # "copy" /\ Uncommitted # {}
    /\ head' = source
    /\ UNCHANGED <<backend, source, workspace, origin, stateHash, backup, wsPhase, applied, outcome,
                   recovery, wsCounters, atApply, touched>>

WsNext ==
    \/ HashSource \/ Materialize \/ CreateFails
    \/ \E changed \in SUBSET Sources, verified \in BOOLEAN : Turn(changed, verified)
    \/ Skip \/ Apply \/ Refuse \/ Merge \/ Backup \/ Sync \/ SyncFails
    \/ Close \/ KillAgent \/ ResolveWorktree \/ Discard
    \/ \E f \in Sources : UserEdits(f)
    \/ UserCommits

WsSpec == WsInit /\ [][WsNext]_wsVars

-----------------------------------------------------------------------------
Texts == {"user", "agent"} \X ((-1)..(MaxTurns + MaxUserEdits))

\* Type invariant of the source, the workspace and the session.
WsTypeOK ==
    /\ backend \in Backends
    /\ {source, head, workspace, origin, atApply} \subseteq [Sources -> Texts]
    /\ touched \subseteq Sources
    /\ stateHash \subseteq Sources \X Texts \X Texts
    /\ backup \in [Sources -> Texts] \union {NoBackup}
    /\ wsPhase \in {"none", "creating", "ready", "verified", "merge", "backup", "sync", "cli",
                    "dead", "closed"}
    /\ applied \in BOOLEAN
    /\ outcome \in {"none", "pending", "unverified", "VERIFIED", "FAILED", "ROLLBACK_FAILED"}
    /\ recovery \subseteq Texts
    /\ turns \in 0..MaxTurns /\ userTexts \in 0..MaxUserEdits /\ wsFaults \in 0..MaxWsFaults

\* Noryx never replaces a text that the user wrote and that the workspace does not come
\* from, however the user's edits and commits fall between the snapshot, the checks and the
\* merge. For a copy without Git the checks leave gaps (see ConcurrentWorkKept).
Overwritten(f) == source[f][1] = "user" /\ source'[f] # source[f] /\ source'[f][1] = "agent"
UserWorkSurvives ==
    [][backend # "copy" => \A f \in Sources : Overwritten(f) => source[f] = origin[f]]_wsVars

\* workspace.py:490: "Apply workspace changes back without losing concurrent user work."
\* A text that the user wrote is replaced only if the workspace comes from it. (Without Git, one
\* that is written between the check and the copying is lost.)
ConcurrentWorkKept ==
    [][\A f \in Sources :
          source[f] # Original /\ source[f][1] = "user" /\ source'[f] # source[f]
            => source'[f] = <<"user", userTexts'>> \/ source[f] = origin[f]]_wsVars

\* An apply that is refused or fails leaves the source as the user has it: a sync that stops
\* half way is taken back. Taken back is what the first apply found (workspace.py:606): after a
\* rollback that failed, a later one may bring back a text that the user wrote since and lost.
FailedApplyLeavesSource ==
    outcome = "FAILED" => \A f \in Sources \ touched :
        \/ source[f] = atApply[f]
        \/ f \in DOMAIN backup /\ source[f] = backup[f] /\ source[f][1] = "user"

\* What the agent wrote outlives a session that closes in order: it is in the source, or was
\* replaced there, or it is in a recovery patch. Of a turn after the one that set
\* _workspace_applied nothing is promised (see VerifiedIsApplied).
WorkKept ==
    wsPhase = "closed" /\ turns = 1 /\ outcome # "none" =>
        \A f \in Sources : workspace[f] = <<"agent", 1>> =>
            source[f] = workspace[f] \/ workspace[f] \in recovery \/ f \in touched

\* run_finalizer.py:240: "A failed merge is treated as a failed run rather than reporting a
\* false VERIFIED outcome." A turn reported VERIFIED has its work in the source. (The first one has;
\* a later turn of the session is not applied again.)
VerifiedIsApplied ==
    outcome = "VERIFIED" =>
        \A f \in Sources \ touched : workspace[f] = <<"agent", turns>> => source[f] = workspace[f]

=============================================================================
