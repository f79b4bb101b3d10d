----------------------------- MODULE RunLedger -----------------------------
(***************************************************************************)
(* The persistent run directory of one conversation: class RunLedger of    *)
(* nexus/run_state.py and its callers in nexus/run_finalizer.py and        *)
(* nexus/agent/core.py.  Several Noryx processes work on one session:      *)
(* session.json lists the turns, and every turn has a directory with       *)
(* state.json, final_report.json and a PID lock file .run.lock.            *)
(*                                                                         *)
(* Each step below is one file operation (every JSON write is atomic       *)
(* through os.replace), so that processes interleave between any two of    *)
(* them and may be killed there.  Writes may fail (a full disk): the code  *)
(* ignores some failures and turns the ledger degraded after others.       *)
(* Requests, plans, costs, time stamps and artifacts are left out: no      *)
(* decision of the ledger reads them.  Events are module JsonlLog.         *)
(***************************************************************************)
EXTENDS Naturals, Sequences, FiniteSets

CONSTANTS
    Processes,        \* process identifiers; a killed one never comes back
    MaxLedgerTurns,   \* bound: turns of the session
    MaxLedgerFaults,  \* bound: failing writes
    MaxRewrites,      \* bound: reports refreshed or rolled back per process
    Outcomes          \* statuses the finaliser can decide

RUNNING == "RUNNING"
ROLLED_BACK == "ROLLED_BACK"
Unwritten == "absent"
NoProc == "no process"
Turns == 1..MaxLedgerTurns
Statuses == Outcomes \cup {RUNNING, ROLLED_BACK}

ASSUME LedgerAssumption ==
    /\ MaxLedgerTurns \in Nat
    /\ MaxLedgerFaults \in Nat
    /\ MaxRewrites \in Nat
    /\ NoProc \notin Processes
    /\ Outcomes \cap {RUNNING, ROLLED_BACK, Unwritten} = {}

VARIABLES
    session,          \* "turns" of session.json: <<[turn, status], ...>>
    dirs,             \* turn numbers whose directory exists
    state,            \* status in state.json of each turn, or Unwritten
    report,           \* status in final_report.json of each turn, or Unwritten
    owner,            \* PID in .run.lock of each turn, or NoProc
    lock,             \* holder of exclusive_file_lock(session.json), or NoProc
    ledgerPc,         \* where each process is
    turn,             \* self.turn_id of each process, 0 when there is none
    snap,             \* the session.json each process read last
    decided,          \* the status each process is writing
    degraded,         \* self._degraded of each process
    failedWrites,     \* failing writes so far
    rewrites,         \* refreshes and rollbacks of each process so far
    shared            \* history: turns that two live processes have had as current

disk == <<session, dirs, state, report, owner>>
ledgerVars == <<session, dirs, state, report, owner, lock, ledgerPc, turn, snap, decided,
                degraded, failedWrites, rewrites, shared>>

Alive(p) == ledgerPc[p] # "dead"

\* A step of p from one point of the code to another.
LedgerGoto(p, from, to) == ledgerPc[p] = from /\ ledgerPc' = [ledgerPc EXCEPT ![p] = to]

\* The document p read goes out of scope.
ForgetDocument(p) == snap' = [snap EXCEPT ![p] = <<>>]

\* A write either succeeds or fails; failures are bounded.
Writes(ok) == \/ ok /\ failedWrites' = failedWrites
              \/ ~ok /\ failedWrites < MaxLedgerFaults /\ failedWrites' = failedWrites + 1

Maximum(S) == IF S = {} THEN 0 ELSE CHOOSE n \in S : \A m \in S : m <= n

\* The entry of turn t in a session document, rewritten with a status.
WithStatus(doc, t, status) ==
    [i \in DOMAIN doc |->
        IF doc[i].turn = t THEN [doc[i] EXCEPT !.status = status] ELSE doc[i]]

LedgerInit ==
    /\ session = <<>>
    /\ dirs = {}
    /\ state = [t \in Turns |-> Unwritten]
    /\ report = [t \in Turns |-> Unwritten]
    /\ owner = [t \in Turns |-> NoProc]
    /\ lock = NoProc
    /\ ledgerPc = [p \in Processes |-> "new"]
    /\ turn = [p \in Processes |-> 0]
    /\ snap = [p \in Processes |-> <<>>]
    /\ decided = [p \in Processes |-> RUNNING]
    /\ degraded = [p \in Processes |-> FALSE]
    /\ failedWrites = 0
    /\ rewrites = [p \in Processes |-> 0]
    /\ shared = {}

-----------------------------------------------------------------------------
(* __init__ / _ensure_session: session.json is read and written back       *)
(* without its lock.                                                       *)

OpenRead(p) ==
    /\ LedgerGoto(p, "new", "opening")
    /\ snap' = [snap EXCEPT ![p] = session]
    /\ UNCHANGED <<disk, lock, turn, decided, degraded, failedWrites, rewrites, shared>>

OpenWrite(p) ==
    /\ LedgerGoto(p, "opening", "ready")
    /\ \E ok \in BOOLEAN :
          /\ Writes(ok)
          /\ session' = IF ok THEN snap[p] ELSE session
          /\ degraded' = [degraded EXCEPT ![p] = ~ok]
    /\ ForgetDocument(p)
    /\ UNCHANGED <<dirs, state, report, owner, lock, turn, decided, rewrites, shared>>

-----------------------------------------------------------------------------
(* begin: everything under the lock of session.json.                       *)

\* The number after both the listed turns and the existing directories.
NextTurn(doc) == Maximum({Len(doc)} \cup dirs) + 1

BeginLock(p) ==
    /\ lock = NoProc
    /\ LedgerGoto(p, "ready", "numbering")
    /\ NextTurn(session) \in Turns
    /\ lock' = p
    /\ snap' = [snap EXCEPT ![p] = session]
    /\ turn' = [turn EXCEPT ![p] = NextTurn(session)]
    /\ UNCHANGED <<disk, decided, degraded, failedWrites, rewrites, shared>>

\* mkdir(exist_ok=False), then _acquire_run_lock: a live owner is refused,
\* a dead one is replaced.
BeginMkdir(p) ==
    /\ LedgerGoto(p, "numbering", "starting")
    /\ turn[p] \notin dirs
    /\ owner[turn[p]] \in Processes => ~Alive(owner[turn[p]])
    /\ dirs' = dirs \cup {turn[p]}
    /\ owner' = [owner EXCEPT ![turn[p]] = p]
    /\ UNCHANGED <<session, state, report, lock, turn, snap, decided, degraded, failedWrites,
                   rewrites, shared>>

\* state.json says RUNNING; a failing write is ignored.
BeginState(p) ==
    /\ LedgerGoto(p, "starting", "listing")
    /\ \E ok \in BOOLEAN :
          /\ Writes(ok)
          /\ state' = IF ok THEN [state EXCEPT ![turn[p]] = RUNNING] ELSE state
    /\ UNCHANGED <<session, dirs, report, owner, lock, turn, snap, decided, degraded, rewrites,
                   shared>>

\* The document read at the start is written back with the new entry.
BeginSession(p) ==
    /\ LedgerGoto(p, "listing", "running")
    /\ \E ok \in BOOLEAN :
          /\ Writes(ok)
          /\ session' = IF ok
                        THEN Append(snap[p], [turn |-> turn[p], status |-> RUNNING])
                        ELSE session
    /\ lock' = NoProc
    /\ ForgetDocument(p)
    /\ UNCHANGED <<dirs, state, report, owner, turn, decided, degraded, rewrites, shared>>

-----------------------------------------------------------------------------
(* finalize: report, state, session (under the lock), PID lock.            *)

\* The run ends and its status is decided.
FinalizeReport(p) ==
    /\ LedgerGoto(p, "running", "reported")
    /\ \E status \in Outcomes, ok \in BOOLEAN :
          /\ Writes(ok)
          /\ decided' = [decided EXCEPT ![p] = status]
          /\ report' = IF ok THEN [report EXCEPT ![turn[p]] = status] ELSE report
    /\ UNCHANGED <<session, dirs, state, owner, lock, turn, snap, degraded, rewrites, shared>>

\* _update_state: nothing when degraded; a failing write degrades.
UpdateState(p, status) ==
    IF degraded[p]
      THEN UNCHANGED <<state, degraded, failedWrites>>
      ELSE \E ok \in BOOLEAN :
              /\ Writes(ok)
              /\ state' = IF ok THEN [state EXCEPT ![turn[p]] = status] ELSE state
              /\ degraded' = [degraded EXCEPT ![p] = ~ok]

\* Faulty variant: finalize leaves state.json for the next run to repair.
FinalizeStateSkipped(p) ==
    /\ LedgerGoto(p, "reported", "stated")
    /\ UNCHANGED <<disk, lock, turn, snap, decided, degraded, failedWrites, rewrites, shared>>

FinalizeState(p) ==
    /\ LedgerGoto(p, "reported", "stated")
    /\ UpdateState(p, decided[p])
    /\ UNCHANGED <<session, dirs, report, owner, lock, turn, snap, decided, rewrites, shared>>

FinalizeLock(p) ==
    /\ lock = NoProc
    /\ LedgerGoto(p, "stated", "closing")
    /\ lock' = p
    /\ snap' = [snap EXCEPT ![p] = session]
    /\ UNCHANGED <<disk, turn, decided, degraded, failedWrites, rewrites, shared>>

FinalizeSession(p) ==
    /\ LedgerGoto(p, "closing", "releasing")
    /\ \E ok \in BOOLEAN :
          /\ Writes(ok)
          /\ session' = IF ok THEN WithStatus(snap[p], turn[p], decided[p]) ELSE session
    /\ lock' = NoProc
    /\ ForgetDocument(p)
    /\ UNCHANGED <<dirs, state, report, owner, turn, decided, degraded, rewrites, shared>>

\* _release_run_lock removes the file only when it holds our own PID.  The
\* lock path is the one begin() remembered, whatever turn_id says now.
Release(p) ==
    owner' = [t \in Turns |-> IF owner[t] = p THEN NoProc ELSE owner[t]]

FinalizeRelease(p) ==
    /\ LedgerGoto(p, "releasing", "ready")
    /\ Release(p)
    /\ UNCHANGED <<session, dirs, state, report, lock, turn, snap, decided, degraded,
                   failedWrites, rewrites, shared>>

-----------------------------------------------------------------------------
(* resume_summary makes the newest turn directory the current turn; it is  *)
(* called by get_run_status, by load_conversation and, before finishing    *)
(* again, by _refresh_final_report_after_approval.                         *)

Latest == Maximum(dirs)

\* The newest turn becomes the current one of p, whoever else works on it.
Adopt(p) ==
    /\ turn' = [turn EXCEPT ![p] = Latest]
    /\ shared' = IF \E q \in Processes \ {p} : Alive(q) /\ turn[q] = Latest
                 THEN shared \cup {Latest} ELSE shared

ResumeSummary(p) ==
    /\ ledgerPc[p] = "ready"
    /\ dirs # {}
    /\ turn[p] # Latest
    /\ Adopt(p)
    /\ UNCHANGED <<disk, lock, ledgerPc, snap, decided, degraded, failedWrites, rewrites>>

\* An approval was applied: the report is computed again and finalize runs.
RefreshReport(p) ==
    /\ LedgerGoto(p, "ready", "running")
    /\ turn[p] # 0
    /\ decided[p] # RUNNING
    /\ rewrites[p] < MaxRewrites
    /\ Adopt(p)
    /\ rewrites' = [rewrites EXCEPT ![p] = @ + 1]
    /\ UNCHANGED <<disk, lock, snap, decided, degraded, failedWrites>>

-----------------------------------------------------------------------------
(* mark_rolled_back: the PID lock goes first and session.json is rewritten *)
(* without its lock.                                                       *)

RollbackRelease(p) ==
    /\ LedgerGoto(p, "ready", "undone")
    /\ turn[p] # 0
    /\ rewrites[p] < MaxRewrites
    /\ rewrites' = [rewrites EXCEPT ![p] = @ + 1]
    /\ decided' = [decided EXCEPT ![p] = ROLLED_BACK]
    /\ Release(p)
    /\ UNCHANGED <<session, dirs, state, report, lock, turn, snap, degraded, failedWrites,
                   shared>>

RollbackState(p) ==
    /\ LedgerGoto(p, "undone", "unstated")
    /\ UpdateState(p, ROLLED_BACK)
    /\ UNCHANGED <<session, dirs, report, owner, lock, turn, snap, decided, rewrites, shared>>

\* The report is rewritten if there is one.
RollbackReport(p) ==
    /\ LedgerGoto(p, "unstated", "unreported")
    /\ \E ok \in BOOLEAN :
          /\ Writes(ok)
          /\ report' = IF ok /\ report[turn[p]] # Unwritten
                       THEN [report EXCEPT ![turn[p]] = ROLLED_BACK] ELSE report
    /\ UNCHANGED <<session, dirs, state, owner, lock, turn, snap, decided, degraded, rewrites,
                   shared>>

RollbackRead(p) ==
    /\ LedgerGoto(p, "unreported", "unlisting")
    /\ snap' = [snap EXCEPT ![p] = session]
    /\ UNCHANGED <<disk, lock, turn, decided, degraded, failedWrites, rewrites, shared>>

RollbackSession(p) ==
    /\ LedgerGoto(p, "unlisting", "ready")
    /\ \E ok \in BOOLEAN :
          /\ Writes(ok)
          /\ session' = IF ok THEN WithStatus(snap[p], turn[p], ROLLED_BACK) ELSE session
    /\ ForgetDocument(p)
    /\ UNCHANGED <<dirs, state, report, owner, lock, turn, decided, degraded, rewrites, shared>>

-----------------------------------------------------------------------------
\* Faulty variant: the lock of session.json survives its holder.
CrashKeepingLock(p) ==
    /\ Alive(p)
    /\ ledgerPc' = [ledgerPc EXCEPT ![p] = "dead"]
    /\ ForgetDocument(p)
    /\ UNCHANGED <<disk, lock, turn, decided, degraded, failedWrites, rewrites, shared>>

\* The process is killed: the kernel drops its flock, files stay.
LedgerCrash(p) ==
    /\ Alive(p)
    /\ ledgerPc' = [ledgerPc EXCEPT ![p] = "dead"]
    /\ lock' = IF lock = p THEN NoProc ELSE lock
    /\ ForgetDocument(p)
    /\ UNCHANGED <<disk, turn, decided, degraded, failedWrites, rewrites, shared>>

\* Steps that a process takes by itself once an operation has started.
Finalizing(p) ==
    \/ FinalizeReport(p) \/ FinalizeState(p) \/ FinalizeLock(p)
    \/ FinalizeSession(p) \/ FinalizeRelease(p)

Beginning(p) == BeginMkdir(p) \/ BeginState(p) \/ BeginSession(p)

RollingBack(p) ==
    \/ RollbackState(p) \/ RollbackReport(p) \/ RollbackRead(p)
    \/ RollbackSession(p)

LedgerNext ==
    \E p \in Processes :
        \/ OpenRead(p) \/ OpenWrite(p)
        \/ BeginLock(p) \/ Beginning(p)
        \/ Finalizing(p)
        \/ ResumeSummary(p) \/ RefreshReport(p)
        \/ RollbackRelease(p) \/ RollingBack(p)
        \/ LedgerCrash(p)

\* An operation that has started is carried on; flock is granted to a waiter
\* that finds the lock free again and again.
LedgerFairness ==
    \A p \in Processes :
        /\ WF_ledgerVars(Beginning(p) \/ Finalizing(p) \/ RollingBack(p))
        /\ SF_ledgerVars(FinalizeLock(p))

LedgerSpec == LedgerInit /\ [][LedgerNext]_ledgerVars
LedgerFairSpec == LedgerSpec /\ LedgerFairness

-----------------------------------------------------------------------------
LedgerPcValues == {"new", "opening", "ready", "numbering", "starting", "listing",
             "running", "reported", "stated", "closing", "releasing",
             "undone", "unstated", "unreported", "unlisting", "dead"}
Entry == [turn : Turns, status : Statuses]

\* Type invariant of the run directory and of the processes using it.
LedgerTypeOK ==
    /\ session \in Seq(Entry)
    /\ dirs \subseteq Turns
    /\ state \in [Turns -> Statuses \cup {Unwritten}]
    /\ report \in [Turns -> Statuses \cup {Unwritten}]
    /\ owner \in [Turns -> Processes \cup {NoProc}]
    /\ lock \in Processes \cup {NoProc}
    /\ ledgerPc \in [Processes -> LedgerPcValues]
    /\ turn \in [Processes -> Turns \cup {0}]
    /\ snap \in [Processes -> Seq(Entry)]
    /\ decided \in [Processes -> Statuses]
    /\ degraded \in [Processes -> BOOLEAN]
    /\ failedWrites \in 0..MaxLedgerFaults
    /\ rewrites \in [Processes -> 0..MaxRewrites]
    /\ shared \subseteq Turns

\* begin() never runs into an existing directory, so mkdir(exist_ok=False)
\* does not raise: not after a kill between mkdir and the write of
\* session.json, not after a lost entry, not with two processes beginning
\* at once.
FreshTurn ==
    \A p \in Processes : ledgerPc[p] = "numbering" => turn[p] \notin dirs

\* Every session.json ever written lists turns that have a directory, in
\* order and without repetition, although two operations rewrite the file
\* from an old copy of it.
SessionOrdered ==
    /\ \A i \in DOMAIN session : session[i].turn \in dirs
    /\ \A i, j \in DOMAIN session : i < j => session[i].turn < session[j].turn

\* A turn that session.json calls finished or rolled back is so in
\* state.json, the file that decides whether it can be resumed: both
\* operations write session.json last, and a kill may come between any two
\* files.  Turns that two live processes had as current are excepted.
ClosedOnDisk ==
    failedWrites = 0 =>
        \A i \in DOMAIN session :
            session[i].status # RUNNING /\ session[i].turn \notin shared =>
                /\ state[session[i].turn] \notin {Unwritten, RUNNING}
                /\ session[i].status \in Outcomes => report[session[i].turn] # Unwritten

\* What the files of a session promise together: a turn number is given
\* once, session.json lists the turns in order, and what it calls closed is
\* closed in the files of the turn.
SessionSound == FreshTurn /\ SessionOrdered /\ ClosedOnDisk

\* finalize returns unless its process is killed: a killed process never
\* leaves session.json locked.
FinalizeTerminates ==
    \A p \in Processes : ledgerPc[p] = "reported" ~> ledgerPc[p] \in {"ready", "dead"}
=============================================================================
