----------------------------- MODULE BackgroundJobs -----------------------------
(***************************************************************************)
(* Background processes of the run_background tool                         *)
(* (nexus/tools/background.py).  A job is a process group led by a child   *)
(* of this process; its pid is the key of its record, and becomes free for *)
(* any other program once the leader was waited for and its group is       *)
(* empty.  A watcher thread enforces the time limit and then the closing   *)
(* of the pipes; tool calls and the end of the turn stop jobs.             *)
(***************************************************************************)
EXTENDS Naturals, FiniteSets

CONSTANTS
    Pids,           \* process ids the system can give
    Jobs,           \* jobs that can be started
    Strangers       \* bound: programs of others that get a pid

ConstantsOK == Strangers \in Nat /\ Jobs # {}

VARIABLES
    job,        \* each job: [pid, leader, child, pipe]; leader "run", "zombie", "gone" or "none";
                \* child: a descendant lives; pipe: the pumps still read
    record,     \* _bg_processes: pid -> the job recorded under it, or "nobody"
    watcher,    \* each job's watcher: the place it is at
    stopper,    \* the one who stops jobs: [at, job]; at "idle", "asked", "waited" or "killed"
    stubborn,   \* jobs whose processes ignore SIGTERM
    overdue,    \* jobs that ran for longer than their limit
    stranger,   \* pids that belong to a program of somebody else
    hit,        \* bookkeeping: a stranger was signalled
    met         \* bookkeeping: number of strangers so far

vars == <<job, record, watcher, stopper, stubborn, overdue, stranger, hit, met>>

NotStarted == [pid |-> "none", leader |-> "none", child |-> FALSE, pipe |-> FALSE]
Started(j) == job[j].leader # "none"
Group(j) == job[j].leader \in {"run", "zombie"} \/ job[j].child     \* the kernel keeps the pid
FreePids == {p \in Pids \ stranger : \A j \in Jobs : job[j].pid = p => ~Group(j)}

Init ==
    /\ job = [j \in Jobs |-> NotStarted]
    /\ record = [p \in Pids |-> "nobody"]
    /\ watcher = [j \in Jobs |-> "none"]
    /\ stopper = [at |-> "idle", job |-> "nobody"]
    /\ stubborn \in SUBSET Jobs
    /\ overdue = {} /\ stranger = {} /\ hit = FALSE /\ met = 0

-----------------------------------------------------------------------------
(* Signals. *)

\* _signal_background_group: killpg(process_group).  It reaches whoever has the group now.
Dies(j, force) == force \/ j \notin stubborn
Signalled(jobs, j, force) ==
    [k \in Jobs |->
        IF jobs[k].pid # jobs[j].pid \/ ~Dies(k, force) THEN jobs[k]
        ELSE [jobs[k] EXCEPT !.leader = IF @ = "run" THEN "zombie" ELSE @, !.child = FALSE]]
Hits(j) == hit \/ job[j].pid \in stranger

\* poll and wait reap the leader.
Reaped(jobs, j) == [jobs EXCEPT ![j].leader = IF @ = "zombie" THEN "gone" ELSE @]

-----------------------------------------------------------------------------
(* start_background_process. *)

Start(j, forks) ==
    /\ ~Started(j)
    /\ \E p \in FreePids :
          /\ job' = [job EXCEPT ![j] = [pid |-> p, leader |-> "run", child |-> forks, pipe |-> TRUE]]
          /\ record' = [record EXCEPT ![p] = j]
    /\ watcher' = [watcher EXCEPT ![j] = "waiting"]
    /\ UNCHANGED <<stopper, stubborn, overdue, stranger, hit, met>>

-----------------------------------------------------------------------------
(* What the processes do. *)

\* The leader ends; with it, or later, its descendant.
Exit(j) ==
    /\ \/ job[j].leader = "run" /\ job' = [job EXCEPT ![j].leader = "zombie"]
       \/ job[j].child /\ job' = [job EXCEPT ![j].child = FALSE]
    /\ UNCHANGED <<record, watcher, stopper, stubborn, overdue, stranger, hit, met>>

Overdue(j) ==
    /\ job[j].leader = "run" /\ overdue' = overdue \union {j}
    /\ UNCHANGED <<job, record, watcher, stopper, stubborn, stranger, hit, met>>

\* _pump_background_stream: a stream over its ceiling is cut and the group asked to end; the pump
\* ends when the last process that holds the pipe is gone.
TooMuchOutput(j) ==
    /\ job[j].pipe /\ (job[j].leader = "run" \/ job[j].child)
    /\ job' = Signalled(job, j, FALSE) /\ hit' = Hits(j)
    /\ UNCHANGED <<record, watcher, stopper, stubborn, overdue, stranger, met>>

PumpEnds(j) ==
    /\ job[j].pipe /\ job[j].leader # "run" /\ ~job[j].child
    /\ job' = [job EXCEPT ![j].pipe = FALSE]
    /\ UNCHANGED <<record, watcher, stopper, stubborn, overdue, stranger, hit, met>>

StrangerArrives(p) ==
    /\ p \in FreePids /\ met < Strangers
    /\ stranger' = stranger \union {p} /\ met' = met + 1
    /\ UNCHANGED <<job, record, watcher, stopper, stubborn, overdue, hit>>

-----------------------------------------------------------------------------
(* _watch_background_process and _terminate_background_record. *)

At(j, place) == watcher' = [watcher EXCEPT ![j] = place]
KeepAllBut == <<record, stopper, stubborn, overdue, stranger, met>>

\* process.wait with the limit: the leader is reaped, or the group is asked to end.
WatchWaits(j) ==
    /\ watcher[j] = "waiting"
    /\ \/ /\ job[j].leader # "run"
          /\ job' = Reaped(job, j) /\ At(j, "joining") /\ UNCHANGED hit
       \/ /\ job[j].leader = "run" /\ j \in overdue
          /\ job' = Signalled(job, j, FALSE) /\ hit' = Hits(j) /\ At(j, "asked")
    /\ UNCHANGED KeepAllBut

\* Faulty variant: a process that does not end when asked is left alone.
AfterAskedGivesUp(j) == Reaped(job, j)

\* Five seconds later a leader that still runs is killed, then waited for.
AfterAsked(j) == Reaped(IF job[j].leader = "run" THEN Signalled(job, j, TRUE) ELSE job, j)

WatchInsists(j) ==
    /\ watcher[j] = "asked"
    /\ job' = Signalled(AfterAsked(j), j, FALSE) /\ hit' = Hits(j) /\ At(j, "joining")
    /\ UNCHANGED KeepAllBut

\* The pumps are joined; while one lives the group is asked to end, the pipes are closed, and a
\* pump that still lives has the group killed.
WatchJoins(j) ==
    /\ watcher[j] = "joining" /\ At(j, "done")
    /\ \/ /\ ~job[j].pipe /\ UNCHANGED <<job, hit>>
       \/ /\ job[j].pipe
          /\ \E force \in BOOLEAN :
                job' = [Signalled(job, j, force) EXCEPT ![j].pipe = FALSE]
          /\ hit' = Hits(j)
    /\ UNCHANGED KeepAllBut

Watch(j) == WatchWaits(j) \/ WatchInsists(j) \/ WatchJoins(j)

-----------------------------------------------------------------------------
(* stop_background_process, stop_owned_processes, stop_all_background_processes: the records are   *)
(* read under the lock, one after the other is ended and then taken out of the table.              *)

StopAsks(p) ==
    /\ stopper.at = "idle" /\ record[p] # "nobody"
    /\ LET j == record[p] IN
       /\ job' = Signalled(job, j, FALSE) /\ hit' = Hits(j)
       /\ stopper' = [at |-> "asked", job |-> j]
    /\ UNCHANGED <<record, watcher, stubborn, overdue, stranger, met>>

StopInsists ==
    /\ stopper.at = "asked"
    /\ job' = Signalled(AfterAsked(stopper.job), stopper.job, FALSE) /\ hit' = Hits(stopper.job)
    /\ stopper' = [stopper EXCEPT !.at = "killed"]
    /\ UNCHANGED <<record, watcher, stubborn, overdue, stranger, met>>

StopForgets ==
    /\ stopper.at = "killed"
    /\ record' = [record EXCEPT ![job[stopper.job].pid] = "nobody"]
    /\ stopper' = [at |-> "idle", job |-> "nobody"]
    /\ UNCHANGED <<job, watcher, stubborn, overdue, stranger, hit, met>>

Stop == StopInsists \/ StopForgets

-----------------------------------------------------------------------------
Next ==
    \/ \E j \in Jobs : \/ \E forks \in BOOLEAN : Start(j, forks)
                       \/ Exit(j) \/ Overdue(j) \/ TooMuchOutput(j) \/ PumpEnds(j) \/ Watch(j)
    \/ \E p \in Pids : StrangerArrives(p) \/ StopAsks(p)
    \/ Stop

\* The watcher and the stopper are threads that run; a process need never end by itself.
Spec == Init /\ [][Next]_vars /\ WF_vars(Stop) /\ \A j \in Jobs : WF_vars(Watch(j))

-----------------------------------------------------------------------------
TypeOK ==
    /\ \A j \in Jobs : /\ job[j].leader \in {"none", "run", "zombie", "gone"}
                       /\ job[j].pid \in Pids \union {"none"}
                       /\ watcher[j] \in {"none", "waiting", "asked", "joining", "done"}
    /\ record \in [Pids -> Jobs \union {"nobody"}]
    /\ stopper.at \in {"idle", "asked", "killed"} /\ overdue \subseteq Jobs /\ stranger \subseteq Pids

\* A job that outlives its limit is ended, also when it ignores the request.
LifetimeEnds == \A j \in Jobs : j \in overdue ~> job[j].leader # "run"

\* Only processes this program started are signalled ("lifecycle-safe supervision"). (A
\* group is signalled after its leader was reaped, when the pid may be another's.)
StrangerSpared == ~hit
=============================================================================
