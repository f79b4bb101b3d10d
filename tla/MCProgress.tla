----------------------------- MODULE MCProgress -----------------------------
(* What must come to an end, in one run: every part that loops, waits or retries, in instances
   small enough for the liveness check.  Each behaviour follows one part. *)
EXTENDS RunLedger, Sequences

Actor == <<"a", "b">>
OneOutcome == {"VERIFIED"}
Actors == {"a", "b"}
AloneOrAfter(before) == [deps |-> <<{}, before>>, mutates |-> {1}, scope |-> <<{"f"}, {}>>]
Stream == <<"out", "err">>
\* A host command that ignores SIGTERM and leaves a process with its pipes, and one that it floods.
SandboxCommand ==
    [c \in {"host", "flood"} |->
        [isolation |-> IF c = "host" THEN "optional" ELSE "required", network |-> FALSE,
         cwd |-> "inside", mentions |-> "inside", env |-> "plain",
         leader |-> IF c = "host" THEN "stubborn" ELSE "graceful", child |-> "holding",
         floods |-> IF c = "host" THEN {} ELSE {"out", "err"}]]
SandboxCommands == DOMAIN SandboxCommand
SandboxOperations == {[before |-> "before", after |-> "after", command |-> "host"]}
SandboxHooks ==
    {<<[kind |-> "shell", enabled |-> TRUE, priority |-> 50, events |-> {"before"},
        command |-> "flood", policy |-> "warn"]>>}
SmallTeams == {AloneOrAfter({}), AloneOrAfter({1})}

VARIABLES
    which,     \* the part that runs in this behaviour
    \* JsonlLog
    file, backups, logLock, logPc, seen, cur, logDegraded, acked, started, logCrashes, torn,
    \* FileMutation
    path, content, flock, threadLock, writePc, expected, fd, hashNow, version, versions,
    author, foreign, failures, writeCrashes,
    \* TaskDag
    deps, status, dagAttempts, planStatus, ready, dagCurrent, repairNo, repairs, dagPc, saved,
    checkpoints, proposals, applied, dagCrashes,
    \* PlanExecution
    novaFallback, steps, recordedPlan, planLoop, currentStep, response, turnsUsed, modelTurns,
    turnCancelled, timedOut, asked, ignored, worked, resumes, cancels,
    \* Collaboration
    team, teamPc, teamOutcome, registered, reserved, expired, launched, wpc, result, teamCalls,
    tools, retries, changes, written, checked, orphans, spaces, cancelled, events, approved,
    integrated, teamSaved,
    \* HostedTurn
    messages, hostedCurrent, hostedPc, runState, iteration, empties, hostedCalls, hostedLast,
    results, pending, callOf, nextId, inputs, requests, paused,
    \* Failover
    strict, providerPc, providerTodo, errors, unreachable, resting, keyIdx, poolIdx,
    providerAttempts, http, tried, served, providerOutcome,
    \* SandboxedCommand
    scene, backend, hooks, op, sandboxTodo, at, fired, runPc, cmd, leader, code, child, reader,
    cut, late, stuck, profiles, sandboxLast, operations, service,
    \* BackgroundJobs
    job, record, watcher, stopper, stubborn, overdue, stranger, hit, met

Log == INSTANCE JsonlLog WITH Procs <- {"a", "b"}, MaxCrashes <- 1, MaxRecords <- 3,
    Tears <- {"partial", "full"}, ShortTears <- {"partial"}, lock <- logLock,
    degraded <- logDegraded, crashes <- logCrashes
Write == INSTANCE FileMutation WITH Writers <- {"a", "b"}, Procs <- {"p", "q"},
    ProcOf <- [w \in Actors |-> "p"], MaxWrites <- 2, MaxForeign <- 1, MaxFailures <- 1,
    MaxCrashes <- 1, pc <- writePc, crashes <- writeCrashes
Dag == INSTANCE TaskDag WITH Steps <- 1..2, RetryLimit <- [s \in 1..2 |-> 1], MaxRepairs <- 1,
    MaxCrashes <- 1, attempts <- dagAttempts, current <- dagCurrent, pc <- dagPc,
    crashes <- dagCrashes
Plan == INSTANCE PlanExecution WITH StepCount <- 2, DependsOn <- <<{}, {1}>>, StepRetries <- 1,
    MaxTurns <- 2, MaxKills <- 1, MaxCancels <- 0
Team == INSTANCE Collaboration WITH Workers <- 1..2, Teams <- SmallTeams, MaxCalls <- 1,
    MaxTools <- 1, MaxRetries <- 1, outcome <- teamOutcome, calls <- teamCalls
Hosted == INSTANCE HostedTurn WITH Ops <- {"o"}, MaxTurns <- 2, MaxEmptyRetries <- 1,
    CompactAbove <- 5, KeepKernel <- 2, KeepAgent <- 3, MaxInputs <- 2, MaxCalls <- 1,
    current <- hostedCurrent, pc <- hostedPc, calls <- hostedCalls, last <- hostedLast
Provider == INSTANCE Failover WITH KeyCount <- 3, GroqRoutes <- 1, HasCustom <- TRUE,
    HasOpenRouter <- TRUE, Fallbacks <- 1, MaxPhysical <- 3, SdkRetries <- 1,
    AttemptLimit <- 6, MaxServed <- 1, pc <- providerPc, todo <- providerTodo,
    attempts <- providerAttempts, outcome <- providerOutcome
Sandbox == INSTANCE SandboxedCommand WITH Commands <- SandboxCommands,
    CommandOf <- SandboxCommand, Operations <- SandboxOperations, HookLists <- SandboxHooks,
    Backends <- {"sandbox-exec"}, Scenes <- {"commands"}, Threads <- {}, MaxOperations <- 1,
    todo <- sandboxTodo, last <- sandboxLast
Background == INSTANCE BackgroundJobs WITH Pids <- {"p"}, Jobs <- {"a", "b"}, Strangers <- 0

ASSUME ProviderAssumption == Provider!ConstantsOK

ASSUME BackgroundAssumption == Background!ConstantsOK

logVars == <<file, backups, logLock, logPc, seen, cur, logDegraded, acked, started, logCrashes,
    torn>>
writeVars == <<path, content, flock, threadLock, writePc, expected, fd, hashNow, version,
    versions, author, foreign, failures, writeCrashes>>
dagVars == <<deps, status, dagAttempts, planStatus, ready, dagCurrent, repairNo, repairs,
    dagPc, saved, checkpoints, proposals, applied, dagCrashes>>
planVars == <<novaFallback, steps, recordedPlan, planLoop, currentStep, response, turnsUsed,
    modelTurns, turnCancelled, timedOut, asked, ignored, worked, resumes, cancels>>
teamVars == <<team, teamPc, teamOutcome, registered, reserved, expired, launched, wpc, result,
    teamCalls, tools, retries, changes, written, checked, orphans, spaces, cancelled, events,
    approved, integrated, teamSaved>>
hostedVars == <<messages, hostedCurrent, hostedPc, runState, iteration, empties, hostedCalls,
    hostedLast, results, pending, callOf, nextId, inputs, requests, paused>>
providerVars == <<strict, providerPc, providerTodo, errors, unreachable, resting, keyIdx,
    poolIdx, providerAttempts, http, tried, served, providerOutcome>>
sandboxVars == <<scene, backend, hooks, op, sandboxTodo, at, fired, runPc, cmd, leader, code,
    child, reader, cut, late, stuck, profiles, sandboxLast, operations, service>>
backgroundVars == <<job, record, watcher, stopper, stubborn, overdue, stranger, hit, met>>

-----------------------------------------------------------------------------
\* One part runs, and the others stay as they were at first.
SumInit ==
    /\ which \in {"ledger", "log", "write", "dag", "plan", "team", "hosted", "provider", "sandbox", "background"}
    /\ which # "write" => path = 1
    /\ which # "dag" => deps = [s \in 1..2 |-> {}]
    /\ which # "plan" => novaFallback = FALSE
    /\ which # "team" => team = AloneOrAfter({})
    /\ which # "provider" => strict = TRUE
    /\ which # "background" => stubborn = {}
    /\ LedgerInit
    /\ Log!LogInit
    /\ Write!Init
    /\ Dag!Init
    /\ Plan!PlanInit
    /\ Team!TeamInit
    /\ Hosted!Init
    /\ Provider!Init
    /\ Sandbox!SandboxInit
    /\ Background!Init

LedgerOnly == which = "ledger" /\ UNCHANGED <<which, logVars, writeVars, dagVars, planVars,
        teamVars, hostedVars, providerVars, sandboxVars, backgroundVars>>
LogOnly == which = "log" /\ UNCHANGED <<which, ledgerVars, writeVars, dagVars, planVars,
        teamVars, hostedVars, providerVars, sandboxVars, backgroundVars>>
WriteOnly == which = "write" /\ UNCHANGED <<which, ledgerVars, logVars, dagVars, planVars,
        teamVars, hostedVars, providerVars, sandboxVars, backgroundVars>>
DagOnly == which = "dag" /\ UNCHANGED <<which, ledgerVars, logVars, writeVars, planVars,
        teamVars, hostedVars, providerVars, sandboxVars, backgroundVars>>
PlanOnly == which = "plan" /\ UNCHANGED <<which, ledgerVars, logVars, writeVars, dagVars,
        teamVars, hostedVars, providerVars, sandboxVars, backgroundVars>>
TeamOnly == which = "team" /\ UNCHANGED <<which, ledgerVars, logVars, writeVars, dagVars,
        planVars, hostedVars, providerVars, sandboxVars, backgroundVars>>
HostedOnly == which = "hosted" /\ UNCHANGED <<which, ledgerVars, logVars, writeVars, dagVars,
        planVars, teamVars, providerVars, sandboxVars, backgroundVars>>
ProviderOnly == which = "provider" /\ UNCHANGED <<which, ledgerVars, logVars, writeVars,
        dagVars, planVars, teamVars, hostedVars, sandboxVars, backgroundVars>>
SandboxOnly == which = "sandbox" /\ UNCHANGED <<which, ledgerVars, logVars, writeVars, dagVars,
        planVars, teamVars, hostedVars, providerVars, backgroundVars>>
BackgroundOnly == which = "background" /\ UNCHANGED <<which, ledgerVars, logVars, writeVars,
        dagVars, planVars, teamVars, hostedVars, providerVars, sandboxVars>>

LedgerStep == LedgerOnly /\ LedgerNext
LogStep == LogOnly /\ Log!LogNext
WriteStep == WriteOnly /\ Write!Next
DagStep == DagOnly /\ Dag!Next
PlanStep == PlanOnly /\ Plan!PlanNext
TeamStep == TeamOnly /\ Team!TeamNext
HostedStep == HostedOnly /\ Hosted!Next
ProviderStep == ProviderOnly /\ Provider!Next
SandboxStep == SandboxOnly /\ Sandbox!SandboxNext
BackgroundStep == BackgroundOnly /\ Background!Next

SumNext == LedgerStep \/ LogStep \/ WriteStep \/ DagStep \/ PlanStep \/ TeamStep \/ HostedStep \/ ProviderStep \/ SandboxStep \/ BackgroundStep
sumVars == <<which, ledgerVars, logVars, writeVars, dagVars, planVars, teamVars, hostedVars,
             providerVars, sandboxVars, backgroundVars>>

SumSafety == SumInit /\ [][SumNext]_sumVars

-----------------------------------------------------------------------------
(* Fairness.  A thread that can go on does; a lock that is offered again and again is taken at *)
(* some time; every request, tool call and model turn returns.                                 *)

MainStep ==
    \/ DagOnly /\ Dag!Next
    \/ PlanOnly /\ Plan!LoopStep
    \/ TeamOnly /\ Team!Orchestrate
    \/ HostedOnly /\ Hosted!KernelStep
    \/ ProviderOnly /\ Provider!Working /\ UNCHANGED strict
    \/ BackgroundOnly /\ Background!Stop
    \/ SandboxOnly /\ Sandbox!CallerStep

ActorStep(i) ==
    \/ LogOnly /\ Log!Progress(Actor[i])
    \/ LedgerOnly /\ (\/ Beginning(Actor[i])
                      \/ Finalizing(Actor[i])
                      \/ RollingBack(Actor[i]))
    \/ WriteOnly /\ Write!Step(Actor[i])
    \/ TeamOnly /\ teamPc = "gathering" /\ Team!Work(i)
    \/ BackgroundOnly /\ Background!Watch(Actor[i])
    \/ HostedOnly /\ Hosted!ResumeAfterApproval
    \/ SandboxOnly /\ Sandbox!ReaderStep(Stream[i])

TakesLock(i) ==
    \/ LogOnly /\ Log!Acquire(Actor[i])
    \/ LedgerOnly /\ FinalizeLock(Actor[i])

SumFair ==
    /\ SumSafety
    /\ WF_sumVars(MainStep)
    /\ \A i \in 1..2 : WF_sumVars(ActorStep(i)) /\ SF_sumVars(TakesLock(i))

-----------------------------------------------------------------------------
\* JsonlLog, RunLedger and FileMutation: an append, a finalisation and a write return, unless their
\* process is killed; no killed or failed writer leaves a lock behind that others wait for.  (The
\* actors are alike: it is stated of the first.)
Writing ==
    \/ which = "log" /\ logPc["a"] = "waiting"
    \/ which = "ledger" /\ ledgerPc["a"] = "reported"
    \/ which = "write" /\ writePc["a"] = "called"
Written ==
    \/ which = "log" /\ logPc["a"] = "idle"
    \/ which = "ledger" /\ ledgerPc["a"] \in {"ready", "dead"}
    \/ which = "write" /\ writePc["a"] \in {"idle", "dead"}
WritesReturn == Writing ~> Written

\* TaskDag, PlanExecution and Collaboration: every plan and every team comes to an end, whatever
\* fails, is repaired, retried or killed, unless the agent's own team has run out of time: the
\* standing cancel_event ends every turn at once, and no branch of the plan loop.
AtWork ==
    \/ which = "dag"
    \/ which = "plan" /\ planLoop = "next"
    \/ which = "team"
WorkOver ==
    \/ which = "dag" /\ dagPc \in {"done", "rejected"}
    \/ which = "plan" /\ (planLoop \in {"ended", "dead"} \/ timedOut)
    \/ which = "team" /\ teamPc = "done"
WorkEnds == AtWork ~> WorkOver

\* HostedTurn, Failover, BackgroundJobs and SandboxedCommand: a turn ends, a model call returns whatever the
\* providers answer, and a job that outlives its limit is ended also when it ignores the request,
\* and a command returns whatever it does, and whatever its descendants that heed SIGTERM do.
Owed ==
    \/ which = "hosted" /\ hostedPc = "loop"
    \/ which = "provider" /\ providerPc = "custom"
    \/ which = "background" /\ "a" \in overdue
    \/ which = "sandbox" /\ runPc = "waiting"
Settled ==
    \/ which = "hosted" /\ hostedPc = "idle"
    \/ which = "provider" /\ providerPc = "idle"
    \/ which = "background" /\ job["a"].leader # "run"
    \/ which = "sandbox" /\ runPc = "off"
ServicesEnd == Owed ~> Settled
=============================================================================
