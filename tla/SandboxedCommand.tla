--------------------------- MODULE SandboxedCommand ---------------------------
(***************************************************************************)
(* How external commands run: the checks and the isolation that            *)
(* nexus/sandbox.py puts before a command, the process, its descendants    *)
(* and the two reader threads while SandboxRunner.run waits for it, the    *)
(* lifecycle hooks around an operation (nexus/hooks/runner.py), and the    *)
(* long-running processes of nexus/process_gateway.py that several threads *)
(* and the end of the program stop (nexus/runtime/process_state.py).       *)
(* A command is one of a few that differ in what the checks and the        *)
(* signals do to them.  A POSIX host is assumed.                           *)
(***************************************************************************)
EXTENDS Naturals, Sequences, FiniteSets, SequencesExt

CONSTANTS
    Commands,       \* names of the commands
    CommandOf,      \* what the checks see of each, and how its processes behave
    Operations,     \* the operations of the agent: [before, after: events, command]
    HookLists,      \* the lists of registered hooks to begin with
    Backends,       \* what hosts offer
    Scenes,         \* "commands", "services": which half of the module a behaviour is about
    Threads,        \* threads that stop a service
    MaxOperations   \* bound: operations

Streams == {"out", "err"}
Policies == {"warn", "block", "rollback"}

\* ProcessRequest: what a caller asks for, with how the command behaves once it runs:
\* `leader` under SIGTERM, `child` is a descendant left behind, `floods` the streams it overflows.
ProcessRequests ==
    [isolation : {"required", "optional", "trusted_host"}, network : BOOLEAN,
     cwd : {"inside", "outside", "missing"}, mentions : {"inside", "outside", "unparsable"},
     env : {"plain", "sensitive", "granted"}, leader : {"plain", "graceful", "stubborn"},
     child : {"none", "quiet", "holding", "stubborn", "detached"}, floods : SUBSET Streams]

\* BaseHook: what fire and _execute_shell_hook read of a hook.
HookRecords ==
    [kind : {"shell", "block", "notify"}, enabled : BOOLEAN, priority : 0..100,
     events : SUBSET STRING, policy : Policies, command : Commands \union {"none", "string", "stray"}]

\* No event has the name that stands for the operation's own command.
ASSUME SandboxAssumption ==
    /\ CommandOf \in [Commands -> ProcessRequests]
    /\ Operations # {}
    /\ \A o \in Operations : o.command \in Commands /\ o.before # "own" /\ o.after # "own"
    /\ HookLists \subseteq Seq(HookRecords)
    /\ Backends \subseteq {"bubblewrap", "sandbox-exec", "unisolated"}
    /\ Scenes \subseteq {"commands", "services"} /\ "free" \notin Threads

VARIABLES
    scene, backend,
    hooks,          \* HookRunner._hooks
    op,             \* the operation
    todo,           \* what is left of it: an event to fire, or "own", its command
    at,             \* the hook that fire has reached
    fired,          \* the results that fire has collected
    runPc,          \* where SandboxRunner.run stands
    cmd,            \* the command that it runs
    leader, code,   \* the process that it started, and its exit code
    child,          \* a descendant lives
    reader,         \* the reader threads
    cut,            \* the streams whose output was truncated
    late, stuck,    \* timed_out, stream_cleanup_failed
    profiles,       \* sandbox profiles in the temporary directory
    last,           \* the latest CommandResult
    operations,
    service         \* the long-running process, its registration and the threads that stop it

command == <<op, todo, at, fired, runPc, cmd, leader, code, child, reader, cut, late, stuck, profiles,
             last, operations>>
sandboxVars == <<scene, backend, hooks, command, service>>

-----------------------------------------------------------------------------
\* What is decided before a process is started

\* build_command: whether the command line is wrapped at all.  A caller that allows a host process
\* gets one, whatever the host offers.
Wrapped(c) == CommandOf[c].isolation = "required" /\ backend # "unisolated"
\* _macos_command writes a profile, which prepare hands on to be removed.
ProfileOf(c) == IF Wrapped(c) /\ backend = "sandbox-exec" THEN 1 ELSE 0
\* _bubblewrap_command: a process namespace of its own that dies with its first process.
Contained(c) == Wrapped(c) /\ backend = "bubblewrap"

\* _command_path_violation.
PathViolation(c) == CommandOf[c].mentions # "inside"
\* _filtered_env: a sensitive variable that was not allowed is a ValueError.
EnvRefused(c) == CommandOf[c].env = "sensitive"

\* prepare: a PermissionError blocks the command, a ValueError leaves run.
Prepared(c) ==
    CASE CommandOf[c].cwd # "inside" -> "blocked"
      [] PathViolation(c) -> "blocked"
      [] backend = "unisolated" /\ CommandOf[c].isolation = "required" -> "blocked"
      [] EnvRefused(c) -> "raised"
      [] OTHER -> "ready"

\* CommandResult of a command that was not run, or could not be started.
NotRun(kind) ==
    [kind |-> kind, success |-> FALSE, code |-> "none", timedOut |-> FALSE, stuck |-> FALSE,
     truncated |-> FALSE, enforced |-> FALSE]

-----------------------------------------------------------------------------
\* The processes and the readers

LeaderKind == IF Contained(cmd) THEN "plain" ELSE CommandOf[cmd].leader
ChildKind == CommandOf[cmd].child

\* Who has the write ends of the pipes.
Holders == (IF leader = "live" THEN {"leader"} ELSE {})
           \union (IF child /\ ChildKind # "quiet" THEN {"child"} ELSE {})

\* killpg(pid, SIGTERM): a graceful leader exits with 0.
LeaderAfterTerm == IF leader = "live" /\ LeaderKind # "stubborn" THEN "gone" ELSE leader
CodeAfterTerm ==
    IF leader = "live" /\ LeaderKind # "stubborn"
    THEN IF LeaderKind = "graceful" THEN "zero" ELSE "signal" ELSE code
ChildAfterTerm ==
    /\ child /\ ChildKind \in {"stubborn", "detached"}
    /\ ~(Contained(cmd) /\ LeaderAfterTerm = "gone")

Terminated ==
    /\ leader' = LeaderAfterTerm /\ code' = CodeAfterTerm /\ child' = ChildAfterTerm

LeaderExits(x) ==
    /\ leader = "live"
    /\ leader' = "gone" /\ code' = x
    /\ child' = (child /\ ~Contained(cmd))
    /\ UNCHANGED <<op, todo, at, fired, runPc, cmd, reader, cut, late, stuck, profiles, last, operations>>

\* A descendant ends by itself; a detached or a stubborn one may never do.
ChildEnds ==
    /\ child
    /\ child' = FALSE
    /\ UNCHANGED <<op, todo, at, fired, runPc, cmd, leader, code, reader, cut, late, stuck, profiles, last,
                   operations>>

\* read_stream at its limit: it stops the group, and reads on to the end without keeping anything.
Overflows(s) ==
    /\ reader[s] = "reading" /\ s \in CommandOf[cmd].floods /\ Holders # {}
    /\ reader' = [reader EXCEPT ![s] = "draining"] /\ cut' = cut \union {s}
    /\ Terminated
    /\ UNCHANGED <<op, todo, at, fired, runPc, cmd, late, stuck, profiles, last, operations>>

\* End of file: nobody can write any more.
ReaderEnds(s) ==
    /\ reader[s] \in {"reading", "draining"} /\ Holders = {}
    /\ reader' = [reader EXCEPT ![s] = "done"]
    /\ UNCHANGED <<op, todo, at, fired, runPc, cmd, leader, code, child, cut, late, stuck, profiles, last,
                   operations>>

-----------------------------------------------------------------------------
\* SandboxRunner.run

Reading == \E s \in Streams : reader[s] # "done"

\* process.wait returns.
WaitReturns ==
    /\ runPc \in {"waiting", "grace", "reaping"} /\ leader = "gone"
    /\ runPc' = "joining"
    /\ UNCHANGED <<op, todo, at, fired, cmd, leader, code, child, reader, cut, late, stuck, profiles,
                   last, operations>>

\* TimeoutExpired: SIGTERM, and after half a second SIGKILL and a wait without a limit.
TimesOut ==
    /\ runPc = "waiting" /\ leader = "live"
    /\ runPc' = "grace" /\ late' = TRUE
    /\ Terminated
    /\ UNCHANGED <<op, todo, at, fired, cmd, reader, cut, stuck, profiles, last, operations>>
GraceEnds ==
    /\ runPc = "grace" /\ leader = "live"
    /\ runPc' = "reaping"
    /\ leader' = "gone" /\ code' = "signal"
    /\ child' = (child /\ ChildKind = "detached" /\ ~Contained(cmd))
    /\ UNCHANGED <<op, todo, at, fired, cmd, reader, cut, late, stuck, profiles, last, operations>>

\* A reader is still alive when the grace of the joins has passed: the group is terminated.
ReadersStuck ==
    /\ runPc = "joining" /\ Reading
    /\ stuck' = TRUE /\ runPc' = "closing"
    /\ Terminated
    /\ UNCHANGED <<op, todo, at, fired, cmd, reader, cut, late, profiles, last, operations>>

SucceededWhateverReads == code = "zero" /\ ~late   \* Faulty variant: a stuck reader is no failure.
\* success of the result: an exit code of 0 that timed_out and stream_cleanup_failed do not spoil.
Succeeded == code = "zero" /\ ~late /\ ~stuck

Result ==
    [kind |-> "ran", success |-> Succeeded, code |-> IF late THEN "none" ELSE code,
     timedOut |-> late, stuck |-> stuck, truncated |-> cut # {},
     enforced |-> backend # "unisolated"]

\* What the caller does with a result r: a shell hook reports it, the operation goes on.
Answered(r) ==
    /\ last' = r /\ runPc' = "off"
    /\ IF Head(todo) = "own"
       THEN /\ todo' = Tail(todo) \o (IF r.success THEN <<>> ELSE <<"on_error">>)
            /\ UNCHANGED <<fired, at>>
       ELSE /\ fired' = Append(fired, [success |-> r.success, blocked |-> FALSE,
                                       policy |-> hooks[at].policy])
            /\ at' = at + 1
            /\ UNCHANGED todo

\* The streams are closed.  Closing one that a thread is reading waits for that read to return, so
\* that both readers have ended before the last test for a living reader, which then never holds.
\* `finally` removes the profile.
Returns ==
    /\ runPc \in {"joining", "closing"} /\ ~Reading
    /\ profiles' = 0
    /\ Answered(Result)
    /\ UNCHANGED <<op, cmd, leader, code, child, reader, cut, late, stuck, operations>>

\* run, up to the start of the process.  Popen may fail with an OSError.
StartCommand(c) ==
    /\ runPc = "off"
    /\ \/ /\ Prepared(c) # "ready"
          /\ Answered(NotRun(Prepared(c)))
          /\ UNCHANGED <<cmd, leader, code, child, reader, cut, late, stuck, profiles>>
       \/ /\ Prepared(c) = "ready"
          /\ Answered([NotRun("error") EXCEPT !.enforced = backend # "unisolated"])
          /\ UNCHANGED <<cmd, leader, code, child, reader, cut, late, stuck, profiles>>
       \/ /\ Prepared(c) = "ready"
          /\ runPc' = "waiting" /\ cmd' = c
          /\ leader' = "live" /\ code' = "none" /\ child' = (CommandOf[c].child # "none")
          /\ reader' = [s \in Streams |-> "reading"] /\ cut' = {}
          /\ late' = FALSE /\ stuck' = FALSE /\ profiles' = ProfileOf(c)
          /\ UNCHANGED <<todo, at, fired, last>>
    /\ UNCHANGED <<op, operations>>

-----------------------------------------------------------------------------
\* The operation, and the hooks before and after it

\* HookRunner.register sorts by priority, the highest first.
InOrder(l) == \A i, j \in DOMAIN l : i < j => l[i].priority >= l[j].priority

\* _execute_impl of the tool executor: hooks, the command itself, hooks.
BeginOperation(o) ==
    /\ todo = <<>> /\ operations < MaxOperations
    /\ operations' = operations + 1
    /\ op' = o /\ todo' = <<o.before, "own", o.after>> /\ at' = 1 /\ fired' = <<>>
    /\ UNCHANGED <<runPc, cmd, leader, code, child, reader, cut, late, stuck, profiles, last>>

ShouldFire(h) == h.enabled /\ Head(todo) \in h.events
Firing == todo # <<>> /\ Head(todo) # "own" /\ runPc = "off"

\* fire, one hook: a hook of type BLOCK stops the firing, one of type SHELL runs its command when it
\* names one, in a list and inside the workspace.
Hooked(h, success, blocked) ==
    /\ fired' = Append(fired, [success |-> success, blocked |-> blocked, policy |-> h.policy])
    /\ at' = IF blocked THEN Len(hooks) + 1 ELSE at + 1
FireHook ==
    /\ Firing /\ at <= Len(hooks)
    /\ LET h == hooks[at] IN
       \/ /\ ~ShouldFire(h)
          /\ at' = at + 1
          /\ UNCHANGED <<op, todo, fired, runPc, cmd, leader, code, child, reader, cut, late, stuck,
                         profiles, last, operations>>
       \/ /\ ShouldFire(h) /\ (h.kind # "shell" \/ h.command \in {"none", "string", "stray"})
          /\ Hooked(h, h.kind # "shell" \/ h.command = "none", h.kind = "block")
          /\ UNCHANGED <<op, todo, runPc, cmd, leader, code, child, reader, cut, late, stuck, profiles,
                         last, operations>>
       \/ ShouldFire(h) /\ h.kind = "shell" /\ h.command \in Commands /\ StartCommand(h.command)

\* The operation stops when a hook has blocked it; the results of the later events are not read.
Blocked == \E i \in DOMAIN fired : fired[i].blocked
EndFire ==
    /\ Firing /\ at > Len(hooks)
    /\ todo' = IF Len(todo) > 1 /\ todo[2] = "own" /\ Blocked THEN <<>> ELSE Tail(todo)
    /\ at' = 1 /\ fired' = <<>>
    /\ UNCHANGED <<op, runPc, cmd, leader, code, child, reader, cut, late, stuck, profiles, last,
                   operations>>

OwnCommand == todo # <<>> /\ Head(todo) = "own" /\ StartCommand(op.command)

Rest == scene = "commands" /\ UNCHANGED <<scene, backend, hooks, service>>
CallerStep ==
    /\ Rest
    /\ \/ FireHook \/ EndFire \/ OwnCommand
       \/ WaitReturns \/ TimesOut \/ GraceEnds \/ ReadersStuck \/ Returns
ReaderStep(s) == Rest /\ ReaderEnds(s)

CommandNext ==
    \/ CallerStep
    \/ \E s \in Streams : ReaderStep(s)
    \/ /\ Rest
       /\ \/ \E s \in Streams : Overflows(s)
          \/ \E o \in Operations : BeginOperation(o)
          \/ \E x \in {"zero", "nonzero"} : LeaderExits(x)
          \/ ChildEnds

-----------------------------------------------------------------------------
\* A long-running process (ManagedProcess), and what stops it

NoService ==
    [process |-> "none", kind |-> "plain", made |-> FALSE, registered |-> FALSE,
     finalized |-> FALSE, profile |-> FALSE, lock |-> "free", at |-> [t \in Threads |-> "idle"],
     exit |-> "no", taken |-> FALSE, failed |-> FALSE]

Free(t) == service.lock \in {"free", t}
Dead == service.process = "dead"
\* SIGTERM and SIGKILL to the group; a process in an uninterruptible call outlives even that.
AfterTerm == IF service.kind = "plain" THEN "dead" ELSE service.process
AfterKill == IF service.kind = "unkillable" THEN service.process ELSE "dead"

\* popen, in two steps: the process runs before the constructor registers it.
Popen ==
    /\ service.process = "none"
    /\ \E k \in {"plain", "stubborn", "unkillable"} :
           service' = [service EXCEPT !.process = "live", !.kind = k,
                                      !.profile = backend = "sandbox-exec"]
Registers ==
    /\ service.process # "none" /\ ~service.made
    /\ service' = [service EXCEPT !.made = TRUE, !.registered = TRUE]
ServiceDies ==
    /\ service.process = "live"
    /\ service' = [service EXCEPT !.process = "dead"]

\* _finalize_if_reaped, for a thread that then goes on at `next`; under the lock.
Finalized(s, t, next) ==
    [s EXCEPT !.finalized = TRUE, !.profile = FALSE, !.registered = FALSE, !.lock = "free",
              !.at[t] = next]
FinalizedIfDead(s, t) ==
    IF s.process = "dead" THEN Finalized(s, t, "idle")
    ELSE [s EXCEPT !.lock = "free", !.at[t] = "idle"]

\* terminate holds the lock from its first step to its last.
Terminate(t) ==
    /\ service.made /\ service.at[t] = "idle" /\ Free(t)
    /\ service' = IF Dead THEN Finalized(service, t, "idle")
                  ELSE [service EXCEPT !.lock = t, !.at[t] = "terminating", !.process = AfterTerm]
TerminateKills(t) ==
    /\ service.at[t] = "terminating"
    /\ service' = IF Dead THEN Finalized(service, t, "idle")
                  ELSE [service EXCEPT !.at[t] = "killing", !.process = AfterKill]
TerminateEnds(t) ==
    /\ service.at[t] = "killing"
    /\ service' = FinalizedIfDead(service, t)

\* kill holds it for its first and its last step only.
KillService(t) ==
    /\ service.made /\ service.at[t] = "idle" /\ Free(t)
    /\ service' = IF Dead THEN Finalized(service, t, "idle")
                  ELSE [service EXCEPT !.at[t] = "killed", !.process = AfterKill]
KillEnds(t) ==
    /\ service.at[t] = "killed" /\ (Dead => Free(t))
    /\ service' = IF Dead THEN Finalized(service, t, "idle")
                  ELSE [service EXCEPT !.at[t] = "idle"]

\* ProcessStateRegistry.cleanup at the end of the program: it takes every registered process, and
\* terminates and kills what still lives, a second for each.
ExitTakes ==
    /\ service.exit = "no"
    /\ service' = [service EXCEPT !.exit = "taken", !.taken = service.registered,
                                  !.registered = FALSE]
ExitTerminates ==
    /\ service.exit = "taken"
    /\ service' = [service EXCEPT
           !.exit = IF ~service.taken \/ Dead THEN "done" ELSE "termed",
           !.process = IF service.taken /\ ~Dead THEN AfterTerm ELSE service.process]
ExitKills ==
    /\ service.exit = "termed"
    /\ service' = [service EXCEPT !.exit = "done", !.process = IF Dead THEN "dead" ELSE AfterKill,
                                  !.failed = ~Dead /\ service.kind = "unkillable"]

ServiceNext ==
    /\ scene = "services"
    /\ \/ Popen \/ Registers \/ ServiceDies
       \/ \E t \in Threads :
              \/ Terminate(t) \/ TerminateKills(t) \/ TerminateEnds(t)
              \/ KillService(t) \/ KillEnds(t)
       \/ ExitTakes \/ ExitTerminates \/ ExitKills
    /\ UNCHANGED <<scene, backend, hooks, command>>

-----------------------------------------------------------------------------
SandboxInit ==
    /\ scene \in Scenes /\ backend \in Backends
    /\ hooks \in {l \in HookLists : InOrder(l)}
    /\ op = (CHOOSE o \in Operations : TRUE) /\ todo = <<>> /\ at = 1 /\ fired = <<>>
    /\ runPc = "off" /\ cmd = (CHOOSE c \in Commands : TRUE)
    /\ leader = "none" /\ code = "none" /\ child = FALSE
    /\ reader = [s \in Streams |-> "done"] /\ cut = {} /\ late = FALSE /\ stuck = FALSE
    /\ profiles = 0 /\ last = NotRun("none") /\ operations = 0
    /\ service = NoService

SandboxNext == CommandNext \/ ServiceNext

SandboxSpec == SandboxInit /\ [][SandboxNext]_sandboxVars

\* Fairness: the calling thread, the readers and the hooks go on.  Nothing is assumed of the
\* command itself and of its descendants.
SandboxFairSpec == SandboxSpec /\ WF_sandboxVars(CallerStep) /\ \A s \in Streams : WF_sandboxVars(ReaderStep(s))

-----------------------------------------------------------------------------
\* The shape of the state.
SandboxTypeOK ==
    /\ scene \in Scenes /\ backend \in Backends /\ op \in Operations /\ Len(todo) <= 3
    /\ at \in 1..(Len(hooks) + 1) /\ Len(fired) <= Len(hooks)
    /\ runPc \in {"off", "waiting", "grace", "reaping", "joining", "closing"} /\ cmd \in Commands
    /\ leader \in {"none", "live", "gone"} /\ code \in {"none", "zero", "nonzero", "signal"}
    /\ child \in BOOLEAN /\ reader \in [Streams -> {"reading", "draining", "done"}]
    /\ cut \subseteq Streams /\ late \in BOOLEAN /\ stuck \in BOOLEAN /\ profiles \in 0..1
    /\ operations \in 0..MaxOperations
    /\ service.process \in {"none", "live", "dead"} /\ service.lock \in Threads \union {"free"}

\* A command that is said to have succeeded has ended with 0 in its time, and nobody was left who
\* could write into the output that is reported (success in SandboxRunner.run).
SuccessIsEarned ==
    runPc = "off" /\ last.success =>
        /\ last.kind = "ran" /\ ~last.timedOut
        /\ leader = "gone" /\ code = "zero" /\ ~Reading /\ ~stuck

\* When run has returned, however it did, its process has been waited for, its readers have ended
\* and its sandbox profile is gone.
NothingLeft == runPc = "off" => leader # "live" /\ ~Reading /\ profiles = 0

\* A command that requires isolation never starts without it.
IsolationKept ==
    runPc # "off" /\ CommandOf[cmd].isolation = "required" =>
        /\ backend # "unisolated" /\ (backend = "sandbox-exec" => profiles = 1)

\* A managed process stays registered as long as it lives, whichever threads stop it, until the
\* end of the program takes it over; and that end leaves none alive that it took and could kill.
ServicesFollowed ==
    /\ service.made /\ service.process = "live" => service.registered \/ service.exit # "no"
    /\ service.finalized => Dead /\ ~service.profile
    /\ service.exit = "done" /\ service.taken /\ ~service.failed => Dead

\* The command of an operation does not start when a hook of type BLOCK waits for the event before
\* it, whatever the hooks around that one report (tool_executor.py:1570).
BlockedStaysOut ==
    todo # <<>> /\ Head(todo) = "own" =>
        ~ \E i \in DOMAIN hooks :
              hooks[i].kind = "block" /\ hooks[i].enabled /\ op.before \in hooks[i].events

\* Success is earned, a command that has returned leaves no process and no profile behind, isolation
\* that is required is there, a blocking hook blocks, a service stays registered.
CommandsContained ==
    SuccessIsEarned /\ NothingLeft /\ IsolationKept /\ BlockedStaysOut /\ ServicesFollowed

\* run returns: neither a command that does not end nor a descendant that keeps the pipes holds up
\* the program (the comment at sandbox.py:348).
CommandReturns == (runPc = "waiting") ~> (runPc = "off")
=============================================================================
