------------------------------ MODULE CliSession ------------------------------
(***************************************************************************)
(* One noryx process (nexus/cli/cli_impl.py) from its arguments to its     *)
(* exit code: the decisions before an agent exists, the agent's life       *)
(* (construction, conversations, turns, close), the commands of the        *)
(* interactive session, and "noryx rollback", which another process may    *)
(* run at any time on the history that the agent also keeps in memory.     *)
(* A change is the number of the run that made it, 0 for a command of the  *)
(* user; what the files hold is UndoHistory's, what the workspace holds    *)
(* IsolatedWorkspace's.                                                    *)
(***************************************************************************)
EXTENDS Naturals, Sequences, FiniteSets

CONSTANTS
    Invocations,    \* the argument vectors that are tried
    Outcomes,       \* the statuses of a turn's report that are tried
    Earlier,        \* those of the run that is there from before
    MaxRuns,        \* bound: turns of the process
    MaxTouches      \* bound: changes recorded in one conversation

Entries == {"doctor", "info", "direct", "resume_run", "prompt", "print", "repl", "web"}
Asking == {"auto", "review", "quality"}
Modes == Asking \union {"plan", "workspace", "autonomous", "local-only", "budget", "ci"}
Permissions == {"default", "acceptEdits", "plan"}
Failing == {"FAILED", "PARTIALLY_VERIFIED", "UNVERIFIED", "BLOCKED"}
WaitingStatuses == {"AWAITING_APPROVAL", "AWAITING_CONFIRMATION"}
Final == Failing \union WaitingStatuses \union {"VERIFIED", "ROLLED_BACK"}

\* What parse_args makes of a command line.
Arguments ==
    [entry : Entries, mode : Modes, permission : Permissions,
     load : {"none", "continue", "resume"}, keep : BOOLEAN,
     isolate : {"default", "on", "off"}, git : BOOLEAN]

ASSUME CliAssumption ==
    /\ Invocations \subseteq Arguments
    /\ Outcomes \union Earlier \subseteq Final
    /\ {MaxRuns, MaxTouches} \subseteq Nat

VARIABLES
    cliArgs,        \* the parsed arguments
    cliAt,          \* where the process is
    exitCode,       \* its exit code, "none" before
    conv,           \* the conversation: the process's own, or an earlier one
    saved,          \* the conversations that have a file
    sessionRuns,    \* the turns of each conversation on disk
    hist, mem,      \* changes.json of each conversation; the agent's copy of its own
    start,          \* _run_history_start
    heldOperation,  \* an operation that waits for the user
    jobs,           \* owners of running background processes
    tree,           \* the isolated workspace: "none", "open", "removed"
    rolled,         \* bookkeeping: the runs rolled back so ...
    repeated        \* ... and the conversations of those that were so again

agentVars == <<conv, saved, sessionRuns, hist, mem, start, heldOperation, jobs, tree>>
cliVars == <<cliArgs, cliAt, exitCode, agentVars, rolled, repeated>>

Conversations == {"own", "earlier"}

CliInit ==
    /\ cliArgs \in Invocations
    /\ cliAt = "argv" /\ exitCode = "none" /\ conv = "own"
    /\ saved = {"earlier"}
    /\ \E s \in Earlier :
           sessionRuns = [c \in Conversations |->
               IF c = "own" THEN <<>> ELSE <<[status |-> s, first |-> 0, last |-> 1]>>]
    /\ hist = [c \in Conversations |-> IF c = "earlier" THEN <<1>> ELSE <<>>]
    /\ mem = <<>> /\ start = 0 /\ heldOperation = FALSE /\ jobs = {} /\ tree = "none"
    /\ rolled = {} /\ repeated = {}

Exit(c) == cliAt' = "exited" /\ exitCode' = c

-----------------------------------------------------------------------------
(* Before there is an agent. *)

\* main: the mode decides the permission that was not given, and "ci" prints.
PermissionOf(a) ==
    IF a.permission # "default" THEN a.permission
    ELSE CASE a.mode = "plan" -> "plan"
           [] a.mode \in Asking -> "default"
           [] OTHER -> "acceptEdits"
EntryOf(a) == IF a.mode = "ci" /\ a.entry \in {"prompt", "repl"} THEN "print" ELSE a.entry

\* An unknown command, arguments that do not parse, a run that is not there, a directory that
\* does not exist, a host that is not qualified for "autonomous".
Rejected == \E c \in {"1", "2"} : cliAt = "argv" /\ Exit(c) /\ UNCHANGED <<cliArgs, agentVars>>

\* The doctor reports and ends before anything else is looked at.
Doctor ==
    /\ cliAt = "argv" /\ cliArgs.entry = "doctor"
    /\ \E ready \in BOOLEAN : Exit(IF ready THEN "0" ELSE "2")
    /\ UNCHANGED <<cliArgs, agentVars>>

Options ==
    /\ cliAt = "argv" /\ cliArgs.entry # "doctor"
    /\ cliArgs' = [cliArgs EXCEPT !.permission = PermissionOf(cliArgs), !.entry = EntryOf(cliArgs)]
    /\ cliAt' = "options"
    /\ UNCHANGED <<exitCode, agentVars>>

\* noryx models, model, budget, cost; --list-models.
Info ==
    /\ cliAt = "options" /\ cliArgs.entry = "info"
    /\ \E found \in BOOLEAN : Exit(IF found THEN "0" ELSE "1")
    /\ UNCHANGED <<cliArgs, agentVars>>

\* "!command" gets an agent of its own, without a workspace and with the policy of plan mode. A
\* command that has to be confirmed fails.
Direct ==
    /\ cliAt = "options" /\ cliArgs.entry = "direct"
    /\ \E result \in {"success", "failure", "pending", "unparsable"} :
           Exit(IF result = "success" THEN "0" ELSE "2")
    /\ UNCHANGED <<cliArgs, agentVars>>

\* An unknown model and a missing key end with 1, a provider that is not ready with 2.
Preflight ==
    /\ cliAt = "options" /\ cliArgs.entry \notin {"doctor", "info", "direct"}
    /\ \/ cliAt' = "checked" /\ UNCHANGED exitCode
       \/ \E c \in {"1", "2"} : Exit(c)
    /\ UNCHANGED <<cliArgs, agentVars>>

\* The web server runs until it is stopped; its agents belong to its connections.
Web ==
    /\ cliAt = "checked" /\ cliArgs.entry = "web"
    /\ \E c \in {"0", "1"} : Exit(c)
    /\ UNCHANGED <<cliArgs, agentVars>>

-----------------------------------------------------------------------------
(* The agent. *)

\* get_mode_policy.
MayEdit == cliArgs.mode \notin {"plan", "auto"}

Isolated ==
    /\ cliArgs.isolate # "off"
    /\ \/ cliArgs.isolate = "on"
       \/ MayEdit /\ cliArgs.entry # "resume_run" /\ cliArgs.git

\* Agent.__init__: model, budget and provider are checked before the workspace is made, but the
\* policies, the ledger and the extensions are read after it; a ValueError ends the process.
MakeAgent ==
    /\ cliAt = "checked" /\ cliArgs.entry # "web"
    /\ \/ cliAt' = "agent" /\ UNCHANGED exitCode
          /\ tree' = IF Isolated THEN "open" ELSE "none"
       \/ Exit("1") /\ UNCHANGED tree
       \/ Exit("1") /\ tree' = IF Isolated THEN "open" ELSE "none"
    /\ UNCHANGED <<cliArgs, conv, saved, sessionRuns, hist, mem, start, heldOperation, jobs>>

\* Agent.close: what belongs to the conversation it ends with, and the workspace unless kept.
Closing ==
    /\ jobs' = jobs \ {conv}
    /\ tree' = IF tree = "open" /\ ~cliArgs.keep THEN "removed" ELSE tree

CloseAndExit(c) ==
    /\ Exit(c) /\ Closing
    /\ UNCHANGED <<cliArgs, conv, saved, sessionRuns, hist, mem, start, heldOperation>>

\* load_conversation: history, evidence and ledger become the other conversation's; what
\* waits for the user, the workspace and the processes stay.
Loading(c) ==
    /\ conv' = c /\ mem' = hist[c]
    /\ start' = IF sessionRuns[c] = <<>> THEN 0 ELSE sessionRuns[c][Len(sessionRuns[c])].first
    /\ UNCHANGED <<saved, sessionRuns, hist, heldOperation, jobs, tree>>

\* --continue looks for a conversation of the working directory, which is a new one for every
\* isolated session; --resume for one by its id.
LoadConversation ==
    /\ cliAt = "agent"
    /\ \/ /\ cliArgs.load = "none" \/ cliArgs.entry = "resume_run"
          /\ cliAt' = "loaded" /\ UNCHANGED <<exitCode, cliArgs, agentVars>>
       \/ /\ cliArgs.load = "resume" \/ (cliArgs.load = "continue" /\ tree = "none")
          /\ Loading("earlier") /\ cliAt' = "loaded" /\ UNCHANGED <<exitCode, cliArgs>>
       \/ cliArgs.load # "none" /\ CloseAndExit("1")

\* resume_interrupted takes over the session of the run, after its checks.
ResumeRun ==
    /\ cliAt = "loaded" /\ cliArgs.entry = "resume_run"
    /\ \/ CloseAndExit("2")
       \/ /\ sessionRuns["earlier"][Len(sessionRuns["earlier"])].status
                  \notin {"VERIFIED", "ROLLED_BACK", "FAILED"}
          /\ Loading("earlier") /\ cliAt' = "asking" /\ UNCHANGED <<exitCode, cliArgs>>

Prompt ==
    /\ cliAt = "loaded" /\ cliArgs.entry \in {"prompt", "print"}
    /\ cliAt' = "asking" /\ UNCHANGED <<exitCode, cliArgs, agentVars>>

Repl ==
    /\ cliAt = "loaded" /\ cliArgs.entry = "repl"
    /\ cliAt' = "repl" /\ UNCHANGED <<exitCode, cliArgs, agentVars>>

-----------------------------------------------------------------------------
(* A turn: HostedTurn, PlanExecution and VerifiedTurn say what happens in it.*)

Latest == Len(sessionRuns[conv])
OneShot == cliArgs.entry # "repl"

BeginRun ==
    /\ cliAt \in {"asking", "repl"}
    /\ Len(sessionRuns["own"]) + Len(sessionRuns["earlier"]) <= MaxRuns
    /\ cliAt' = "turn"
    /\ start' = Len(mem)
    /\ sessionRuns' = [sessionRuns EXCEPT ![conv] =
                 Append(@, [status |-> "RUNNING", first |-> Len(mem), last |-> Len(mem)])]
    /\ UNCHANGED <<cliArgs, exitCode, conv, saved, hist, mem, heldOperation, jobs, tree>>

\* FileHistory.record adds to the list in memory and writes all of it.
Recorded(n) ==
    /\ Len(mem) < MaxTouches
    /\ mem' = Append(mem, n)
    /\ hist' = [hist EXCEPT ![conv] = mem']

Edit ==
    /\ cliAt = "turn" /\ MayEdit
    /\ Recorded(Latest)
    /\ UNCHANGED <<cliArgs, cliAt, exitCode, conv, saved, sessionRuns, start, heldOperation, jobs,
           tree>>

StartJob ==
    /\ cliAt = "turn" /\ jobs' = jobs \union {conv}
    /\ UNCHANGED <<cliArgs, cliAt, exitCode, conv, saved, sessionRuns, hist, mem, start,
           heldOperation, tree>>

\* The report of the latest run, as its file holds it: its status, and where its changes end.
RunReported(status, end) ==
    sessionRuns' = [sessionRuns EXCEPT ![conv][Latest] = [@ EXCEPT !.status = status, !.last = end]]

\* finish: the conversation is saved, too (a turn leaves two messages at least).
RunFinished(status) ==
    /\ RunReported(status, Len(mem))
    /\ saved' = saved \union {conv}

EndTurn(status) ==
    /\ cliAt = "turn"
    /\ RunFinished(status)
    /\ heldOperation' = (heldOperation \/ status \in WaitingStatuses)
    /\ cliAt' = IF OneShot THEN "judging" ELSE "repl"
    /\ UNCHANGED <<cliArgs, exitCode, conv, hist, mem, start, jobs, tree>>

\* Ctrl-C, or an exception out of the pipeline: the session goes on at its prompt, except for
\* exceptions, which close it; a single prompt ends there and then.
Interrupt ==
    /\ cliAt \in {"turn", "judging"}
    /\ IF OneShot THEN Exit("1") /\ UNCHANGED agentVars
       ELSE \/ cliAt' = "repl" /\ UNCHANGED <<exitCode, agentVars>>
            \/ Exit("1") /\ Closing
               /\ UNCHANGED <<conv, saved, sessionRuns, hist, mem, start, heldOperation>>
    /\ UNCHANGED cliArgs

\* The code of a printed prompt: the report's status, or else whether a tool failed; an operation
\* that waits for a confirmation is a tool that failed.
Codes(status, toolFailed) ==
    CASE status \in Failing -> {"2"}
      [] status = "AWAITING_APPROVAL" -> {"3"}
      [] status = "VERIFIED" -> {"0"}
      [] OTHER -> IF toolFailed THEN {"2"} ELSE {"0"}

\* The code of a prompt with output for a reader.
ReaderCodes(status) ==
    CASE status = "VERIFIED" -> {"0"}
      [] status = "AWAITING_APPROVAL" -> {"3"}
      [] OTHER -> {"2"}

Judge ==
    /\ cliAt = "judging"
    /\ \E c \in LET status == sessionRuns[conv][Latest].status
                IN IF cliArgs.entry = "prompt" THEN ReaderCodes(status)
                                            ELSE Codes(status, status = "AWAITING_CONFIRMATION") :
           CloseAndExit(c)

-----------------------------------------------------------------------------
(* The commands of the interactive session. *)

\* /confirm, /apply carry out what waits (and may record a change), /cancel, /reject drop it; the
\* report of the latest run is made again, and the model goes on.
Answer(applies) ==
    /\ cliAt = "repl" /\ heldOperation /\ heldOperation' = FALSE
    /\ IF applies THEN Recorded(Latest) ELSE UNCHANGED <<mem, hist>>
    /\ IF Latest = 0 THEN UNCHANGED <<sessionRuns, saved>>
       ELSE \E status \in Outcomes \ WaitingStatuses :
              /\ RunReported(status, Len(mem'))
              /\ saved' = saved \union {conv}
    /\ UNCHANGED <<cliArgs, cliAt, exitCode, conv, start, jobs, tree>>

\* !command and /run: what a command of the user changes is recorded like a change of the run; a
\* dangerous one waits for /confirm.
UserCommand ==
    /\ cliAt = "repl"
    /\ \/ Recorded(0) /\ UNCHANGED heldOperation
       \/ heldOperation' = TRUE /\ UNCHANGED <<mem, hist>>
    /\ UNCHANGED <<cliArgs, cliAt, exitCode, conv, saved, sessionRuns, start, jobs, tree>>

\* /resume.
Switch(c) ==
    /\ cliAt = "repl" /\ conv # c /\ c \in saved
    /\ Loading(c)
    /\ UNCHANGED <<cliArgs, cliAt, exitCode>>

\* /rollback-run undoes whatever was recorded since the latest run began.
RollBackRun ==
    /\ cliAt = "repl" /\ Len(mem) > start /\ Latest > 0
    /\ mem' = SubSeq(mem, 1, start)
    /\ hist' = [hist EXCEPT ![conv] = mem']
    /\ RunReported("ROLLED_BACK", start)
    /\ UNCHANGED <<cliArgs, cliAt, exitCode, conv, saved, start, heldOperation, jobs, tree>>

\* /exit, end of input.
Quit == cliAt = "repl" /\ CloseAndExit("0")

-----------------------------------------------------------------------------
(* noryx rollback, from another process. *)

\* Faulty variant: newer changes do not matter.
MayRollBackOlder(c, n) ==
    /\ sessionRuns[c][n].status # "RUNNING"
    /\ sessionRuns[c][n].first < sessionRuns[c][n].last /\ sessionRuns[c][n].last <= Len(hist[c])

\* RollbackManager: a report with a range that is not empty and ends where the history ends.
MayRollBack(c, n) ==
    /\ sessionRuns[c][n].status # "RUNNING"
    /\ sessionRuns[c][n].first < sessionRuns[c][n].last
    /\ sessionRuns[c][n].last = Len(hist[c])

\* undo_changes takes the run's number of changes from the end of the list, whatever the agent
\* keeps in memory; the ledger is not told.
RollbackOutside(c, n) ==
    /\ MayRollBack(c, n)
    /\ hist' = [hist EXCEPT ![c] =
                   SubSeq(@, 1, Len(@) - (sessionRuns[c][n].last - sessionRuns[c][n].first))]
    /\ rolled' = rolled \union {<<c, n>>}
    /\ repeated' = IF <<c, n>> \in rolled THEN repeated \union {c} ELSE repeated
    /\ UNCHANGED <<cliArgs, cliAt, exitCode, conv, saved, sessionRuns, mem, start, heldOperation,
           jobs, tree>>

-----------------------------------------------------------------------------
CliProcess ==
    \/ Rejected \/ Doctor \/ Options \/ Info \/ Direct \/ Preflight \/ Web
    \/ MakeAgent \/ LoadConversation \/ ResumeRun \/ Prompt \/ Repl
    \/ BeginRun \/ StartJob \/ Interrupt \/ Judge
    \/ Edit \/ UserCommand
    \/ \E status \in Outcomes : EndTurn(status)
    \/ \E applies \in BOOLEAN : Answer(applies)
    \/ \E c \in Conversations : Switch(c)
    \/ RollBackRun \/ Quit

CliNext ==
    \/ CliProcess /\ UNCHANGED <<rolled, repeated>>
    \/ \E c \in Conversations : \E n \in DOMAIN sessionRuns[c] : RollbackOutside(c, n)

CliSpec == CliInit /\ [][CliNext]_cliVars

-----------------------------------------------------------------------------
\* The shape of the state (RunCatalog, ConversationMemory and Agent).
CliTypeOK ==
    /\ cliArgs \in Arguments
    /\ exitCode \in {"none", "0", "1", "2", "3"} /\ (exitCode # "none" <=> cliAt = "exited")
    /\ conv \in Conversations /\ jobs \subseteq Conversations /\ heldOperation \in BOOLEAN
    /\ tree \in {"none", "open", "removed"}
    /\ start \in 0..MaxTouches /\ mem \in Seq(Nat) /\ hist[conv] \in Seq(Nat)

\* A single prompt that ends with 0 has left nothing that failed, that is unverified or that waits
\* for the user (cli_impl.py:3427 and 3463: the code is made of the report, and of the tools'
\* results where the report's status has no code of its own).
ZeroMeansDone ==
    cliAt = "exited" /\ exitCode = "0" /\ cliArgs.entry \in {"prompt", "print", "resume_run"} =>
        sessionRuns[conv][Latest].status \notin Failing \union WaitingStatuses /\ ~heldOperation

\* A session that ends leaves no process of its conversation running; only a single prompt that
\* was interrupted is not closed (core.py:1512, cli_impl.py:2571).
JobsReleased == cliAt = "exited" /\ conv \in jobs => OneShot /\ exitCode = "1"

\* noryx rollback undoes changes of the run it was asked for, and commands of the user that a
\* later report counts to that run, unless it was asked for a run of that conversation twice: it
\* keeps no mark of what it has rolled back, so that the second time takes another run's changes,
\* and the numbers of later runs no longer fit the history (recovery/rollback.py:84).
TakesItsOwn ==
    \A c \in Conversations \ repeated' : \A n \in DOMAIN sessionRuns[c] :
        <<c, n>> \in rolled' \ rolled =>
            \A i \in Len(hist'[c]) + 1..Len(hist[c]) : hist[c][i] \in {0, n}

\* A code of 0 means done, a session that ends leaves no process of its own, and noryx rollback
\* undoes the changes of the run it was asked for.
SessionEndsClean == [](ZeroMeansDone /\ JobsReleased) /\ [][TakesItsOwn]_cliVars
=============================================================================
