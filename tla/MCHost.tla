------------------------------- MODULE MCHost -------------------------------
(* What serves the agent, in one run: the model budget, the failover between providers, the
   MCP and plugin servers, the extension platform, the background jobs, the session around
   them, the web server's sessions, the JSONL logs and the records of the teams share nothing with each other, so each behaviour follows one of them. *)
EXTENDS ModelBudget, JsonlLog, WebSessions, Governance, ToolServer, ExtensionPlatform, SandboxedCommand, CliSession

SomeRequests == {2, 9}
SomeSizes == {0, 3, 8}
TwoActors == {"c1", "c2"}
TwoExtensions == {"e1", "e2"}
TwoMembers == {"i1", "i2"}
AllTears == {"none", "partial", "char", "body", "full"}
PartialTears == {"partial"}
TwoSessions == {"s1", "s2"}
OneSocket == {"w1"}

\* A review session of each kind, one that goes on from an earlier conversation, and one that only plans.
Run(entry, mode, load, keep, isolate) ==
    [entry |-> entry, mode |-> mode, permission |-> "default", load |-> load, keep |-> keep,
     isolate |-> isolate, git |-> TRUE]
SomeInvocations ==
    {Run(e, "review", "none", FALSE, "default") :
        e \in {"doctor", "info", "direct", "resume_run", "prompt", "print", "repl", "web"}}
    \union {Run("repl", "ci", "resume", TRUE, "off"), Run("prompt", "plan", "continue", FALSE, "on")}
\* A build whose compiler stays behind, a tool for hooks, host commands that ignore SIGTERM or leave
\* such a process, and commands that the checks refuse.
Asks(isolation, cwd, mentions, env, group, left, floods) ==
    [isolation |-> isolation, network |-> FALSE, cwd |-> cwd, mentions |-> mentions, env |-> env,
     leader |-> group, child |-> left, floods |-> floods]
SandboxCommand ==
    [build |-> Asks("required", "inside", "inside", "plain", "graceful", "holding", {"out"}),
     tool |-> Asks("required", "inside", "inside", "granted", "stubborn", "quiet", {}),
     host |-> Asks("trusted_host", "inside", "inside", "plain", "stubborn", "holding", {"err"}),
     daemon |-> Asks("optional", "inside", "inside", "plain", "plain", "stubborn", {}),
     stray |-> Asks("required", "outside", "inside", "plain", "plain", "none", {}),
     home |-> Asks("optional", "inside", "outside", "plain", "plain", "none", {}),
     secret |-> Asks("optional", "inside", "inside", "sensitive", "plain", "none", {})]
SandboxCommands == DOMAIN SandboxCommand
AllBackends == {"bubblewrap", "sandbox-exec", "unisolated"}
AllScenes == {"commands", "services"}
TwoThreads == {"t1", "t2"}
SandboxOperations ==
    {[before |-> "before", after |-> "after", command |-> c] : c \in {"build", "host", "daemon", "stray", "home"}}
\* No hooks; a check before and one after; a hook that blocks between others.
Hook(kind, priority, events, program, policy) ==
    [kind |-> kind, enabled |-> TRUE, priority |-> priority, events |-> events, command |-> program,
     policy |-> policy]
SandboxHooks ==
    {<<>>,
     <<Hook("shell", 80, {"before"}, "tool", "block"), Hook("notify", 50, {"on_error"}, "none", "warn"),
       Hook("shell", 30, {"after"}, "none", "warn")>>,
     <<Hook("shell", 95, {"before"}, "secret", "warn"), Hook("block", 90, {"before"}, "none", "block"),
       Hook("shell", 30, {"before"}, "string", "warn")>>}
\* Command lines that meet: a member who asks and one who decides, a policy and its use, a secret,
\* a budget that two charges exceed, and a project.
TeamCommands ==
    {[kind |-> "members", id |-> "i2", roles |-> {"org_admin"}],
     [kind |-> "activate", rules |-> {"allow", "deny"}], [kind |-> "evaluate"],
     [kind |-> "request", id |-> "i2"], 
     [kind |-> "decide", id |-> "i2", request |-> 1, decision |-> "approved"], [kind |-> "request", id |-> "i1"], 
     [kind |-> "put", project |-> "p"], [kind |-> "get", id |-> "i2", project |-> "p"],
     [kind |-> "limit", limit |-> 3, threshold |-> 0], [kind |-> "charge", amount |-> 2],
     [kind |-> "create"], [kind |-> "transition", state |-> "running"]}

VARIABLES
    which,     \* the part that runs in this behaviour
    \* Failover
    strict, providerPc, providerTodo, errors, unreachable, resting, keyIdx, poolIdx, attempts,
    http, tried, providerServed, outcome,
    \* BackgroundJobs
    job, record, watcher, stopper, stubborn, overdue, stranger, hit, met

Provider == INSTANCE Failover WITH KeyCount <- 4, GroqRoutes <- 2, HasCustom <- TRUE,
    HasOpenRouter <- TRUE, Fallbacks <- 1, MaxPhysical <- 3, SdkRetries <- 1,
    AttemptLimit <- 9, MaxServed <- 2, pc <- providerPc, todo <- providerTodo,
    served <- providerServed
Background == INSTANCE BackgroundJobs WITH Pids <- {"p1", "p2"}, Jobs <- {"j1", "j2"},
    Strangers <- 1

ASSUME ProviderAssumption == Provider!ConstantsOK
ASSUME BackgroundAssumption == Background!ConstantsOK

providerVars == <<strict, providerPc, providerTodo, errors, unreachable, resting, keyIdx,
    poolIdx, attempts, http, tried, providerServed, outcome>>
backgroundVars == <<job, record, watcher, stopper, stubborn, overdue, stranger, hit, met>>

-----------------------------------------------------------------------------
\* One part runs, and the others stay as they were at first.
SumInit ==
    /\ which \in {"budget", "log", "web", "teams", "server", "platform", "sandbox", "cli", "provider", "background"}
    /\ which # "web" => socket = [c \in {"w1"} |-> [sid |-> "s1", left |-> FALSE]]
    /\ which # "sandbox" => scene = "commands"
    /\ which # "sandbox" => backend = "bubblewrap"
    /\ which # "sandbox" => hooks = <<>>
    /\ which # "provider" => strict = TRUE
    /\ which # "server" => serverKind = "mcp"
    /\ which # "background" => stubborn = {}
    /\ which # "cli" => cliArgs = Run("repl", "review", "none", FALSE, "default")
    /\ Init
    /\ LogInit
    /\ WebInit
    /\ TeamsInit
    /\ ServerInit
    /\ PlatformInit
    /\ SandboxInit
    /\ CliInit
    /\ Provider!Init
    /\ Background!Init

BudgetOnly == which = "budget" /\ UNCHANGED <<which, logVars, webVars, teamsVars, serverVars,
        platformVars, sandboxVars, cliVars, providerVars, backgroundVars>>
LogOnly == which = "log" /\ UNCHANGED <<which, vars, webVars, teamsVars, serverVars,
        platformVars, sandboxVars, cliVars, providerVars, backgroundVars>>
WebOnly == which = "web" /\ UNCHANGED <<which, vars, logVars, teamsVars, serverVars,
        platformVars, sandboxVars, cliVars, providerVars, backgroundVars>>
TeamsOnly == which = "teams" /\ UNCHANGED <<which, vars, logVars, webVars, serverVars,
        platformVars, sandboxVars, cliVars, providerVars, backgroundVars>>
ServerOnly == which = "server" /\ UNCHANGED <<which, vars, logVars, webVars, teamsVars,
        platformVars, sandboxVars, cliVars, providerVars, backgroundVars>>
PlatformOnly == which = "platform" /\ UNCHANGED <<which, vars, logVars, webVars, teamsVars,
        serverVars, sandboxVars, cliVars, providerVars, backgroundVars>>
SandboxOnly == which = "sandbox" /\ UNCHANGED <<which, vars, logVars, webVars, teamsVars,
        serverVars, platformVars, cliVars, providerVars, backgroundVars>>
CliOnly == which = "cli" /\ UNCHANGED <<which, vars, logVars, webVars, teamsVars, serverVars,
        platformVars, sandboxVars, providerVars, backgroundVars>>
ProviderOnly == which = "provider" /\ UNCHANGED <<which, vars, logVars, webVars, teamsVars,
        serverVars, platformVars, sandboxVars, cliVars, backgroundVars>>
BackgroundOnly == which = "background" /\ UNCHANGED <<which, vars, logVars, webVars, teamsVars,
        serverVars, platformVars, sandboxVars, cliVars, providerVars>>

BudgetStep == BudgetOnly /\ Next
LogStep == LogOnly /\ LogNext
WebStep == WebOnly /\ WebNext
TeamsStep == TeamsOnly /\ TeamsNext
ServerStep == ServerOnly /\ ServerNext
PlatformStep == PlatformOnly /\ PlatformNext
SandboxStep == SandboxOnly /\ SandboxNext
CliStep == CliOnly /\ CliNext
ProviderStep == ProviderOnly /\ Provider!Next
BackgroundStep == BackgroundOnly /\ Background!Next

SumNext == BudgetStep \/ LogStep \/ WebStep \/ TeamsStep \/ ServerStep \/ PlatformStep \/ SandboxStep \/ CliStep \/ ProviderStep \/ BackgroundStep
sumVars == <<which, vars, logVars, webVars, teamsVars, serverVars, platformVars, sandboxVars,
             cliVars, providerVars, backgroundVars>>

SumSafety == SumInit /\ [][SumNext]_sumVars

-----------------------------------------------------------------------------
\* The type invariants of the parts but the first, whose variables are all numbers and flags.
SumTypeOK ==
    CASE which = "budget" -> TRUE
      [] which = "provider" -> Provider!TypeOK
      [] which = "server" -> ServerTypeOK
      [] which = "platform" -> PlatformTypeOK
      [] which = "cli" -> CliTypeOK
      [] which = "teams" -> TeamsTypeOK
      [] which = "sandbox" -> SandboxTypeOK
      [] which = "background" -> Background!TypeOK
      [] which = "log" -> LogTypeOK
      [] which = "web" -> WebTypeOK

\* SandboxedCommand alone, under the fairness of its caller and readers: every command returns.
SandboxFair ==
    /\ SumInit /\ which = "sandbox" /\ [][SandboxStep]_sumVars
    /\ WF_sumVars(SandboxOnly /\ CallerStep)
    /\ \A s \in {"out", "err"} : WF_sumVars(SandboxOnly /\ ReaderStep(s))
=============================================================================
