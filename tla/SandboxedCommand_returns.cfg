CONSTANTS
    NoLimit = NoLimit
    CallLimit = 3
    PromptLimit = 12
    CompletionLimit = 7
    CostLimit = 26
    InPrice = 1
    OutPrice = 2
    Requests <- SomeRequests
    Sizes <- SomeSizes
    TokenBytes = 4
    MaxReports = 2
    MaxTotal = 4
    Procs <- TwoActors
    MaxCrashes = 2
    MaxRecords = 4
    Tears <- AllTears
    ShortTears <- PartialTears
    Sessions <- TwoSessions
    Sockets <- OneSocket
    MaxAgents = 1
    MaxRequests = 2
    MaxMade = 2
    Callers <- TwoActors
    ToolCallers <- TwoActors
    MaxNotes = 1
    MaxProcesses = 2
    MaxSends = 4
    Exts <- TwoExtensions
    MaxGrants = 2
    MaxLifecycle = 2
    MaxCalls = 2
    Concurrent = FALSE
    Ids <- TwoMembers
    Tried <- TeamCommands
    MaxCommands = 3
    MaxKills = 1
    Commands <- SandboxCommands
    CommandOf <- SandboxCommand
    Operations <- SandboxOperations
    HookLists <- SandboxHooks
    Backends <- AllBackends
    Scenes <- AllScenes
    Threads <- TwoThreads
    MaxOperations = 2
    Invocations <- SomeInvocations
    Outcomes = {"FAILED", "VERIFIED", "AWAITING_CONFIRMATION"}
    Earlier = {"BLOCKED"}
    MaxRuns = 1
    MaxTouches = 2
SPECIFICATION SandboxFair
CHECK_DEADLOCK FALSE
PROPERTY CommandReturns
