CONSTANTS
    Writers <- ThreeWriters
    Procs <- TwoProcs
    ProcOf <- Paired
    MaxWrites = 3
    MaxForeign = 1
    MaxFailures = 1
    MaxCrashes = 1
    Sources <- TwoFiles
    Backends <- AllBackends
    MaxTurns = 2
    MaxUserEdits = 2
    MaxWsFaults = 2
    Processes <- TwoProcs
    MaxLedgerTurns = 2
    MaxLedgerFaults = 1
    MaxRewrites = 1
    Outcomes = {"VERIFIED"}
    Files <- TwoFiles
    BaseName <- LastNames
    Existing <- FirstFile
    MaxVersions = 3
    MaxUndo = 2
    MaxEdits = 3
    MaxMishaps = 1
    Paths <- TwoFiles
    Plans <- StagePlans
    ErrorTypes <- SomeErrors
    MaxExecutions = 2
    MaxForeignSteps = 1
    MaxFaults = 1
    MaxKills = 1
    Brains <- TwoProcs
    MaxItems = 4
    MaxMoves = 4
    MaxMemoryFaults = 1
SPECIFICATION SumSafety
CHECK_DEADLOCK FALSE
INVARIANT SumTypeOK
INVARIANT SessionSound
INVARIANT OneThreadWrites
 
INVARIANT FailedApplyLeavesSource
 
INVARIANT WorkKept
PROPERTY NoLostUpdate
 
