CONSTANTS
    Ops = {o1}
    MaxTurns = 2
    MaxEmptyRetries = 2
    CompactAbove = 5
    KeepKernel = 2
    KeepAgent = 3
    MaxInputs = 3
    MaxCalls = 2
    Operations <- CallNames
    Op <- Calls
    Allowed = {"in.py"}
    MaxChangedLines = 3
    MaxChangedFiles = 2
    ExpansionBudget = 1
    MaxToolCalls = 3
    MaxAnswers = 3
    Modes = {"autonomous", "review", "plan"}
    Tests = {1, 2}
    Outputs = {"count"}
    MaxMoves = 2
    MaxDeclared = 1
    Trees <- SomeTrees
    FirstTree <- HealthyTree
    Shards = {1, 2}
    Hosts <- SomeHosts
    MaxRedo = 1
    Sources = {"a"}
    Commands = {"c"}
    Tasks = {"change", "question"}
    Policies <- SomePolicies
    MaxSessionTurns = 2
    MaxModelSteps = 2
    MaxRepairs = 1
SPECIFICATION SumSafety
CHECK_DEADLOCK FALSE
INVARIANT SumTypeOK
INVARIANT ProtocolKept
INVARIANT RequestsBounded
INVARIANT PlansSound
 
INVARIANT VerifiedIsEarned
INVARIANT EvidenceHonest
INVARIANT ReleaseSound
