CONSTANTS
    Steps <- ThreeSteps
    RetryLimit <- TwoRetries
    MaxRepairs = 2
    MaxCrashes = 1
    StepCount = 3
    DependsOn <- Fork
    StepRetries = 1
    MaxTurns = 4
    MaxKills = 1
    MaxCancels = 1
    Failures = {"f1", "f2"}
    Evidence = {"e1", "e2"}
    MaxAttempts = 5
    MaxStagnant = 3
    MaxIterations = 4
    MaxRepairTurns = 2
    Workers <- TwoWorkers
    Teams <- PairsAndSides
    MaxCalls = 2
    MaxTools = 1
    MaxRetries = 1
    LeadFiles <- FourFiles
    KindOf <- PathKinds
    Present <- AlreadyThere
    Results = 3
    MayChange <- FirstTwo
    Undiffed = {3}
    MaxEdits = 1
    MaxForeign = 1
    MaxFailures = 1
    MaxLeadKills = 1
    RepositoryFiles = {"a", "b", "c", "t", "u"}
    Tests = {"t", "u"}
    Surface = {"c"}
    RootOf <- FirstParts
    MaxRoots = 2
    Tasks <- SomeTasks
    MaxMoves = 3
    Manifests <- SomeCampaigns
    Trusted <- SealedCampaign
    CategoryOf <- Category
    Original <- FirstContent
    SourceContents = {"a", "b"}
    Outcomes = {"solved", "missed"}
    MinTasks = 2
    MinRepositories = 2
    MinTrials = 1
    MinPerCategory = 1
    MaxDuels = 1
    MaxHandEdits = 1
SPECIFICATION SumSafety
CHECK_DEADLOCK FALSE
INVARIANT SumTypeOK
INVARIANT StepsSound
INVARIANT VerdictHonest
 
INVARIANT RepairsWithinLimits
INVARIANT CandidatesSound
INVARIANT TeamSound
 
INVARIANT CampaignSound
 
