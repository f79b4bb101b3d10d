CONSTANTS
    Processes <- Actors
    MaxLedgerTurns = 1
    MaxLedgerFaults = 1
    MaxRewrites = 0
    Outcomes <- OneOutcome
SPECIFICATION SumFair
CHECK_DEADLOCK FALSE
PROPERTY WritesReturn
PROPERTY WorkEnds
PROPERTY ServicesEnd
