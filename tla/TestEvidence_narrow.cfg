CONSTANTS
    Tests = {1, 2}
    Outputs = {"count"}
    MaxMoves = 1
    MaxDeclared = 1
SPECIFICATION EvidenceSpec
CHECK_DEADLOCK FALSE
INVARIANT NarrowCoversNothing
