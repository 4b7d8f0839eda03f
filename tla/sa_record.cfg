SPECIFICATION AnalyzedSpec
CONSTANTS
    Dealt = 52
    LastDraw = 2
    WallSize = 68
    HandMelds = 1
    Origins <- SouthThree
    Payments <- Cheap
    MaxRounds = 2
    Mask = {0, 1}
INVARIANTS
    RecordAccepted
    HeaderMatches
    ClosedAsPlayed
    OneOpenDecision
CHECK_DEADLOCK FALSE
