SPECIFICATION Spec
CONSTANTS
    Dealt = 52
    LastDraw = 2
    WallSize = 68
    HandMelds = 1
    Origins <- JustSouthFour
    Payments <- OnePayment
    MaxRounds = 1
INVARIANTS
    NoKanOnLastDraw
CHECK_DEADLOCK FALSE
