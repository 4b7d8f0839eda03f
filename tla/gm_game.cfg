SPECIFICATION Spec
CONSTANTS
    Dealt = 52
    LastDraw = 4
    WallSize = 70
    HandMelds = 1
    Origins <- JustEastFour
    Payments <- OnePayment
    MaxRounds = 1
INVARIANTS
    TypeOK
    PointsConserved
    WallRespected
    RiichiSettled
PROPERTIES
    RoundEnds
CHECK_DEADLOCK FALSE
