SPECIFICATION BlackholeSpec
CONSTANTS
    Levels = 4
    Trfls = 1
    Movls = 1
    Steps = 5
    TotalTime = 28
    CheckTime = 8
    StepsToDrift = 3
    MaxRestarts = 2
    RankCount = 3
    Root = 0
    Nobody = Nobody
    Layouts <- LayoutsMC
    Repeats = 2
    Warmup = 1
    Detectors = 2
INVARIANTS
    LevelsAligned
    BlendsBracket
    ChecksumComplete
PROPERTIES
    ImplementsSubcycling
