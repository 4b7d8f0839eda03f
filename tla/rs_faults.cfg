SPECIFICATION FairSpec
CONSTANTS
    MaxDecisions = 2
    Batches = {"dispatch", "defer"}
    MaxFaults = 4
INVARIANTS
    TypeOK
    CleanedUp
PROPERTIES
    RetriesSurvive
    ImplementsDecisions
    ScenarioEnds
CHECK_DEADLOCK FALSE
