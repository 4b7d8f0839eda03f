SPECIFICATION Spec
CONSTANTS
    Calls = 2
    Faults <- AllFaults
INVARIANTS
    TypeOK
    OneSide
    ChildReaped
PROPERTIES
    ImplementsKernel
    AnsweredUnlessBlamed
    Destroyed
