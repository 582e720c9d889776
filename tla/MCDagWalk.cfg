SPECIFICATION Spec
CONSTANTS
    n1 = n1
    n2 = n2
    n3 = n3
    n4 = n4
    Nodes <- MCNodes
    Graphs <- MCGraphs
    ThrownKinds = {"error", "fatal"}
INVARIANTS
    TypeOK
    MapIsRemainder
    HandledExactlyWhenReady
    SkippedAreTheDoomed
    BlameLeadsToAFailure
    EndAccountsForAllNodes
PROPERTIES
    ImplementsEvaluationOrder
    FatalErrorEndsTheWalk
    WalkEnds
CHECK_DEADLOCK FALSE
