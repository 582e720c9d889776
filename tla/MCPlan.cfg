SPECIFICATION Spec
CONSTANTS
    t = t
    f = f
    x = x
    y = y
    T = T
    F = F
    X = X
    Y = Y
    Nodes <- MCNodes
    Graphs <- MCGraphs
    Groupings <- MCGroupings
    TypeChange <- MCTypeChange
    Added <- MCNodes
    Removed = {}
    MaxInvalid = 1
INVARIANTS
    TypeOK
    PlannedChangesHaveTheirDependencies
    DroppedChangesAreReported
    RemovedNodesHoldACycle
PROPERTIES
    PlanIsMade
CHECK_DEADLOCK FALSE
