SPECIFICATION Spec
CONSTANTS
    n1 = n1
    n2 = n2
    n3 = n3
    Nodes <- MCNodes
    Graphs <- MCGraphs
    ThrownKinds = {}
    MaxCalls = 2
INVARIANTS
    HandledAtMostOnce
CHECK_DEADLOCK FALSE
