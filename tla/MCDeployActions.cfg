SPECIFICATION Spec
CONSTANTS
    i1 = i1
    i2 = i2
    i3 = i3
    c1 = c1
    c2 = c2
    c3 = c3
    e1 = e1
    e2 = e2
    Nodes <- MCNodes
    Graphs <- MCGraphs
    Changes <- MCChanges
    Item <- MCItem
    Element <- MCElement
    Whole = {c3}
    NoAdapter = {i1}
INVARIANTS
    TypeOK
    AppliedIsRecordedOrReported
    DeployedOnTopOfDependencies
    OutcomesAgreeWithErrors
PROPERTIES
    OutcomesAreReportedOnce
    DeployEnds
CHECK_DEADLOCK FALSE
