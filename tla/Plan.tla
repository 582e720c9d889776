-------------------------------- MODULE Plan --------------------------------
(***************************************************************************)
(* getPlan of packages/core/src/core/plan/plan.ts, from the graph of the   *)
(* changes on: drop the changes that a change validator rejects and those  *)
(* that depend on them (filter.ts), put the rest in groups (group.ts,      *)
(* GroupDag), drop the cycles that grouping could not break, as if they    *)
(* had been rejected, and group again.                                     *)
(*                                                                         *)
(* A node is the change of one element: a type, a field or another.  The   *)
(* value of an added type holds its fields, which are changes of their     *)
(* own; a field in the group of its added or removed type is redundant and *)
(* is merged with it.                                                      *)
(***************************************************************************)
EXTENDS GroupDag

CONSTANTS
    Graphs,             \* the diff graphs: the dependencies of the changes
    Groupings,          \* group keys of the changes (custom ones, or the type's name) and
                        \* the keys whose groups adapters want disjoint
    TypeChange,         \* field change -> the change of its type, if there is one
    Added, Removed,     \* the additions and the removals: the others are modifications
    MaxInvalid          \* bound on the changes that validators reject

AddedOrRemoved == Added \cup Removed

\* A type is added or removed with its fields, whose changes depend on its change
\* (addFieldToObjectDependency).
ASSUME PlanAssumption ==
    /\ IsFiniteSet(Nodes)
    /\ DOMAIN TypeChange \subseteq Nodes /\ Added \cup Removed \subseteq Nodes
    /\ Graphs \subseteq [Nodes -> SUBSET Nodes]
    /\ \A field \in DOMAIN TypeChange :
          LET type == TypeChange[field]
          IN  /\ type \in Nodes \ DOMAIN TypeChange
              /\ (type \in Added => field \in Added) /\ (type \in Removed => field \in Removed)
              /\ type \in AddedOrRemoved => \A g \in Graphs : type \in g[field]
    /\ MaxInvalid \in Nat

VARIABLES
    diffGraph, keys, disjoint,  \* the input: changes, their group keys, disjoint groups
    planned,        \* the changes left in validDiffGraph
    valueFields,    \* type change -> the fields that its value after the change shows
    invalid,        \* the changes with a validator's or a circular dependency error
    dependencyErrors,   \* the changes with a dependency error
    phase           \* "validate", "group", "regroup", "planned" or "failed"

inputVars == <<diffGraph, keys, disjoint>>
vars == <<groupVars, inputVars, planned, valueFields, invalid, dependencyErrors, phase>>

Fields(type) == {field \in DOMAIN TypeChange : TypeChange[field] = type}

TypeOK ==
    /\ GroupTypeOK
    /\ planned \in SUBSET Nodes
    /\ source.nodes \subseteq Nodes
    /\ \A n \in Nodes : valueFields[n] \subseteq Fields(n)
    /\ invalid \subseteq Nodes \ planned
    /\ dependencyErrors \subseteq Nodes \ planned
    /\ phase \in {"validate", "group", "regroup", "planned", "failed"}

Init ==
    /\ diffGraph \in Graphs
    /\ \E g \in Groupings : keys = g.keys /\ disjoint = g.disjoint
    /\ source = [nodes |-> {}, dependsOn |-> [n \in Nodes |-> {}]]
    /\ groupKey = <<>> /\ removedCycles = {} /\ building = "idle"
    /\ planned = Nodes
    /\ valueFields = [n \in Nodes |-> Fields(n)]
    /\ invalid = {} /\ dependencyErrors = {}
    /\ phase = "validate"

----------------------------------------------------------------------------
\* filterInvalidChanges (buildValidDiffGraph)

\* Fields that need no dependency error when their type is rejected.
IsFieldOf(n, types) == n \in DOMAIN TypeChange /\ TypeChange[n] \in types

\* Mistaken variant of DependencyErrorsOf: only the direct dependents get an error.
DirectDependencyErrorsOf(rejected, circular) ==
    {n \in Nodes \ circular : \E cause \in rejected \ {n} :
        n \in planned /\ cause \in diffGraph[n] /\ ~IsFieldOf(n, {cause})}

\* Mistaken variant of ValidNodes: the rejected changes alone are dropped.
ValidNodesWithoutRejected(rejected) == planned \ rejected

\* The graph keeps the changes that do not depend on a rejected one.
ValidNodes(rejected) ==
    planned \ Reachable(ReversedWithin(planned, diffGraph), rejected)

\* A dropped change has an error that names a cause, other than itself, its type
\* or, for those on a cycle, the cycle.
DependencyErrorsOf(rejected, circular) ==
    UNION {{n \in Reachable(ReversedWithin(planned, diffGraph), {cause}) :
                n \notin circular \cup {cause} /\ ~IsFieldOf(n, {cause})}
           : cause \in rejected}

\* The fields that the values of the types show are computed from the elements,
\* for the types that have an error or a field with one, and left as they were
\* for the others.
FieldsShown(rejected) ==
    [n \in Nodes |-> IF n \in Removed \/ Fields(n) \cap rejected = {}
                     THEN valueFields[n] ELSE Fields(n) \ rejected]

FilterInvalidChanges(rejected, circular) ==
    /\ planned' = ValidNodes(rejected)
    /\ valueFields' = FieldsShown(rejected)
    /\ dependencyErrors' = dependencyErrors \cup DependencyErrorsOf(rejected, circular)
    /\ invalid' = invalid \cup rejected

----------------------------------------------------------------------------
\* buildGroupedGraphFromDiffGraph

\* removeRedundantFieldNodes: a field in the group of its type is merged with it.
NodeOrParent(n, nodes) ==
    IF /\ n \in DOMAIN TypeChange \cap AddedOrRemoved
       /\ TypeChange[n] \in nodes \cap AddedOrRemoved
       /\ keys[TypeChange[n]] = keys[n]
    THEN TypeChange[n] ELSE n

WithoutRedundantFieldNodes(nodes) ==
    [nodes |-> {NodeOrParent(n, nodes) : n \in nodes},
     dependsOn |->
        [p \in Nodes |->
            {NodeOrParent(m, nodes) : m \in
                UNION {diffGraph[n] \cap nodes : n \in {k \in nodes : NodeOrParent(k, nodes) = p}}}
            \ {p}]]

BuildGroupedGraph(nodes) ==
    BuildAcyclicGroupedGraph(WithoutRedundantFieldNodes(nodes), keys, disjoint)

----------------------------------------------------------------------------
\* getPlan

\* getChangeErrors and filterInvalidChanges
Validate(rejected) ==
    /\ phase = "validate"
    /\ Cardinality(rejected) <= MaxInvalid
    /\ FilterInvalidChanges(rejected, {})
    /\ BuildGroupedGraph(ValidNodes(rejected))
    /\ phase' = "group"
    /\ UNCHANGED inputVars

BuildStep ==
    /\ phase \in {"group", "regroup"}
    /\ BuildGroups
    /\ UNCHANGED <<inputVars, planned, valueFields, invalid, dependencyErrors, phase>>

\* createGroupedGraphAndChangeErrors: no cycle had to be removed.
PlanIsReady ==
    /\ phase \in {"group", "regroup"}
    /\ building = "built" /\ removedCycles = {}
    /\ phase' = "planned"
    /\ UNCHANGED <<groupVars, inputVars, planned, valueFields, invalid, dependencyErrors>>

\* The changes on cycles get errors, and the plan is made again without them.
FilterCycles ==
    LET rejected == UNION removedCycles
    IN  /\ phase = "group"
        /\ building = "built" /\ removedCycles # {}
        /\ FilterInvalidChanges(rejected, rejected)
        /\ BuildGroupedGraph(ValidNodes(rejected))
        /\ phase' = "regroup"
        /\ UNCHANGED inputVars

\* A cycle within a disjoint group, or a cycle left after the cycles were removed.
PlanFails ==
    /\ \/ phase \in {"group", "regroup"} /\ building = "failed"
       \/ phase = "regroup" /\ building = "built" /\ removedCycles # {}
    /\ phase' = "failed"
    /\ UNCHANGED <<groupVars, inputVars, planned, valueFields, invalid, dependencyErrors>>

Next ==
    \/ \E rejected \in SUBSET Nodes : Validate(rejected)
    \/ BuildStep \/ PlanIsReady \/ FilterCycles \/ PlanFails

Spec == Init /\ [][Next]_vars /\ WF_vars(Next)

----------------------------------------------------------------------------

\* A plan that is ready holds with each change all that it depends on: nothing is
\* deployed on top of a change that was dropped.
PlannedChangesHaveTheirDependencies ==
    phase = "planned" => \A n \in planned : diffGraph[n] \subseteq planned

\* Every change is in a group of the plan, itself or merged with its type, or it is
\* reported: it has an error, or its type has one.
DroppedChangesAreReported ==
    phase = "planned" =>
        \A n \in Nodes :
            \/ n \in planned /\ NodeOrParent(n, planned) \in source.nodes
            \/ n \in invalid \cup dependencyErrors
            \/ IsFieldOf(n, invalid)

\* Nodes are removed for a cycle only if they hold one that no grouping by their
\* keys can contain: it goes through nodes with different keys.
RemovedNodesHoldACycle ==
    phase \in {"group", "regroup"} =>
        \A S \in removedCycles :
            LET edges == Within(S, WithoutRedundantFieldNodes(planned).dependsOn)
            IN  \E n \in S : \E m \in {k \in S : keys[k] # keys[n]} :
                    n \in Reachable(edges, {m}) /\ m \in Reachable(edges, {n})

\* A change with an error is not deployed: neither by itself nor as a part of the
\* value of its added type.
RejectedChangesAreNotDeployed ==
    phase = "planned" =>
        \A n \in invalid \cup dependencyErrors :
            n \notin planned /\ \A type \in planned \cap Added : n \notin valueFields[type]

\* A plan is made, unless a disjoint group has a cycle.
PlanIsMade == <>(phase = "planned" \/ (phase = "failed" /\ building = "failed"))

=============================================================================
