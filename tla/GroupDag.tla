------------------------------ MODULE GroupDag ------------------------------
(***************************************************************************)
(* buildAcyclicGroupedGraph of packages/dag/src/group.ts: put the nodes of *)
(* a graph in groups such that the graph of the groups has no cycle.       *)
(*                                                                         *)
(* The function calls itself with other group keys or with a smaller graph *)
(* until the graph of the groups has no cycle: each call is a step.  Which *)
(* of several cycles it finds, and which of several ways to break it it    *)
(* takes, is a matter of the order in which nodes were inserted.  A group  *)
(* is <<key, number>>: the number tells the groups apart that were split   *)
(* off the group of a key.                                                 *)
(***************************************************************************)
EXTENDS Dependencies, Naturals, FiniteSets, SequencesExt

VARIABLES
    source,         \* the graph to group: its nodes and their dependencies
    groupKey,       \* node -> its group, at this call
    removedCycles,  \* the sets of nodes removed because a cycle cannot be broken
    building        \* "idle", "building", "built" or "failed"

groupVars == <<source, groupKey, removedCycles, building>>

Numbers == 0 .. Cardinality(Nodes)

GroupTypeOK ==
    /\ source \in [nodes : SUBSET Nodes, dependsOn : [Nodes -> SUBSET Nodes]]
    /\ \A n \in Nodes : source.dependsOn[n] \subseteq source.nodes
    /\ building # "failed" => \A n \in source.nodes : groupKey[n][2] \in Numbers
    /\ removedCycles \subseteq SUBSET (Nodes \ source.nodes)
    /\ building \in {"idle", "building", "built", "failed"}

----------------------------------------------------------------------------
\* breakToDisjointGroups

\* The nodes of S, in the order of evaluationOrderGroups: those with no
\* dependency left in S, then those that depend on these alone, and so on.
LevelsOf(S, edges) ==
    LET upTo[k \in 0 .. Cardinality(S)] ==
            IF k = 0 THEN {} ELSE {n \in S : edges[n] \cap S \subseteq upTo[k - 1]}
    IN  upTo

\* A cycle within a disjoint group has no order of evaluation.
IsCyclic(S, edges) == LevelsOf(S, edges)[Cardinality(S)] # S

\* A group for each level of each disjoint group.
BreakToDisjointGroups(src, keys, disjoint) ==
    LET groupOf(n) == {m \in src.nodes : keys[m] = keys[n]}
        levels(n) == LevelsOf(groupOf(n), src.dependsOn)
        level(n) == Cardinality({k \in DOMAIN levels(n) : n \notin levels(n)[k]})
    IN  [n \in src.nodes |-> <<keys[n], IF keys[n] \in disjoint THEN level(n) ELSE 0>>]

----------------------------------------------------------------------------
\* buildAcyclicGroupedGraphImpl

Members(group) == {n \in source.nodes : groupKey[n] = group}

Groups == {groupKey[n] : n \in source.nodes}

\* buildPossiblyCyclicGroupGraph
GroupDependsOn(group) ==
    {groupKey[m] : m \in UNION {source.dependsOn[n] : n \in Members(group)}} \ {group}

\* The cycles that getCycle may find, from any of their groups on.
Cycles ==
    LET edges == [group \in Groups |-> GroupDependsOn(group)]
        withOrder == LevelsOf(Groups, edges)[Cardinality(Groups)]
    IN  {c \in SetToAllKPermutations(Groups \ withOrder) :
            c # <<>> /\ \A i \in 1 .. Len(c) : c[(i % Len(c)) + 1] \in edges[c[i]]}

\* Mistaken variant of ComponentToAvoid: what the targets need.
ComponentNeeded(group, targets) ==
    Reachable(Within(Members(group), source.dependsOn), targets)

\* The nodes of the group that need one of "targets", through nodes of the group.
ComponentToAvoid(group, targets) ==
    Reachable(ReversedWithin(Members(group), source.dependsOn), targets)

\* The parts that can be split off "group", so that "previous" no longer depends
\* through them on "next": a node that "previous" depends on with all the nodes
\* it needs in the group, if none of these depends on "next".
PartsToSplit(previous, group, next) ==
    LET withBackRef == {n \in Members(group) :
                          \E m \in Members(previous) : n \in source.dependsOn[m]}
        withForwardRef == {n \in Members(group) :
                             source.dependsOn[n] \cap Members(next) # {}}
    IN  {Reachable(Within(Members(group), source.dependsOn), {start}) :
            start \in withBackRef \ ComponentToAvoid(group, withForwardRef)}

PartsAt(c, i) ==
    PartsToSplit(c[i], c[(i % Len(c)) + 1], c[((i + 1) % Len(c)) + 1])

\* modifyGroupKeyToRemoveCycle, with uniqueId for the new group
SplitGroup(c) ==
    /\ \E i \in 1 .. Len(c) : \E part \in PartsAt(c, i) :
         LET key == c[(i % Len(c)) + 1][1]
             unused == {k \in Numbers : <<key, k>> \notin Groups}
         IN  groupKey' = [n \in source.nodes |->
                            IF n \in part
                            THEN <<key, CHOOSE k \in unused : \A j \in unused : k <= j>>
                            ELSE groupKey[n]]
    /\ UNCHANGED <<source, removedCycles, building>>

\* Mistaken variant of CannotBeBroken: only the first group is tried.
FirstGroupCannotBeSplit(c) == PartsAt(c, 1) = {}

CannotBeBroken(c) == \A i \in 1 .. Len(c) : PartsAt(c, i) = {}

\* Mistaken variant of CloneWithout: the edges to the removed nodes stay.
CloneWithoutNodesOnly(ids) ==
    [nodes |-> source.nodes \ ids,
     dependsOn |-> [n \in Nodes |-> IF n \in ids THEN {} ELSE source.dependsOn[n]]]

CloneWithout(ids) ==
    [nodes |-> source.nodes \ ids,
     dependsOn |-> [n \in Nodes |-> IF n \in ids THEN {} ELSE source.dependsOn[n] \ ids]]

\* No group of the cycle can be split: its groups are removed with all their nodes.
RemoveCycle(c) ==
    LET causingNodeIds == {n \in source.nodes : \E i \in 1 .. Len(c) : groupKey[n] = c[i]}
    IN  /\ CannotBeBroken(c)
        /\ source' = CloneWithout(causingNodeIds)
        /\ groupKey' = [n \in source.nodes \ causingNodeIds |-> groupKey[n]]
        /\ removedCycles' = removedCycles \cup {causingNodeIds}
        /\ UNCHANGED building

BuildAcyclicGroupedGraph(src, keys, disjoint) ==
    /\ source' = src
    /\ groupKey' = BreakToDisjointGroups(src, keys, disjoint)
    /\ removedCycles' = {}
    /\ building' = IF \E n \in src.nodes :
                        /\ keys[n] \in disjoint
                        /\ IsCyclic({m \in src.nodes : keys[m] = keys[n]}, src.dependsOn)
                   THEN "failed" ELSE "building"

BuildGroups ==
    /\ building = "building"
    /\ LET cycles == Cycles
       IN  \/ /\ cycles = {}
              /\ building' = "built"
              /\ UNCHANGED <<source, groupKey, removedCycles>>
           \/ \E c \in cycles : SplitGroup(c) \/ RemoveCycle(c)

=============================================================================
